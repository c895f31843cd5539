-------------------------------- MODULE Deploy --------------------------------
(***************************************************************************)
(* The migrations a deployment runs before the new version starts          *)
(* (apps/api/src/db/migrations.ts, backup.ts): one action under a lock     *)
(* document that expires, with a backup before a destructive migration,    *)
(* and a restoration that is recorded so that it is not repeated.          *)
(*                                                                         *)
(* The previous version goes on writing meanwhile.  Migrations are         *)
(* numbered in the order of their files; the changelog, which is backed up *)
(* and restored with the data, is the number of those applied.             *)
(***************************************************************************)
EXTENDS Naturals, FiniteSets, Sequences

CONSTANTS Deploys,      \* the deployments, each once
          Last,         \* the last migration of the version deployed
          Destructive,  \* the migrations that export destructive
          Writes,       \* what the users write, each once
          MaxLapses,    \* bound: locks that expire under a run
          MaxDeaths     \* bound: runs that are killed

VARIABLES
  data,      \* the database: the writes it holds and the migrations applied
  lock,      \* the lock document exists
  backups,   \* the bucket: the copies, in the order of their keys
  restores,  \* ops_restores: the keys recorded as restored
  run,       \* what each deployment does next
  torn,      \* history: the key whose restoration left collections half written
  again,     \* history: the keys restored more than once, and since which cause
  lapses, deaths

vars == <<data, lock, backups, restores, run, torn, again, lapses, deaths>>

None == 0
Keys == 1..Cardinality(Deploys)
Migrations == 1..Last
Copy == [writes : SUBSET Writes, applied : 0..Last]
Up == [kind |-> "up", arg |-> None]
Actions == {Up} \cup [kind : {"down"}, arg : Migrations]
           \cup [kind : {"restore"}, arg : Keys] \cup [kind : {"latest"}, arg : {None}]
Unborn == [pc |-> "new", action |-> Up, key |-> None]

TypeOK ==
  /\ data \in Copy
  /\ lock \in BOOLEAN
  /\ backups \in Seq(Copy)
  /\ restores \subseteq Keys
  /\ run \in [Deploys ->
       [pc : {"new", "down", "key", "restore", "fill", "record", "check", "backup",
              "up", "unlock", "ended"},
        action : Actions, key : Keys \cup {None}]]
  /\ torn \in Keys \cup {None}
  /\ again \in [Keys -> {"never", "once", "killed", "twice"}]
  /\ lapses \in 0..MaxLapses /\ deaths \in 0..MaxDeaths

Init ==
  /\ data = [writes |-> {}, applied |-> 0]
  /\ lock = FALSE
  /\ backups = <<>>
  /\ restores = {}
  /\ run = [d \in Deploys |-> Unborn]
  /\ torn = None
  /\ again = [k \in Keys |-> "never"]
  /\ lapses = 0 /\ deaths = 0

Go(d, pc) == run' = [run EXCEPT ![d].pc = pc]
Alive(d) == run[d].pc \notin {"new", "ended"}

\* The users of the version that is still running.
Write(w) ==
  /\ w \notin data.writes
  /\ data' = [data EXCEPT !.writes = @ \cup {w}]
  /\ UNCHANGED <<lock, backups, restores, run, torn, again, lapses, deaths>>

-----------------------------------------------------------------------------
(* withLock. *)

\* Slip: the lock is written whether or not there is one.
CanLockAlways(d) == run[d].pc = "new"

CanLock(d) == run[d].pc = "new" /\ ~lock

Start(d, action) ==
  /\ CanLock(d)
  /\ lock' = TRUE
  /\ run' = [run EXCEPT ![d] = [pc |-> CASE action.kind = "down" -> "down"
                                         [] action.kind \in {"restore", "latest"} -> "key"
                                         [] OTHER -> "check",
                                action |-> action, key |-> None]]
  /\ UNCHANGED <<data, backups, restores, torn, again, lapses, deaths>>

\* Whoever's the lock is by now.
Unlock(d) ==
  /\ run[d].pc = "unlock"
  /\ lock' = FALSE
  /\ Go(d, "ended")
  /\ UNCHANGED <<data, backups, restores, torn, again, lapses, deaths>>

\* The lock expires, while a run goes on or after it was killed.
Lapse ==
  /\ lock
  /\ lock' = FALSE
  /\ \/ /\ \E d \in Deploys : Alive(d)
        /\ lapses < MaxLapses
        /\ lapses' = lapses + 1
     \/ /\ ~\E d \in Deploys : Alive(d)
        /\ UNCHANGED lapses
  /\ UNCHANGED <<data, backups, restores, run, torn, again, deaths>>

\* A restoration that was done is not recorded.
Unrecorded(d) ==
  again' = IF run[d].pc = "record" THEN [again EXCEPT ![run[d].key] = "killed"]
           ELSE again

Kill(d) ==
  /\ Alive(d)
  /\ deaths < MaxDeaths
  /\ deaths' = deaths + 1
  /\ Go(d, "ended")
  /\ Unrecorded(d)
  /\ UNCHANGED <<data, lock, backups, restores, torn, lapses>>

-----------------------------------------------------------------------------
(* down: the last one applied, until those from the one named are gone. *)

Down(d) ==
  /\ run[d].pc = "down"
  /\ IF data.applied < run[d].action.arg
     THEN Go(d, "unlock") /\ UNCHANGED data
     ELSE data' = [data EXCEPT !.applied = @ - 1] /\ UNCHANGED run
  /\ UNCHANGED <<lock, backups, restores, torn, again, lapses, deaths>>

-----------------------------------------------------------------------------
(* restore. *)

\* Slip: a restoration is never looked up.
NeverRestored(key) == FALSE

IsRestored(key) == key \in restores

\* The copy to restore; without one the run fails.
FindKey(d) ==
  /\ run[d].pc = "key"
  /\ LET key == IF run[d].action.kind = "latest" THEN Len(backups)
                ELSE run[d].action.arg
     IN run' = [run EXCEPT ![d].key = key,
                           ![d].pc = IF key \notin 1..Len(backups) THEN "unlock"
                                     ELSE IF IsRestored(key) THEN "check" ELSE "restore"]
  /\ UNCHANGED <<data, lock, backups, restores, torn, again, lapses, deaths>>

\* Slip: it is recorded before it is done.
DropRecorded(d) ==
  /\ run[d].pc = "restore"
  /\ torn' = run[d].key
  /\ restores' = restores \cup {run[d].key}
  /\ Go(d, "fill")
  /\ UNCHANGED <<data, lock, backups, again, lapses, deaths>>

\* The collections of the copy are dropped one after the other.
Drop(d) ==
  /\ run[d].pc = "restore"
  /\ torn' = run[d].key
  /\ Go(d, "fill")
  /\ UNCHANGED <<data, lock, backups, restores, again, lapses, deaths>>

Fill(d) ==
  /\ run[d].pc = "fill"
  /\ data' = backups[run[d].key]
  /\ torn' = None
  /\ again' = [again EXCEPT ![run[d].key] = IF @ = "never" THEN "once"
                                            ELSE IF @ = "once" THEN "twice" ELSE @]
  /\ Go(d, "record")
  /\ UNCHANGED <<lock, backups, restores, lapses, deaths>>

Record(d) ==
  /\ run[d].pc = "record"
  /\ restores' = restores \cup {run[d].key}
  /\ Go(d, "check")
  /\ UNCHANGED <<data, lock, backups, torn, again, lapses, deaths>>

-----------------------------------------------------------------------------
(* up. *)

Pending == (data.applied + 1)..Last

\* Slip: only the next migration is looked at.
NeedsBackupNext == Pending # {} /\ data.applied + 1 \in Destructive

NeedsBackup == Pending \cap Destructive # {}

Check(d) ==
  /\ run[d].pc = "check"
  /\ Go(d, IF NeedsBackup THEN "backup" ELSE "up")
  /\ UNCHANGED <<data, lock, backups, restores, torn, again, lapses, deaths>>

\* The whole database is read and stored under a new key, the last one; or the
\* bucket is not configured, or fails.
Backup(d) ==
  /\ run[d].pc = "backup"
  /\ \/ backups' = Append(backups, data) /\ Go(d, "up")
     \/ UNCHANGED backups /\ Go(d, "unlock")
  /\ UNCHANGED <<data, lock, restores, torn, again, lapses, deaths>>

\* The pending migrations, in their order, each recorded when it is done.
Migrate(d) ==
  /\ run[d].pc = "up"
  /\ IF Pending = {}
     THEN Go(d, "unlock") /\ UNCHANGED data
     ELSE data' = [data EXCEPT !.applied = @ + 1] /\ UNCHANGED run
  /\ UNCHANGED <<lock, backups, restores, torn, again, lapses, deaths>>

\* Any call to the database or the bucket fails: the lock is still released.
Fail(d) ==
  /\ Alive(d) /\ run[d].pc \notin {"backup", "unlock"}
  /\ deaths < MaxDeaths
  /\ deaths' = deaths + 1
  /\ Go(d, "unlock")
  /\ Unrecorded(d)
  /\ UNCHANGED <<data, lock, backups, restores, torn, lapses>>

Next ==
  \/ \E d \in Deploys :
       \/ \E action \in Actions : Start(d, action)
       \/ Unlock(d) \/ Kill(d) \/ Down(d) \/ FindKey(d) \/ Drop(d) \/ Fill(d)
       \/ Record(d) \/ Check(d) \/ Backup(d) \/ Migrate(d) \/ Fail(d)
  \/ \E w \in Writes : Write(w)
  \/ Lapse

-----------------------------------------------------------------------------
(* Properties. *)

\* Deployments migrate one at a time; each time the lock expired under a run, one
\* more may run beside it, although that run, when it ends, deletes the lock of
\* another.  (migrations.ts withLock: "evita que dos despliegues migren a la vez")
FewAtOnce == Cardinality({d \in Deploys : Alive(d)}) <= 1 + lapses

\* A copy is restored once, unless the run was killed before it recorded it, or
\* two ran at once.  (migrations.ts: "una sola vez")
RestoredOnce == lapses = 0 => \A k \in Keys : again[k] # "twice"

\* A database left with collections half restored is never taken for restored: the
\* same action restores it again.  (migrations.ts runDeployMigrations)
TornIsRestoredAgain == torn # None /\ lapses = 0 => torn \notin restores

\* A destructive migration is applied only after a copy was stored in which it is
\* not yet applied, also when it is one of several pending ones.
\* (migrations.ts: "si alguna es destructiva, respalda antes la base")
DestroyedIsStored ==
  \A m \in Destructive \cap 1..data.applied :
    \E k \in 1..Len(backups) : backups[k].applied < m

=============================================================================
