----------------------------- MODULE ScheduleSync -----------------------------
(***************************************************************************)
(* The scheduler of one project's analysis (apps/api/src/jobs/             *)
(* analysis-schedule.ts): it must follow the settings and the status of    *)
(* the project, which two requests may change at once and which sync reads *)
(* apart, in any order, before it writes.                                  *)
(***************************************************************************)
EXTENDS Naturals

CONSTANTS Syncs,       \* syncs under way at once
          MaxChanges,  \* bound: changes of the settings and of the status
          MaxFaults    \* bound: restarts of the service, losses of Redis

Off == "off"
Schedules == {Off, "daily", "weekly"}

VARIABLES
  wanted,     \* the schedule of the settings
  open,       \* the project is open
  scheduler,  \* the job scheduler in Redis
  sync,       \* what each sync has read
  spoiled,    \* history: the last sync to end was overtaken by a change, failed,
              \* or was lost with the service
  changes, faults

vars == <<wanted, open, scheduler, sync, spoiled, changes, faults>>

None == "none"
Idle == [pc |-> "idle", wanted |-> None, open |-> None, overtaken |-> FALSE]
Started == [Idle EXCEPT !.pc = "reading"]

TypeOK ==
  /\ wanted \in Schedules
  /\ open \in BOOLEAN
  /\ scheduler \in Schedules
  /\ sync \in [Syncs -> [pc : {"idle", "reading"}, wanted : Schedules \cup {None},
                         open : {None, "yes", "no"}, overtaken : BOOLEAN]]
  /\ spoiled \in BOOLEAN
  /\ changes \in 0..MaxChanges /\ faults \in 0..MaxFaults

Init ==
  /\ wanted = Off /\ open = TRUE /\ scheduler = Off
  /\ sync = [c \in Syncs |-> Idle]
  /\ spoiled = FALSE
  /\ changes = 0 /\ faults = 0

IsReading(c) == sync[c].pc = "reading"

\* A change overtakes the syncs that have read what it changes.
Overtaking(field, c) ==
  [d \in Syncs |-> IF d = c THEN Started
                   ELSE IF IsReading(d) /\ sync[d][field] # None
                   THEN [sync[d] EXCEPT !.overtaken = TRUE] ELSE sync[d]]

\* PUT analysis-settings: the settings are saved, sync c begins.
PutSettings(c, schedule) ==
  /\ sync[c] = Idle
  /\ changes < MaxChanges
  /\ changes' = changes + 1
  /\ wanted' = schedule
  /\ sync' = Overtaking("wanted", c)
  /\ UNCHANGED <<open, scheduler, spoiled, faults>>

\* The project is closed, reopened or deleted; its event begins sync c.
SetStatus(c) ==
  /\ sync[c] = Idle
  /\ changes < MaxChanges
  /\ changes' = changes + 1
  /\ open' = ~open
  /\ sync' = Overtaking("open", c)
  /\ UNCHANGED <<wanted, scheduler, spoiled, faults>>

ReadSettings(c) ==
  /\ IsReading(c) /\ sync[c].wanted = None
  /\ sync' = [sync EXCEPT ![c].wanted = wanted]
  /\ UNCHANGED <<wanted, open, scheduler, spoiled, changes, faults>>

ReadProject(c) ==
  /\ IsReading(c) /\ sync[c].open = None
  /\ sync' = [sync EXCEPT ![c].open = IF open THEN "yes" ELSE "no"]
  /\ UNCHANGED <<wanted, open, scheduler, spoiled, changes, faults>>

\* Slip: the scheduler of a closed project stays.
RunsAnyway(read) == read.wanted

\* The scheduler a sync leaves.
Runs(read) == IF read.open = "yes" THEN read.wanted ELSE Off

Write(c) ==
  /\ IsReading(c) /\ sync[c].wanted # None /\ sync[c].open # None
  /\ scheduler' = Runs(sync[c])
  /\ spoiled' = sync[c].overtaken
  /\ sync' = [sync EXCEPT ![c] = Idle]
  /\ UNCHANGED <<wanted, open, changes, faults>>

\* A read or the write fails, the write perhaps after Redis had it.  The error is
\* logged, or the PUT answers 500 with the settings saved: nobody tries again.
Fail(c) ==
  /\ IsReading(c)
  /\ \/ UNCHANGED scheduler
     \/ /\ sync[c].wanted # None /\ sync[c].open # None
        /\ scheduler' = Runs(sync[c])
  /\ spoiled' = TRUE
  /\ sync' = [sync EXCEPT ![c] = Idle]
  /\ UNCHANGED <<wanted, open, changes, faults>>

\* The service stops; when it is ready again it syncs the projects with a
\* schedule.
Restart(c) ==
  /\ faults < MaxFaults
  /\ faults' = faults + 1
  /\ spoiled' = (spoiled \/ \E d \in Syncs : IsReading(d))
  /\ sync' = [d \in Syncs |-> IF d = c /\ wanted # Off THEN Started ELSE Idle]
  /\ UNCHANGED <<wanted, open, scheduler, changes>>

\* Redis loses its data, and the service is restarted.
LoseRedis(c) ==
  /\ faults < MaxFaults
  /\ faults' = faults + 1
  /\ scheduler' = Off
  /\ spoiled' = FALSE
  /\ sync' = [d \in Syncs |-> IF d = c /\ wanted # Off THEN Started ELSE Idle]
  /\ UNCHANGED <<wanted, open, changes>>

Next ==
  \/ \E c \in Syncs :
       \/ SetStatus(c) \/ ReadSettings(c) \/ ReadProject(c) \/ Write(c) \/ Fail(c)
       \/ Restart(c) \/ LoseRedis(c)
       \/ \E schedule \in Schedules : PutSettings(c, schedule)

-----------------------------------------------------------------------------
(* Properties. *)

\* Once every sync has ended the scheduler is the one the settings and the
\* status of the project ask for, also after Redis lost it, whatever failed before.
\* It may be another only when the last sync to end failed, was overtaken by a
\* change between its reads and its write, or was lost when the service stopped:
\* then it stays another until the next change or restart.
InStep ==
  (\A c \in Syncs : ~IsReading(c)) =>
    spoiled \/ scheduler = (IF open THEN wanted ELSE Off)

=============================================================================
