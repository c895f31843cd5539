------------------------------- MODULE Realtime -------------------------------
(***************************************************************************)
(* The Socket.IO side of one project (apps/api/src/realtime): a socket     *)
(* joins and leaves the rooms of the diagram versions it shows, the        *)
(* presence hash in Redis holds one field per socket and version, losing   *)
(* the membership or deleting the project evicts the sockets concerned.    *)
(*                                                                         *)
(* A step is what a handler does between two answers of MongoDB or Redis:  *)
(* what follows an await of an operation of the local adapter runs in the  *)
(* same turn of the event loop.  Commands of one connection to Redis are   *)
(* executed in the order they are sent, so a command sent in a turn is     *)
(* part of that step.  Tokens are in SocketAuth, the contents of events in *)
(* EventCache.                                                             *)
(***************************************************************************)
EXTENDS Naturals, FiniteSets

CONSTANTS Users,       \* members, besides an administrator who stays
          Sockets, Versions,
          Owner,       \* the user of each socket
          Drafts,      \* the versions still in draft: only administrators see them
          Views,       \* what the tabs may show: sets of sockets and versions
          MaxLapses,   \* bound: fields in use whose heartbeat fails
          MaxChanges   \* bound: changes of members and of the project

Project == "project"

ASSUME RealtimeAssumption ==
  /\ Project \notin Users
  /\ Owner \in [Sockets -> Users]
  /\ Drafts \subseteq Versions
  /\ Views \subseteq SUBSET (Sockets \X Versions)
  /\ MaxLapses \in Nat
  /\ MaxChanges \in Nat

VARIABLES
  role,      \* role of each user in the project
  alive,     \* the project is not being deleted
  changes,   \* changes of members and of the project so far
  shows,     \* the diagrams each tab shows, chosen at the start
  conn,      \* connection of each socket
  joining,   \* stage of the room:join of a socket for a version
  inRoom,    \* the diagram rooms each socket is in
  inProject, \* the sockets in the room of the project
  joined,    \* socket.data.joined
  leaving,   \* room:leave handlers that wait for the broadcast
  quitting,  \* fields a disconnect handler has still to remove
  entry,     \* presence field of a socket and version, with its age
  beating,   \* heartbeats that have read a field and not yet written it
  sweep,     \* fields a sweep has found stale and not yet deleted
  evicting,  \* evictions under way, of a user or of the whole project
  lapsed,    \* history: fields that went without heartbeat for the whole TTL
  late       \* history: joins allowed before the access was lost

members == <<role, alive, changes, shows>>
rooms == <<inRoom, inProject, joined>>
hash == <<entry, beating, sweep>>
vars == <<members, conn, joining, rooms, leaving, quitting, hash, evicting,
          lapsed, late>>

Pairs == Sockets \X Versions
Targets == Users \cup {Project}
NoEviction == [stage |-> "none", sockets |-> {}, pairs |-> {}]

TypeOK ==
  /\ role \in [Users -> {"admin", "other", "none"}]
  /\ alive \in BOOLEAN
  /\ changes \in 0..MaxChanges
  /\ shows \in Views
  /\ conn \in [Sockets -> {"open", "closed"}]
  /\ joining \in [Pairs -> {"no", "allowed", "entered"}]
  /\ inRoom \in [Sockets -> SUBSET Versions]
  /\ inProject \subseteq Sockets
  /\ joined \in [Sockets -> SUBSET Versions]
  /\ leaving \subseteq Pairs
  /\ quitting \in [Sockets -> SUBSET Versions]
  /\ entry \in [Pairs -> {"none", "fresh", "stale"}]
  /\ beating \subseteq Pairs
  /\ sweep \subseteq Pairs
  /\ evicting \in [Targets -> [stage : {"none", "due", "busy"},
                               sockets : SUBSET Sockets, pairs : SUBSET Pairs]]
  /\ lapsed \subseteq Pairs
  /\ late \subseteq Pairs

Init ==
  /\ role = [u \in Users |-> "admin"]
  /\ alive = TRUE
  /\ changes = 0
  /\ shows \in Views
  /\ conn = [s \in Sockets |-> "open"]
  /\ joining = [p \in Pairs |-> "no"]
  /\ inRoom = [s \in Sockets |-> {}]
  /\ inProject = {}
  /\ joined = [s \in Sockets |-> {}]
  /\ leaving = {}
  /\ quitting = [s \in Sockets |-> {}]
  /\ entry = [p \in Pairs |-> "none"]
  /\ beating = {}
  /\ sweep = {}
  /\ evicting = [t \in Targets |-> NoEviction]
  /\ lapsed = {}
  /\ late = {}

-----------------------------------------------------------------------------
(* The presence hash. *)

\* Slip: one field per user.
FieldOfUser(s, v) == <<CHOOSE t \in Sockets : Owner[t] = Owner[s], v>>

\* The field of a socket: one per socket, so that the tabs of a user do not
\* compete.
Field(s, v) == <<s, v>>

Without(fields) == [p \in Pairs |-> IF p \in fields THEN "none" ELSE entry[p]]

\* Slip: a write that forgets lastSeen.
WithUnseen(s, v) == [entry EXCEPT ![Field(s, v)] = "unseen"]

With(s, v) == [entry EXCEPT ![Field(s, v)] = "fresh"]

-----------------------------------------------------------------------------
(* Connections and rooms. *)

CanSee(u, v) == alive /\ (role[u] = "admin" \/ (role[u] = "other" /\ v \notin Drafts))

\* room:join: the version and the membership are read.
Authorize(s, v) ==
  /\ conn[s] = "open"
  /\ <<s, v>> \in shows
  /\ joining[<<s, v>>] = "no"
  /\ CanSee(Owner[s], v)
  /\ joining' = [joining EXCEPT ![<<s, v>>] = "allowed"]
  /\ UNCHANGED <<members, conn, rooms, leaving, quitting, hash, evicting,
                 lapsed, late>>

\* The rooms are joined and recorded; on a socket that has disconnected join
\* does nothing, and nobody reads the record again.
Enter(s, v) ==
  /\ joining[<<s, v>>] = "allowed"
  /\ joining' = [joining EXCEPT ![<<s, v>>] = "entered"]
  /\ \/ /\ conn[s] = "open"
        /\ joined' = [joined EXCEPT ![s] = @ \cup {v}]
        /\ inRoom' = [inRoom EXCEPT ![s] = @ \cup {v}]
        /\ inProject' = inProject \cup {s}
     \/ conn[s] = "closed" /\ UNCHANGED rooms
  /\ UNCHANGED <<members, conn, leaving, quitting, hash, evicting, lapsed, late>>

\* presence.join: the field is written.
Show(s, v) ==
  /\ joining[<<s, v>>] = "entered"
  /\ joining' = [joining EXCEPT ![<<s, v>>] = "no"]
  /\ entry' = With(s, v)
  /\ UNCHANGED <<members, conn, rooms, leaving, quitting, beating, sweep,
                 evicting, lapsed, late>>

\* The socket leaves the room: its join, unless another is under way, is past.
LateWithout(s, v) ==
  IF joining[<<s, v>>] = "allowed" THEN late ELSE late \ {<<s, v>>}

\* room:leave up to its broadcast.  A version whose join is not recorded yet
\* is ignored.
Leave(s, v) ==
  /\ conn[s] = "open"
  /\ v \in joined[s]
  /\ joined' = [joined EXCEPT ![s] = @ \ {v}]
  /\ inRoom' = [inRoom EXCEPT ![s] = @ \ {v}]
  /\ entry' = Without({Field(s, v)})
  /\ leaving' = leaving \cup {<<s, v>>}
  /\ late' = LateWithout(s, v)
  /\ UNCHANGED <<members, conn, joining, inProject, quitting, beating, sweep,
                 evicting, lapsed>>

\* Slip: the room of the project is left with every diagram.
NeverWatches(s) == FALSE

\* Another diagram of the project is shown: its room is kept.
WatchesAnother(s) == joined[s] # {}

LeaveProject(s, v) ==
  /\ <<s, v>> \in leaving
  /\ leaving' = leaving \ {<<s, v>>}
  /\ inProject' = IF WatchesAnother(s) THEN inProject ELSE inProject \ {s}
  /\ UNCHANGED <<members, conn, joining, inRoom, joined, quitting, hash,
                 evicting, lapsed, late>>

\* The record of a closed socket is read here for the last time.
Disconnect(s) ==
  /\ conn[s] = "open"
  /\ \E v \in Versions : <<s, v>> \in shows
  /\ conn' = [conn EXCEPT ![s] = "closed"]
  /\ inRoom' = [inRoom EXCEPT ![s] = {}]
  /\ inProject' = inProject \ {s}
  /\ quitting' = [quitting EXCEPT ![s] = joined[s]]
  /\ joined' = [joined EXCEPT ![s] = {}]
  /\ leaving' = {p \in leaving : p[1] # s}
  /\ late' = {p \in late : p[1] # s}
  /\ UNCHANGED <<members, joining, hash, evicting, lapsed>>

Quit(s, v) ==
  /\ v \in quitting[s]
  /\ quitting' = [quitting EXCEPT ![s] = @ \ {v}]
  /\ entry' = Without({Field(s, v)})
  /\ UNCHANGED <<members, conn, joining, rooms, leaving, beating, sweep,
                 evicting, lapsed, late>>

-----------------------------------------------------------------------------
(* Heartbeats and the sweep. *)

\* presence:heartbeat (and presence:select): only in the room, only an
\* existing field.
Beat(s, v) ==
  /\ conn[s] = "open"
  /\ v \in inRoom[s]
  /\ entry[Field(s, v)] # "none"
  /\ beating' = beating \cup {<<s, v>>}
  /\ UNCHANGED <<members, conn, joining, rooms, leaving, quitting, entry, sweep,
                 evicting, lapsed, late>>

WriteBeat(s, v) ==
  /\ <<s, v>> \in beating
  /\ beating' = beating \ {<<s, v>>}
  /\ entry' = With(s, v)
  /\ UNCHANGED <<members, conn, joining, rooms, leaving, quitting, sweep,
                 evicting, lapsed, late>>

\* The TTL of a field goes by without a heartbeat.
Age(p) ==
  /\ entry[p] = "fresh"
  /\ p[2] \in inRoom[p[1]] => Cardinality(lapsed \cup {p}) <= MaxLapses
  /\ entry' = [entry EXCEPT ![p] = "stale"]
  /\ lapsed' = lapsed \cup {p}
  /\ UNCHANGED <<members, conn, joining, rooms, leaving, quitting, beating, sweep,
                 evicting, late>>

\* Slip: only the fields of sockets in the room are looked at.
IsStaleInRoom(p) == entry[p] = "stale" /\ p[2] \in inRoom[p[1]]

IsStale(p) == entry[p] = "stale"

\* One replica at a time reads the fields of the versions and deletes the stale
\* ones in a second command.
SweepRead ==
  /\ sweep = {}
  /\ \E v \in Versions : sweep' = {p \in Pairs : p[2] = v /\ IsStale(p)} /\ sweep' # {}
  /\ UNCHANGED <<members, conn, joining, rooms, leaving, quitting, entry, beating,
                 evicting, lapsed, late>>

SweepDelete ==
  /\ sweep # {}
  /\ entry' = Without(sweep)
  /\ sweep' = {}
  /\ UNCHANGED <<members, conn, joining, rooms, leaving, quitting, beating,
                 evicting, lapsed, late>>

-----------------------------------------------------------------------------
(* Members and evictions. *)

Straddling(users) ==
  {p \in Pairs : joining[p] = "allowed" /\ conn[p[1]] = "open" /\ Owner[p[1]] \in users}

\* A member is removed or leaves: member.removed or member.left follows.  Bound: not
\* again while the eviction of the same user is under way.
RemoveMember(u) ==
  /\ alive
  /\ changes < MaxChanges
  /\ role[u] # "none"
  /\ evicting[u].stage = "none"
  /\ role' = [role EXCEPT ![u] = "none"]
  /\ changes' = changes + 1
  /\ evicting' = [evicting EXCEPT ![u].stage = "due"]
  /\ late' = late \cup Straddling({u})
  /\ UNCHANGED <<alive, shows, conn, joining, rooms, leaving, quitting, hash, lapsed>>

\* A member changes role, or a user accepts an invitation: nobody is evicted.
SetRole(u, r) ==
  /\ alive
  /\ changes < MaxChanges
  /\ role[u] # r
  /\ role' = [role EXCEPT ![u] = r]
  /\ changes' = changes + 1
  /\ UNCHANGED <<alive, shows, conn, joining, rooms, leaving, quitting, hash, evicting,
                 lapsed, late>>

DeleteProject ==
  /\ alive
  /\ changes < MaxChanges
  /\ alive' = FALSE
  /\ changes' = changes + 1
  /\ evicting' = [evicting EXCEPT ![Project].stage = "due"]
  /\ late' = late \cup Straddling(Users)
  /\ UNCHANGED <<role, shows, conn, joining, rooms, leaving, quitting, hash,
                 lapsed>>

\* evict: the sockets of the user's room, or of the project's room.
Fetch(t) ==
  /\ evicting[t].stage = "due"
  /\ evicting' = [evicting EXCEPT
       ![t] = [stage |-> "busy", pairs |-> {},
               sockets |-> IF t = Project THEN inProject
                           ELSE {s \in Sockets : conn[s] = "open" /\ Owner[s] = t}]]
  /\ UNCHANGED <<members, conn, joining, rooms, leaving, quitting, hash, lapsed,
                 late>>

\* Slip: the socket is only taken out of the presence.
EvictPresence(s, v) ==
  /\ entry' = Without({Field(s, v)})
  /\ UNCHANGED <<inRoom, late>>

\* The rooms of the versions a socket recorded are left one by one.
Evict(s, v) ==
  /\ inRoom' = [inRoom EXCEPT ![s] = @ \ {v}]
  /\ entry' = Without({Field(s, v)})
  /\ late' = LateWithout(s, v)

\* The next socket: it leaves the room of the project and, in the same turn,
\* the room of its first version.
EvictSocket(t, s) ==
  /\ evicting[t].stage = "busy"
  /\ evicting[t].pairs = {}
  /\ s \in evicting[t].sockets
  /\ inProject' = inProject \ {s}
  /\ \/ /\ joined[s] = {}
        /\ evicting' = [evicting EXCEPT ![t].sockets = @ \ {s}]
        /\ UNCHANGED <<inRoom, entry, late>>
     \/ \E v \in joined[s] :
          /\ evicting' = [evicting EXCEPT ![t].sockets = @ \ {s},
                                          ![t].pairs = {s} \X (joined[s] \ {v})]
          /\ Evict(s, v)
  /\ UNCHANGED <<members, conn, joining, joined, leaving, quitting, beating, sweep,
                 lapsed>>

EvictVersion(t, s, v) ==
  /\ <<s, v>> \in evicting[t].pairs
  /\ evicting' = [evicting EXCEPT ![t].pairs = @ \ {<<s, v>>}]
  /\ Evict(s, v)
  /\ UNCHANGED <<members, conn, joining, inProject, joined, leaving, quitting,
                 beating, sweep, lapsed>>

EvictEnd(t) ==
  /\ evicting[t].stage = "busy"
  /\ evicting[t].sockets = {} /\ evicting[t].pairs = {}
  /\ evicting' = [evicting EXCEPT ![t] = NoEviction]
  /\ UNCHANGED <<members, conn, joining, rooms, leaving, quitting, hash, lapsed,
                 late>>

-----------------------------------------------------------------------------
Handler ==
  \/ \E s \in Sockets, v \in Versions :
       \/ Enter(s, v) \/ Show(s, v) \/ LeaveProject(s, v) \/ Quit(s, v)
       \/ WriteBeat(s, v)
  \/ \E t \in Targets :
       \/ Fetch(t) \/ EvictEnd(t)
       \/ \E s \in Sockets : EvictSocket(t, s)
       \/ \E s \in Sockets, v \in Versions : EvictVersion(t, s, v)

Next ==
  \/ Handler
  \/ SweepRead \/ SweepDelete
  \/ \E p \in Pairs : Age(p)
  \/ \E s \in Sockets : Disconnect(s)
  \/ \E s \in Sockets, v \in Versions : Authorize(s, v) \/ Leave(s, v) \/ Beat(s, v)
  \/ \E u \in Users : RemoveMember(u) \/ \E r \in {"admin", "other"} : SetRole(u, r)
  \/ DeleteProject

\* Some replica sweeps version v.
SweepOf(v) == SweepRead /\ sweep' \subseteq Sockets \X {v}

\* Every replica sweeps on a timer and handlers get their answers; a field
\* nobody renews grows old.  Nothing obliges users.
Fairness ==
  /\ WF_vars(Handler)
  /\ WF_vars(SweepDelete)
  /\ \A v \in Versions : WF_vars(SweepOf(v))
  /\ \A p \in Pairs : WF_vars(Age(p))

Spec == Init /\ [][Next]_vars

FairSpec == Spec /\ Fairness

-----------------------------------------------------------------------------
(* Properties. *)

HasAccess(u) == alive /\ role[u] # "none"

BeingEvicted(s, v) ==
  \E t \in {Owner[s], Project} :
    \/ evicting[t].stage = "due"
    \/ s \in evicting[t].sockets
    \/ <<s, v>> \in evicting[t].pairs

\* A socket whose user lost the access is in no diagram room, except while its
\* eviction is under way, and except a join allowed before the access was lost
\* that ended after it.  (revocation.ts evict, rooms.ts authorize)
OutsidersAreEvicted ==
  \A s \in Sockets : \A v \in inRoom[s] :
    HasAccess(Owner[s]) \/ BeingEvicted(s, v) \/ <<s, v>> \in late

\* Whoever is in a diagram's room is seen there, whatever other tabs of the
\* same user, leaves, joins and evictions do, unless its heartbeats once failed
\* for the whole TTL.  (presence.ts: one field per socket)
InRoomIsShown ==
  \A s \in Sockets : \A v \in inRoom[s] :
    \/ entry[Field(s, v)] # "none"
    \/ joining[<<s, v>>] # "no"
    \/ <<s, v>> \in lapsed

\* A socket that shows a diagram hears the events of its project: leaving one
\* diagram while entering another of the project does not cut them off.
\* (rooms.ts room:leave)
HearsProject ==
  \A s \in Sockets : inRoom[s] # {} =>
    \/ s \in inProject
    \/ \E v \in inRoom[s] : BeingEvicted(s, v)

\* A presence field without a socket in the room does not stay: the disconnect
\* handler, the eviction or the sweep removes it, also when a join or a
\* heartbeat wrote it after them.  (presence.ts sweep)
GhostsGo ==
  \A s \in Sockets, v \in Versions :
    []<>(entry[<<s, v>>] = "none" \/ v \in inRoom[s])

=============================================================================
