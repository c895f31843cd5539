------------------------------- MODULE JobWatch -------------------------------
(***************************************************************************)
(* What a tab shows of a job in the background: a detection, followed by   *)
(* the events of the version's room and polled only without a socket       *)
(* (apps/web features/detection/useDetection.ts); an analysis or an export, *)
(* polled until it ends (dashboard/analysis/useAnalysisRun.ts,             *)
(* exports/useExport.ts).  The job itself is in Detection, AnalysisRuns    *)
(* and Exports; here it advances and ends.                                 *)
(***************************************************************************)
EXTENDS Naturals, FiniteSets

CONSTANTS MaxCuts,   \* bound: disconnections of the socket
          MaxLosses  \* bound: polls that fail

Statuses == {"none", "running", "ended"}

VARIABLES
  kind,     \* what is followed
  job,      \* the status in the database
  shown,    \* the status in the cache of the tab
  events,   \* the events of the room on their way
  room,     \* whether the socket is in the room
  poll,     \* the request under way: nothing, asked, or the status read
  astray,   \* exception: the tab may go on showing a job that ended
  cuts,     \* bound
  losses    \* bound

vars == <<kind, job, shown, events, room, poll, astray, cuts, losses>>

TypeOK ==
  /\ kind \in {"detection", "polled"}
  /\ job \in Statuses /\ shown \in Statuses
  /\ events \subseteq {"progress", "finished"}
  /\ room \in {"in", "out", "joining"}
  /\ poll \in {"no", "asked"} \cup Statuses
  /\ astray \in BOOLEAN
  /\ cuts \in 0..MaxCuts /\ losses \in 0..MaxLosses

Init ==
  /\ kind \in {"detection", "polled"}
  /\ job = "none" /\ shown = "none"
  /\ events = {} /\ room = "in" /\ poll = "no"
  /\ astray = FALSE /\ cuts = 0 /\ losses = 0

bounds == <<cuts, losses>>

\* The answer of the POST is put in the cache; a 409 gives the run there is.
Start ==
  /\ job = "none"
  /\ job' = "running" /\ shown' = "running"
  /\ UNCHANGED <<kind, events, room, poll, astray, bounds>>

\* The replicas relay the events of a detection to the sockets in the room.
Relay(e) ==
  events' = IF kind = "detection" /\ room = "in" THEN events \cup {e} ELSE events

Progress ==
  /\ job = "running" /\ "progress" \notin events
  /\ Relay("progress")
  /\ UNCHANGED <<kind, job, shown, room, poll, astray, bounds>>

\* An end emitted between two steps of the reconnection is heard by nobody.
End ==
  /\ job = "running"
  /\ job' = "ended"
  /\ Relay("finished")
  /\ astray' = (astray \/ (kind = "detection" /\ room = "joining"))
  /\ UNCHANGED <<kind, shown, room, poll, bounds>>

\* onProgress: the job of the cache runs, whatever the cache knew.
OnProgress ==
  /\ room = "in" /\ "progress" \in events
  /\ events' = events \ {"progress"}
  /\ shown' = "running"
  /\ astray' = (astray \/ (job = "ended" /\ "finished" \notin events))
  /\ UNCHANGED <<kind, job, room, poll, bounds>>

\* invalidateQueries: a request under way is dropped and made again.
OnFinished ==
  /\ room = "in" /\ "finished" \in events
  /\ events' = events \ {"finished"}
  /\ poll' = "asked"
  /\ UNCHANGED <<kind, job, shown, room, astray, bounds>>

\* A slip: the detection relies on the events alone.
PollsWhenPolled == kind = "polled" /\ shown = "running"

\* refetchInterval, evaluated with what the cache holds.
Polls == shown = "running" /\ (kind = "detection" => room = "out")

Ask ==
  /\ Polls /\ poll = "no"
  /\ poll' = "asked"
  /\ UNCHANGED <<kind, job, shown, events, room, astray, bounds>>

Read ==
  /\ poll = "asked"
  /\ poll' = job
  /\ UNCHANGED <<kind, job, shown, events, room, astray, bounds>>

Got ==
  /\ poll \in Statuses
  /\ shown' = poll /\ poll' = "no"
  /\ UNCHANGED <<kind, job, events, room, astray, bounds>>

\* A request that fails is retried once (router.tsx), and then made again at
\* the next interval if there is one.
Lose ==
  /\ poll # "no" /\ losses < MaxLosses
  /\ losses' = losses + 1
  /\ \/ poll' = "asked" /\ UNCHANGED astray
     \/ /\ poll' = "no"
        /\ astray' = (astray \/ (~Polls /\ job = "ended" /\ shown = "running"))
  /\ UNCHANGED <<kind, job, shown, events, room, cuts>>

Cut ==
  /\ room # "out" /\ cuts < MaxCuts
  /\ cuts' = cuts + 1
  /\ room' = "out"
  /\ astray' = (astray \/ "finished" \in events)
  /\ events' = {}
  /\ UNCHANGED <<kind, job, shown, poll, losses>>

\* Connected again, the tab stops polling; the reconnection asks for the
\* details and the version, not for the detection.
Reconnect ==
  /\ room = "out"
  /\ room' = "joining"
  /\ astray' = (astray \/ (kind = "detection" /\ job = "ended" /\ shown = "running"))
  /\ UNCHANGED <<kind, job, shown, events, poll, bounds>>

Joined ==
  /\ room = "joining"
  /\ room' = "in"
  /\ UNCHANGED <<kind, job, shown, events, poll, astray, bounds>>

Next ==
  \/ Start \/ Progress \/ End \/ OnProgress \/ OnFinished \/ Ask \/ Read \/ Got
  \/ Lose \/ Cut \/ Reconnect \/ Joined

\* Timers fire, requests are answered but for MaxLosses of them, events arrive
\* and a join is answered; the socket need not come back.
Fairness ==
  /\ WF_vars(Ask) /\ WF_vars(Read) /\ WF_vars(Got)
  /\ WF_vars(OnProgress) /\ WF_vars(OnFinished) /\ WF_vars(Joined)

Spec == Init /\ [][Next]_vars /\ Fairness

(***************************************************************************)
(* Properties                                                              *)
(***************************************************************************)

\* A job that ends is shown as ended in the end, by an event or by a poll, also
\* when the socket never comes back and polls fail.  The exceptions are the ends
\* that a reconnection misses (it refetches neither the detection nor its
\* proposals, useRealtimeSync.ts:283), a progress that comes after the end, and
\* a detection whose refetch fails twice.
EndIsShown == []<>(job = "ended" => shown = "ended" \/ astray)

===============================================================================
