------------------------------ MODULE MCProgress ------------------------------
(***************************************************************************)
(* What must end: analysis runs, exports, locked accounts, the deletion of *)
(* a project, presence, autosave, the watching of a job and remote cursors.*)
(*                                                                         *)
(* The components share no state here, so a behaviour is one of theirs: at *)
(* the start one is chosen and the others stay as they begin, where nothing*)
(* that fairness asks for can happen.  Each formula below is therefore     *)
(* checked under the fairness its own component states.                    *)
(***************************************************************************)
EXTENDS Naturals

CONSTANTS u1, u2, Callers, Requests, Invitations, Workers, Attempts, s1, v1, Points

VARIABLES
  part,  \* the component of this behaviour
  data, run, files, queue, prune, req,
  export, bucket, fileQueue, request, after, worker, fileSweep, lost,
  account, count, ttl, attempt, faults,
  status, members, name, deletion, invitation, deletionJob, projectReq,
  role, alive, changes, shows, conn, joining, inRoom, inProject, joined,
  leaving, quitting, entry, beating, sweep, evicting, lapsed, late,
  server, cache, patch, current, answer, fetch, edits, others, fetches, errors,
  pulls, conflict, real, confused, page, takes,
  kind, job, shown, events, room, poll, astray, cuts, losses,
  pointer, throttle, inDiagram, wire, times, remote, running, even, missed, leaves

Analysis == INSTANCE AnalysisRuns WITH
  Requests <- Callers, MaxRuns <- 2, MaxData <- 1, KeepRuns <- 1
Files == INSTANCE Exports WITH MaxExports <- 2, queue <- fileQueue, sweep <- fileSweep
Login == INSTANCE Accounts WITH MaxFailures <- 2, MaxFaults <- 1
Deletion == INSTANCE Project WITH
  Users <- {u1, u2}, MaxAttempts <- 2, MaxStalls <- 1,
  job <- deletionJob, req <- projectReq
Presence == INSTANCE Realtime WITH
  Users <- {u1}, Sockets <- {s1}, Versions <- {v1}, Owner <- [s \in {s1} |-> u1],
  Drafts <- {v1}, Views <- {{<<s1, v1>>}}, MaxLapses <- 1, MaxChanges <- 2
Editor == INSTANCE Autosave WITH
  MaxEdits <- 2, MaxOthers <- 1, MaxFetches <- 1, MaxErrors <- 1, MaxDiscards <- 1,
  MaxPulls <- 1, Refusals <- {"closed", "never"}, entry <- patch
Watch == INSTANCE JobWatch WITH MaxCuts <- 2, MaxLosses <- 2
Pointers == INSTANCE Cursors WITH
  Interval <- 2, PerWindow <- 2, Stale <- 3, Jitter <- 1, MaxLeaves <- 1,
  joined <- inDiagram

Parts == {"analysis", "files", "login", "deletion", "presence", "editor", "watch", "pointers"}

analysis == <<data, run, files, queue, prune, req>>
exporting == <<export, bucket, fileQueue, request, after, worker, fileSweep, lost>>
login == <<account, count, ttl, attempt, faults>>
deleting == <<status, members, name, deletion, invitation, deletionJob, projectReq>>
presence == <<role, alive, changes, shows, conn, joining, inRoom, inProject, joined,
    leaving, quitting, entry, beating, sweep, evicting, lapsed, late>>
editor == <<server, cache, patch, current, answer, fetch, edits, others, fetches, errors,
    pulls, conflict, real, confused, page, takes>>
watch == <<kind, job, shown, events, room, poll, astray, cuts, losses>>
pointers == <<pointer, throttle, inDiagram, wire, times, remote, running, even, missed, leaves>>
all == <<part, analysis, exporting, login, deleting, presence,
         editor, watch, pointers>>

\* Users are alike: the first owns the project.  What is watched is told apart
\* only where it is watched.
Init ==
  /\ part \in Parts
  /\ Analysis!Init /\ Files!Init /\ Login!Init /\ Deletion!Init
  /\ Presence!Init /\ Editor!Init /\ Watch!Init /\ Pointers!Init
  /\ members = {[userId |-> u1, role |-> "admin"]}
  /\ part # "watch" => kind = "polled"

AnalysisNext ==
  /\ part = "analysis" /\ Analysis!Next
  /\ UNCHANGED <<part, exporting, login, deleting, presence, editor, watch, pointers>>
FilesNext ==
  /\ part = "files" /\ Files!Next
  /\ UNCHANGED <<part, analysis, login, deleting, presence, editor, watch, pointers>>
LoginNext ==
  /\ part = "login" /\ Login!Next
  /\ UNCHANGED <<part, analysis, exporting, deleting, presence, editor, watch, pointers>>
DeletionNext ==
  /\ part = "deletion" /\ Deletion!Next
  /\ UNCHANGED <<part, analysis, exporting, login, presence, editor, watch, pointers>>
PresenceNext ==
  /\ part = "presence" /\ Presence!Next
  /\ UNCHANGED <<part, analysis, exporting, login, deleting, editor, watch, pointers>>
EditorNext ==
  /\ part = "editor" /\ Editor!Next
  /\ UNCHANGED <<part, analysis, exporting, login, deleting, presence, watch, pointers>>
WatchNext ==
  /\ part = "watch" /\ Watch!Next
  /\ UNCHANGED <<part, analysis, exporting, login, deleting, presence, editor, pointers>>
PointersNext ==
  /\ part = "pointers" /\ Pointers!Next
  /\ UNCHANGED <<part, analysis, exporting, login, deleting, presence, editor, watch>>

Next ==
  \/ AnalysisNext \/ FilesNext \/ LoginNext \/ DeletionNext
  \/ PresenceNext \/ EditorNext \/ WatchNext \/ PointersNext

Fairness ==
  /\ Analysis!Fairness /\ Files!Fairness /\ Login!Fairness /\ Deletion!Fairness
  /\ Presence!Fairness /\ Editor!Fairness /\ Watch!Fairness /\ Pointers!Fairness

Spec == Init /\ [][Next]_all /\ Fairness

-----------------------------------------------------------------------------
(* Properties *)

\* An enqueued deletion ends, done or recorded as failed, whatever retries and
\* worker deaths happen on the way, unless the single write of the failure is lost.
EnqueuedDeletionEnds == Deletion!EnqueuedDeletionEnds

\* Whoever dies: runs and reports end, so that the unique index does not refuse
\* the next for ever; expired files leave the bucket; a locked account opens again.
WorkEnds ==
  Analysis!RunEnds /\ Files!ReportEnds /\ Files!ExpiredIsDeleted /\ Login!LockEnds

\* What a tab shows catches up: ghosts of the presence and cursors of those who
\* left go, edits are stored or taken back, and the end of a job is shown.
ScreensCatchUp ==
  Presence!GhostsGo /\ Editor!EditsEnd /\ Watch!EndIsShown /\ Pointers!LeftIsHidden
=============================================================================
