------------------------------- MODULE MCParts -------------------------------
(***************************************************************************)
(* The components that run by themselves, one in each behaviour: part says *)
(* which, and never changes.  The variables of the part are x1, x2, ... in *)
(* the order its module declares them, and those it does not need are 0.   *)
(* The components share no state, so what holds of each here is what holds *)
(* of it alone.                                                            *)
(***************************************************************************)
EXTENDS Naturals, Sequences, FiniteSets, TLC

CONSTANTS
  Two, Three,   \* what is alike in a component: requests, workers, deployments
  Uploads, Images, Page, Last, Destructive, Writes, k1, k2, k3,
  Interval, PerWindow, StaleTicks, Jitter, Width, MinSide, VIEWPORT,
  Precision, Pixels, Items, Compared, Block, Terms, Listed,
  MAX_RULES, MIN_INSIGHTS, MAX_INSIGHTS,
  (* The bounds of the components, under their own names. *)
  MaxRuns, MaxData, KeepRuns, MaxExports, MaxFailures, MaxMissed, MaxStarts, MaxChanges,
  MaxDeaths, MaxLapses, MaxDrops, MaxCuts, MaxFetches, MaxRefused, MaxTyped, MaxOthers,
  MaxSaves, MaxVoters, MaxClicks, MaxEdits, MaxErrors, MaxDiscards, MaxPulls, MaxLosses,
  MaxLeaves, Refusals,
  MaxFaults,    \* what fails of the accounts, the schedule, the images
  MoreFaults    \* what fails of the mining, the form

\* As many of each as you like.
ASSUME Finite == IsFiniteSet(Two) /\ IsFiniteSet(Three) /\ IsFiniteSet(Uploads)

ASSUME Bounds ==
  /\ MaxRuns \in Nat /\ MaxData \in Nat /\ KeepRuns \in Nat /\ MaxExports \in Nat
  /\ MaxFailures \in Nat /\ MaxMissed \in Nat /\ MaxStarts \in Nat /\ MaxChanges \in Nat
  /\ MaxDeaths \in Nat /\ MaxLapses \in Nat /\ MaxFaults \in Nat /\ MoreFaults \in Nat
  /\ Last \in Nat /\ Page \in Nat

\* The same of the components of a tab, whose messages may jitter by any time.
ASSUME TabBounds ==
  /\ MaxVoters \in Nat /\ MaxClicks \in Nat /\ MaxTyped \in Nat /\ MaxOthers \in Nat
  /\ MaxSaves \in Nat /\ MaxEdits \in Nat /\ MaxErrors \in Nat /\ MaxDiscards \in Nat
  /\ MaxPulls \in Nat /\ MaxFetches \in Nat /\ MaxCuts \in Nat /\ MaxRefused \in Nat
  /\ MaxLosses \in Nat /\ MaxDrops \in Nat /\ MaxLeaves \in Nat
  /\ MoreFaults \in Nat /\ StaleTicks \in Nat /\ Jitter \in Nat

\* A server that refuses a PATCH answers a 409 or another error (errors.ts).
ASSUME Refusing == Refusals \subseteq {"closed", "never"}

\* The throttle of the sender and the limit of the server let something through
\* (CursorsLayer.tsx: every 50 ms, cursors.ts: 20 a second).
ASSUME Throttling == Interval \in Nat \ {0} /\ PerWindow \in Nat \ {0}

\* An image has some width, a zone of the least side fits in it (bbox.ts: 8 pixels), and
\* the screen has a middle (use-camera.ts).
ASSUME Sizes == Width \in Nat \ {0} /\ MinSide \in 1..Width /\ VIEWPORT \in Nat \ {0, 1}

\* Coordinates are rounded to five decimals, so to an even number of units, as many as
\* pixels at least (pipeline.py); requirements are compared by blocks (duplicates.py: 1000).
ASSUME Computations ==
  /\ Precision \in Nat /\ Precision % 2 = 0 /\ Pixels \in Nat /\ Pixels <= Precision
  /\ Compared \in Nat /\ Block \in Nat \ {0} /\ Terms \in Nat /\ Listed \in Nat
  /\ IsFiniteSet(Items)
  /\ MAX_RULES \in Nat /\ MIN_INSIGHTS \in Nat /\ MAX_INSIGHTS \in Nat

VARIABLES part, x1, x2, x3, x4, x5, x6, x7, x8, x9, x10, x11, x12, x13, x14, x15, x16

Analysis == INSTANCE AnalysisRuns WITH
  Requests <- Two, data <- x1, run <- x2, files <- x3, queue <- x4, prune <- x5, req <- x6
Files == INSTANCE Exports WITH
  Workers <- Two, export <- x1, bucket <- x2, queue <- x3, request <- x4, after <- x5,
  worker <- x6, sweep <- x7, lost <- x8
Login == INSTANCE Accounts WITH
  Attempts <- Two, account <- x1, count <- x2, ttl <- x3, attempt <- x4, faults <- x5
Worker == INSTANCE Mining WITH
  Workers <- Two, Order <- <<"keywords", "topics", "insights">>, MaxFaults <- MoreFaults,
  input <- x1, previous <- x2, job <- x3, stored <- x4, attempt <- x5, faults <- x6
Heartbeat == INSTANCE Health WITH
  Workers <- Two, worker <- x1, due <- x2, missed <- x3, key <- x4, announced <- x5,
  quiet <- x6, starts <- x7
Schedule == INSTANCE ScheduleSync WITH
  Syncs <- Two, wanted <- x1, open <- x2, scheduler <- x3, sync <- x4, spoiled <- x5,
  changes <- x6, faults <- x7
Duplicates == INSTANCE Decisions WITH
  Requests <- Two, status <- x1, decision <- x2, request <- x3, applied <- x4, cut <- x5
Storage == INSTANCE Images WITH
  diagrams <- x1, versions <- x2, copied <- x3, objects <- x4, moving <- x5, req <- x6,
  sweep <- x7, job <- x8, slips <- x9, faults <- x10
Operations == INSTANCE Deploy WITH
  Deploys <- Three, data <- x1, lock <- x2, backups <- x3, restores <- x4, run <- x5,
  torn <- x6, again <- x7, lapses <- x8, deaths <- x9
Events == INSTANCE EventCache WITH
  Requests <- Three, MaxCuts <- MaxDrops, rev <- x1, comments <- x2, request <- x3,
  channel <- x4, text <- x5, thread <- x6, room <- x7, answer <- x8, astray <- x9,
  cuts <- x10, fetches <- x11
Form == INSTANCE DetailEdit WITH
  MaxFaults <- MoreFaults, server <- x1, cache <- x2, form <- x3, draft <- x4, timer <- x5,
  save <- x6, dialog <- x7, typed <- x8, unsaved <- x9, shown <- x10, blind <- x11,
  count <- x12, others <- x13, saves <- x14, faults <- x15
Button == INSTANCE VoteButton WITH
  MaxOthers <- MaxVoters, votes <- x1, prop <- x2, shown <- x3, before <- x4, click <- x5,
  stale <- x6, clicks <- x7
Editor == INSTANCE Autosave WITH
  server <- x1, cache <- x2, entry <- x3, current <- x4, answer <- x5, fetch <- x6,
  edits <- x7, others <- x8, fetches <- x9, errors <- x10, pulls <- x11, conflict <- x12,
  real <- x13, confused <- x14, page <- x15, takes <- x16
Socket == INSTANCE SocketAuth WITH
  MaxFailures <- MaxRefused, signed <- x1, age <- x2, known <- x3, armed <- x4,
  refreshing <- x5, sock <- x6, sent <- x7, retried <- x8, cuts <- x9, failures <- x10,
  untold <- x11
Watch == INSTANCE JobWatch WITH
  kind <- x1, job <- x2, shown <- x3, events <- x4, room <- x5, poll <- x6, astray <- x7,
  cuts <- x8, losses <- x9
Pointers == INSTANCE Cursors WITH
  Points <- Two, Stale <- StaleTicks, pointer <- x1, throttle <- x2,
  joined <- x3, wire <- x4, times <- x5, remote <- x6, running <- x7, even <- x8,
  missed <- x9, leaves <- x10
Drawing == INSTANCE ZoneEditor WITH
  box <- x1, narrow <- x2, drag <- x3
View == INSTANCE Camera WITH
  zoom <- x1, center <- x2
Dates == INSTANCE Dashboard WITH
  Keys <- {k1, k2}, Removed <- k3, Rows <- 1..Listed, Votes <- 0..2, input <- x1
Content == INSTANCE ExportContent WITH
  Words <- {"a", "b"}, ORPHAN <- "o", MaxRows <- 4, input <- x1
Vision == INSTANCE Reading WITH
  Zones <- 2, input <- x1
Rules == INSTANCE MiningRules WITH
  Times <- {0, 2, 61}, Count <- Compared, input <- x1
Pages == INSTANCE Offers WITH
  input <- x1

\* A log-in is locked after some failure (MAX_FAILURES), and fewer heartbeats in a row fail
\* than fit in an expiry (queue_worker.py: 30 s, one every 10 s).
ASSUME Limits == MaxFailures >= 1 /\ MaxMissed + 2 <= Heartbeat!Ttl

\* The uploads number their versions from 1: 0 is the first version.
ASSUME Versions == Uploads \subseteq Nat \ {0} /\ Images \in Nat \ {0}

from16 == <<x16>>
from12 == <<x12, x13, x14, x15, x16>>
from11 == <<x11, from12>>
from10 == <<x10, from11>>
from9 == <<x9, from10>>
from8 == <<x8, from9>>
from7 == <<x7, from8>>
from6 == <<x6, from7>>
from5 == <<x5, from6>>
from4 == <<x4, from5>>
from3 == <<x3, from4>>
from2 == <<x2, from3>>
all == <<part, x1, from2>>

Idle16 == x16 = 0
Idle12 == x12 = 0 /\ x13 = 0 /\ x14 = 0 /\ x15 = 0 /\ Idle16
Idle11 == x11 = 0 /\ Idle12
Idle10 == x10 = 0 /\ Idle11
Idle9 == x9 = 0 /\ Idle10
Idle8 == x8 = 0 /\ Idle9
Idle7 == x7 = 0 /\ Idle8
Idle6 == x6 = 0 /\ Idle7
Idle5 == x5 = 0 /\ Idle6
Idle4 == x4 = 0 /\ Idle5
Idle3 == x3 = 0 /\ Idle4
Idle2 == x2 = 0 /\ Idle3

Init ==
  \/ part = "analysis" /\ Analysis!Init /\ Idle7
  \/ part = "exports" /\ Files!Init /\ Idle9
  \/ part = "accounts" /\ Login!Init /\ Idle6
  \/ part = "mining" /\ Worker!Init /\ Idle7
  \/ part = "health" /\ Heartbeat!Init /\ Idle8
  \/ part = "schedule" /\ Schedule!Init /\ Idle8
  \/ part = "decisions" /\ Duplicates!Init /\ Idle6
  \/ part = "images" /\ Storage!Init /\ Idle11
  \/ part = "deploy" /\ Operations!Init /\ Idle10
  \/ part = "cache" /\ Events!Init /\ Idle12
  \/ part = "form" /\ Form!Init /\ Idle16
  \/ part = "votes" /\ Button!Init /\ Idle8
  \/ part = "editor" /\ Editor!Init
  \/ part = "socket" /\ Socket!Init /\ Idle12
  \/ part = "watch" /\ Watch!Init /\ Idle10
  \/ part = "pointers" /\ Pointers!Init /\ Idle11
  \/ part = "zones" /\ Drawing!Init /\ Idle4
  \/ part = "camera" /\ View!Init /\ Idle3
  \/ part = "dashboard" /\ Dates!Init /\ Idle2
  \/ part = "content" /\ Content!Init /\ Idle2
  \/ part = "reading" /\ Vision!Init /\ Idle2
  \/ part = "rules" /\ Rules!Init /\ Idle2
  \/ part = "offers" /\ Pages!Init /\ Idle2

AnalysisNext == part = "analysis" /\ Analysis!Next /\ UNCHANGED <<part, from7>>
FilesNext == part = "exports" /\ Files!Next /\ UNCHANGED <<part, from9>>
LoginNext == part = "accounts" /\ Login!Next /\ UNCHANGED <<part, from6>>
WorkerNext == part = "mining" /\ Worker!Next /\ UNCHANGED <<part, from7>>
HeartbeatNext == part = "health" /\ Heartbeat!Next /\ UNCHANGED <<part, from8>>
ScheduleNext == part = "schedule" /\ Schedule!Next /\ UNCHANGED <<part, from8>>
DuplicatesNext == part = "decisions" /\ Duplicates!Next /\ UNCHANGED <<part, from6>>
StorageNext == part = "images" /\ Storage!Next /\ UNCHANGED <<part, from11>>
OperationsNext == part = "deploy" /\ Operations!Next /\ UNCHANGED <<part, from10>>
EventsNext == part = "cache" /\ Events!Next /\ UNCHANGED <<part, from12>>
FormNext == part = "form" /\ Form!Next /\ UNCHANGED <<part, from16>>
ButtonNext == part = "votes" /\ Button!Next /\ UNCHANGED <<part, from8>>
EditorNext == part = "editor" /\ Editor!Next /\ UNCHANGED part
SocketNext == part = "socket" /\ Socket!Next /\ UNCHANGED <<part, from12>>
WatchNext == part = "watch" /\ Watch!Next /\ UNCHANGED <<part, from10>>
PointersNext == part = "pointers" /\ Pointers!Next /\ UNCHANGED <<part, from11>>
DrawingNext == part = "zones" /\ Drawing!Next /\ UNCHANGED <<part, from4>>
ViewNext == part = "camera" /\ View!Next /\ UNCHANGED <<part, from3>>
DatesNext == part = "dashboard" /\ Dates!Next /\ UNCHANGED <<part, from2>>
ContentNext == part = "content" /\ Content!Next /\ UNCHANGED <<part, from2>>
VisionNext == part = "reading" /\ Vision!Next /\ UNCHANGED <<part, from2>>
RulesNext == part = "rules" /\ Rules!Next /\ UNCHANGED <<part, from2>>
PagesNext == part = "offers" /\ Pages!Next /\ UNCHANGED <<part, from2>>

Next ==
  \/ AnalysisNext \/ FilesNext \/ LoginNext \/ WorkerNext \/ HeartbeatNext
  \/ ScheduleNext \/ DuplicatesNext \/ StorageNext \/ OperationsNext \/ EventsNext
  \/ FormNext \/ ButtonNext \/ EditorNext \/ SocketNext \/ WatchNext
  \/ PointersNext \/ DrawingNext \/ ViewNext \/ DatesNext \/ ContentNext
  \/ VisionNext \/ RulesNext \/ PagesNext

Spec == Init /\ [][Next]_all

Alike == Permutations(Two) \cup Permutations(Three)

-----------------------------------------------------------------------------
(* Properties *)

\* The types of each component.
TypeOK ==
  /\ part = "analysis" => Analysis!TypeOK
  /\ part = "exports" => Files!TypeOK
  /\ part = "accounts" => Login!TypeOK
  /\ part = "mining" => Worker!TypeOK
  /\ part = "health" => Heartbeat!TypeOK
  /\ part = "schedule" => Schedule!TypeOK
  /\ part = "decisions" => Duplicates!TypeOK
  /\ part = "images" => Storage!TypeOK
  /\ part = "deploy" => Operations!TypeOK
  /\ part = "cache" => Events!TypeOK
  /\ part = "form" => Form!TypeOK
  /\ part = "votes" => Button!TypeOK
  /\ part = "editor" => Editor!TypeOK
  /\ part = "socket" => Socket!TypeOK
  /\ part = "watch" => Watch!TypeOK
  /\ part = "pointers" => Pointers!TypeOK
  /\ part = "zones" => Drawing!TypeOK
  /\ part = "camera" => View!TypeOK

\* What ended well can be had: a run that is done is read with the input it was made
\* from and is never falsely called out of date, a live file is downloaded, a job
\* finds its input, a stage that is done has its results, and what the worker says
\* is what it stored.  A file export blocks the next one for ever only after a death, a
\* failed enqueueing, or a worker that could not write how it ended (export-files.ts:82,
\* export-files.ts:110, routes.ts:133).
ResultsAreThere ==
  /\ part = "analysis" => Analysis!DoneReadable /\ Analysis!StaleIsTrue
  /\ part = "exports" =>
       Files!Downloadable /\ Files!InputKept /\ Files!BlockedOnlyWhenLost
  /\ part = "mining" =>
       Worker!SectionsAreDone /\ Worker!SummaryIsStored /\ Worker!OneAttempt

\* Late and repeated events, sweeps and several replicas: what ended stays as it
\* ended, and pruning leaves the last runs.
FinishedStays ==
  [][/\ part = "analysis" => Analysis!FinishedStays /\ Analysis!KeepsRecent
     /\ part = "exports" => Files!FinishedStays]_all

\* Two stores that no transaction joins agree, but for the exceptions each module
\* names: the scheduler with the settings, a decision with the status of its
\* details, the bucket with the documents, a lock with the failures, and the health
\* of a queue with its workers.
StoresAgree ==
  /\ part = "schedule" => Schedule!InStep
  /\ part = "decisions" => Duplicates!ConfirmedIsApplied
  /\ part = "images" =>
       /\ Storage!ImagesExist /\ Storage!NothingLeft
       /\ Storage!DiagramsHaveVersions /\ Storage!DeletedIsGone
  /\ part = "accounts" => Login!OverrunIsInFlight
  /\ part = "health" => Heartbeat!ConsumedIsUp /\ Heartbeat!UnconsumedIsDown

\* Deployments with a lock that expires: never more migrate at once than locks
\* expired, a copy is restored once unless its restoration was cut, and what a
\* destructive migration takes was stored before.
DeploymentsHold ==
  part = "deploy" =>
    /\ Operations!FewAtOnce /\ Operations!RestoredOnce
    /\ Operations!TornIsRestoredAgain /\ Operations!DestroyedIsStored

\* What a tab shows, once nothing is on its way, is what the server has or what its
\* user typed, but for the body of an error that the editor of activities takes for
\* one; a zone and the camera stay in the image, and a cursor is where it stopped.
TabsConverge ==
  /\ part = "cache" => Events!TextConverges /\ Events!ThreadConverges
  /\ part = "form" => Form!NothingReplacedUnseen /\ Form!TypedIsKept
  /\ part = "votes" => Button!ShowsVotes
  /\ part = "editor" => Editor!TypedIsShown
  /\ part = "pointers" => Pointers!StopIsShown
  /\ part = "zones" => Drawing!ZoneIsInside
  /\ part = "camera" => View!SomethingShows

\* No step blames another administrator of a stale edit who saved nothing, closes the
\* socket of a tab that keeps its session unless a renewal ended during its handshake,
\* drops a cursor of a steady sender, or moves the point under the pointer.
TabsAreFair ==
  [][/\ part = "editor" => Editor!ConflictIsReal
     /\ part = "socket" => Socket!SignedIsNotDropped
     /\ part = "pointers" => Pointers!NothingDropped
     /\ part = "camera" => View!AnchorStays]_all

\* Computations that two places make apart agree: the filters and labels of days and
\* the counts of the dashboard, the files of an archive, the geometry and the graph a
\* detection reads, the rules and duplicates that mining finds, and the buttons the
\* pages offer with what the API accepts.
RulesAgree ==
  /\ part = "dashboard" =>
       Dates!RangeIsOfDays /\ Dates!VotesCountOnce /\ Dates!TopIsOfList /\ Dates!CountsAgree
  /\ part = "content" => Content!PathsDiffer /\ Content!FilesAreActivities
  /\ part = "reading" =>
       Vision!BoxInside /\ Vision!DiscsAreOne /\ Vision!OneDirection /\ Vision!WarnedOfNameless
  /\ part = "rules" =>
       /\ Rules!DroppedIsCovered /\ Rules!BlocksFindAll
       /\ Rules!AmbiguousIsCapped /\ Rules!InsightsAreSupported
  /\ part = "offers" => Pages!OfferedIsAccepted /\ Pages!AcceptedIsOffered

=============================================================================
