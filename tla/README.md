# TLA+ models of ReqCanvas

ReqCanvas gathers requirements on business diagrams: projects with members and
roles, diagrams whose activities are marked and published, requirements
("details") written, voted, commented and moderated on those activities,
assisted detection of activities, analysis and exports. The program is a
Fastify API (`src/apps/api`) over MongoDB, Redis/BullMQ and an object store, a
Python worker (`src/apps/analytics`) and a React client (`src/apps/web`).

The API keeps no state of its own and runs in several replicas. Its state is in
MongoDB, **used without transactions**: one call on one document is atomic, and
every handler is a chain of such calls after a guard that read the project and
the resource. That is where the hard behaviour lies, and what these modules
model: the guard's read and the handler's writes are separate steps, kept apart
by a *request slot* that remembers what was read, and any other request, job or
crash fits between them. The same shape returns on the other side: a tab of the
browser reads, waits and applies answers and events that crossed on the way.

## 1. Inventory

Paths are under `src/apps/api/src/` unless they say otherwise.

| Component | State | Operations | Meets others through | What is hard | What makes it correct |
|---|---|---|---|---|---|
| Projects (`modules/projects`) | `status`, `members`, `name`, `deletion` in one document | create, update, change status, delete, change role, remove or leave | every route's guard (`plugins/authorization.ts`); domain events; the deletion queue | decisions on roles and statuses read by the guard | an administrator remains; members unique; life cycle; nothing comes back after deletion |
| Invitations (`modules/invitations`) | one document per link | create, revoke, expire, accept | pushes into `members`; erased by the cascade | acceptance and creation racing the deletion | no link of a deleted project; idempotent acceptance |
| Deletion job (`jobs/project-deletion.ts`) | BullMQ job, `projects.deletion` | enqueue, attempt, retry, stall, record the failure | cascade handlers of every feature | crashes between the mark, the queue and the cascade | every deletion ends, and its state is recorded |
| Details (`modules/details/service.ts`) | `details`, `detail_history` | create, edit with `If-Match`, moderate, reassign, remove | activities of the published version | stale reads; change and history are two writes | no edition lost; complete history; anchored to an activity that was published |
| Votes, comments (`modules/details/interactions.ts`) | `detail_votes`, `detail_comments`, two denormalised counters | vote, withdraw, comment, delete | `$inc` on the detail | insertion and `$inc` are two writes | counters equal what they count |
| Diagrams, versions (`modules/diagrams/service.ts`) | `diagrams`, `diagram_versions` | create, upload a version, publish | publish guards of the detection; details through `publishedVersionId` | publishing is four writes; copies after the insertion | one draft and one published version; numbers without holes |
| Images (`modules/diagrams/upload.ts`, `storage`) | objects under a prefix per version | upload three objects, delete a prefix by pages, cascade | written before the document, deleted before it | failures and deaths at any call; pages listed while deleting | a version has its images; a failure leaves none |
| Activities (`modules/diagrams/activities.service.ts`) | `activities` | create, update with `If-Match`, remove | checks the version's status first | transitions to a removed activity | a change falls on what its author saw |
| Detection (`modules/detection`, `jobs/detection.ts`) | jobs and proposals | start, progress, complete, fail, expire, accept, discard | queue events in all replicas; the editor of activities; publish guards | repeated and reordered events, crash while storing, claim and undo | results stored once; one acceptance of a proposal; nothing published unreviewed |
| Analysis (`modules/dashboard`, `jobs/analysis*.ts`) | runs, settings, scheduler, decisions | create, regenerate, complete, fail, expire, prune, schedule, decide | queue events, object store, Redis | timeout racing the answer; pruning by several replicas; two stores | a run ends and stays ended; results can be read |
| Exports (`modules/exports`, `jobs/export-*.ts`) | export documents and files | request, generate, complete, fail, sweep | two queues, object store | crash between steps of a job; a job handed out twice | an export ends; its file exists while it is offered |
| Sessions (`modules/auth`) | refresh tokens in families, failure counters in Redis | register, login, refresh, logout | cookie shared by tabs; access tokens in routes and sockets | rotation racing another tab, lost answers | a family has one live token; a race is not a theft |
| Realtime (`realtime`) | rooms, presence in Redis | join, leave, select, heartbeat, evict, sweep, relay | domain events | a join racing the revocation; heartbeat racing the eviction | nobody stays in a room of a project they left; ghosts go |
| Web client (`src/apps/web/src/features`, `lib`) | query cache, forms, drafts, session | apply events, autosave, save, vote, poll, refresh once | socket and HTTP answers | order of events and answers | the tab converges to the server; nothing typed is lost |
| Analytics workers (`src/apps/analytics`) | none but the queue, heartbeats in Redis | take a job, beat, return | BullMQ, object store | deaths, late or repeated results | the summary is what was stored |
| Migrations and backups (`db`, `infra`) | lock document, changelog, copies, `ops_restores` | up, down, restore, unlock | two deployments at once | a lock that expires, a run killed half way | one at a time; a copy before what destroys |

`PROJECT.json` lists every component with its status, every hazard with its line,
and the lines of the source each definition stands for. Each action stands for the lines of
its own step, with the schema and the checks of a role before it. A disjunction of actions
(`Next`, `Load`, `Write`, `Upload`, ...), a tuple of variables and a constant stand for the few
lines that choose among those operations, register them or declare that state. An operator of
`Offers` named for a page stands for its component, which decides what is shown on it.

## 2. Modules

| Modules | What they model | Checked in |
|---|---|---|
| `Project` | members, status, invitations, deletion job | `MCProject`, `MCProgress`; proved |
| `Details` | details, history, votes, comments | `MCDetails`; proved |
| `Publication`, `VersionHistory` | versions, activities, copying, publishing; the history of the versions as an abstract specification they implement | `MCPublication`; refinement proved |
| `Detection` | jobs, storing of results, review of proposals, publish guard | `MCDetection`; proved |
| `Sessions` | refresh families, cookie, tabs | `MCSessions`; proved |
| `Realtime` | rooms, presence, revocation | `MCRealtime`, `MCProgress`; safety proved |
| `AnalysisRuns`, `Exports` | runs and exports with their queues, buckets, sweeps | `MCParts`, `MCProgress`; safety proved |
| `Accounts` | registration and the lock on log-ins | `MCParts`, `MCProgress`; safety proved |
| `ScheduleSync`, `Decisions`, `Images`, `Deploy` | two stores without a transaction: scheduler and settings, decision and moderation, bucket and documents, copies and changelog | `MCParts`; proved |
| `Mining`, `Health` | a job in the analytics workers; heartbeats and the deep health check | `MCParts`; proved |
| `EventCache`, `DetailEdit`, `VoteButton`, `Autosave`, `SocketAuth`, `JobWatch`, `Cursors` | one synchronisation of the client each | `MCParts`, `MCProgress`, `MCAutosave_alone.cfg`; safety proved |
| `ZoneEditor`, `Camera` | the geometry of the editor and of the workspace | `MCParts`; proved |
| `Dashboard`, `ExportContent`, `Reading`, `MiningRules`, `Offers` | pure computations, one initial state per input | `MCParts`; proved |

**Two runs hold several components side by side.** `MCParts` and `MCProgress`
instantiate components that share no state, and the variable `part` says which
of them a behaviour runs. In `MCParts` the variables of the chosen component are
the slots `x1`, `x2`, … in the order in which its module declares them, and the
slots it does not need stay 0: a behaviour of `MCParts` is exactly a behaviour of
one component, and the property under `part = "exports" =>` says of it what
`Exports` says alone. In `MCProgress` every component has its variables, and those
which are not of the chosen one stay in their initial state; there nothing its
fairness asks for is enabled, so the fairness of the others holds trivially and
each liveness property is checked under the fairness of its own component.

The bounds of the components are constants of `MCParts`, so that a theorem about it is
about any number of requests, workers, uploads and deployments and any bounds.

Each composed property is a conjunction of named formulas of the modules; the
comment of each, in its module, says in words what it promises and of which code.

## 3. Runs

| Run | Asks | Bounds | Result |
|---|---|---|---|
| `MCProject.cfg` | `TypeOK`, `UniqueMember`, `TombstoneStaysEmpty`, `LastAdminLostOnlyByStaleRemoval`, `LifeCycle` | 3 users, 3 requests, 1 invitation, 2 attempts, 1 stall | hold |
| `MCProject_admin.cfg` | `AtLeastOneAdmin` (FR-010) | 3 users, 2 requests | **violated**: removal with a stale role |
| `MCDetails.cfg` | `HistoryComplete`, `AnchorsEverPublished`, `EditsSafe` | 1 user, 2 requests, 2 details, 2 activities, 2 changes; handlers that change details | hold |
| `MCDetails_votes.cfg` | `TypeOK`, `VotesCounted`, `CommentsCounted` | 3 users, 3 requests, 1 detail, 2 comments; handlers of votes, comments and removal | hold |
| `MCPublication.cfg` | `TypeOK`, `ImplementsHistory`, `UpdatesSafe` | 2 versions, 2 keys, 2 requests, revs up to 2 | hold |
| `MCPublication_draft.cfg` | `DraftOrPublished` | 2 versions, 1 key, 2 requests | **violated**: a second publication archives what the first published |
| `MCDetection.cfg` | `TypeOK`, `StoringNotFailed`, `OneAcceptance`, `MetricsCounted`, `AcceptedArrowDrawn`, `OneDetectionToReview`, `PublishedReviewed` | 2 detections, 2 proposals, the arrow between them, 2 requests | hold |
| `MCSessions.cfg` | `TypeOK`, `OneLiveToken`, `RaceIsNotTheft`, `NotRefusedByItself` | 2 tabs with 2 exchanges each, 3 tokens | hold |
| `MCRealtime.cfg` | `TypeOK`, `OutsidersAreEvicted`, `InRoomIsShown`, `HearsProject` | 2 tabs of a user, 2 diagrams, one still a draft; 1 lapse of the heartbeats, 1 change | hold |
| `MCProgress.cfg` | `EnqueuedDeletionEnds`, `WorkEnds`, `ScreensCatchUp`, under fairness | see section 6 | hold |
| `MCParts.cfg` | `TypeOK`, `ResultsAreThere`, `FinishedStays`, `StoresAgree`, `DeploymentsHold`, `TabsConverge`, `TabsAreFair`, `RulesAgree` | `MCParts.cfg`: 2 requests, workers or uploads, 3 deployments, 1 or 2 of each fault | hold |
| `MCAutosave_alone.cfg` | `ConflictNeedsAnother` | 1 activity deleted, nobody else saves | **violated**: an administrator alone is told another one saved |

Bounds are the fewest with which the interesting case happens, and a slot is
used again and again, so runs are long:

* Three users are the fewest with which two administrators and a participant
  trade roles; three requests allow a promotion, a demotion and a removal at once.
* Two changes of one detail are the fewest in which simultaneous changes could
  file the same version. Three requests let a withdrawal overtake the count of
  the vote it withdraws while a third request votes.
* Two versions are a published one and its draft; two keys, an activity and the
  target of its transition; a rev of 2 allows a claim after a claim.
* Two detections let one supersede what the other proposed; two proposals are the
  ends of an arrow; two requests race over a proposal, or one publishes while the
  other gives a proposal back.
* Three tokens are a log-in, its rotation, and a rotation or log-in after that;
  with two tabs, one may hold the cookie the other has rotated.
* Two tabs on one diagram are what "one field per socket" is for; one tab on two
  diagrams is what passing from one to the other is for. One change removes the
  member, changes the role or deletes the project: it may fall between any two steps.
* Two runs with `KeepRuns = 1` let a pruning delete what another just closed.
* Three deployments are a dead one, the one that took its lock, and a third the
  first may let in by deleting a lock that is no longer its own.
* Three requests that write are a comment, its deletion and an edit, whose events
  come out in any order.

Symmetry is used for request slots and for identifiers no handler compares
(users, proposals' detections, tabs, workers). `MCProgress` uses none, because it
checks liveness. In `MCDetection` proposals are not symmetric: the arrow tells
them apart. Two action properties are checked with symmetry, `LifeCycle` and the
like; they are formulas on one step that treat the symmetric values alike.

The runs do not check for deadlock, but for those of `Details`: an erased project
accepts no request, tokens, revs and deployments run out, a computation has no
second step, and the system really stops there.

## 4. The API

### `Project`

One project document. Variables are the fields of the document (`status`,
`members`, `name`, `deletion`), the invitation documents, the queue's job, and
`req`, one record for each request slot.

* A `Load…` action is the route's guard (`requireProjectRole`, which reads the
  project) together with what the handler computes from that copy before its
  first write. It stores in the slot the target, the role or the status it read.
* The action of the same name without `Load` is the write, with the filter of
  the MongoDB update as its condition. When the filter does not match, the
  handler answers 404 or 409 and nothing changes.
* `MarkDeleting` and `EnqueueDeletion` are two steps because they are calls to
  two stores. `Crash` drops a request between any two of its steps.
* The job is `JobStart` (write `running`), `JobCascade`, `JobFinish` (erase and
  write `done`), `JobComplete`; `JobFail` counts an attempt, `JobStall` returns
  the job of a dead worker to the queue, and the listener of the definitive
  failure either writes it (`JobRecordFailure`) or loses it (`JobLoseFailure`:
  the code does not wait for that write and ignores its error).

Two reads of `findValid` (the invitation, then the project) are one step: a
project never stops being deleted, and the acceptance is conditioned again on
it. Expiry is a step without a clock.

### `Details`

The details of a project with their votes, comments and history; `published` and
`open` are the environment (the diagrams' and the project's modules change them
at any time). A detail is a record with its `rev`; the two counters are
variables of their own because only `$inc` writes them. `everPublished` is a
history variable.

* `View` is the GET that gives the client a `rev`; `LoadEdit` the guard of the
  PATCH, with the permissions of the detail as it is then; `Edit` the update
  filtered by `_id` and `rev`.
* `LoadModerate`, `LoadOriginal`, `Moderate` and `LoadReassign`, `LoadOwnKeys`,
  `LoadTargetKeys`, `Reassign` are the reads and the write of each handler; the
  write is by `_id` alone.
* `RecordHistory` is the second write of the three changes.
* `LoadRemove`, `DeletePart` (three, in any order: `Promise.all`), `DeleteDetail`.
* Votes and comments: the insertion or deletion, then `CountVote` or
  `CountComment`.

A process that dies in the middle of a handler is a slot that takes no further
step, so the safety properties cover crashes without an action for them. The two
runs split the handlers: those that change a detail never touch a vote, a comment
or a counter, except for the removal, which is in both. The project stays open in
the first one: closing it only takes steps away, and the second closes and opens
it. `HistoryComplete` and `VotesCounted` say exactly how far a reader may be
misled: by the requests that are between their two writes. No liveness is claimed:
a request ends when its process lives, and nothing repeats it when it does not.

### `Publication` and `VersionHistory`

One diagram document, its versions and their activities. `diagram` is the
document itself (none, made, or deleted again by a failed creation), `published`
its `publishedVersionId`, `version` the versions, `activity` the activities by
version and key, `req` the request slots.

* `CreateDiagram`, `CreateVersion`, `FinishDiagram` are the creation;
  `LoadUpload`, `ReadLast`, `CreateVersion`, `ReadCopies`, `InsertCopy` the
  upload of a later version. `FailUpload` is any failure before the insertion;
  it may happen without a reason, because the image and the store are in
  `Images`. `insertMany` inserts one copy at a time.
* `LoadPublish` is the route's read of the version, with the check of the status
  on that copy; `CheckPublish` the activities and the guards of other features,
  which may refuse at any time; `Claim`, `Archive`, `PublishVersion` and `Point`
  are the four writes, each with its filter.
* `LoadAdd`, `CheckNext`, `Add`; `View`, `LoadUpdate`, `CheckNext`, `Update`;
  `LoadRemove`, `Delete`, `Pull` are the editor of activities.

The unique indexes are in `Indexes`, the condition of the insertion. The third
one, of the published version, is left out on purpose: that no publication ever
meets it is part of what is shown.

`VersionHistory` is what the versions promise, without requests: `Upload` takes
the number after all the others when there is no draft, `Publish` turns the
draft into the only published version, `Archive` is the only other step.
`ImplementsHistory` says that `Publication` implements it, with the status and
the number of each version as they are in the collection.

In `DraftOrPublished`, the first publication claims the draft, the second reads
it (it still is a draft, with the new rev) and claims it again. The first
archives and publishes; the second archives again, what the first has just
published, and finds no draft. This needs two publications that overlap and no
failure; what the code does guarantee, with any overlap and any failure, is
`ImplementsHistory`.

### `Images`

The objects of each version, the documents that lead to them, and the cascade of
the project. An upload goes through `create` or `addVersion` call by call: the
diagram, the draft it checks, the number it reads, the three PUTs of `Promise.all`
(`moving` holds those that have not ended: a failure of one does not wait for the
others), the insertion (which may be made and answer with an error), the copy of
the activities, the date of the project, and the undoing of each. `sweep` is
`deletePrefix`: a page is listed, its keys deleted, and the next page asked for.
`job` is the deletion of the project, by its next step and tried again.
`slips` records which of these accidents an upload met; each property names the
accidents it excludes, and those are the ones the code leaves behind.

### `Detection`

One version of a diagram: `job`, `queue`, `store` (how far the storing of a result
is), `proposal`, `arrow`, `drawn`, `req`. Every replica receives every event, so
`Running`, `Fail`, `ClaimResult` and `Expire` are enabled whenever their event was
ever sent: late, repeated, in another order, or never handled. What keeps a job
right is `CanFail` and `CanStore`, the filters of the updates.
The result is stored call by call: `InsertProposal`, `InsertArrow` (one document
at a time), `SupersedeProposals` and `SupersedeArrows` at once, `EndStoring`;
`DieStoring` is a replica that dies meanwhile. `Claim`, `Create`, `Return`, `Link`,
`Count` are an acceptance, `Discard…` and the arrows likewise. `Draw` writes the transition
and may still give the arrow back, because the record of the acceptance failed: an arrow
may be pending and drawn. `RemoveActivity` and `EditNext` are the editor, who takes a
transition out with an activity or by rewriting `next`; `drawn` tells for each arrow whether
it is a transition, is not yet, or was taken out. `LoadPublish`, `CountPending`, `Publish`
are the publication with its two counts at once. `late` marks what is back to pending after an acceptance that
failed, or proposed once a publication had begun to count; the properties that
exclude it are false without that exclusion.

### `AnalysisRuns`, `ScheduleSync`, `Decisions`

`AnalysisRuns` follows a run from `Export` (a request) or `Fire` (the scheduler),
through `Create` (the unique index of the active run), `Put` in the bucket and
`Enqueue`, to the events of the queue in every replica (`Running`, `Complete`,
`Fail`), the sweep (`Expire`) and the pruning that whoever closed a run does
(`ListOld`, `DeleteFiles`, `DeleteRun`: the list is read once). `Regenerate` takes
the input of an earlier run, for the insights alone. `data` is the version of the
details and `print` the one whose fingerprint the run has, read apart.

`ScheduleSync` is `sync` with its two reads in any order and its write to Redis,
for the settings and for the status; `Fail` is a sync that gets an error and is caught and
logged (or answers 500), with its process alive. `spoiled` is the exception of the property:
the last sync to end failed, was overtaken or was lost.
`Decisions` is the decision on a pair of duplicates: `Create`, `Moderate` (which
reads) and `Write`, which may fail, `Undo` and `UndoFails`, with `Die` between any two. `cut`
holds the requests that died between both writes or could not undo.

### `Exports`, `ExportContent`

Short exports are rendered in the answer; files by a worker of the API
(`Generate`, `Store`, `Finish`, `Die`), reports by the analytics worker through the
bucket. `Stall` hands a job out again while its first worker may go on. `Timeout`
is the sweep of reports; `FindExpired`, `DeleteFile`, `ForgetFile` the sweep of
files. `ClaimFails` and `FailureFails` are a worker, alive, that could not write that it took
an export or that it failed; `lost` holds the exports of those, of dead workers and of
failed enqueueings. `after` holds the calls whoever closed an export has still to make.
`ExportContent` is the Gherkin archive: `uniqueNames`, the files and the rows of
each, for every sequence of at most four requirements.

### `Sessions`, `Accounts`, `SocketAuth`

`Sessions` has both sides: `token`, the collection; `jar`, the cookie of all the
tabs; `signed`, the tabs with an access token; and two exchanges for each tab.
`Refresh` sends the cookie as it is then, `Find` decides (unknown, revoked, rotated
recently or long ago), `Rotate` is the conditioned update, `Issue` the insertion,
`Signed` the answer that sets the cookie, `Alarm` the revocation of a family for
reuse; `LogOut`, `RevokeFamily`, `SignedOut`. `Lose` gives an exchange up at any
point: the answer is lost or the process dies. `GraceEnds` is the grace of ten
seconds, taken to outlast an exchange.

`Accounts` is registration and the lock: `Increment` and `SetWindow` are the two
calls to Redis, `Fault` a call without an answer or a death, `WindowEnds` the expiry.

`SocketAuth` is the token of a connection: the tab renews it in time, tells the server, and
connects again after a cut. The handshake carries the token of the moment it begins
(`Handshake`) and the server answers it later (`Connected`, `Refused`); a renewal that ends
in between is not told (`untold`). The token of the tab and the one the server has go
through their stages apart (`Tick`), unless they are the same one.

### `Realtime`, `Cursors`

`Realtime` has a step for what a handler does between two answers of MongoDB or
Redis. `Authorize`, `Enter`, `Show` are `room:join`; `Leave`, `LeaveProject`,
`Disconnect`, `Quit`; `Beat` and its write; `SweepRead` and `SweepDelete`;
`RemoveMember`, `SetRole`, `DeleteProject` with the eviction they cause, which
looks for the sockets and then takes them out one by one. The tabs choose at the
start what they show. `late` is a join allowed before the access was lost that
ended after the eviction had looked: the exception of `OutsidersAreEvicted`, which
the code does have (it closes when the socket leaves or its token expires).

`Cursors` has both limits: the tab's, with its timer at the end of a burst, and the
server's window, which forgets its oldest times one by one while they are out of it
(`Shifted`). `wire` is a sequence because one connection keeps its order; a
message may take up to `Jitter` ticks.

### `Deploy`

`up`, `down`, `restore:<key>` and `restore:latest` under the lock document. `Lapse`
expires it under a run, `Kill` ends a run anywhere, `Drop` and `Fill` are the two
halves of a restoration, `Record` its record, `Check` and `Backup` what comes
before a destructive migration. The previous version of the API goes on writing
(`Write`).

## 5. The worker and the client

* `Mining`: an attempt downloads, runs the stages in their order, uploads, and only
  then answers. `Break` is a transfer that fails on either side of the storage,
  `Die`, `Stalled` and `TimeOut` as named. `Health`: heartbeats with an expiry, and
  the check that counts keys.
* `EventCache`: requests commit and then emit (`Emit` in any order); a channel in
  order; `Invalidate`, `Read`, `Got` are fetches; `Cut`, `Reconnect`, `Joined` lose
  what is emitted meanwhile. `astray` says, for each query, that one of the cases
  happened in which the code does go wrong; the property holds in all others.
* `Autosave`: `Save` changes the cache and the pending entry, `Flush` sends it with
  the rev of the cache, `Patched` is the server, `Ok`, `Conflict`, `Failed` the
  answers. An entry that is discarded lives on in its PATCH. `confused` collects the
  cases in which the rev of the cache is of another time. `Turn` is the server coming to
  refuse: with a 409 of another kind (`PROJECT_CLOSED`, `VERSION_NOT_DRAFT`), which the tab
  takes for a conflict, with its body (`Junk`) for the activity; or with a 4xx, which `Failed`
  puts back to be sent again 500 ms later, with no bound. `Unmount` leaves the editor and
  sends what it holds; `Close` closes the page, and what waits behind a PATCH is lost.
* `DetailEdit`: the form with the rev it was opened with, the draft kept a moment
  after typing, the dialog of a conflict. `VoteButton`: the optimistic vote and what
  may replace it. `JobWatch`: a job followed by events or by polling.
* `ZoneEditor`, `Camera`: integers along one axis, every move of the pointer.
* `Dashboard`, `Reading`, `MiningRules`: operators translated from the functions,
  compared with a reference definition for each input of a small set: days of six
  hours and zones that change their offset once; images of one dimension; three
  items, each set of them in 0, 2 or 61 requirements, two rules shown; four requirements in
  blocks of two; insights of which two are enough.
* `Offers`: what the pages offer in a situation (one operator per component that shows
  buttons) and what routes and services accept in it, over every situation; both directions.

## 6. Liveness and fairness

`MCProgress` checks, for each component:

| Formula | Fairness assumed | Why the code justifies it |
|---|---|---|
| `Project!EnqueuedDeletionEnds` | a worker takes a waiting job and goes on or fails; the listener runs; a request in flight goes on | BullMQ hands waiting jobs out; `Crash`, `JobStall`, `JobLoseFailure` have no fairness and may happen, stalls up to `MaxStalls` |
| `AnalysisRuns!RunEnds` | the sweep of each run | a timer in every replica, every minute; no worker, event or request has to go on |
| `Exports!ReportEnds`, `Exports!ExpiredIsDeleted` | the sweep of reports, and of files with its two calls | timers; a replica lives through one sweep |
| `Accounts!LockEnds` | Redis ends windows; an attempt that began to record a failure makes its next call, but for `MaxFaults` faults | with one fault the other key or a later failure sets the window; see section 9 for two |
| `Realtime!GhostsGo` | handlers get their answers, every replica sweeps each version, a field nobody renews grows old | `presence.ts` timers; users are obliged to nothing |
| `Autosave!EditsEnd` | timers of the browser and answers | the formula excludes a closed page, and a server that refuses for ever, which is then asked for ever; `MaxErrors` bounds PATCHes without an answer, a network that comes back |
| `JobWatch!EndIsShown` | timers, all polls but `MaxLosses`, events that were sent | the socket need not come back |
| `Cursors!LeftIsHidden` | time, frames, messages on their way | `requestAnimationFrame` |

Weak fairness is enough in all of them: no step that is owed is disabled again and
again by others. Bounds of this run: 2 users, 2 requests and 1 stall for the
deletion; 2 runs and 1 caller; 2 exports and 2 workers; 2 attempts, 2 failures and 1
fault; 1 socket, 1 draft, 2 changes and 1 lapse; 2 edits with one of each accident;
2 cuts and 2 lost polls; 2 points.

## 7. Proofs

TLAPS checks them for any number of users, requests, details, invitations,
versions, activities, proposals, tabs, sockets, attempts and stalls. Assumptions: `MaxAttemptsAssumption`,
`MaxStallsAssumption`, `AdminsAssumption`, `MaxRevAssumption`,
`NoDetailAssumption`, `MarksAssumption`, `NoVersionAssumption`, `ArrowsAssumption`,
`RealtimeAssumption` and the two `FinitelyMany`, and of `MCParts` `Finite`, `Bounds`, `Limits` (a lock
has a first failure, and fewer heartbeats in a row fail than fit in an expiry) and
`Versions`; TLC evaluates them in every run of those modules.

`Project_proofs`:

* `TypeCorrect`. Besides the types, the request records carry what the guards
  established: a role change never asks for the role it read, a status change
  is one of the cycle.
* `MembersUnique`, with `TypeOK`: `WithRole` keeps the users, `Join` is
  conditioned on not being a member.
* `StatusFollowsCycle` (`LifeCycle`), from the type of the status requests and
  the condition on the status they read.
* `DeletionOrder`, the strengthening the next two rest on: a deletion record, a
  job or a request about to enqueue implies `status = "deleting"`, which no
  step undoes.
* `TombstoneEmpty` and `AdminLoss` (`LastAdminLostOnlyByStaleRemoval`), from the
  above.

`Details_proofs`:

* `TypeCorrect`.
* `SeenVersions`: what a client saw of a detail is a past version, or is the
  present document, and in the second case a PATCH past its guard may edit it.
  Not implied by the types, and inductive with the fact that every step leaves a
  detail as it is, moves it to the next `rev`, or removes it (`DetailsEvolve`).
* `EditionsAreSafe` (`EditsSafe`) from it.
* `AnchorsPublished`, strengthened with the anchors the creations and the
  reassignments in flight carry.
* `HistoryIsComplete` (`HistoryComplete`): the property is strengthened with the
  versions in flight, one request for each.

Its second part counts; there what is counted has to be finite (`FinitelyMany`) and the
marks of a comment that is not there are no detail (`MarksAssumption`):

* `NothingBefore`: no vote, comment, counter or request is of a detail that was not
  created, and a request that deletes a comment names the detail it hangs from, as
  long as it is there. Without it a creation could find counters under way.
* `VotesAreCounted` (`VotesCounted`) and `CommentsAreCounted` (`CommentsCounted`):
  each step adds the same to the counter with the requests yet to count as to what
  is counted (`Balance`), because the write tells whether it found anything; and a
  part being purged stays so until its detail is gone (`Scope`).

`Publication_proofs`:

* `TypeCorrect`. The place a request is at determines the shape of its record
  (`Shapes`), which is what most of the typing steps need.
* `Implementation` (`ImplementsHistory`): initial states map to initial states,
  and each step is a step of `VersionHistory` or leaves it alone. The index on
  the number only says that a number is not taken; that it is the *next* one
  needs `Contiguous` (no number is skipped) and `UploadFollows` (the number an
  upload carries follows one that exists). That a publication meets no other
  published version needs `OnePublished` and `PublishCleared`: between its
  `Archive` and its `PublishVersion` nothing can be published while its own
  version is a draft, because `OneDraft` makes every publication one of that
  version.

The second part is about the editor of activities:

* `EditsAreRight`. Its part `ComingInv`: an activity a copy has yet to insert is
  neither in that version nor in a later one, nor coming to a later one, because
  copies go from each version to the next and a new activity has a key of its own.
  Without it an insertion could fall on an activity that was there and take its `rev`
  back to 0, which would make an old `rev` match again. `NamesInv` gives the order of
  the versions copies go between.
* `UpdatesAreSafe` (`UpdatesSafe`), from its part `SeenInv`: what an editor saw is
  gone, is as it was, or has a later `rev`.

`Detection_proofs`, every property of the `detection` run, for any detections,
proposals, arrows and requests (`FinitelyMany`: the last two are finite sets, without
which nothing can be counted):

* `DocumentsTyped`: the types, but for how far a metric goes, with `Born`: what a
  request, a proposal or a storing is about exists. Fields of a document that does
  not exist have no value, so every other invariant rests on it.
* `StoredIsNotFailed` (`StoringNotFailed`), from `JobsAreRight`: at most one job is
  active, only an active one is being stored, and a job not yet enqueued has no
  event. The unique index gives the first, `storingAt` the rest.
* `AcceptedOnce` (`OneAcceptance`), from `ReviewsAreRight`: accepted without an
  activity, exactly when one request is making it; and nothing still to be
  inserted is there. It is what forbids the claim of a proposal twice.
* `PublishedIsReviewed` (`PublishedReviewed`): strengthened with what each
  publication in flight has counted, which was empty and since then is late.
* `AcceptedIsDrawn` (`AcceptedArrowDrawn`), from `ArrowsHaveEnds`: an arrow exists
  only with its ends, because a result inserts them first; from `EveryStepLasts`: a proposal
  stays of its detection, a removed activity removed; and from what the editor leaves: a
  transition taken out by a PATCH of `next` is "undone", and one taken out with an activity
  has an end that is "removed".
* `LastIsReviewed` (`OneDetectionToReview`): strengthened with what holds half way
  through a storing: once it has superseded, what is left on time is its own.
* `MetricsAreReviews` (`MetricsCounted`), from `ReviewsAreCounted`: requests at a
  count and reviews of a proposal change together, one at a time (`TallyMoves`).
* `TypesHold` (`TypeOK`), whose bound on the metrics follows from it.

`Sessions_proofs`, every property of the `sessions` run, for any tabs and any number
of tokens:

* `FamiliesHaveOneHeir` (`OneLiveToken`), from `OneLive`, `OneIssuing` and `NotBoth`:
  a rotation takes the live token away before the next one is issued; and a new
  family is named after a token nothing refers to (`Known`).
* `RacesAreForgiven` (`RaceIsNotTheft`): a token reaches the cookie once, and until
  then nobody presents it (`InFlight`). So the cookie holds a token already rotated
  only while the answer with the next one is on its way, when its grace cannot end,
  or after it was lost (`JarIsNew`).
* `TabsDoNotRefuseThemselves` (`NotRefusedByItself`): with a refresh per tab
  (`OneRefresh`), whoever rotates the token a tab is presenting is another tab.
* `SessionsTyped` (`TypeOK`).

`Realtime_proofs`, every property of the `realtime` run, for any users, sockets,
versions and bounds (`RealtimeAssumption`: among others, the project is not one of its
users, so that its eviction is nobody's):

* `RevocationReachesAll` (`OutsidersAreEvicted`), from `Allowed`: a join allowed to who
  has no access any more is in `late` while it is under way; from `Evictions`: an
  eviction takes out sockets of its user or of the project (a bound of the model: a
  user is not removed a second time while the eviction of the first is under way); and from `Recorded` and `Heard`: every room a socket is
  in is one its eviction looks for, whether the eviction is of the user or of the
  project.
* `ShowingIsHearing` (`HearsProject`), from `Heard`: a socket leaves the room of the
  project before those of its diagrams only in an eviction, which has them in its list.
* `PresenceShowsAll` (`InRoomIsShown`), from `Aged`, what a sweep deletes went
  without heartbeat, and `Closed`, only a closed socket has a disconnect handler.
* `RealtimeTyped` (`TypeOK`).

`Server_proofs` and `Parts_proofs` are about `MCParts`: an inductive invariant for each of
its eighteen components, with its initial states and its steps (nine of the server in the
first, nine of a tab in the second), and `PartsInv`, which says that the component a
behaviour runs has its own (`SpecParts`). TLC checked each invariant on the instance of the
run before it was proved. The assumptions are those of `MCParts`: the bounds are naturals
(`Bounds`, `TabBounds`), the sets of requests are finite (`Finite`), a login fails at least once
before it locks and a heartbeat outlives the misses allowed (`Limits`), the throttle and the
limit of cursors let something through (`Throttling`), and an image holds a zone of the
least side (`Sizes`); coordinates are rounded to an even number of units (`Computations`).

* `SpecResults` (`ResultsAreThere`). Analyses: `RunHolds`, the input of an active run is
  there while a worker may read it, and a run that is done is readable or in the hands
  of a pruning; `PruneHolds`, whatever a pruning holds on its list may be deleted at any
  later time, because what is older than the last finished runs stays so (`PassedStays`).
  Exports: `ExportHolds`, nobody touches the file of an export before it is past, nor its
  input before it ended, and an export in progress is in somebody's hands or in `lost`,
  which a worker enters when it dies or when the write of its own failure fails;
  `WorkersHold`, a worker generates a file that runs, and no other worker does. Mining:
  what an attempt carries and what is stored has a section for each stage done (`Matched`),
  and one attempt works at a time, before its lock expires (`Works`).
* `SpecFinishedStays` (`FinishedStays`), from the steps of the exports and the analyses:
  each leaves a finished document as it is, or deletes a run that `Passed`.
* `SpecStores` (`StoresAgree`). Images: for each upload, what it has stored, by its step
  (`UploadSteps`), with its objects and its documents until the deletion is asked for
  (`UploadObjects`, `UploadDocuments`); then what each step of the deletion has left
  (`DeletionHolds`): only what is of an upload that overlapped it. An upload touches only
  what is its own (`UploadFrame`), so that the others keep their invariant
  (`KeptHolds`). Accounts: a counter and the attempts that are still to increase it
  are together below the limit and the attempts in flight (`CountsHold`). Health: a key has left an expiry less the
  heartbeats missed (`HeartbeatLasts`), and none outlives the silence since the last
  worker (`HeartbeatsEnd`). Schedule: what a synchronisation that no change overtook has
  read is still so (`ReadsAreCurrent`), and one that ends without writing, because it failed,
  spoils the agreement until another ends. Decisions: a confirmation without its moderation
  is of a request at it, or in `cut`.
* `SpecDeployments` (`DeploymentsHold`): the deployments at work are at most the
  lock that is held and the locks that expired (`LockCounts`); what is destructive and
  applied, in the database, in a copy or about to be, was stored before (`CopiesHold`);
  while no lock expired, what is being restored is not recorded, and what was restored is
  recorded or about to be (`RestoresHold`).
* `SpecTabs` (`TabsConverge`). Lists and comments: as long as the tab is not disconnected,
  what it shows, or has read and nothing crossed, catches up: it is what the server has, or
  an event still to be delivered says so, or the tab reads again (`TextKept`, `ThreadKept`).
  An event tells of what the database had: a deleted comment was there and never comes
  again (`EventsTell`), and edits are counted by the requests (`EditsCounted`). The form:
  every rev a save may carry was on screen (`RevsShown`), what is typed is in no text of the
  server, and is the text of the form, of the dialog and of the PATCH on its way, and in the
  draft or about to be (`TypedHolds`); a closed form has no timer and no dialog (`FormClosed`).
  The vote button: its cache is never ahead of the votes of others. The editor of
  activities: what is still to be sent is of an edit or of a PATCH without answer
  (`SendsCounted`), a PATCH is of an entry that is saving (`PatchesHeld`), and what the tab
  shows is pending or on its way unless something confused it (`TabKnows`). Cursors: a timer
  is for the last position (`TimerIsOfPointer`), and so is the last message (`LastIsPointer`).
  Zones: one that came narrow may leave the image by its left edge, by less than the least
  side (`FitsImage`); any other is inside (`IsInside`).
* `SpecFair` (`TabsAreFair`), from the steps of the same invariants: a conflict is of a rev the
  tab does not know (`TabKnows`), or leaves the body of another 409 in the cache; the connected
  socket of a tab with a session has its renewal armed or under way before the server's token
  is past, unless the token was renewed during the handshake and the server was never told
  (`SocketInv`, where without `untold` the server has the tab's token or is being told it); messages that all take
  the same time are an interval apart on the wire and when they came, and any two accepted
  times as many intervals apart as there are places between them, so that a full window
  is always out of date (`OnWire`, `Came`, `Gap`); the camera keeps the point of the image
  under the pointer.
* `SpecTypes` (`TypeOK` of each).
* `SpecRules` (`RulesAgree`), for any number of requirements, items, terms, rows of a block
  and any width of an image; `MCParts` fixes what is left: an archive of up to 4 rows, lists
  of up to 2 holes, discs, zones or insights, and the clock of `Dashboard`. By conjunct:
  * `RangeIsOfDays`: a zone changes its offset once, so that a day that is read once starts
    where `zonedDayStart` says (`DayStarts`, `RangeHolds`).
  * `VotesCountOnce`, `TopIsOfList`, `CountsAgree`: a sum over a set is one value and the rest,
    whatever the order it is taken in (`SumIs`, `SumUnion`); the sum by activities counts each
    requirement once (`VotesOnce`). The three places of the note are those of the list
    because both sort by votes and then by a place that no two share, so that each place is
    taken by one requirement (`OneByPlace`, `ByVotes`, `TopsHold`).
  * `PathsDiffer`, `FilesAreActivities`: a name is given a number that none of its own has
    (`FreeIsNew`), there is one because the used ones are finite (`HasLeast`); the folders
    given so far are those of the rows read (`ReadingSteps`, `MapsAre`), and rows in order of
    activity leave one group per activity (`RowAdds`, `GroupsAreAll`).
  * `BoxInside`: the two coordinates of a box that touches the edge are both rounded up only
    if both are a half above an odd unit (`RoundedIsNear`); their sum is then odd, so that a
    box leaves the image only if the precision is odd. It is 10^5 (`pipeline.py:43`).
    `DiscsAreOne`: a disc is added only if none of those kept is of the same place
    (`DiscAdds`, `HolesApart`). `OneDirection`, `WarnedOfNameless`: a flag is kept by what
    comes after it (`FixedIsFlagged`, `WarnedHolds`).
  * `DroppedIsCovered`: of at most three items, a rule that replaces another has one
    condition, and nothing replaces it. It is among the rules kept; when it is not among those
    shown, `MAX_RULES` are, and none of them comes after it by lift and confidence. `BlocksFindAll` for any block, the last one short or
    not. `AmbiguousIsCapped` for any number of terms. `InsightsAreSupported`: what is left of
    an answer satisfies the test it was filtered by; a retry that answers leaves no fewer, and
    one that raises loses what there was, fewer than `MIN_INSIGHTS` (`InsightsHold`).
  * `OfferedIsAccepted`, `AcceptedIsOffered`: by cases over what a page shows (`DetailPages`,
    `DiagramPages`, `ProposalPages`, `MemberPages`). This proof found two arms of a `CASE`
    of `Offers` that overlapped on an orphan requirement, which TLC does not report because it
    takes the first one; the second now says `~s.orphan`.

**Induction over data.** The library states induction with an operator as a parameter, which
the provers cannot instantiate. The proofs of `SpecRules` state it with sets instead: a set of
naturals that has 0 and the successor of each of its members is the set of all (`NatSet`), and
a family of subsets of a finite set, with each one whose subsets of one member less it has,
is all of them (`SubsetInduction`). What a recursive function computes follows from two facts, that
there is a function with that recursion (`SumExists`, `FilterExists`, `ReadingExists`) and
what each of its steps gives, by `Loop` and `LoopKeeps`. For this `Dashboard`, `Reading`,
`MiningRules` and `ExportContent` define with functions of their own (`Sorted`, `Place`,
`Where`, `sum`, `With`) what the operators of the libraries do to lists and the provers do
not know, and write a bounded list as a union of sets of functions.

Every invariant and every action property of the runs that hold is proved, for every value of
the constants. Only model-checked: section 6, because liveness under fairness is out of
the prover's reach. The violated properties have no theorem, of course.

## 8. Operators marked "Slip"

Before some definitions stands a variant of it with the comment *Slip*: the same
operation with a plausible mistake (a filter by id alone, a repeated vote that
counts, a target not looked up, a failure not written down). No specification
uses them. Putting one in the place of the definition that follows must make TLC
refute the property `PROJECT.json` pairs it with; it shows that the property
depends on that line of the code and that the bounds reach the case. A composed
property has one pair there; each of its conjuncts has a slip of its own in its
module, which refutes it in the same run.

## 9. Where the code and its words disagree

Three disagreements are runs whose property is violated (`AtLeastOneAdmin`,
`DraftOrPublished`, `ConflictNeedsAnother`); `PROJECT.json` quotes the sentence and
says what the counterexample does. Others met while modelling have no run of their
own. Most of them are the exception a property states, so that the property would be
false without it:

* A crash between the mark of a deletion and the queue leaves a project that is
  being deleted and never is (`projects/service.ts:130`).
* Two details may be marked as duplicates of each other: the original is read before
  the write (`details/service.ts:220`); two moderations may do together a transition
  neither may do alone, because the write is by `_id` (`details/service.ts:183`).
* A version published meanwhile is still changed by an editor that had read a draft
  (`diagrams/activities.service.ts:77`, `:146`); of two publications, the one that
  ends last sets `publishedVersionId` (`diagrams/service.ts:232`).
* A request that passed its guard inserts after the cascade: an invitation
  (`invitations/service.ts:60`), a vote or a comment whose detail is being removed
  (`details/service.ts:338`), an upload (`Images!DeletedIsGone`).
* A replica that dies while it stores a result leaves a detection active for ever
  (`detection/service.ts:518`); a proposal discarded while the rest are inserted
  leaves its arrows pending (`detection/service.ts:330`).
* A run whose details change between its two reads is never shown as out of date
  (`dashboard/analysis.service.ts:216`).
* A file export whose enqueueing fails, whose worker dies after marking it, or whose worker
  cannot write that it failed (`jobs/export-files.ts:110`), blocks the next
  (`exports/routes.ts:133`, `jobs/export-files.ts:82`).
* A sync that fails is logged and not tried again until the next change or restart
  (`jobs/analysis-schedule.ts:108`).
* A decision whose moderation fails stays registered when the deletion that undoes it fails too
  (`dashboard/decisions.routes.ts:88`), although "la decisión no queda registrada".
* An arrow whose acceptance could not be recorded is pending again though its transition
  was written (`detection/service.ts:427`); the editor may take out any transition an accepted
  arrow drew (`diagrams/activities.service.ts:99`), and the arrow stays accepted.
* A retry for more insights that is refused or gets no answer in time fails the whole stage,
  and with it go the insights the first answer had kept (`mining/insights.py:279`,
  `mining/run.py:113`).
* A rule left out for a simpler one may leave neither on the screen: the simpler one counts as kept
  before the list is cut at `MAX_RULES` (`mining/association.py:113`).
* An edit the server refuses for good (the role was lost, the activity is gone, the patch is
  not valid) is sent again every 500 ms for as long as the page lives, where the comment says
  "Se reintenta con el siguiente cambio" (`useAutosave.tsx:66`).
* Every 409 is taken for the save of another administrator (`useAutosave.tsx:57`): when the
  project was closed or the version published, the edit is dropped, the cached activity is
  replaced by the body of the error, and the notice blames somebody else.
* A page that is closed while a PATCH is on its way sends nothing of what was typed since
  (`useAutosave.tsx:43`).
* With two faults, one at the first failure and one at the last, a counter stays
  without a window and the account locked (`auth/service.ts:86`): `LockEnds` is
  checked with one.
* An object of an upload that failed arrives after its prefix was deleted
  (`Images!NothingLeft`, "late").
* `restore:latest`, asked for again, restores a copy stored since (`db/migrations.ts:141`),
  although a restoration is to happen "una sola vez por clave" (`docs/runbooks/rollback.md:15`).
* The end of a detection that falls in a reconnection is not fetched again
  (`useRealtimeSync.ts:283`); a member who is no longer an administrator stays in the
  room of a draft until leaving it (`realtime/bridge.ts:23`).
* A handshake is refused and the renewal it asks for fails: the socket is given up
  (`socket.ts:61`), and when a later call renews the session after all nothing opens it
  until the browser comes back on line or the workspace is entered again
  (`SocketAuth!SignedIsNotDropped` is of the step).
* A token renewed while a handshake is on its way is not told to the server
  (`socket.ts:38`, `:72`), which disconnects the tab when the old one expires
  (`realtime/server.ts:197`) although its session lives (`SocketAuth!untold`).
* With jitter, the server may drop the last cursor of a burst (`realtime/cursors.ts:32`).

## 10. Not modelled

* What a call carries and no handler decides on: texts, names, contents of images,
  files, reports and analyses, messages, audit records, the layout of pages.
* Libraries: BullMQ, Socket.IO and its adapter, Mongoose, sharp, OpenCV, the OCR, the
  vectors and topics, the language model. Their part is what the code relies on, and
  is marked external where a definition stands for it.
* Time, except in `Cursors`, `Health`, `SocketAuth` and `Mining`, where stages of it
  decide: elsewhere what depends on time may happen at any moment, which covers every
  clock.
* The cascades of details, detection, analysis and exports: deletions by project; what
  a writer that overlaps them leaves behind is as in `Images`.
* Editing a comment, the feedback on an insight, profiles, facets and pages: single
  writes or reads nothing else reads.
* Rate limiting, observability, configuration and the build.

## 11. Running

```
tlc -config MCProject.cfg MCProject.tla
tlc -config MCDetails_votes.cfg MCDetails.tla
tlc -config MCPublication.cfg MCPublication.tla
tlc -config MCDetection.cfg MCDetection.tla
tlc -config MCParts.cfg MCParts.tla
tlc -config MCProgress.cfg MCProgress.tla
tlapm Project_proofs.tla
tlapm Details_proofs.tla
tlapm Publication_proofs.tla
tlapm Detection_proofs.tla
tlapm Sessions_proofs.tla
tlapm Realtime_proofs.tla
tlapm Server_proofs.tla
tlapm Parts_proofs.tla
```

Each run ends within a few minutes with two workers, and each module of proofs too, but
for `Server_proofs` and `Parts_proofs`, about a quarter of an hour each: every leaf sees all
the instances of `MCParts`.
