---------------------------- MODULE Publication ----------------------------
(***************************************************************************)
(* One diagram: its versions, the activities marked on them, and the       *)
(* publication of a draft.                                                 *)
(*                                                                         *)
(* Creating the diagram and uploading a version, copying the activities    *)
(* of the previous version, publishing, and the editor of activities are   *)
(* chains of calls to MongoDB; each call is a step here, and the requests  *)
(* interleave.  The unique indexes (one draft and one number per diagram)  *)
(* are conditions of the insertion.  That of one published version is not  *)
(* assumed: VersionHistory shows that the handlers never meet it.          *)
(*                                                                         *)
(* A process that dies is a request that takes no further step.            *)
(*                                                                         *)
(* Left out: the image and its objects, the contents of an activity (its   *)
(* rev stands for them), the status of the project, domain events, audit,  *)
(* and the count of requirements a removal asks to confirm.                *)
(***************************************************************************)
EXTENDS Integers

CONSTANTS
    VersionIds,   \* bound: versions of the diagram
    Keys,         \* bound: activities ever marked; the key an activity keeps between versions
    Requests,     \* bound: requests of administrators in flight at once
    MaxRev,       \* bound: changes of one activity, and claims of one version
    NoVersion     \* the null of publishedVersionId

ASSUME MaxRevAssumption == MaxRev \in Nat
ASSUME NoVersionAssumption == NoVersion \notin VersionIds

VARIABLES
    diagram,      \* the diagram's document: none, made, or undone by a failed creation
    published,    \* diagrams.publishedVersionId
    version,      \* the diagram_versions collection
    activity,     \* the activities collection: versionId, key
    req           \* where each request is, and what it has read

vars == <<diagram, published, version, activity, req>>

Version == [status : {"draft", "published", "archived"}, number : Nat \ {0}, rev : 0 .. MaxRev]
Unborn == [status |-> "none"]

Activity == [rev : 0 .. MaxRev, next : SUBSET Keys]
\* Never in this version, or removed from it.
Absent == [rev |-> "absent"]
Gone == [rev |-> "gone"]

Idle == [pc |-> "idle"]
UploadRequest ==
    [pc : {"upload"}, first : BOOLEAN, number : Nat \ {0}, from : VersionIds \cup {NoVersion}]
CopyRequest == [pc : {"copy"}, from : VersionIds, to : VersionIds]
InsertRequest ==
    [pc : {"insert"}, to : VersionIds, copies : UNION {[ks -> SUBSET Keys] : ks \in SUBSET Keys}]
PublishRequest ==
    [pc : {"check", "claim", "archive", "publish", "point"}, version : VersionIds, rev : 0 .. MaxRev]
AddRequest == [pc : {"checkAdd", "add"}, version : VersionIds, next : SUBSET Keys]
UpdateRequest ==
    [pc : {"viewing", "checkUpdate", "update"}, version : VersionIds, key : Keys,
     seen : Activity, next : SUBSET Keys]
RemoveRequest == [pc : {"delete", "pull"}, version : VersionIds, key : Keys]

Request ==
    UploadRequest \cup UNION {{Idle}, [pc : {"last", "made"}], CopyRequest, InsertRequest,
                             PublishRequest, AddRequest, UpdateRequest, RemoveRequest}

\* One type invariant for the module.
TypeOK ==
    /\ diagram \in {"none", "made", "undone"}
    /\ published \in VersionIds \cup {NoVersion}
    /\ version \in [VersionIds -> Version \cup {Unborn}]
    /\ activity \in [VersionIds -> [Keys -> Activity \cup {Absent, Gone}]]
    /\ req \in [Requests -> Request]

-----------------------------------------------------------------------------

Uploaded(v) == version[v] # Unborn
Draft(v) == version[v].status = "draft"
Exists(v, k) == activity[v][k] \notin {Absent, Gone}
Marked(v) == {k \in Keys : Exists(v, k)}

Step(r, next) == req' = [req EXCEPT ![r] = next]

Init ==
    /\ diagram = "none"
    /\ published = NoVersion
    /\ version = [v \in VersionIds |-> Unborn]
    /\ activity = [v \in VersionIds |-> [k \in Keys |-> Absent]]
    /\ req = [r \in Requests |-> Idle]

-----------------------------------------------------------------------------
(* Uploads: the first version with its diagram, or the next one *)

CreateDiagram(r) ==
    /\ req[r] = Idle
    /\ diagram = "none"
    /\ diagram' = "made"
    /\ Step(r, [pc |-> "upload", first |-> TRUE, number |-> 1, from |-> NoVersion])
    /\ UNCHANGED <<published, version, activity>>

\* The route reads the diagram; the handler, whether there is a draft...
LoadUpload(r) ==
    /\ req[r] = Idle
    /\ diagram = "made"
    /\ \A v \in VersionIds : ~Draft(v)
    /\ Step(r, [pc |-> "last"])
    /\ UNCHANGED <<diagram, published, version, activity>>

Last == {v \in VersionIds :
            /\ Uploaded(v)
            /\ \A w \in VersionIds : Uploaded(w) => version[w].number <= version[v].number}

\* Slip: the number of the last version is not incremented.
SameNumber(from) == IF from = NoVersion THEN 0 ELSE version[from].number

NumberAfter(from) == IF from = NoVersion THEN 1 ELSE version[from].number + 1

\* ... and which version is the last.
ReadLast(r) ==
    /\ req[r].pc = "last"
    /\ \E from \in IF Last = {} THEN {NoVersion} ELSE Last :
        Step(r, [pc |-> "upload", first |-> FALSE, number |-> NumberAfter(from), from |-> from])
    /\ UNCHANGED <<diagram, published, version, activity>>

\* Slip: without the partial unique index on the draft.
OnlyNumberIndex(n) ==
    \A v \in VersionIds : Uploaded(v) => version[v].number # n

\* The two unique indexes an insertion meets.
Indexes(n) ==
    \A v \in VersionIds : Uploaded(v) => version[v].number # n /\ ~Draft(v)

\* After the image was processed and stored, which takes long.
CreateVersion(r) ==
    /\ req[r].pc = "upload"
    /\ Indexes(req[r].number)
    /\ \E v \in VersionIds :
        /\ ~Uploaded(v)
        /\ version' = [version EXCEPT ![v] =
                         [status |-> "draft", number |-> req[r].number, rev |-> 0]]
        /\ Step(r, IF req[r].first THEN [pc |-> "made"]
                   ELSE IF req[r].from = NoVersion THEN Idle
                   ELSE [pc |-> "copy", from |-> req[r].from, to |-> v])
    /\ UNCHANGED <<diagram, published, activity>>

\* A bad image, a failing store or an index: the diagram made for it is deleted.
FailUpload(r) ==
    /\ req[r].pc = "upload"
    /\ diagram' = IF req[r].first THEN "undone" ELSE diagram
    /\ Step(r, Idle)
    /\ UNCHANGED <<published, version, activity>>

\* The project's lastActivityAt; the diagram is deleted as well if this fails.
FinishDiagram(r) ==
    /\ req[r].pc = "made"
    /\ diagram' \in {diagram, "undone"}
    /\ Step(r, Idle)
    /\ UNCHANGED <<published, version, activity>>

\* copyActivities, once the new draft can be seen and edited.
ReadCopies(r) ==
    /\ req[r].pc = "copy"
    /\ LET from == req[r].from
       IN Step(r, IF Marked(from) = {} THEN Idle
                  ELSE [pc |-> "insert", to |-> req[r].to,
                        copies |-> [k \in Marked(from) |-> activity[from][k].next]])
    /\ UNCHANGED <<diagram, published, version, activity>>

\* insertMany inserts the documents one by one.
InsertCopy(r) ==
    /\ req[r].pc = "insert"
    /\ LET copies == req[r].copies
       IN \E k \in DOMAIN copies :
            /\ activity' = [activity EXCEPT ![req[r].to][k] = [rev |-> 0, next |-> copies[k]]]
            /\ Step(r, IF DOMAIN copies = {k} THEN Idle
                       ELSE [req[r] EXCEPT !.copies = [j \in DOMAIN copies \ {k} |-> copies[j]]])
    /\ UNCHANGED <<diagram, published, version>>

-----------------------------------------------------------------------------
(* Publication: three reads, then four writes *)

LoadPublish(r) ==
    /\ req[r] = Idle
    /\ \E v \in VersionIds :
        /\ Draft(v)
        /\ Step(r, [pc |-> "check", version |-> v, rev |-> version[v].rev])
    /\ UNCHANGED <<diagram, published, version, activity>>

\* At least one activity; another feature's publish guard may refuse.
CheckPublish(r) ==
    /\ req[r].pc = "check"
    /\ \/ Marked(req[r].version) # {} /\ Step(r, [req[r] EXCEPT !.pc = "claim"])
       \/ Step(r, Idle)                                     \* 422
    /\ UNCHANGED <<diagram, published, version, activity>>

Claim(r) ==
    LET v == req[r].version
    IN /\ req[r].pc = "claim"
       /\ IF Draft(v) /\ version[v].rev = req[r].rev
          THEN /\ version[v].rev < MaxRev
               /\ version' = [version EXCEPT ![v].rev = @ + 1]
               /\ Step(r, [req[r] EXCEPT !.pc = "archive"])
          ELSE Step(r, Idle) /\ UNCHANGED version           \* 409 VERSION_NOT_DRAFT
       /\ UNCHANGED <<diagram, published, activity>>

Archive(r) ==
    /\ req[r].pc = "archive"
    /\ version' = [v \in VersionIds |->
                     IF version[v].status = "published"
                     THEN [version[v] EXCEPT !.status = "archived"] ELSE version[v]]
    /\ Step(r, [req[r] EXCEPT !.pc = "publish"])
    /\ UNCHANGED <<diagram, published, activity>>

PublishVersion(r) ==
    LET v == req[r].version
    IN /\ req[r].pc = "publish"
       /\ IF Draft(v)
          THEN /\ version' = [version EXCEPT ![v].status = "published"]
               /\ Step(r, [req[r] EXCEPT !.pc = "point"])
          ELSE Step(r, Idle) /\ UNCHANGED version           \* 409 VERSION_NOT_DRAFT
       /\ UNCHANGED <<diagram, published, activity>>

Point(r) ==
    /\ req[r].pc = "point"
    /\ published' = IF diagram = "made" THEN req[r].version ELSE published
    /\ Step(r, Idle)
    /\ UNCHANGED <<diagram, version, activity>>

-----------------------------------------------------------------------------
(* The editor of activities *)

\* The route reads the version; the handler looks at that copy only.
LoadAdd(r) ==
    /\ req[r] = Idle
    /\ \E v \in VersionIds, next \in SUBSET Keys :
        /\ Draft(v)
        /\ Step(r, [pc |-> "checkAdd", version |-> v, next |-> next])
    /\ UNCHANGED <<diagram, published, version, activity>>

\* checkNext, of a creation and of a change.
CheckNext(r) ==
    /\ req[r].pc \in {"checkAdd", "checkUpdate"}
    /\ Step(r, IF req[r].next \subseteq Marked(req[r].version)
               THEN [req[r] EXCEPT !.pc = IF @ = "checkAdd" THEN "add" ELSE "update"]
               ELSE Idle)                                   \* 400 INVALID_TRANSITION
    /\ UNCHANGED <<diagram, published, version, activity>>

\* The key is a new UUID.
Add(r) ==
    /\ req[r].pc = "add"
    /\ \E k \in Keys :
        /\ \A v \in VersionIds : activity[v][k] = Absent
        /\ \A s \in Requests : req[s].pc = "insert" => k \notin DOMAIN req[s].copies
        /\ activity' = [activity EXCEPT ![req[r].version][k] =
                          [rev |-> 0, next |-> req[r].next]]
    /\ Step(r, Idle)
    /\ UNCHANGED <<diagram, published, version>>

\* The client reads an activity with its rev, and edits offline. What it reads
\* of a version no longer a draft never leads to a change.
View(r) ==
    /\ req[r] = Idle
    /\ \E v \in VersionIds, k \in Keys :
        /\ Exists(v, k) /\ Draft(v)
        /\ Step(r, [pc |-> "viewing", version |-> v, key |-> k,
                    seen |-> activity[v][k], next |-> activity[v][k].next])
    /\ UNCHANGED <<diagram, published, version, activity>>

\* PATCH: the activity and its version as they are now; other transitions are
\* checked, other contents are not.
LoadUpdate(r) ==
    LET q == req[r]
    IN /\ q.pc = "viewing"
       /\ IF Exists(q.version, q.key) /\ Draft(q.version)
          THEN \/ Step(r, [q EXCEPT !.pc = "update"])
               \/ \E next \in SUBSET (Keys \ {q.key}) :
                    Step(r, [q EXCEPT !.pc = "checkUpdate", !.next = next])
          ELSE Step(r, Idle)                                \* 404 or 409
       /\ UNCHANGED <<diagram, published, version, activity>>

Update(r) ==
    LET v == req[r].version
        k == req[r].key
    IN /\ req[r].pc = "update"
       /\ \/ /\ Exists(v, k) /\ activity[v][k].rev = req[r].seen.rev
             /\ activity[v][k].rev < MaxRev
             /\ activity' = [activity EXCEPT ![v][k] =
                               [rev |-> activity[v][k].rev + 1, next |-> req[r].next]]
          \/ /\ ~(Exists(v, k) /\ activity[v][k].rev = req[r].seen.rev)
             /\ UNCHANGED activity                          \* RevConflict or 404
       /\ Step(r, Idle)
       /\ UNCHANGED <<diagram, published, version>>

LoadRemove(r) ==
    /\ req[r] = Idle
    /\ \E v \in VersionIds, k \in Keys :
        /\ Exists(v, k) /\ Draft(v)
        /\ Step(r, [pc |-> "delete", version |-> v, key |-> k])
    /\ UNCHANGED <<diagram, published, version, activity>>

Delete(r) ==
    /\ req[r].pc = "delete"
    /\ activity' = [activity EXCEPT ![req[r].version][req[r].key] = Gone]
    /\ Step(r, [req[r] EXCEPT !.pc = "pull"])
    /\ UNCHANGED <<diagram, published, version>>

\* Slip: the transitions change but the rev does not.
PullSilently(r) ==
    /\ req[r].pc = "pull"
    /\ activity' = [activity EXCEPT ![req[r].version] = [k \in Keys |->
            IF Exists(req[r].version, k)
            THEN [@[k] EXCEPT !.next = @ \ {req[r].key}] ELSE @[k]]]
    /\ Step(r, Idle)
    /\ UNCHANGED <<diagram, published, version>>

\* The transitions to the removed activity go, each with a new rev.
Pull(r) ==
    LET v == req[r].version
        pointing == {k \in Marked(v) : req[r].key \in activity[v][k].next}
    IN /\ req[r].pc = "pull"
       /\ \A k \in pointing : activity[v][k].rev < MaxRev
       /\ activity' = [activity EXCEPT ![v] = [k \in Keys |->
            IF k \in pointing
            THEN [rev |-> @[k].rev + 1, next |-> @[k].next \ {req[r].key}] ELSE @[k]]]
       /\ Step(r, Idle)
       /\ UNCHANGED <<diagram, published, version>>

-----------------------------------------------------------------------------

Upload(r) ==
    \/ CreateDiagram(r) \/ LoadUpload(r) \/ ReadLast(r) \/ CreateVersion(r)
    \/ FailUpload(r) \/ FinishDiagram(r) \/ ReadCopies(r) \/ InsertCopy(r)

Publish(r) ==
    \/ LoadPublish(r) \/ CheckPublish(r) \/ Claim(r)
    \/ Archive(r) \/ PublishVersion(r) \/ Point(r)

Edit(r) ==
    \/ LoadAdd(r) \/ CheckNext(r) \/ Add(r)
    \/ View(r) \/ LoadUpdate(r) \/ Update(r)
    \/ LoadRemove(r) \/ Delete(r) \/ Pull(r)

Next == \E r \in Requests : Upload(r) \/ Publish(r) \/ Edit(r)

Spec == Init /\ [][Next]_vars

-----------------------------------------------------------------------------
(* Properties *)

Abstract == INSTANCE VersionHistory WITH
    status <- [v \in VersionIds |-> version[v].status],
    number <- [v \in VersionIds |-> IF Uploaded(v) THEN version[v].number ELSE 0]

\* Whatever uploads and publications interleave, the versions are numbered in
\* the order they appear, there is one draft at most, a publication never meets
\* another published version, and none moves back: what VersionHistory says.
ImplementsHistory == Abstract!Spec

\* A change of an activity falls on exactly what its author was looking at,
\* although a removal rewrites the transitions of other activities meanwhile.
UpdatesSafe ==
    [][ \A r \in Requests :
          LET q == req[r]
          IN (q.pc = "update" /\ req'[r] # q
                /\ activity'[q.version][q.key] # activity[q.version][q.key]) =>
             activity[q.version][q.key] = q.seen ]_vars

\* ADR 0005: two simultaneous publications do not tread on each other, and even
\* a failure between archiving and publishing does not lose the draft. So a
\* diagram whose versions are all archived does not exist.
DraftOrPublished ==
    (\E v \in VersionIds : version[v].status = "archived") =>
        \E v \in VersionIds : version[v].status \in {"draft", "published"}

=============================================================================
