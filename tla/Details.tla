------------------------------ MODULE Details ------------------------------
(***************************************************************************)
(* The requirements ("details") gathered on the activities of a published  *)
(* diagram: creation, edition under optimistic locking, moderation,        *)
(* reassignment of orphans, removal, votes, comments, and the history of   *)
(* previous versions.                                                      *)
(*                                                                         *)
(* Each collection is written by calls that are atomic one by one; a       *)
(* handler is a chain of them, and what its guard read may be stale later. *)
(* A process that dies in the middle of a handler is a request that never  *)
(* takes its next step: nothing here obliges it to, so every safety        *)
(* property below covers it.                                               *)
(*                                                                         *)
(* Left out: fields no handler decides on (type, priority, tags, discard   *)
(* reason, comment text, lastActivityAt), the domain events, the answers,  *)
(* changes of role while a request is in flight, and the cascade that      *)
(* erases the whole project.                                               *)
(***************************************************************************)
EXTENDS Integers, FiniteSets

CONSTANTS
    Users,        \* members of the project
    Admins,       \* those with the role admin; the rest are participants
    DetailIds,    \* bound: details ever created
    CommentIds,   \* bound: comments ever written
    Keys,         \* activities: <<diagram, activityKey>> as one value
    Texts,        \* contents of the editable fields
    Requests,     \* bound: HTTP requests in flight at once; a slot is reused
    MaxRev,       \* bound: changes to one detail
    NoDetail      \* the null of duplicateOf

ASSUME AdminsAssumption == Admins \subseteq Users
ASSUME MaxRevAssumption == MaxRev \in Nat
ASSUME NoDetailAssumption == NoDetail \notin DetailIds
\* The marks of a comment that is not there are no detail, and what is counted is finite.
ASSUME MarksAssumption == {"unposted", "erased"} \cap DetailIds = {}
ASSUME FinitelyMany == IsFiniteSet(Users) /\ IsFiniteSet(CommentIds) /\ IsFiniteSet(Requests)

VARIABLES
    open,          \* whether projects.status is 'open'
    published,     \* activities of the published versions
    everPublished, \* history variable: the activities ever published
    detail,        \* the details collection, but for the two counters
    voteCount,     \* details.voteCount, written only by $inc
    commentCount,  \* details.commentCount, written only by $inc
    votes,         \* the votes collection: <<detailId, userId>>, a unique index
    comment,       \* the comments collection
    history,       \* the detail_history collection: <<detailId, rev>>
    req            \* where each request is, and what it has read

docs == <<detail, voteCount, commentCount>>
project == <<open, published, everPublished>>
vars == <<project, docs, votes, comment, history, req>>

Statuses == {"pending", "validated", "duplicate", "discarded"}
Transitions ==
    {<<"pending", to>> : to \in Statuses \ {"pending"}}
      \cup {<<"validated", to>> : to \in Statuses \ {"validated"}}
      \cup {<<"duplicate", "pending">>, <<"discarded", "pending">>}

Doc == [author : Users, status : Statuses, duplicateOf : DetailIds \cup {NoDetail},
        key : Keys, text : Texts, rev : 0 .. MaxRev]
\* A detail not created yet, and one deleted: ids are never used twice.
Unborn == [status |-> "unborn"]
Removed == [status |-> "removed"]

Comment == [detail : DetailIds, author : Users]
Unposted == [detail |-> "unposted"]
Erased == [detail |-> "erased"]

Parts == {"votes", "comments", "history"}

Idle == [pc |-> "idle"]
CreateRequest == [pc : {"create"}, user : Users, key : Keys, text : Texts]
EditRequest == [pc : {"viewing", "edit"}, user : Users, detail : DetailIds, seen : Doc]
ModerateRequest ==
    [pc : {"original", "moderate"}, detail : DetailIds, to : Statuses,
     original : DetailIds \cup {NoDetail}]
ReassignRequest ==
    [pc : {"orphan", "target", "reassign"}, detail : DetailIds, from : Keys, to : Keys]
RecordRequest == [pc : {"record"}, detail : DetailIds, rev : 0 .. MaxRev]
RemoveRequest == [pc : {"remove"}, detail : DetailIds, todo : SUBSET Parts]
VoteRequest == [pc : {"vote", "unvote", "comment"}, detail : DetailIds, user : Users]
CountRequest == [pc : {"countVote", "countComment"}, detail : DetailIds, delta : {1, -1}]
UncommentRequest == [pc : {"uncomment"}, id : CommentIds, detail : DetailIds]

Request == UNION {{Idle}, CreateRequest, EditRequest, ModerateRequest, ReassignRequest,
                  RecordRequest, RemoveRequest, VoteRequest, CountRequest, UncommentRequest}

\* One type invariant for the module.
TypeOK ==
    /\ open \in BOOLEAN
    /\ published \subseteq Keys /\ everPublished \subseteq Keys
    /\ detail \in [DetailIds -> Doc \cup {Unborn, Removed}]
    /\ voteCount \in [DetailIds -> Int] /\ commentCount \in [DetailIds -> Int]
    /\ votes \subseteq DetailIds \X Users
    /\ comment \in [CommentIds -> Comment \cup {Unposted, Erased}]
    /\ history \subseteq DetailIds \X (0 .. MaxRev)
    /\ req \in [Requests -> Request]

-----------------------------------------------------------------------------

Live(d) == detail[d].status \in Statuses
Posted(c) == comment[c] \notin {Unposted, Erased}

\* detailPermissions().canEdit, which is also canDelete, in an open project.
CanEdit(u, doc) ==
    IF u \in Admins THEN doc.status \in {"pending", "validated"}
                    ELSE doc.author = u /\ doc.status = "pending"

Step(r, next) == req' = [req EXCEPT ![r] = next]

\* The guards of every writing route: the project is open, the detail exists.
Writable(r, d) == req[r].pc = "idle" /\ open /\ Live(d)

\* An empty project; which activities are published is open.
Init ==
    /\ open = TRUE
    /\ published \in SUBSET Keys
    /\ everPublished = published
    /\ detail = [d \in DetailIds |-> Unborn]
    /\ voteCount = [d \in DetailIds |-> 0]
    /\ commentCount = [d \in DetailIds |-> 0]
    /\ votes = {}
    /\ comment = [c \in CommentIds |-> Unposted]
    /\ history = {}
    /\ req = [r \in Requests |-> Idle]

-----------------------------------------------------------------------------
(* What other modules do to the project meanwhile *)

\* The administrator closes or reopens the project.
ToggleOpen ==
    /\ open' = ~open
    /\ UNCHANGED <<published, everPublished, docs, votes, comment, history, req>>

\* A diagram publishes a version with other activities.
Publish ==
    /\ \E keys \in SUBSET Keys :
        /\ published' = keys
        /\ everPublished' = everPublished \cup keys
    /\ UNCHANGED <<open, docs, votes, comment, history, req>>

-----------------------------------------------------------------------------
(* Creation *)

\* The route reads the diagram, the handler its published activities.
LoadCreate(r) ==
    /\ req[r].pc = "idle"
    /\ open
    /\ \E u \in Users, k \in published, t \in Texts :
        Step(r, [pc |-> "create", user |-> u, key |-> k, text |-> t])
    /\ UNCHANGED <<project, docs, votes, comment, history>>

Create(r) ==
    /\ req[r].pc = "create"
    /\ \E d \in DetailIds :
        /\ detail[d] = Unborn
        /\ detail' = [detail EXCEPT ![d] =
             [author |-> req[r].user, status |-> "pending", duplicateOf |-> NoDetail,
              key |-> req[r].key, text |-> req[r].text, rev |-> 0]]
    /\ Step(r, Idle)
    /\ UNCHANGED <<project, voteCount, commentCount, votes, comment, history>>

-----------------------------------------------------------------------------
(* Changes with history: edition, moderation, reassignment *)

\* The client reads a detail, the ETag with its rev included, and edits offline.
View(r) ==
    /\ req[r].pc = "idle"
    /\ \E u \in Users, d \in DetailIds :
        /\ Live(d)
        /\ Step(r, [pc |-> "viewing", user |-> u, detail |-> d, seen |-> detail[d]])
    /\ UNCHANGED <<project, docs, votes, comment, history>>

\* PATCH /details/:id: the permissions are those of the detail as it is now.
LoadEdit(r) ==
    /\ req[r].pc = "viewing"
    /\ IF open /\ Live(req[r].detail) /\ CanEdit(req[r].user, detail[req[r].detail])
       THEN Step(r, [req[r] EXCEPT !.pc = "edit"])
       ELSE Step(r, Idle)                                   \* 403, 404 or 409
    /\ UNCHANGED <<project, docs, votes, comment, history>>

\* Slip: the change forgets $inc rev.
WriteSameRev(r, d, doc) ==
    /\ detail' = [detail EXCEPT ![d] = doc]
    /\ Step(r, [pc |-> "record", detail |-> d, rev |-> detail[d].rev])

\* findOneAndUpdate returns the document before the change; its rev is what
\* recordHistory files.
Write(r, d, doc) ==
    /\ detail[d].rev < MaxRev
    /\ detail' = [detail EXCEPT ![d] = [doc EXCEPT !.rev = detail[d].rev + 1]]
    /\ Step(r, [pc |-> "record", detail |-> d, rev |-> detail[d].rev])

\* Slip: the edition is filtered by id alone.
EditMatchesId(q) == Live(q.detail)

\* The filter of the edition: nobody saved since the client read the detail.
EditMatches(q) == Live(q.detail) /\ detail[q.detail].rev = q.seen.rev

Edit(r) ==
    /\ req[r].pc = "edit"
    /\ LET d == req[r].detail
       IN \/ /\ EditMatches(req[r])
             /\ \E t \in Texts : Write(r, d, [detail[d] EXCEPT !.text = t])
          \/ /\ ~EditMatches(req[r])
             /\ Step(r, Idle)                               \* DetailConflict
             /\ UNCHANGED detail
    /\ UNCHANGED <<project, voteCount, commentCount, votes, comment, history>>

\* Only a duplicate names an original, another detail.
LoadModerate(r) ==
    /\ \E d \in DetailIds, to \in Statuses, original \in DetailIds \cup {NoDetail} :
        /\ Admins # {}
        /\ Writable(r, d)
        /\ <<detail[d].status, to>> \in Transitions
        /\ to = "duplicate" <=> original # NoDetail
        /\ original # d
        /\ Step(r, [pc |-> IF to = "duplicate" THEN "original" ELSE "moderate",
                    detail |-> d, to |-> to, original |-> original])
    /\ UNCHANGED <<project, docs, votes, comment, history>>

LoadOriginal(r) ==
    /\ req[r].pc = "original"
    /\ IF Live(req[r].original) /\ detail[req[r].original].status # "duplicate"
       THEN Step(r, [req[r] EXCEPT !.pc = "moderate"])
       ELSE Step(r, Idle)                                   \* 422 INVALID_DUPLICATE
    /\ UNCHANGED <<project, docs, votes, comment, history>>

\* changeWithHistory's update is by id alone; on a deleted detail the handler throws.
Change(r, doc) ==
    LET d == req[r].detail
    IN \/ /\ Live(d)
          /\ Write(r, d, doc)
       \/ /\ ~Live(d)
          /\ Step(r, Idle)
          /\ UNCHANGED detail

Moderate(r) ==
    /\ req[r].pc = "moderate"
    /\ Change(r, [detail[req[r].detail] EXCEPT !.status = req[r].to,
                                               !.duplicateOf = req[r].original])
    /\ UNCHANGED <<project, voteCount, commentCount, votes, comment, history>>

LoadReassign(r) ==
    /\ \E d \in DetailIds, to \in Keys :
        /\ Admins # {}
        /\ Writable(r, d)
        /\ Step(r, [pc |-> "orphan", detail |-> d, from |-> detail[d].key, to |-> to])
    /\ UNCHANGED <<project, docs, votes, comment, history>>

\* The detail read by the guard must be an orphan...
LoadOwnKeys(r) ==
    /\ req[r].pc = "orphan"
    /\ Step(r, IF req[r].from \in published THEN Idle       \* 409 NOT_ORPHAN
               ELSE [req[r] EXCEPT !.pc = "target"])
    /\ UNCHANGED <<project, docs, votes, comment, history>>

\* Slip: the target is not looked up.
AnyTarget(q) == TRUE

\* ... and the activity it moves to, published.
TargetPublished(q) == q.to \in published

LoadTargetKeys(r) ==
    /\ req[r].pc = "target"
    /\ Step(r, IF TargetPublished(req[r]) THEN [req[r] EXCEPT !.pc = "reassign"]
               ELSE Idle)                                   \* 404
    /\ UNCHANGED <<project, docs, votes, comment, history>>

Reassign(r) ==
    /\ req[r].pc = "reassign"
    /\ Change(r, [detail[req[r].detail] EXCEPT !.key = req[r].to])
    /\ UNCHANGED <<project, voteCount, commentCount, votes, comment, history>>

RecordHistory(r) ==
    /\ req[r].pc = "record"
    /\ history' = history \cup {<<req[r].detail, req[r].rev>>}
    /\ Step(r, Idle)
    /\ UNCHANGED <<project, docs, votes, comment>>

-----------------------------------------------------------------------------
(* Removal: three deletions in any order, then the detail *)

LoadRemove(r) ==
    /\ \E u \in Users, d \in DetailIds :
        /\ Writable(r, d)
        /\ CanEdit(u, detail[d])
        /\ Step(r, [pc |-> "remove", detail |-> d, todo |-> Parts])
    /\ UNCHANGED <<project, docs, votes, comment, history>>

DeletePart(r, part) ==
    LET d == req[r].detail
    IN /\ req[r].pc = "remove"
       /\ part \in req[r].todo
       /\ Step(r, [req[r] EXCEPT !.todo = @ \ {part}])
       /\ votes' = IF part = "votes" THEN {v \in votes : v[1] # d} ELSE votes
       /\ comment' = IF part = "comments"
                     THEN [c \in CommentIds |->
                             IF comment[c].detail = d THEN Erased ELSE comment[c]]
                     ELSE comment
       /\ history' = IF part = "history" THEN {h \in history : h[1] # d} ELSE history
       /\ UNCHANGED <<project, docs>>

DeleteDetail(r) ==
    LET d == req[r].detail
    IN /\ req[r].pc = "remove"
       /\ req[r].todo = {}
       /\ detail' = [detail EXCEPT ![d] = Removed]
       /\ voteCount' = [voteCount EXCEPT ![d] = 0]          \* gone with the document
       /\ commentCount' = [commentCount EXCEPT ![d] = 0]
       /\ Step(r, Idle)
       /\ UNCHANGED <<project, votes, comment, history>>

-----------------------------------------------------------------------------
(* Votes and comments: the insertion or deletion, then the $inc *)

LoadVote(r) ==
    /\ \E u \in Users, d \in DetailIds :
        /\ Writable(r, d)
        /\ detail[d].author # u
        /\ detail[d].status \in {"pending", "validated"}
        /\ Step(r, [pc |-> "vote", detail |-> d, user |-> u])
    /\ UNCHANGED <<project, docs, votes, comment, history>>

Counting(what, d, delta) == [pc |-> what, detail |-> d, delta |-> delta]

\* Slips: a repeated vote counts like the first, or counts a zero.
VoteAgain(r) ==
    /\ req[r].pc = "vote"
    /\ votes' = votes \cup {<<req[r].detail, req[r].user>>}
    /\ Step(r, Counting("countVote", req[r].detail, 1))
    /\ UNCHANGED <<project, docs, comment, history>>

VoteZero(r) ==
    LET v == <<req[r].detail, req[r].user>>
    IN /\ req[r].pc = "vote"
       /\ votes' = votes \cup {v}
       /\ Step(r, Counting("countVote", v[1], IF v \in votes THEN 0 ELSE 1))
       /\ UNCHANGED <<project, docs, comment, history>>

\* The unique index decides; a repeated vote counts nothing.
Vote(r) ==
    LET v == <<req[r].detail, req[r].user>>
    IN /\ req[r].pc = "vote"
       /\ votes' = votes \cup {v}
       /\ Step(r, IF v \in votes THEN Idle ELSE Counting("countVote", v[1], 1))
       /\ UNCHANGED <<project, docs, comment, history>>

LoadUnvote(r) ==
    /\ \E u \in Users, d \in DetailIds :
        /\ Writable(r, d)
        /\ Step(r, [pc |-> "unvote", detail |-> d, user |-> u])
    /\ UNCHANGED <<project, docs, votes, comment, history>>

Unvote(r) ==
    LET v == <<req[r].detail, req[r].user>>
    IN /\ req[r].pc = "unvote"
       /\ votes' = votes \ {v}
       /\ Step(r, IF v \in votes THEN Counting("countVote", v[1], -1) ELSE Idle)
       /\ UNCHANGED <<project, docs, comment, history>>

\* An update of a deleted detail changes nothing.
Inc(counter, d, delta) ==
    IF Live(d) THEN [counter EXCEPT ![d] = @ + delta] ELSE counter

CountVote(r) ==
    /\ req[r].pc = "countVote"
    /\ voteCount' = Inc(voteCount, req[r].detail, req[r].delta)
    /\ Step(r, Idle)
    /\ UNCHANGED <<project, detail, commentCount, votes, comment, history>>

LoadComment(r) ==
    /\ \E u \in Users, d \in DetailIds :
        /\ Writable(r, d)
        /\ Step(r, [pc |-> "comment", detail |-> d, user |-> u])
    /\ UNCHANGED <<project, docs, votes, comment, history>>

PostComment(r) ==
    /\ req[r].pc = "comment"
    /\ \E c \in CommentIds :
        /\ comment[c] = Unposted
        /\ comment' = [comment EXCEPT ![c] =
                         [detail |-> req[r].detail, author |-> req[r].user]]
    /\ Step(r, Counting("countComment", req[r].detail, 1))
    /\ UNCHANGED <<project, docs, votes, history>>

\* Its author or an administrator; that route reads the comment, not the detail.
LoadUncomment(r) ==
    /\ req[r].pc = "idle"
    /\ open
    /\ \E u \in Users, c \in CommentIds :
        /\ Posted(c)
        /\ u \in Admins \cup {comment[c].author}
        /\ Step(r, [pc |-> "uncomment", id |-> c, detail |-> comment[c].detail])
    /\ UNCHANGED <<project, docs, votes, comment, history>>

\* Slip: a deletion that found nothing counts too.
UncommentAgain(r) ==
    /\ req[r].pc = "uncomment"
    /\ comment' = [comment EXCEPT ![req[r].id] = Erased]
    /\ Step(r, Counting("countComment", req[r].detail, -1))
    /\ UNCHANGED <<project, docs, votes, history>>

\* Only the deletion that found the comment counts it.
Uncomment(r) ==
    LET c == req[r].id
    IN /\ req[r].pc = "uncomment"
       /\ comment' = [comment EXCEPT ![c] = Erased]
       /\ Step(r, IF Posted(c) THEN Counting("countComment", req[r].detail, -1) ELSE Idle)
       /\ UNCHANGED <<project, docs, votes, history>>

CountComment(r) ==
    /\ req[r].pc = "countComment"
    /\ commentCount' = Inc(commentCount, req[r].detail, req[r].delta)
    /\ Step(r, Idle)
    /\ UNCHANGED <<project, detail, voteCount, votes, comment, history>>

-----------------------------------------------------------------------------

\* The steps that only read, those on the document, and those on the rest.
Load(r) ==
    \/ LoadCreate(r) \/ View(r) \/ LoadEdit(r)
    \/ LoadModerate(r) \/ LoadOriginal(r)
    \/ LoadReassign(r) \/ LoadOwnKeys(r) \/ LoadTargetKeys(r)
    \/ LoadRemove(r) \/ LoadVote(r) \/ LoadUnvote(r)
    \/ LoadComment(r) \/ LoadUncomment(r)

WriteDetail(r) ==
    Create(r) \/ Edit(r) \/ Moderate(r) \/ Reassign(r) \/ DeleteDetail(r)

WriteRest(r) ==
    \/ RecordHistory(r) \/ \E part \in Parts : DeletePart(r, part)
    \/ Vote(r) \/ Unvote(r) \/ CountVote(r)
    \/ PostComment(r) \/ Uncomment(r) \/ CountComment(r)

Next ==
    \/ \E r \in Requests : Load(r) \/ WriteDetail(r) \/ WriteRest(r)
    \/ ToggleOpen
    \/ Publish

Spec == Init /\ [][Next]_vars

-----------------------------------------------------------------------------
(* Properties *)

\* An edition that is applied falls on exactly the version its author was
\* looking at, and that version still lets the author edit it: whatever was
\* edited, moderated, reassigned or deleted between the GET, the guard of the
\* PATCH and the write, nobody's change is overwritten unseen.
EditsSafe ==
    [][ \A r \in Requests :
          (req[r].pc = "edit" /\ req'[r].pc = "record") =>
             /\ detail[req[r].detail] = req[r].seen
             /\ CanEdit(req[r].user, detail[req[r].detail]) ]_vars

Recording(r, d, n) == req[r].pc = "record" /\ req[r].detail = d /\ req[r].rev = n

\* A part of d's data is being, or has been, deleted with it.
Purged(d, part) ==
    \E r \in Requests :
        req[r].pc = "remove" /\ req[r].detail = d /\ part \notin req[r].todo

\* Every version before the current one is in the history, or on its way by
\* exactly one request, and none twice: simultaneous changes file different
\* versions.
HistoryComplete ==
    \A d \in DetailIds : (Live(d) /\ ~Purged(d, "history")) =>
        /\ \A n \in 0 .. MaxRev :
             (<<d, n>> \in history \/ \E r \in Requests : Recording(r, d, n))
               <=> n < detail[d].rev
        /\ \A r, s \in Requests, n \in 0 .. MaxRev :
             Recording(r, d, n) =>
                <<d, n>> \notin history /\ (Recording(s, d, n) => r = s)

\* The requests that inserted or deleted, and have not counted it yet.
Uncounted(what, d, delta) ==
    Cardinality({r \in Requests : req[r] = Counting(what, d, delta)})

\* voteCount is the number of votes, but for the requests that are between
\* their two writes: votes and withdrawals that race never lose or double one.
VotesCounted ==
    \A d \in DetailIds : (Live(d) /\ ~Purged(d, "votes")) =>
        voteCount[d] + Uncounted("countVote", d, 1) - Uncounted("countVote", d, -1)
            = Cardinality({v \in votes : v[1] = d})

\* The same of commentCount, when an author and an administrator delete the
\* same comment at once.
CommentsCounted ==
    \A d \in DetailIds : (Live(d) /\ ~Purged(d, "comments")) =>
        commentCount[d] + Uncounted("countComment", d, 1) - Uncounted("countComment", d, -1)
            = Cardinality({c \in CommentIds : comment[c].detail = d})

\* A detail never hangs from an activity that was not published at some time:
\* an orphan had one, and a reassignment checks the target.
AnchorsEverPublished ==
    \A d \in DetailIds : Live(d) => detail[d].key \in everPublished

=============================================================================
