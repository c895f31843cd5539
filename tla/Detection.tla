------------------------------ MODULE Detection ------------------------------
(***************************************************************************)
(* The assisted detection of one version of a diagram: its jobs, between   *)
(* the API, the queue and the worker, and the review of what they propose. *)
(*                                                                         *)
(* Every replica of the API receives every event of the queue and handles  *)
(* it on its own, so an event that was sent may be handled at any time,    *)
(* again, after a later one, or never.  The result of a job is stored by   *)
(* the replica that claims it, call by call; the requests that review the  *)
(* proposals run meanwhile.  A request that dies takes no further step; a  *)
(* replica that dies while it stores a result is the action DieStoring.    *)
(*                                                                         *)
(* Left out: what is proposed (place, kind, label, confidence, flags), the *)
(* stage and percentage of the progress, the status of the project, who    *)
(* reviews, domain events, and the reading endpoints.  Time is left out:   *)
(* a job may be found too old at any moment.  accept-high is acceptances   *)
(* one after another, which stop when one of them fails.                   *)
(***************************************************************************)
EXTENDS Integers, FiniteSets

CONSTANTS
    Jobs,        \* bound: detections ever started on the version
    Proposals,   \* bound: activities ever proposed
    Arrows,      \* bound: pairs of proposals an arrow may be proposed between
    Requests     \* bound: requests of administrators in flight at once

ASSUME ArrowsAssumption == Arrows \subseteq Proposals \X Proposals
ASSUME FinitelyMany == IsFiniteSet(Proposals) /\ IsFiniteSet(Requests)

VARIABLES
    version,     \* the status of the version
    job,         \* the detection_jobs collection: status and metrics
    queue,       \* where the queue has each job, or the last event it sent of it
    store,       \* the storing of each job's result: storingAt, and how far it is
    proposal,    \* the activity_proposals collection
    arrow,       \* the transition_proposals collection
    drawn,       \* the transitions between activities made of proposals: history tells one
                 \* an editor took out from one that never was
    late,        \* history: proposals and arrows given back by an acceptance that failed,
                 \* or proposed once a publication had begun to count
    req          \* where each request is, and what it has read

vars == <<version, job, queue, store, proposal, arrow, drawn, late, req>>
reviewed == <<proposal, arrow, drawn, late>>
background == <<queue, store>>

Active == {"pending", "running"}
Metric == 0 .. Cardinality(Proposals)
Job == [status : Active \cup {"done", "failed"}, accepted : Metric, discarded : Metric]
Unborn == [status |-> "none"]

\* What is left to insert, and to supersede.
Storing ==
    [pc : {"storing"}, activities : SUBSET Proposals, arrows : SUBSET Arrows,
     supersede : SUBSET {"activities", "arrows"}]
NotStored == [pc |-> "no"]

Reviewable == {"pending", "accepted", "discarded", "superseded"}
Proposal == [status : Reviewable, job : Jobs, activity : {"none", "made", "removed"}]

Idle == [pc |-> "idle"]
Request ==
    UNION {{Idle},
           [pc : {"enqueue"}, job : Jobs],
           [pc : {"claim", "create", "return", "link", "count"}, p : Proposals, draft : BOOLEAN],
           [pc : {"discard", "discardArrows", "countDiscarded"}, p : Proposals],
           [pc : {"claimArrow", "draw", "returnArrow", "discardArrow"}, arrow : Arrows],
           [pc : {"guard", "publish"}, left : SUBSET {"activities", "arrows"}]}

\* One type invariant for the module.
TypeOK ==
    /\ version \in {"draft", "published"}
    /\ job \in [Jobs -> Job \cup {Unborn}]
    /\ queue \in [Jobs -> {"out", "waiting", "active", "completed", "failed"}]
    /\ store \in [Jobs -> Storing \cup {NotStored, [pc |-> "stored"], [pc |-> "died"]}]
    /\ proposal \in [Proposals -> Proposal \cup {Unborn}]
    /\ arrow \in [Arrows -> Reviewable \cup {"none"}]
    /\ drawn \in [Arrows -> {"no", "yes", "undone"}]
    /\ late \in SUBSET (Proposals \cup Arrows)
    /\ req \in [Requests -> Request]

-----------------------------------------------------------------------------

IsActive(j) == job[j].status \in Active
Pending == {p \in Proposals : proposal[p].status = "pending"}
PendingArrows == {a \in Arrows : arrow[a] = "pending"}
Publishing == version = "published" \/ \E r \in Requests : req[r].pc \in {"guard", "publish"}
LateIf(item) == late' = IF Publishing THEN late \cup {item} ELSE late
ProposedBy(j) == {p \in Proposals : proposal[p] # Unborn /\ proposal[p].job = j}

Step(r, next) == req' = [req EXCEPT ![r] = next]

Init ==
    /\ version = "draft"
    /\ job = [j \in Jobs |-> Unborn]
    /\ queue = [j \in Jobs |-> "out"]
    /\ store = [j \in Jobs |-> NotStored]
    /\ proposal = [p \in Proposals |-> Unborn]
    /\ arrow = [a \in Arrows |-> "none"]
    /\ drawn = [a \in Arrows |-> "no"] /\ late = {}
    /\ req = [r \in Requests |-> Idle]

-----------------------------------------------------------------------------
(* Starting a detection *)

\* The guard reads a draft; the unique index allows one active job.
Start(r) ==
    /\ req[r] = Idle
    /\ version = "draft"
    /\ \A j \in Jobs : ~IsActive(j)
    /\ \E j \in Jobs :
        /\ job[j] = Unborn
        /\ job' = [job EXCEPT ![j] = [status |-> "pending", accepted |-> 0, discarded |-> 0]]
        /\ Step(r, [pc |-> "enqueue", job |-> j])
    /\ UNCHANGED <<version, background, reviewed>>

Enqueue(r) ==
    /\ req[r].pc = "enqueue"
    /\ queue' = [queue EXCEPT ![req[r].job] = "waiting"]
    /\ Step(r, Idle)
    /\ UNCHANGED <<version, job, store, reviewed>>

\* No signed address, or the queue refuses the job.
EnqueueFails(r) ==
    /\ req[r].pc = "enqueue"
    /\ job' = [job EXCEPT ![req[r].job].status = "failed"]
    /\ Step(r, Idle)
    /\ UNCHANGED <<version, background, reviewed>>

-----------------------------------------------------------------------------
(* The queue and its worker *)

\* Another worker that takes over a job whose worker died still has it.
Take(j) ==
    /\ queue[j] = "waiting"
    /\ queue' = [queue EXCEPT ![j] = "active"]
    /\ UNCHANGED <<version, job, store, reviewed, req>>

\* The worker returns a result, or fails: a bad input, its own limit of time, any
\* error.  A result the API will find invalid counts as a failure here.
Finish(j) ==
    /\ queue[j] = "active"
    /\ \E event \in {"completed", "failed"} : queue' = [queue EXCEPT ![j] = event]
    /\ UNCHANGED <<version, job, store, reviewed, req>>

-----------------------------------------------------------------------------
(* The events of the queue, in any replica, and the sweep of old jobs *)

\* markRunning and progress, on time or late.
Running(j) ==
    /\ queue[j] \in {"active", "completed", "failed"}
    /\ job[j].status = "pending"
    /\ job' = [job EXCEPT ![j].status = "running"]
    /\ UNCHANGED <<version, background, reviewed, req>>

\* Slip: a job whose result is being stored can fail.
CanFailActive(j) == IsActive(j)

CanFail(j) == IsActive(j) /\ store[j] = NotStored

Fail(j) ==
    /\ queue[j] = "failed"
    /\ CanFail(j)
    /\ job' = [job EXCEPT ![j].status = "failed"]
    /\ UNCHANGED <<version, background, reviewed, req>>

\* A sweep: the job fails and leaves the queue, unless a worker has it.
Expire(j) ==
    /\ CanFail(j)
    /\ job' = [job EXCEPT ![j].status = "failed"]
    /\ queue' = [queue EXCEPT ![j] = IF @ = "waiting" THEN "out" ELSE @]
    /\ UNCHANGED <<version, store, reviewed, req>>

-----------------------------------------------------------------------------
(* complete: storing a result *)

CanStore(j) == IsActive(j) /\ store[j] = NotStored

\* The first replica sets storingAt and stores, whatever became of the version.
ClaimResult(j) ==
    /\ queue[j] = "completed"
    /\ CanStore(j)
    /\ \E found \in SUBSET {p \in Proposals : proposal[p] = Unborn} :
        \E between \in SUBSET (Arrows \cap (found \X found)) :
            store' = [store EXCEPT ![j] =
                        [pc |-> "storing", activities |-> found, arrows |-> between,
                         supersede |-> {"activities", "arrows"}]]
    /\ UNCHANGED <<version, job, queue, reviewed, req>>

IsStoring(j) == store[j].pc = "storing"
Inserted(j) == IsStoring(j) /\ store[j].activities = {} /\ store[j].arrows = {}

\* insertMany inserts one by one: the activities, then the arrows.
InsertProposal(j) ==
    /\ IsStoring(j)
    /\ \E p \in store[j].activities :
        /\ proposal' = [proposal EXCEPT ![p] =
                          [status |-> "pending", job |-> j, activity |-> "none"]]
        /\ store' = [store EXCEPT ![j].activities = @ \ {p}]
        /\ LateIf(p)
    /\ UNCHANGED <<version, job, queue, arrow, drawn, req>>

InsertArrow(j) ==
    /\ IsStoring(j) /\ store[j].activities = {}
    /\ \E a \in store[j].arrows :
        /\ arrow' = [arrow EXCEPT ![a] = "pending"]
        /\ store' = [store EXCEPT ![j].arrows = @ \ {a}]
        /\ LateIf(a)
    /\ UNCHANGED <<version, job, queue, proposal, drawn, req>>

\* Slip: the proposals of earlier detections are forgotten.
SupersedeNoProposal(j) ==
    /\ Inserted(j) /\ "activities" \in store[j].supersede
    /\ store' = [store EXCEPT ![j].supersede = @ \ {"activities"}]
    /\ UNCHANGED <<version, job, queue, reviewed, req>>

\* Then two updates at once, of the pending ones of other detections.
SupersedeProposals(j) ==
    /\ Inserted(j) /\ "activities" \in store[j].supersede
    /\ proposal' = [p \in Proposals |->
                      IF p \in Pending /\ proposal[p].job # j
                      THEN [proposal[p] EXCEPT !.status = "superseded"] ELSE proposal[p]]
    /\ store' = [store EXCEPT ![j].supersede = @ \ {"activities"}]
    /\ UNCHANGED <<version, job, queue, arrow, drawn, late, req>>

SupersedeArrows(j) ==
    /\ Inserted(j) /\ "arrows" \in store[j].supersede
    /\ arrow' = [a \in Arrows |->
                   IF a \in PendingArrows /\ proposal[a[1]].job # j
                   THEN "superseded" ELSE arrow[a]]
    /\ store' = [store EXCEPT ![j].supersede = @ \ {"arrows"}]
    /\ UNCHANGED <<version, job, queue, proposal, drawn, late, req>>

EndStoring(j) ==
    /\ Inserted(j) /\ store[j].supersede = {}
    /\ job' = [job EXCEPT ![j].status = "done"]
    /\ store' = [store EXCEPT ![j] = [pc |-> "stored"]]
    /\ UNCHANGED <<version, queue, reviewed, req>>

\* The replica dies, or a call fails: nobody else takes over.
DieStoring(j) ==
    /\ IsStoring(j)
    /\ store' = [store EXCEPT ![j] = [pc |-> "died"]]
    /\ UNCHANGED <<version, job, queue, reviewed, req>>

-----------------------------------------------------------------------------
(* Accepting proposals: one, or one after another those of high confidence *)

\* The version that decides is the one read here.
LoadAccept(r) ==
    /\ req[r] = Idle
    /\ \E p \in Proposals :
        /\ proposal[p] # Unborn
        /\ Step(r, [pc |-> "claim", p |-> p, draft |-> version = "draft"])
    /\ UNCHANGED <<version, job, background, reviewed>>

\* Slip: the claim does not ask for a pending proposal.
CanClaimAccepted(p) == proposal[p].status \in {"pending", "accepted"}

CanClaim(p) == proposal[p].status = "pending"

\* One that someone else reviewed is an error, and in bulk is passed over.
Claim(r) ==
    LET p == req[r].p
    IN /\ req[r].pc = "claim"
       /\ IF CanClaim(p)
          THEN /\ proposal' = [proposal EXCEPT ![p].status = "accepted"]
               /\ Step(r, [req[r] EXCEPT !.pc = "create"])
          ELSE Step(r, Idle) /\ UNCHANGED proposal
       /\ UNCHANGED <<version, job, background, arrow, drawn, late>>

\* activities.create looks at the version it is given; any error gives the
\* proposal back, one after the insertion too.
Create(r) ==
    /\ req[r].pc = "create"
    /\ \/ req[r].draft /\ Step(r, [req[r] EXCEPT !.pc = "link"])
       \/ Step(r, [req[r] EXCEPT !.pc = "return"])
    /\ UNCHANGED <<version, job, background, reviewed>>

Return(r) ==
    /\ req[r].pc = "return"
    /\ proposal' = [proposal EXCEPT ![req[r].p].status = "pending"]
    /\ late' = late \cup {req[r].p}
    /\ Step(r, Idle)
    /\ UNCHANGED <<version, job, background, arrow, drawn>>

Link(r) ==
    /\ req[r].pc = "link"
    /\ proposal' = [proposal EXCEPT ![req[r].p].activity = "made"]
    /\ Step(r, [req[r] EXCEPT !.pc = "count"])
    /\ UNCHANGED <<version, job, background, arrow, drawn, late>>

\* Slip: a count that timed out is repeated.
CountAgain(r) ==
    /\ req[r].pc = "count"
    /\ job' = [job EXCEPT ![proposal[req[r].p].job].accepted = @ + 1]
    /\ UNCHANGED <<version, background, reviewed, req>>

Count(r) ==
    /\ req[r].pc = "count"
    /\ job' = [job EXCEPT ![proposal[req[r].p].job].accepted = @ + 1]
    /\ Step(r, Idle)
    /\ UNCHANGED <<version, background, reviewed>>

-----------------------------------------------------------------------------
(* Discarding a proposal, with the arrows it has by then *)

\* Slip: a proposal is discarded whatever it became.
DiscardReviewed(r) ==
    /\ req[r] = Idle
    /\ \E p \in Proposals :
        /\ proposal[p].status \in {"pending", "discarded"}
        /\ proposal' = [proposal EXCEPT ![p].status = "discarded"]
        /\ Step(r, [pc |-> "discardArrows", p |-> p])
    /\ UNCHANGED <<version, job, background, arrow, drawn, late>>

Discard(r) ==
    /\ req[r] = Idle
    /\ \E p \in Pending :
        /\ proposal' = [proposal EXCEPT ![p].status = "discarded"]
        /\ Step(r, [pc |-> "discardArrows", p |-> p])
    /\ UNCHANGED <<version, job, background, arrow, drawn, late>>

DiscardArrows(r) ==
    /\ req[r].pc = "discardArrows"
    /\ arrow' = [a \in Arrows |->
                   IF a \in PendingArrows /\ req[r].p \in {a[1], a[2]}
                   THEN "discarded" ELSE arrow[a]]
    /\ Step(r, [req[r] EXCEPT !.pc = "countDiscarded"])
    /\ UNCHANGED <<version, job, background, proposal, drawn, late>>

CountDiscarded(r) ==
    /\ req[r].pc = "countDiscarded"
    /\ job' = [job EXCEPT ![proposal[req[r].p].job].discarded = @ + 1]
    /\ Step(r, Idle)
    /\ UNCHANGED <<version, background, reviewed>>

-----------------------------------------------------------------------------
(* Arrows *)

Made(p) == proposal[p].status = "accepted" /\ proposal[p].activity = "made"

\* Both ends accepted and made, and the activity of the target still there.
ReadEnds(r) ==
    /\ req[r] = Idle
    /\ \E a \in PendingArrows :
        /\ proposal[a[1]].activity # "none" /\ Made(a[2])
        /\ Step(r, [pc |-> "claimArrow", arrow |-> a])
    /\ UNCHANGED <<version, job, background, reviewed>>

ClaimArrow(r) ==
    LET a == req[r].arrow
    IN /\ req[r].pc = "claimArrow"
       /\ IF a \in PendingArrows
          THEN /\ arrow' = [arrow EXCEPT ![a] = "accepted"]
               /\ Step(r, [req[r] EXCEPT !.pc = "draw"])
          ELSE Step(r, Idle) /\ UNCHANGED arrow
       /\ UNCHANGED <<version, job, background, proposal, drawn, late>>

\* Slip: an arrow that could not be drawn stays accepted.
DrawOrForget(r) ==
    /\ req[r].pc = "draw"
    /\ drawn' \in {drawn, [drawn EXCEPT ![req[r].arrow] = "yes"]}
    /\ Step(r, Idle)
    /\ UNCHANGED <<version, job, background, proposal, arrow, late>>

\* Up to three attempts at an update under the rev of the source, which may have the
\* transition already.  A source or a target removed, another status, a third conflict
\* or any error, one after the transition was written too: the arrow is given back.
Draw(r) ==
    LET a == req[r].arrow
        back == [req[r] EXCEPT !.pc = "returnArrow"]
    IN /\ req[r].pc = "draw"
       /\ \/ /\ Made(a[1]) /\ Made(a[2])
             /\ version = "draft" \/ drawn[a] = "yes"
             /\ drawn' = [drawn EXCEPT ![a] = "yes"]
             /\ \E next \in {Idle, back} : Step(r, next)
          \/ Step(r, back) /\ UNCHANGED drawn
       /\ UNCHANGED <<version, job, background, proposal, arrow, late>>

ReturnArrow(r) ==
    /\ req[r].pc = "returnArrow"
    /\ arrow' = [arrow EXCEPT ![req[r].arrow] = "pending"]
    /\ late' = late \cup {req[r].arrow}
    /\ Step(r, Idle)
    /\ UNCHANGED <<version, job, background, proposal, drawn>>

DiscardArrow(r) ==
    /\ req[r] = Idle
    /\ \E a \in PendingArrows : arrow' = [arrow EXCEPT ![a] = "discarded"]
    /\ UNCHANGED <<version, job, background, proposal, drawn, late, req>>

-----------------------------------------------------------------------------
(* The editor and the publication, detailed in Publication *)

\* An activity is removed, with the transitions that name it.
RemoveActivity ==
    /\ version = "draft"
    /\ \E p \in Proposals :
        /\ Made(p)
        /\ proposal' = [proposal EXCEPT ![p].activity = "removed"]
        /\ drawn' = [a \in Arrows |-> IF p \in {a[1], a[2]} THEN "no" ELSE drawn[a]]
    /\ UNCHANGED <<version, job, background, arrow, late, req>>

\* A PATCH of an activity says which transitions leave it from now on.
EditNext ==
    /\ version = "draft"
    /\ \E p \in Proposals :
        /\ Made(p)
        /\ \E next \in SUBSET {a \in Arrows : a[1] = p /\ Made(a[2])} :
            drawn' = [a \in Arrows |->
                        IF a \in next THEN "yes"
                        ELSE IF a[1] = p /\ drawn[a] = "yes" THEN "undone" ELSE drawn[a]]
    /\ UNCHANGED <<version, job, background, proposal, arrow, late, req>>

LoadPublish(r) ==
    /\ req[r] = Idle
    /\ version = "draft"
    /\ Step(r, [pc |-> "guard", left |-> {"activities", "arrows"}])
    /\ UNCHANGED <<version, job, background, reviewed>>

\* Slip: the arrows are not counted.
CountedProposals(c) == IF c = "activities" THEN Pending ELSE {}

Counted(c) == IF c = "activities" THEN Pending ELSE PendingArrows

\* pendingError: two counts at once; one that is not zero refuses the publication.
CountPending(r) ==
    /\ req[r].pc = "guard"
    /\ \E c \in req[r].left :
        Step(r, IF Counted(c) # {} THEN Idle
                ELSE [pc |-> IF req[r].left = {c} THEN "publish" ELSE "guard",
                      left |-> req[r].left \ {c}])
    /\ UNCHANGED <<version, job, background, reviewed>>

Publish(r) ==
    /\ req[r].pc = "publish"
    /\ version' = "published"
    /\ Step(r, Idle)
    /\ UNCHANGED <<job, background, reviewed>>

-----------------------------------------------------------------------------

StoreStep(j) ==
    \/ ClaimResult(j) \/ InsertProposal(j) \/ InsertArrow(j)
    \/ SupersedeProposals(j) \/ SupersedeArrows(j) \/ EndStoring(j)

Queue(j) == Take(j) \/ Finish(j)

Replica(j) == Running(j) \/ Fail(j) \/ Expire(j) \/ StoreStep(j) \/ DieStoring(j)

Admin(r) ==
    \/ Start(r) \/ Enqueue(r) \/ EnqueueFails(r)
    \/ LoadAccept(r) \/ Claim(r) \/ Create(r) \/ Return(r) \/ Link(r) \/ Count(r)
    \/ Discard(r) \/ DiscardArrows(r) \/ CountDiscarded(r)
    \/ ReadEnds(r) \/ ClaimArrow(r) \/ Draw(r) \/ ReturnArrow(r) \/ DiscardArrow(r)
    \/ LoadPublish(r) \/ CountPending(r) \/ Publish(r)

Next ==
    \/ \E j \in Jobs : Queue(j) \/ Replica(j)
    \/ \E r \in Requests : Admin(r)
    \/ RemoveActivity \/ EditNext

Spec == Init /\ [][Next]_vars

-----------------------------------------------------------------------------
(* Properties *)

\* A detection whose result is being stored is not failed under it by a late
\* failure, a sweep or a refused enqueueing: it is active or done.
StoringNotFailed == \A j \in Jobs : store[j] # NotStored => job[j].status # "failed"

\* An accepted proposal has its activity, or exactly one request is making it, or
\* giving the proposal back: two acceptances never make two.
OneAcceptance ==
    \A p \in Proposals :
        LET accepting == {r \in Requests :
                req[r].pc \in {"create", "return", "link"} /\ req[r].p = p}
        IN IF proposal[p].status = "accepted" /\ proposal[p].activity = "none"
           THEN Cardinality(accepting) = 1 ELSE accepting = {}

\* The metrics of a detection are the reviews of its proposals, less those whose
\* request has not counted yet.
MetricsCounted ==
    \A j \in Jobs :
        LET counting(pc) == {r \in Requests :
                req[r].pc = pc /\ proposal[req[r].p].job = j}
        IN job[j] # Unborn =>
            /\ job[j].accepted + Cardinality(counting("count")) =
                 Cardinality({p \in ProposedBy(j) : proposal[p].activity # "none"})
            /\ job[j].discarded + Cardinality(counting("discardArrows"))
                                + Cardinality(counting("countDiscarded")) =
                 Cardinality({p \in ProposedBy(j) : proposal[p].status = "discarded"})

\* Accepting an arrow draws it, or gives it back: while it is accepted it is a
\* transition, unless a request is still at it, an editor took the transition out, or
\* the activity of one of its ends was removed.
AcceptedArrowDrawn ==
    \A a \in Arrows :
        arrow[a] = "accepted" =>
            \/ drawn[a] \in {"yes", "undone"}
            \/ \E r \in Requests : req[r].pc \in {"draw", "returnArrow"} /\ req[r].arrow = a
            \/ \E p \in {a[1], a[2]} : proposal[p].activity = "removed"

\* What is left to review of stored detections was all proposed by one of them,
\* the last, but for what came late.
OneDetectionToReview ==
    LET stored(j) == store[j].pc = "stored"
        left == {proposal[p].job : p \in Pending \ late}
                  \cup {proposal[a[1]].job : a \in PendingArrows \ late}
    IN \A i, j \in left : stored(i) /\ stored(j) => i = j

\* A version is published with nothing to review, but for what a detection stored
\* meanwhile or an acceptance gave back (FR-007).
PublishedReviewed == version = "published" => Pending \cup PendingArrows \subseteq late
=============================================================================
