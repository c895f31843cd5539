--------------------------- MODULE Detection_proofs ---------------------------
(***************************************************************************)
(* Proofs about the assisted detection, for any detections, proposals,     *)
(* arrows and requests.                                                    *)
(***************************************************************************)
EXTENDS Detection, FiniteSetTheorems, TLAPS

USE DEF Idle, Unborn, NotStored

\* What a detection counts is unbounded here; how far it goes is MetricsCounted.
CountedJob == [status : Active \cup {"done", "failed"}, accepted : Nat, discarded : Nat]

Types ==
    /\ version \in {"draft", "published"}
    /\ job \in [Jobs -> CountedJob \cup {Unborn}]
    /\ queue \in [Jobs -> {"out", "waiting", "active", "completed", "failed"}]
    /\ store \in [Jobs -> Storing \cup {NotStored, [pc |-> "stored"], [pc |-> "died"]}]
    /\ proposal \in [Proposals -> Proposal \cup {Unborn}]
    /\ arrow \in [Arrows -> Reviewable \cup {"none"}]
    /\ drawn \in [Arrows -> {"no", "yes", "undone"}]
    /\ late \in SUBSET (Proposals \cup Arrows)
    /\ req \in [Requests -> Request]

\* What a request, a proposal or a result is about exists.
Reviewing == {"claim", "create", "return", "link", "count"}
Discarding == {"discard", "discardArrows", "countDiscarded"}
Born ==
    /\ \A r \in Requests : req[r].pc = "enqueue" => job[req[r].job] # Unborn
    /\ \A r \in Requests :
         req[r].pc \in Reviewing \cup Discarding => proposal[req[r].p] # Unborn
    /\ \A p \in Proposals : proposal[p] # Unborn => job[proposal[p].job] # Unborn
    /\ \A j \in Jobs : store[j] # NotStored => job[j] # Unborn

\* Where a request is determines what its record holds.
LEMMA Shapes ==
    ASSUME NEW q \in Request
    PROVE  /\ q.pc = "enqueue" => q \in [pc : {"enqueue"}, job : Jobs]
           /\ q.pc \in {"claim", "create", "return", "link", "count"} =>
                q \in [pc : {"claim", "create", "return", "link", "count"},
                       p : Proposals, draft : BOOLEAN]
           /\ q.pc \in {"discard", "discardArrows", "countDiscarded"} =>
                q \in [pc : {"discard", "discardArrows", "countDiscarded"}, p : Proposals]
           /\ q.pc \in {"claimArrow", "draw", "returnArrow", "discardArrow"} =>
                q \in [pc : {"claimArrow", "draw", "returnArrow", "discardArrow"},
                       arrow : Arrows]
           /\ q.pc \in {"guard", "publish"} =>
                q \in [pc : {"guard", "publish"}, left : SUBSET {"activities", "arrows"}]
BY DEF Request

\* Every kind of request record.
LEMMA Kinds ==
    /\ Idle \in Request
    /\ [pc : {"enqueue"}, job : Jobs] \subseteq Request
    /\ [pc : {"claim", "create", "return", "link", "count"}, p : Proposals, draft : BOOLEAN]
         \subseteq Request
    /\ [pc : {"discard", "discardArrows", "countDiscarded"}, p : Proposals] \subseteq Request
    /\ [pc : {"claimArrow", "draw", "returnArrow", "discardArrow"}, arrow : Arrows]
         \subseteq Request
    /\ [pc : {"guard", "publish"}, left : SUBSET {"activities", "arrows"}] \subseteq Request
BY DEF Request

\* A step of a request leaves the others where they are.
LEMMA StepEffect ==
    ASSUME Types, NEW r \in Requests, NEW q, Step(r, q)
    PROVE  /\ req'[r] = q
           /\ \A s \in Requests : s # r => req'[s] = req[s]
           /\ q \in Request => req' \in [Requests -> Request]
BY DEF Types, Step

\* What exists has its fields.
LEMMA Fields ==
    ASSUME Types
    PROVE  /\ \A j \in Jobs : job[j] # Unborn => job[j] \in CountedJob
           /\ \A p \in Proposals : proposal[p] # Unborn => proposal[p] \in Proposal
           /\ \A p \in Pending : proposal[p] \in Proposal
           /\ \A j \in Jobs : IsActive(j) => job[j] \in CountedJob
BY DEF Types, Pending, IsActive, Active

\* At first nothing exists, and no request is about anything.
LEMMA InitTypes == Init => Types /\ Born
<1> SUFFICES ASSUME Init PROVE Types /\ Born
  OBVIOUS
<1>1. Types
  BY Kinds DEF Init, Types
<1>2. Born
  BY DEF Init, Born, Reviewing, Discarding
<1> QED
  BY <1>1, <1>2

\* The steps of the requests keep the types.
LEMMA AdminTypes ==
    ASSUME Types, Born, NEW r \in Requests, Admin(r)
    PROVE  Types'
<1> DEFINE q == req[r]
<1>0. q \in Request
  BY DEF Types
<1> USE Kinds, StepEffect
<1>1. CASE Start(r)
  <2>1. PICK j \in Jobs :
          /\ job' = [job EXCEPT ![j] = [status |-> "pending", accepted |-> 0, discarded |-> 0]]
          /\ Step(r, [pc |-> "enqueue", job |-> j])
    BY <1>1 DEF Start
  <2>2. job' \in [Jobs -> CountedJob \cup {Unborn}]
    BY <2>1 DEF Types, CountedJob, Active
  <2> QED
    BY <1>1, <2>1, <2>2 DEF Start, Types, background, reviewed
<1>2. CASE Enqueue(r)
  BY <1>0, <1>2, Shapes DEF Enqueue, Types, reviewed
<1>3. CASE EnqueueFails(r)
  <2>2. q.job \in Jobs /\ job[q.job] \in CountedJob
    BY <1>0, <1>3, Shapes, Fields DEF EnqueueFails, Born
  <2>1. job' \in [Jobs -> CountedJob \cup {Unborn}]
    BY <1>3, <2>2 DEF EnqueueFails, Types, CountedJob
  <2> QED
    BY <1>3, <2>1 DEF EnqueueFails, Types, background, reviewed
<1>4. CASE LoadAccept(r)
  <2>1. PICK p \in Proposals :
          Step(r, [pc |-> "claim", p |-> p, draft |-> version = "draft"])
    BY <1>4 DEF LoadAccept
  <2>2. (version = "draft") \in BOOLEAN
    OBVIOUS
  <2>3. [pc |-> "claim", p |-> p, draft |-> version = "draft"] \in Request
    BY <2>1, <2>2
  <2> QED
    BY <1>4, <2>1, <2>3 DEF LoadAccept, Types, background, reviewed
<1>5. CASE Claim(r)
  <2>1. q \in [pc : {"claim", "create", "return", "link", "count"},
               p : Proposals, draft : BOOLEAN]
    BY <1>0, <1>5, Shapes DEF Claim
  <2>2. [q EXCEPT !.pc = "create"] \in Request
    BY <2>1
  <2>3. proposal' \in [Proposals -> Proposal \cup {Unborn}]
    BY <1>5, <2>1, Fields DEF Claim, CanClaim, Pending, Types, Proposal, Reviewable
  <2> QED
    BY <1>5, <2>2, <2>3 DEF Claim, Types, background
<1>6. CASE Create(r)
  <2>1. q \in [pc : {"claim", "create", "return", "link", "count"},
               p : Proposals, draft : BOOLEAN]
    BY <1>0, <1>6, Shapes DEF Create
  <2>2. [q EXCEPT !.pc = "link"] \in Request /\ [q EXCEPT !.pc = "return"] \in Request
    BY <2>1
  <2> QED
    BY <1>6, <2>2 DEF Create, Types, background, reviewed
<1>7. CASE Return(r)
  <2>1. q.p \in Proposals /\ proposal[q.p] \in Proposal
    BY <1>0, <1>7, Shapes, Fields DEF Return, Born, Reviewing
  <2>2. proposal' \in [Proposals -> Proposal \cup {Unborn}]
    BY <1>7, <2>1 DEF Return, Types, Proposal, Reviewable
  <2> QED
    BY <1>7, <2>1, <2>2 DEF Return, Types, background
<1>8. CASE Link(r)
  <2>1. q \in [pc : {"claim", "create", "return", "link", "count"},
               p : Proposals, draft : BOOLEAN]
    BY <1>0, <1>8, Shapes DEF Link
  <2>2. [q EXCEPT !.pc = "count"] \in Request
    BY <2>1
  <2>3. proposal[q.p] \in Proposal
    BY <1>8, <2>1, Fields DEF Link, Born, Reviewing
  <2>4. proposal' \in [Proposals -> Proposal \cup {Unborn}]
    BY <1>8, <2>1, <2>3 DEF Link, Types, Proposal
  <2> QED
    BY <1>8, <2>2, <2>4 DEF Link, Types, background
<1>9. CASE Count(r)
  <2>2. q.p \in Proposals /\ proposal[q.p] \in Proposal
    BY <1>0, <1>9, Shapes, Fields DEF Count, Born, Reviewing
  <2>3. proposal[q.p].job \in Jobs /\ job[proposal[q.p].job] \in CountedJob
    BY <2>2, Fields DEF Proposal, Born
  <2>1. job' \in [Jobs -> CountedJob \cup {Unborn}]
    BY <1>9, <2>3 DEF Count, Types, CountedJob
  <2> QED
    BY <1>9, <2>1 DEF Count, Types, background, reviewed
<1>10. CASE Discard(r)
  <2>1. PICK p \in Pending : /\ proposal' = [proposal EXCEPT ![p].status = "discarded"]
                             /\ Step(r, [pc |-> "discardArrows", p |-> p])
    BY <1>10 DEF Discard
  <2>2. proposal' \in [Proposals -> Proposal \cup {Unborn}]
    BY <2>1 DEF Pending, Types, Proposal, Reviewable
  <2>3. [pc |-> "discardArrows", p |-> p] \in Request
    BY <2>1 DEF Pending
  <2> QED
    BY <1>10, <2>1, <2>2, <2>3 DEF Discard, Types, background
<1>11. CASE DiscardArrows(r)
  <2>1. q \in [pc : {"discard", "discardArrows", "countDiscarded"}, p : Proposals]
    BY <1>0, <1>11, Shapes DEF DiscardArrows
  <2>2. [q EXCEPT !.pc = "countDiscarded"] \in Request
    BY <2>1
  <2>3. arrow' \in [Arrows -> Reviewable \cup {"none"}]
    BY <1>11 DEF DiscardArrows, Types, Reviewable
  <2> QED
    BY <1>11, <2>2, <2>3 DEF DiscardArrows, Types, background
<1>12. CASE CountDiscarded(r)
  <2>2. q.p \in Proposals /\ proposal[q.p] \in Proposal
    BY <1>0, <1>12, Shapes, Fields DEF CountDiscarded, Born, Discarding
  <2>3. proposal[q.p].job \in Jobs /\ job[proposal[q.p].job] \in CountedJob
    BY <2>2, Fields DEF Proposal, Born
  <2>1. job' \in [Jobs -> CountedJob \cup {Unborn}]
    BY <1>12, <2>3 DEF CountDiscarded, Types, CountedJob
  <2> QED
    BY <1>12, <2>1 DEF CountDiscarded, Types, background, reviewed
<1>13. CASE ReadEnds(r)
  BY <1>13 DEF ReadEnds, PendingArrows, Types, background, reviewed
<1>14. CASE ClaimArrow(r)
  <2>1. q \in [pc : {"claimArrow", "draw", "returnArrow", "discardArrow"}, arrow : Arrows]
    BY <1>0, <1>14, Shapes DEF ClaimArrow
  <2>2. [q EXCEPT !.pc = "draw"] \in Request
    BY <2>1
  <2>3. arrow' \in [Arrows -> Reviewable \cup {"none"}]
    BY <1>14 DEF ClaimArrow, Types, Reviewable
  <2> QED
    BY <1>14, <2>2, <2>3 DEF ClaimArrow, Types, background
<1>15. CASE Draw(r)
  <2>1. q \in [pc : {"claimArrow", "draw", "returnArrow", "discardArrow"}, arrow : Arrows]
    BY <1>0, <1>15, Shapes DEF Draw
  <2>2. [q EXCEPT !.pc = "returnArrow"] \in Request
    BY <2>1
  <2>3. drawn' \in [Arrows -> {"no", "yes", "undone"}]
    BY <1>15, <2>1 DEF Draw, Types
  <2>4. \E next \in {Idle, [q EXCEPT !.pc = "returnArrow"]} : req' = [req EXCEPT ![r] = next]
    BY <1>15 DEF Draw, Step
  <2>5. req' \in [Requests -> Request]
    BY <2>2, <2>4, Kinds DEF Types
  <2> QED
    BY <1>15, <2>3, <2>5 DEF Draw, Types, background
<1>16. CASE ReturnArrow(r)
  <2>1. q.arrow \in Arrows
    BY <1>0, <1>16, Shapes DEF ReturnArrow
  <2>2. arrow' \in [Arrows -> Reviewable \cup {"none"}]
    BY <1>16 DEF ReturnArrow, Types, Reviewable
  <2> QED
    BY <1>16, <2>1, <2>2 DEF ReturnArrow, Types, background
<1>17. CASE DiscardArrow(r)
  BY <1>17 DEF DiscardArrow, PendingArrows, Types, Reviewable, background
<1>18. CASE LoadPublish(r)
  BY <1>18 DEF LoadPublish, Types, background, reviewed
<1>19. CASE CountPending(r)
  <2>1. q \in [pc : {"guard", "publish"}, left : SUBSET {"activities", "arrows"}]
    BY <1>0, <1>19, Shapes DEF CountPending
  <2>2. PICK c \in q.left :
          Step(r, IF Counted(c) # {} THEN Idle
                  ELSE [pc |-> IF q.left = {c} THEN "publish" ELSE "guard",
                        left |-> q.left \ {c}])
    BY <1>19 DEF CountPending
  <2>3. [pc |-> IF q.left = {c} THEN "publish" ELSE "guard", left |-> q.left \ {c}] \in Request
    BY <2>1
  <2> QED
    BY <1>19, <2>2, <2>3 DEF CountPending, Types, background, reviewed
<1>20. CASE Publish(r)
  BY <1>20 DEF Publish, Types, background, reviewed
<1> QED
  BY <1>1, <1>2, <1>3, <1>4, <1>5, <1>6, <1>7, <1>8, <1>9, <1>10, <1>11, <1>12, <1>13,
     <1>14, <1>15, <1>16, <1>17, <1>18, <1>19, <1>20 DEF Admin

\* The steps of the queue and of the replicas keep them too.
LEMMA BackgroundTypes ==
    ASSUME Types, Born, NEW j \in Jobs, Queue(j) \/ Replica(j)
    PROVE  Types'
<1>1. CASE Queue(j)
  BY <1>1 DEF Queue, Take, Finish, Types, reviewed
<1>2. CASE Running(j) \/ Fail(j)
  <2>1. job' \in [Jobs -> CountedJob \cup {Unborn}]
    BY <1>2 DEF Running, Fail, CanFail, IsActive, Types, CountedJob, Active
  <2> QED
    BY <1>2, <2>1 DEF Running, Fail, Types, background, reviewed
<1>3. CASE Expire(j)
  <2>1. job' \in [Jobs -> CountedJob \cup {Unborn}]
    BY <1>3 DEF Expire, CanFail, IsActive, Types, CountedJob, Active
  <2> QED
    BY <1>3, <2>1 DEF Expire, Types, reviewed
<1>4. CASE ClaimResult(j)
  <2>1. PICK found \in SUBSET {p \in Proposals : proposal[p] = Unborn} :
          \E between \in SUBSET (Arrows \cap (found \X found)) :
            store' = [store EXCEPT ![j] =
                        [pc |-> "storing", activities |-> found, arrows |-> between,
                         supersede |-> {"activities", "arrows"}]]
    BY <1>4 DEF ClaimResult
  <2> QED
    BY <1>4, <2>1 DEF ClaimResult, Types, Storing, reviewed
<1>5. CASE IsStoring(j)
  <2>1. store[j] \in Storing
    BY <1>5 DEF IsStoring, Types, Storing
  <2>2. CASE InsertProposal(j)
    <3>1. PICK p \in store[j].activities :
            /\ proposal' = [proposal EXCEPT ![p] =
                              [status |-> "pending", job |-> j, activity |-> "none"]]
            /\ store' = [store EXCEPT ![j].activities = @ \ {p}]
            /\ LateIf(p)
      BY <2>2 DEF InsertProposal
    <3>2. p \in Proposals
      BY <2>1, <3>1 DEF Storing
    <3>3. proposal' \in [Proposals -> Proposal \cup {Unborn}]
      BY <3>1, <3>2 DEF Types, Proposal, Reviewable
    <3>4. [store[j] EXCEPT !.activities = @ \ {p}] \in Storing
      BY <2>1 DEF Storing
    <3>5. store' \in [Jobs -> Storing \cup {NotStored, [pc |-> "stored"], [pc |-> "died"]}]
      BY <3>1, <3>4 DEF Types
    <3> QED
      BY <2>2, <3>1, <3>2, <3>3, <3>5 DEF InsertProposal, Types, LateIf
  <2>3. CASE InsertArrow(j)
    <3>1. PICK a \in store[j].arrows :
            /\ arrow' = [arrow EXCEPT ![a] = "pending"]
            /\ store' = [store EXCEPT ![j].arrows = @ \ {a}]
            /\ LateIf(a)
      BY <2>3 DEF InsertArrow
    <3>2. a \in Arrows
      BY <2>1, <3>1 DEF Storing
    <3>3. [store[j] EXCEPT !.arrows = @ \ {a}] \in Storing
      BY <2>1 DEF Storing
    <3>4. store' \in [Jobs -> Storing \cup {NotStored, [pc |-> "stored"], [pc |-> "died"]}]
      BY <3>1, <3>3 DEF Types
    <3> QED
      BY <2>3, <3>1, <3>2, <3>4 DEF InsertArrow, Types, LateIf, Reviewable
  <2>4. CASE SupersedeProposals(j)
    <3>1. [store[j] EXCEPT !.supersede = @ \ {"activities"}] \in Storing
      BY <2>1 DEF Storing
    <3>2. store' \in [Jobs -> Storing \cup {NotStored, [pc |-> "stored"], [pc |-> "died"]}]
      BY <2>4, <3>1 DEF SupersedeProposals, Types
    <3>3. proposal' \in [Proposals -> Proposal \cup {Unborn}]
      BY <2>4 DEF SupersedeProposals, Pending, Types, Proposal, Reviewable
    <3> QED
      BY <2>4, <3>2, <3>3 DEF SupersedeProposals, Types
  <2>5. CASE SupersedeArrows(j)
    <3>1. [store[j] EXCEPT !.supersede = @ \ {"arrows"}] \in Storing
      BY <2>1 DEF Storing
    <3>2. store' \in [Jobs -> Storing \cup {NotStored, [pc |-> "stored"], [pc |-> "died"]}]
      BY <2>5, <3>1 DEF SupersedeArrows, Types
    <3>3. arrow' \in [Arrows -> Reviewable \cup {"none"}]
      BY <2>5 DEF SupersedeArrows, Types, Reviewable
    <3> QED
      BY <2>5, <3>2, <3>3 DEF SupersedeArrows, Types
  <2>6. CASE EndStoring(j)
    <3>2. job[j] \in CountedJob
      BY <2>1, Fields DEF Born, Storing
    <3>1. job' \in [Jobs -> CountedJob \cup {Unborn}]
      BY <2>6, <3>2 DEF EndStoring, Types, CountedJob
    <3> QED
      BY <2>6, <3>1 DEF EndStoring, Types, reviewed
  <2>7. CASE DieStoring(j)
    BY <2>7 DEF DieStoring, Types, reviewed
  <2> QED
    BY <1>1, <1>2, <1>3, <1>4, <2>2, <2>3, <2>4, <2>5, <2>6, <2>7
    DEF Replica, StoreStep
<1> QED
  BY <1>1, <1>2, <1>3, <1>4, <1>5
  DEF Replica, StoreStep, InsertProposal, InsertArrow, SupersedeProposals, SupersedeArrows,
      EndStoring, DieStoring, Inserted

\* Nothing that exists stops existing, and requests begin on what does.
LEMMA BornStays ==
    ASSUME Types, Types', Born,
           \A j \in Jobs : job[j] # Unborn => job'[j] # Unborn,
           \A j \in Jobs : store'[j] # NotStored => store[j] # NotStored \/ job[j] # Unborn,
           \A p \in Proposals : proposal[p] # Unborn => proposal'[p] # Unborn,
           \A p \in Proposals : proposal'[p] # Unborn =>
             \/ proposal[p] # Unborn /\ proposal'[p].job = proposal[p].job
             \/ job'[proposal'[p].job] # Unborn,
           \A r \in Requests :
             \/ req'[r] = req[r]
             \/ req'[r].pc \notin {"enqueue"} \cup Reviewing \cup Discarding
             \/ req'[r].pc = "enqueue" /\ job'[req'[r].job] # Unborn
             \/ req'[r].pc \in Reviewing \cup Discarding /\ proposal[req'[r].p] # Unborn
    PROVE  Born'
<1>0. \A q \in Request : q.pc = "enqueue" => q.job \in Jobs
  BY Shapes
<1>1. \A q \in Request : q.pc \in Reviewing \cup Discarding => q.p \in Proposals
  BY Shapes DEF Reviewing, Discarding
<1>2. \A r \in Requests : req[r] \in Request /\ req'[r] \in Request
  BY DEF Types
<1>3. "enqueue" \notin Reviewing \cup Discarding
  BY DEF Reviewing, Discarding
<1>4. ASSUME NEW r \in Requests, req'[r].pc = "enqueue" PROVE job'[req'[r].job] # Unborn
  BY <1>0, <1>2, <1>3, <1>4 DEF Born
<1>5. ASSUME NEW r \in Requests, req'[r].pc \in Reviewing \cup Discarding
      PROVE  proposal'[req'[r].p] # Unborn
  BY <1>1, <1>2, <1>3, <1>5 DEF Born
<1>6. ASSUME NEW p \in Proposals, proposal'[p] # Unborn PROVE job'[proposal'[p].job] # Unborn
  <2>1. CASE proposal[p] # Unborn /\ proposal'[p].job = proposal[p].job
    <3>1. proposal[p].job \in Jobs
      BY <2>1, Fields DEF Proposal
    <3> QED
      BY <2>1, <3>1 DEF Born
  <2> QED
    BY <1>6, <2>1
<1>7. ASSUME NEW j \in Jobs, store'[j] # NotStored PROVE job'[j] # Unborn
  BY <1>7 DEF Born
<1> QED
  BY <1>4, <1>5, <1>6, <1>7 DEF Born

\* A request is only ever about a proposal or a detection it found or made.
LEMMA AdminBorn ==
    ASSUME Types, Types', Born, NEW r \in Requests, Admin(r)
    PROVE  Born'
<1> DEFINE q == req[r]
<1>0. q \in Request
  BY DEF Types
<1> USE Shapes, Fields, BornStays DEF Step, Born, Reviewing, Discarding, background, reviewed
<1>1. CASE Start(r)
  BY <1>0, <1>1 DEF Start, Types, CountedJob, Proposal, Pending
<1>2. CASE Enqueue(r)
  BY <1>0, <1>2 DEF Enqueue, Types, CountedJob, Proposal, Pending
<1>3. CASE EnqueueFails(r)
  BY <1>0, <1>3 DEF EnqueueFails, Types, CountedJob, Proposal, Pending
<1>4. CASE LoadAccept(r)
  BY <1>0, <1>4 DEF LoadAccept, Types, CountedJob, Proposal, Pending
<1>5. CASE Claim(r)
  BY <1>0, <1>5 DEF Claim, Types, CountedJob, Proposal, Pending
<1>6. CASE Create(r)
  BY <1>0, <1>6 DEF Create, Types, CountedJob, Proposal, Pending
<1>7. CASE Return(r)
  BY <1>0, <1>7 DEF Return, Types, CountedJob, Proposal, Pending
<1>8. CASE Link(r)
  BY <1>0, <1>8 DEF Link, Types, CountedJob, Proposal, Pending
<1>9. CASE Count(r)
  <2>1. q.p \in Proposals /\ proposal[q.p] \in Proposal
    BY <1>0, <1>9 DEF Count
  <2>2. proposal[q.p].job \in Jobs /\ job[proposal[q.p].job] \in CountedJob
    BY <2>1 DEF Proposal
  <2>3. \A j \in Jobs : job[j] # Unborn => job'[j] # Unborn
    BY <1>9, <2>2 DEF Count, Types, CountedJob, Active
  <2> QED
    BY <1>9, <2>3 DEF Count, Types, Proposal
<1>10. CASE Discard(r)
  BY <1>0, <1>10 DEF Discard, Types, CountedJob, Proposal, Pending
<1>11. CASE DiscardArrows(r)
  BY <1>0, <1>11 DEF DiscardArrows, Types, CountedJob, Proposal, Pending
<1>12. CASE CountDiscarded(r)
  <2>1. q.p \in Proposals /\ proposal[q.p] \in Proposal
    BY <1>0, <1>12 DEF CountDiscarded
  <2>2. proposal[q.p].job \in Jobs /\ job[proposal[q.p].job] \in CountedJob
    BY <2>1 DEF Proposal
  <2>3. \A j \in Jobs : job[j] # Unborn => job'[j] # Unborn
    BY <1>12, <2>2 DEF CountDiscarded, Types, CountedJob, Active
  <2> QED
    BY <1>12, <2>3 DEF CountDiscarded, Types, Proposal
<1>13. CASE ReadEnds(r)
  BY <1>0, <1>13 DEF ReadEnds, Types, CountedJob, Proposal, Pending
<1>14. CASE ClaimArrow(r)
  BY <1>0, <1>14 DEF ClaimArrow, Types, CountedJob, Proposal, Pending
<1>15. CASE Draw(r)
  BY <1>0, <1>15 DEF Draw, Types, CountedJob, Proposal, Pending
<1>16. CASE ReturnArrow(r)
  BY <1>0, <1>16 DEF ReturnArrow, Types, CountedJob, Proposal, Pending
<1>17. CASE DiscardArrow(r)
  BY <1>0, <1>17 DEF DiscardArrow, Types, CountedJob, Proposal, Pending
<1>18. CASE LoadPublish(r)
  BY <1>0, <1>18 DEF LoadPublish, Types, CountedJob, Proposal, Pending
<1>19. CASE CountPending(r)
  BY <1>0, <1>19 DEF CountPending, Types, CountedJob, Proposal, Pending
<1>20. CASE Publish(r)
  BY <1>0, <1>20 DEF Publish, Types, CountedJob, Proposal, Pending
<1> QED
  BY <1>1, <1>2, <1>3, <1>4, <1>5, <1>6, <1>7, <1>8, <1>9, <1>10, <1>11, <1>12, <1>13,
     <1>14, <1>15, <1>16, <1>17, <1>18, <1>19, <1>20 DEF Admin

\* What a replica inserts names the detection whose result it stores.
LEMMA BackgroundBorn ==
    ASSUME Types, Types', Born, NEW j \in Jobs, Queue(j) \/ Replica(j)
    PROVE  Born'
<1>1. CASE Queue(j)
  BY <1>1, BornStays DEF Queue, Take, Finish, reviewed
<1>2. CASE Running(j) \/ Fail(j) \/ Expire(j)
  <2>1. job[j] \in CountedJob
    BY <1>2, Fields DEF Running, Fail, Expire, CanFail, Types
  <2>2. \A i \in Jobs : job[i] # Unborn => job'[i] # Unborn
    BY <1>2, <2>1 DEF Running, Fail, Expire, Types, CountedJob, Active
  <2> QED
    BY <1>2, <2>2, BornStays DEF Running, Fail, Expire, background, reviewed
<1>3. CASE ClaimResult(j)
  <2>1. job[j] # Unborn
    BY <1>3 DEF ClaimResult, CanStore, IsActive, Active
  <2>2. \A i \in Jobs : i # j => store'[i] = store[i]
    BY <1>3 DEF ClaimResult, Types
  <2> QED
    BY <1>3, <2>1, <2>2, BornStays DEF ClaimResult, reviewed
<1>4. CASE IsStoring(j)
  <2>1. job[j] # Unborn /\ job[j] \in CountedJob /\ store[j] # NotStored
    BY <1>4, Fields DEF IsStoring, Born
  <2>2. CASE InsertProposal(j)
    BY <2>1, <2>2, BornStays DEF InsertProposal, Types, Storing
  <2>3. CASE InsertArrow(j)
    BY <2>1, <2>3, BornStays DEF InsertArrow, Types
  <2>4. CASE SupersedeProposals(j)
    <3>1. \A p \in Proposals : proposal[p] # Unborn =>
            proposal'[p] # Unborn /\ proposal'[p].job = proposal[p].job
      BY <2>4, Fields DEF SupersedeProposals, Proposal
    <3>2. \A p \in Proposals : proposal'[p] # Unborn => proposal[p] # Unborn
      BY <2>4 DEF SupersedeProposals, Pending
    <3> QED
      BY <2>1, <2>4, <3>1, <3>2, BornStays DEF SupersedeProposals, Types
  <2>5. CASE SupersedeArrows(j)
    BY <2>1, <2>5, BornStays DEF SupersedeArrows, Types
  <2>6. CASE EndStoring(j)
    <3>1. \A i \in Jobs : job[i] # Unborn => job'[i] # Unborn
      BY <2>1, <2>6 DEF EndStoring, Types, CountedJob
    <3> QED
      BY <2>1, <2>6, <3>1, BornStays DEF EndStoring, Types, reviewed
  <2>7. CASE DieStoring(j)
    BY <2>1, <2>7, BornStays DEF DieStoring, Types, reviewed
  <2> QED
    BY <1>1, <1>2, <1>3, <1>4, <2>2, <2>3, <2>4, <2>5, <2>6, <2>7
    DEF Replica, StoreStep
<1> QED
  BY <1>1, <1>2, <1>3, <1>4
  DEF Replica, StoreStep, InsertProposal, InsertArrow, SupersedeProposals, SupersedeArrows,
      EndStoring, DieStoring, Inserted

\* The editor.
LEMMA EditorTypes ==
    ASSUME Types, Born, RemoveActivity
    PROVE  Types' /\ Born'
<1>1. PICK p \in Proposals :
        /\ Made(p)
        /\ proposal' = [proposal EXCEPT ![p].activity = "removed"]
        /\ drawn' = [a \in Arrows |-> IF p \in {a[1], a[2]} THEN "no" ELSE drawn[a]]
  BY DEF RemoveActivity
<1>2. proposal[p] \in Proposal
  BY <1>1, Fields DEF Made, Types
<1>3. Types'
  BY <1>1, <1>2 DEF RemoveActivity, Types, Proposal, background
<1>4. Born'
  BY <1>1, <1>2, <1>3, BornStays DEF RemoveActivity, Types, Proposal, background
<1> QED
  BY <1>3, <1>4

\* A PATCH touches the transitions and nothing else.
LEMMA EditNextLeaves ==
    ASSUME Types, EditNext
    PROVE  /\ drawn' \in [Arrows -> {"no", "yes", "undone"}]
           /\ UNCHANGED <<version, job, queue, store, proposal, arrow, late, req>>
BY DEF EditNext, Types, background

\* The shapes of the documents and of the requests, and that what they are about exists.
THEOREM DocumentsTyped == Spec => [](Types /\ Born)
<1>1. Init => Types /\ Born
  BY InitTypes
<1>2. Types /\ Born /\ [Next]_vars => (Types /\ Born)'
  <2> SUFFICES ASSUME Types, Born, [Next]_vars PROVE Types' /\ Born'
    OBVIOUS
  <2>1. CASE \E j \in Jobs : Queue(j) \/ Replica(j)
    BY <2>1, BackgroundTypes, BackgroundBorn
  <2>2. CASE \E r \in Requests : Admin(r)
    BY <2>2, AdminTypes, AdminBorn
  <2>3. CASE RemoveActivity
    BY <2>3, EditorTypes
  <2>4. CASE UNCHANGED vars
    BY <2>4 DEF vars, Types, Born
  <2>5. CASE EditNext
    BY <2>5, EditNextLeaves DEF Types, Born
  <2> QED
    BY <2>1, <2>2, <2>3, <2>4, <2>5 DEF Next
<1> QED
  BY <1>1, <1>2, PTL DEF Spec

-----------------------------------------------------------------------------
(* Jobs *)

\* A job that was not enqueued yet has one request that will; a result is stored of a
\* completed job, and while it is, that job is the active one.
JobInv ==
    /\ \A r \in Requests : req[r].pc = "enqueue" => queue[req[r].job] = "out"
    /\ \A r, s \in Requests :
         req[r].pc = "enqueue" /\ req[s].pc = "enqueue" /\ req[r].job = req[s].job => r = s
    /\ \A j \in Jobs : job[j] = Unborn => queue[j] = "out"
    /\ \A j \in Jobs : store[j] # NotStored => queue[j] = "completed"
    /\ StoringNotFailed
    /\ \A i, j \in Jobs : IsActive(i) /\ IsActive(j) => i = j
    /\ \A j \in Jobs : IsStoring(j) => IsActive(j)

\* What reviews and publishes leaves the jobs where they are.
LEMMA JobInvStays ==
    ASSUME Types, Types', JobInv, UNCHANGED background,
           \A j \in Jobs : job'[j].status = job[j].status /\ (job'[j] = Unborn <=> job[j] = Unborn),
           \A r \in Requests : req'[r] = req[r] \/ req'[r].pc # "enqueue"
    PROVE  JobInv'
<1>1. queue' = queue /\ store' = store
  BY DEF background
<1>2. \A r \in Requests : req'[r].pc = "enqueue" => req'[r] = req[r]
  OBVIOUS
<1> QED
  BY <1>1, <1>2 DEF JobInv, StoringNotFailed, IsActive, IsStoring

\* A request starts a detection only while none is active, and fails only the one it
\* could not enqueue, which no worker has.
LEMMA AdminJobs ==
    ASSUME Types, Types', Born, JobInv, NEW r \in Requests, Admin(r)
    PROVE  JobInv'
<1> DEFINE q == req[r]
<1>0. q \in Request
  BY DEF Types
<1>1. CASE Start(r)
  <2>1. PICK j \in Jobs :
          /\ job[j] = Unborn
          /\ job' = [job EXCEPT ![j] = [status |-> "pending", accepted |-> 0, discarded |-> 0]]
          /\ Step(r, [pc |-> "enqueue", job |-> j])
    BY <1>1 DEF Start
  <2>2. queue' = queue /\ store' = store /\ queue[j] = "out" /\ store[j] = NotStored
    BY <1>1, <2>1 DEF Start, background, Born, JobInv
  <2>3. \A s \in Requests : req[s].pc = "enqueue" => req[s].job # j
    BY <2>1 DEF Born
  <2>4. \A i \in Jobs : i # j => job'[i] = job[i] /\ ~IsActive(i)
    BY <1>1, <2>1 DEF Start, Types
  <2>5. job'[j].status = "pending" /\ job'[j] # Unborn
    BY <2>1 DEF Types
  <2>6. req'[r] = [pc |-> "enqueue", job |-> j] /\ \A s \in Requests : s # r => req'[s] = req[s]
    BY <2>1, StepEffect
  <2> QED
    BY <2>2, <2>3, <2>4, <2>5, <2>6 DEF JobInv, StoringNotFailed, IsActive, IsStoring, Active
<1>2. CASE Enqueue(r)
  <2>1. q.job \in Jobs /\ q.pc = "enqueue"
    BY <1>0, <1>2, Shapes DEF Enqueue
  <2>2. job[q.job] # Unborn /\ store[q.job] = NotStored
    BY <2>1 DEF Born, JobInv
  <2>3. req'[r] = Idle /\ \A s \in Requests : s # r => req'[s] = req[s]
    BY <1>2, StepEffect DEF Enqueue
  <2>4. \A s \in Requests : req'[s].pc = "enqueue" =>
          s # r /\ req'[s] = req[s] /\ req[s].job # q.job
    BY <2>1, <2>3 DEF JobInv
  <2>5. \A i \in Jobs : i # q.job => queue'[i] = queue[i]
    BY <1>2 DEF Enqueue, Types
  <2>6. job' = job /\ store' = store
    BY <1>2 DEF Enqueue
  <2>7. \A s \in Requests : req[s].pc = "enqueue" => req[s].job \in Jobs
    BY Shapes DEF Types
  <2> QED
    BY <2>2, <2>4, <2>5, <2>6, <2>7 DEF JobInv, StoringNotFailed, IsActive, IsStoring
<1>3. CASE EnqueueFails(r)
  <2>1. q.job \in Jobs /\ q.pc = "enqueue"
    BY <1>0, <1>3, Shapes DEF EnqueueFails
  <2>2. job[q.job] \in CountedJob /\ store[q.job] = NotStored
    BY <2>1, Fields DEF Born, JobInv
  <2>3. req'[r] = Idle /\ \A s \in Requests : s # r => req'[s] = req[s]
    BY <1>3, StepEffect DEF EnqueueFails
  <2>4. queue' = queue /\ store' = store
    BY <1>3 DEF EnqueueFails, background
  <2>5. \A i \in Jobs : i # q.job => job'[i] = job[i]
    BY <1>3 DEF EnqueueFails, Types
  <2>6. job'[q.job].status = "failed" /\ job'[q.job] # Unborn
    BY <1>3, <2>1, <2>2 DEF EnqueueFails, Types, CountedJob
  <2> QED
    BY <2>2, <2>3, <2>4, <2>5, <2>6 DEF JobInv, StoringNotFailed, IsActive, IsStoring, Active
<1>4. CASE Count(r) \/ CountDiscarded(r)
  <2>1. q.p \in Proposals /\ proposal[q.p] # Unborn
    BY <1>0, <1>4, Shapes DEF Count, CountDiscarded, Born, Reviewing, Discarding
  <2>2. proposal[q.p].job \in Jobs /\ job[proposal[q.p].job] \in CountedJob
    BY <2>1, Fields DEF Proposal, Born
  <2>3. \A j \in Jobs :
          job'[j].status = job[j].status /\ (job'[j] = Unborn <=> job[j] = Unborn)
    BY <1>4, <2>2 DEF Count, CountDiscarded, Types, CountedJob, Active
  <2>4. \A s \in Requests : req'[s] = req[s] \/ req'[s].pc # "enqueue"
    BY <1>4, StepEffect DEF Count, CountDiscarded
  <2> QED
    BY <1>4, <2>3, <2>4, JobInvStays DEF Count, CountDiscarded
<1>5. CASE LoadAccept(r) \/ Claim(r) \/ Create(r) \/ Return(r) \/ Link(r) \/ Discard(r)
           \/ DiscardArrows(r) \/ ReadEnds(r) \/ ClaimArrow(r) \/ Draw(r) \/ ReturnArrow(r)
           \/ DiscardArrow(r) \/ LoadPublish(r) \/ CountPending(r) \/ Publish(r)
  <2>1. job' = job /\ UNCHANGED background
    BY <1>5 DEF LoadAccept, Claim, Create, Return, Link, Discard, DiscardArrows, ReadEnds,
       ClaimArrow, Draw, ReturnArrow, DiscardArrow, LoadPublish, CountPending, Publish
  <2>2. req'[r] = req[r] \/ req'[r].pc # "enqueue"
    BY <1>5, <1>0, Shapes DEF LoadAccept, Claim, Create, Return, Link, Discard, DiscardArrows,
       ReadEnds, ClaimArrow, Draw, ReturnArrow, DiscardArrow, LoadPublish, CountPending,
       Publish, Step, Types
  <2>3. \A s \in Requests : s # r => req'[s] = req[s]
    BY <1>5, StepEffect DEF LoadAccept, Claim, Create, Return, Link, Discard, DiscardArrows,
       ReadEnds, ClaimArrow, Draw, ReturnArrow, DiscardArrow, LoadPublish, CountPending,
       Publish
  <2> QED
    BY <2>1, <2>2, <2>3, JobInvStays
<1> QED
  BY <1>1, <1>2, <1>3, <1>4, <1>5 DEF Admin

\* Each handler of an event, and the sweep, looks at storingAt before it fails a job.
LEMMA BackgroundJobs ==
    ASSUME Types, Types', Born, JobInv, NEW j \in Jobs, Queue(j) \/ Replica(j)
    PROVE  JobInv'
<1>0. \A s \in Requests : req[s].pc = "enqueue" => req[s].job \in Jobs
  BY Shapes DEF Types
<1>1. CASE Queue(j)
  <2>1. job' = job /\ store' = store /\ req' = req
    BY <1>1 DEF Queue, Take, Finish
  <2>2. queue[j] \in {"waiting", "active"} /\ \A i \in Jobs : i # j => queue'[i] = queue[i]
    BY <1>1 DEF Queue, Take, Finish, Types
  <2>3. job[j] # Unborn /\ store[j] = NotStored /\
        \A s \in Requests : req[s].pc = "enqueue" => req[s].job # j
    BY <2>2 DEF JobInv
  <2> QED
    BY <1>0, <2>1, <2>2, <2>3 DEF JobInv, StoringNotFailed, IsActive, IsStoring
<1>2. CASE Running(j)
  <2>1. job[j] \in CountedJob
    BY <1>2, Fields DEF Running, Types
  <2>2. \A i \in Jobs : i # j => job'[i] = job[i]
    BY <1>2 DEF Running, Types
  <2>3. job[j].status = "pending" /\ job'[j].status = "running" /\ job'[j] # Unborn
    BY <1>2, <2>1 DEF Running, Types, CountedJob
  <2>4. queue' = queue /\ store' = store /\ req' = req
    BY <1>2 DEF Running, background
  <2> QED
    BY <2>1, <2>2, <2>3, <2>4 DEF JobInv, StoringNotFailed, IsActive, IsStoring, Active, CountedJob
<1>3. CASE Fail(j) \/ Expire(j)
  <2>1. store[j] = NotStored /\ job[j] \in CountedJob
    BY <1>3, Fields DEF Fail, Expire, CanFail
  <2>2. \A i \in Jobs : i # j => job'[i] = job[i] /\ queue'[i] = queue[i]
    BY <1>3 DEF Fail, Expire, Types, background
  <2>3. job'[j].status = "failed" /\ job'[j] # Unborn
    BY <1>3, <2>1 DEF Fail, Expire, Types, CountedJob
  <2>4. queue'[j] \in {queue[j], "out"} /\ store' = store /\ req' = req
    BY <1>3 DEF Fail, Expire, Types, background
  <2> QED
    BY <1>0, <2>1, <2>2, <2>3, <2>4 DEF JobInv, StoringNotFailed, IsActive, IsStoring, Active
<1>4. CASE ClaimResult(j)
  <2>1. queue[j] = "completed" /\ IsActive(j)
    BY <1>4 DEF ClaimResult, CanStore
  <2>2. \A i \in Jobs : i # j => store'[i] = store[i]
    BY <1>4 DEF ClaimResult, Types
  <2>3. job' = job /\ queue' = queue /\ req' = req
    BY <1>4 DEF ClaimResult
  <2> QED
    BY <2>1, <2>2, <2>3 DEF JobInv, StoringNotFailed, IsActive, IsStoring, Active
<1>5. CASE InsertProposal(j) \/ InsertArrow(j) \/ SupersedeProposals(j) \/ SupersedeArrows(j)
           \/ DieStoring(j)
  <2>1. IsStoring(j)
    BY <1>5 DEF InsertProposal, InsertArrow, SupersedeProposals, SupersedeArrows, DieStoring,
       Inserted
  <2>2. store[j] # NotStored
    BY <2>1 DEF IsStoring
  <2>3. \A i \in Jobs : i # j => store'[i] = store[i]
    BY <1>5 DEF InsertProposal, InsertArrow, SupersedeProposals, SupersedeArrows, DieStoring, Types
  <2>4. job' = job /\ queue' = queue /\ req' = req
    BY <1>5 DEF InsertProposal, InsertArrow, SupersedeProposals, SupersedeArrows, DieStoring
  <2> QED
    BY <2>1, <2>2, <2>3, <2>4 DEF JobInv, StoringNotFailed, IsActive, IsStoring
<1>6. CASE EndStoring(j)
  <2>1. IsStoring(j) /\ store[j] # NotStored
    BY <1>6 DEF EndStoring, Inserted, IsStoring
  <2>2. job[j] \in CountedJob
    BY <2>1, Fields DEF Born
  <2>3. job'[j].status = "done" /\ job'[j] # Unborn /\ store'[j] = [pc |-> "stored"]
    BY <1>6, <2>2 DEF EndStoring, Types, CountedJob
  <2>4. \A i \in Jobs : i # j => job'[i] = job[i] /\ store'[i] = store[i]
    BY <1>6 DEF EndStoring, Types
  <2>5. queue' = queue /\ req' = req
    BY <1>6 DEF EndStoring
  <2> QED
    BY <2>1, <2>3, <2>4, <2>5 DEF JobInv, StoringNotFailed, IsActive, IsStoring, Active
<1> QED
  BY <1>1, <1>2, <1>3, <1>4, <1>5, <1>6 DEF Replica, StoreStep

\* A detection whose result is being stored, or was, is never failed: not by a failure
\* that arrives late in another replica, by a sweep, or by the request that enqueues it.
THEOREM JobsAreRight == Spec => []JobInv
<1>1. Init => JobInv
  BY DEF Init, JobInv, StoringNotFailed, IsActive, IsStoring, Active
<1>2. (Types /\ Born) /\ (Types /\ Born)' /\ JobInv /\ [Next]_vars => JobInv'
  <2> SUFFICES ASSUME Types, Types', Born, JobInv, [Next]_vars PROVE JobInv'
    OBVIOUS
  <2>1. CASE \E j \in Jobs : Queue(j) \/ Replica(j)
    BY <2>1, BackgroundJobs
  <2>2. CASE \E r \in Requests : Admin(r)
    BY <2>2, AdminJobs
  <2>3. CASE RemoveActivity
    BY <2>3, JobInvStays DEF RemoveActivity
  <2>4. CASE UNCHANGED vars
    BY <2>4, JobInvStays DEF vars, background
  <2>5. CASE EditNext
    BY <2>5, JobInvStays DEF EditNext
  <2> QED
    BY <2>1, <2>2, <2>3, <2>4, <2>5 DEF Next
<1> QED
  BY <1>1, <1>2, DocumentsTyped, PTL DEF Spec

\* StoringNotFailed, the part of it a run checks.
THEOREM StoredIsNotFailed == Spec => []StoringNotFailed
<1>1. JobInv => StoringNotFailed
  BY DEF JobInv
<1> QED
  BY <1>1, JobsAreRight, PTL

-----------------------------------------------------------------------------
(* Acceptances *)

Making == {"create", "return", "link"}
Makes(r, p) == req[r].pc \in Making /\ req[r].p = p

\* A proposal without its activity is accepted when, and only when, one request is at
\* it; what a detection has still to insert is not yet there.
ReviewInv ==
    /\ \A j \in Jobs : IsStoring(j) => \A p \in store[j].activities : proposal[p] = Unborn
    /\ \A r \in Requests, p \in Proposals :
         Makes(r, p) => proposal[p].status = "accepted" /\ proposal[p].activity = "none"
    /\ \A r, s \in Requests, p \in Proposals : Makes(r, p) /\ Makes(s, p) => r = s
    /\ \A p \in Proposals :
         proposal[p].status = "accepted" /\ proposal[p].activity = "none" =>
           \E r \in Requests : Makes(r, p)
    /\ \A p \in Pending : proposal[p].activity = "none"

\* What leaves the proposals as they are, and begins no acceptance.
LEMMA ReviewStays ==
    ASSUME ReviewInv, proposal' = proposal,
           \A j \in Jobs : IsStoring(j)' => IsStoring(j) /\ store'[j].activities = store[j].activities,
           \A r \in Requests, p \in Proposals : Makes(r, p)' <=> Makes(r, p)
    PROVE  ReviewInv'
BY DEF ReviewInv, Pending

\* A change of one proposal that exists.
LEMMA ReviewOfOne ==
    ASSUME Types, ReviewInv, NEW p \in Proposals, NEW new \in Proposal,
           proposal[p] # Unborn, proposal' = [proposal EXCEPT ![p] = new], store' = store,
           \A r \in Requests, o \in Proposals : o # p => (Makes(r, o)' <=> Makes(r, o)),
           \A r \in Requests : Makes(r, p)' => new.status = "accepted" /\ new.activity = "none",
           \A r, s \in Requests : Makes(r, p)' /\ Makes(s, p)' => r = s,
           new.status = "accepted" /\ new.activity = "none" => \E r \in Requests : Makes(r, p)',
           new.status = "pending" => new.activity = "none"
    PROVE  ReviewInv'
<1>1. proposal'[p] = new /\ \A o \in Proposals : o # p => proposal'[o] = proposal[o]
  BY DEF Types
<1>2. \A j \in Jobs : IsStoring(j)' =>
        IsStoring(j) /\ store'[j].activities = store[j].activities /\ store[j].activities \subseteq Proposals
  BY DEF IsStoring, Types, Storing
<1>3. \A j \in Jobs : IsStoring(j)' => \A o \in store'[j].activities : proposal'[o] = Unborn
  BY <1>1, <1>2 DEF ReviewInv
<1>4. \A r \in Requests, o \in Proposals :
        Makes(r, o)' => proposal'[o].status = "accepted" /\ proposal'[o].activity = "none"
  BY <1>1 DEF ReviewInv
<1>5. \A r, s \in Requests, o \in Proposals : Makes(r, o)' /\ Makes(s, o)' => r = s
  BY DEF ReviewInv
<1>6. ASSUME NEW o \in Proposals, proposal'[o].status = "accepted", proposal'[o].activity = "none"
      PROVE  \E r \in Requests : Makes(r, o)'
  <2>1. CASE o = p
    BY <1>1, <1>6, <2>1
  <2>2. CASE o # p
    BY <1>1, <1>6, <2>2 DEF ReviewInv
  <2> QED
    BY <2>1, <2>2
<1>7. \A o \in Pending' : proposal'[o].activity = "none"
  BY <1>1 DEF ReviewInv, Pending
<1> QED
  BY <1>3, <1>4, <1>5, <1>6, <1>7 DEF ReviewInv

\* A claim finds the proposal pending, and only the request that claimed it gives it back
\* or links its activity.
LEMMA AdminReview ==
    ASSUME Types, Types', Born, ReviewInv, NEW r \in Requests, Admin(r)
    PROVE  ReviewInv'
<1> DEFINE q == req[r]
<1>0. q \in Request
  BY DEF Types
<1>1. CASE Claim(r)
  <2>1. q.pc = "claim" /\ q.p \in Proposals /\ proposal[q.p] \in Proposal
    BY <1>0, <1>1, Shapes, Fields DEF Claim, Born, Reviewing
  <2>0. PICK p \in Proposals : p = q.p
    BY <2>1
  <2>2. \A s \in Requests : s # r => req'[s] = req[s]
    BY <1>1, StepEffect DEF Claim
  <2>3. CASE CanClaim(p)
    <3> DEFINE new == [proposal[p] EXCEPT !.status = "accepted"]
    <3>1. proposal' = [proposal EXCEPT ![p] = new] /\ store' = store
      BY <1>1, <2>0, <2>3 DEF Claim, background
    <3>2. new \in Proposal /\ new.status = "accepted" /\ new.activity = "none"
      BY <2>0, <2>1, <2>3 DEF CanClaim, Proposal, Reviewable, ReviewInv, Pending
    <3>3. req'[r].pc = "create" /\ req'[r].p = p
      BY <1>0, <1>1, <2>0, <2>1, <2>3, StepEffect, Shapes DEF Claim
    <3>4. \A s \in Requests : ~Makes(s, p)
      BY <2>0, <2>1, <2>3 DEF ReviewInv, CanClaim
    <3>5. \A s \in Requests : Makes(s, p)' <=> s = r
      BY <2>2, <3>3, <3>4 DEF Makes, Making
    <3>6. \A s \in Requests, o \in Proposals : o # p => (Makes(s, o)' <=> Makes(s, o))
      BY <2>0, <2>1, <2>2, <3>3 DEF Makes
    <3>7. proposal[p] # Unborn
      BY <2>0, <2>3 DEF CanClaim
    <3> HIDE DEF new
    <3> QED
      BY <2>0, <2>1, <3>1, <3>2, <3>5, <3>6, <3>7, ReviewOfOne
  <2>4. CASE ~CanClaim(p)
    <3>1. proposal' = proposal /\ store' = store /\ req'[r] = Idle
      BY <1>1, <2>0, <2>4, StepEffect DEF Claim, background
    <3>2. \A s \in Requests, o \in Proposals : Makes(s, o)' <=> Makes(s, o)
      BY <2>0, <2>1, <2>2, <3>1 DEF Makes, Making
    <3> QED
      BY <3>1, <3>2, ReviewStays DEF IsStoring
  <2> QED
    BY <2>3, <2>4
<1>2. CASE Create(r)
  <2>1. q.pc = "create" /\ req'[r].pc \in Making /\ req'[r].p = q.p
    BY <1>0, <1>2, StepEffect, Shapes DEF Create, Making
  <2>2. \A s \in Requests : s # r => req'[s] = req[s]
    BY <1>2, StepEffect DEF Create
  <2>3. \A s \in Requests, o \in Proposals : Makes(s, o)' <=> Makes(s, o)
    BY <2>1, <2>2 DEF Makes, Making
  <2> QED
    BY <1>2, <2>3, ReviewStays DEF Create, background, reviewed, IsStoring
<1>3. CASE Return(r)
  <2>1. q.pc = "return" /\ q.p \in Proposals /\ proposal[q.p] \in Proposal
        /\ proposal[q.p] # Unborn
    BY <1>0, <1>3, Shapes, Fields DEF Return, Born, Reviewing
  <2>0. PICK p \in Proposals : p = q.p
    BY <2>1
  <2> DEFINE new == [proposal[p] EXCEPT !.status = "pending"]
  <2>2. proposal' = [proposal EXCEPT ![p] = new] /\ store' = store
    BY <1>3, <2>0 DEF Return, background
  <2>3. proposal[p].activity = "none"
    BY <2>0, <2>1 DEF ReviewInv, Makes, Making
  <2>4. new \in Proposal /\ new.status = "pending" /\ new.activity = "none"
    BY <2>0, <2>1, <2>3 DEF Proposal, Reviewable
  <2>5. req'[r] = Idle /\ \A s \in Requests : s # r => req'[s] = req[s]
    BY <1>3, StepEffect DEF Return
  <2>6. \A s \in Requests : ~Makes(s, p)'
    BY <2>0, <2>1, <2>5 DEF ReviewInv, Makes, Making
  <2>7. \A s \in Requests, o \in Proposals : o # p => (Makes(s, o)' <=> Makes(s, o))
    BY <2>0, <2>1, <2>5 DEF Makes, Making
  <2> HIDE DEF new
  <2> QED
    BY <2>0, <2>1, <2>2, <2>4, <2>6, <2>7, ReviewOfOne
<1>4. CASE Link(r)
  <2>1. q.pc = "link" /\ q.p \in Proposals /\ proposal[q.p] \in Proposal
        /\ proposal[q.p] # Unborn
    BY <1>0, <1>4, Shapes, Fields DEF Link, Born, Reviewing
  <2>0. PICK p \in Proposals : p = q.p
    BY <2>1
  <2> DEFINE new == [proposal[p] EXCEPT !.activity = "made"]
  <2>2. proposal' = [proposal EXCEPT ![p] = new] /\ store' = store
    BY <1>4, <2>0 DEF Link, background
  <2>3. proposal[p].status = "accepted"
    BY <2>0, <2>1 DEF ReviewInv, Makes, Making
  <2>4. new \in Proposal /\ new.status = "accepted" /\ new.activity = "made"
    BY <2>0, <2>1, <2>3 DEF Proposal
  <2>5. req'[r].pc = "count" /\ \A s \in Requests : s # r => req'[s] = req[s]
    BY <1>0, <1>4, StepEffect, Shapes DEF Link
  <2>6. \A s \in Requests : ~Makes(s, p)'
    BY <2>0, <2>1, <2>5 DEF ReviewInv, Makes, Making
  <2>7. \A s \in Requests, o \in Proposals : o # p => (Makes(s, o)' <=> Makes(s, o))
    BY <2>0, <2>1, <2>5 DEF Makes, Making
  <2> HIDE DEF new
  <2> QED
    BY <2>0, <2>1, <2>2, <2>4, <2>6, <2>7, ReviewOfOne
<1>5. CASE Discard(r)
  <2>1. PICK p \in Pending : /\ proposal' = [proposal EXCEPT ![p].status = "discarded"]
                             /\ Step(r, [pc |-> "discardArrows", p |-> p])
    BY <1>5 DEF Discard
  <2>2. p \in Proposals /\ proposal[p] \in Proposal /\ proposal[p] # Unborn
    BY <2>1, Fields DEF Pending
  <2> DEFINE new == [proposal[p] EXCEPT !.status = "discarded"]
  <2>3. proposal' = [proposal EXCEPT ![p] = new] /\ store' = store
    BY <1>5, <2>1 DEF Discard, background
  <2>4. new \in Proposal /\ new.status = "discarded"
    BY <2>2 DEF Proposal, Reviewable
  <2>5. req'[r].pc = "discardArrows" /\ q = Idle /\ \A s \in Requests : s # r => req'[s] = req[s]
    BY <1>5, <2>1, StepEffect DEF Discard
  <2>6. \A s \in Requests : ~Makes(s, p)
    BY <2>1, <2>2 DEF ReviewInv, Pending
  <2>7. \A s \in Requests, o \in Proposals : Makes(s, o)' <=> Makes(s, o)
    BY <2>5 DEF Makes, Making
  <2> HIDE DEF new
  <2> QED
    BY <2>2, <2>3, <2>4, <2>6, <2>7, ReviewOfOne
<1>6. CASE Start(r) \/ Enqueue(r) \/ EnqueueFails(r) \/ LoadAccept(r) \/ Count(r)
           \/ DiscardArrows(r) \/ CountDiscarded(r) \/ ReadEnds(r) \/ ClaimArrow(r) \/ Draw(r)
           \/ ReturnArrow(r) \/ DiscardArrow(r) \/ LoadPublish(r) \/ CountPending(r) \/ Publish(r)
  <2>1. proposal' = proposal /\ store' = store
    BY <1>6 DEF Start, Enqueue, EnqueueFails, LoadAccept, Count, DiscardArrows, CountDiscarded,
       ReadEnds, ClaimArrow, Draw, ReturnArrow, DiscardArrow, LoadPublish, CountPending,
       Publish, background, reviewed
  <2>2. req'[r] = req[r] \/ (req'[r].pc \notin Making /\ req[r].pc \notin Making)
    BY <1>6, <1>0, Shapes DEF Start, Enqueue, EnqueueFails, LoadAccept, Count, DiscardArrows,
       CountDiscarded, ReadEnds, ClaimArrow, Draw, ReturnArrow, DiscardArrow, LoadPublish,
       CountPending, Publish, Step, Types, Making
  <2>3. \A s \in Requests : s # r => req'[s] = req[s]
    BY <1>6, StepEffect DEF Start, Enqueue, EnqueueFails, LoadAccept, Count, DiscardArrows,
       CountDiscarded, ReadEnds, ClaimArrow, Draw, ReturnArrow, DiscardArrow, LoadPublish,
       CountPending, Publish
  <2>4. \A s \in Requests, o \in Proposals : Makes(s, o)' <=> Makes(s, o)
    BY <2>2, <2>3 DEF Makes
  <2> QED
    BY <2>1, <2>4, ReviewStays DEF IsStoring
<1> QED
  BY <1>1, <1>2, <1>3, <1>4, <1>5, <1>6 DEF Admin

\* A result inserts proposals nobody has reviewed, and supersedes only pending ones.
LEMMA BackgroundReview ==
    ASSUME Types, Types', Born, JobInv, ReviewInv, NEW j \in Jobs, Queue(j) \/ Replica(j)
    PROVE  ReviewInv'
<1>0. req' = req
  BY DEF Queue, Take, Finish, Replica, Running, Fail, Expire, StoreStep, ClaimResult,
     InsertProposal, InsertArrow, SupersedeProposals, SupersedeArrows, EndStoring, DieStoring
<1>1. \A s \in Requests, o \in Proposals : Makes(s, o)' <=> Makes(s, o)
  BY <1>0 DEF Makes
<1>2. CASE Queue(j) \/ Running(j) \/ Fail(j) \/ Expire(j)
  BY <1>1, <1>2, ReviewStays
  DEF Queue, Take, Finish, Running, Fail, Expire, background, reviewed, IsStoring
<1>3. CASE ClaimResult(j)
  <2>1. proposal' = proposal /\ \A i \in Jobs : i # j => store'[i] = store[i]
    BY <1>3 DEF ClaimResult, reviewed, Types
  <2>2. \A p \in store'[j].activities : proposal[p] = Unborn
    BY <1>3 DEF ClaimResult, Types
  <2> QED
    BY <1>1, <2>1, <2>2 DEF ReviewInv, IsStoring, Pending
<1>4. CASE InsertProposal(j)
  <2>1. PICK p \in store[j].activities :
          /\ proposal' = [proposal EXCEPT ![p] =
                            [status |-> "pending", job |-> j, activity |-> "none"]]
          /\ store' = [store EXCEPT ![j].activities = @ \ {p}]
    BY <1>4 DEF InsertProposal
  <2>2. IsStoring(j) /\ store[j] \in Storing /\ p \in Proposals /\ proposal[p] = Unborn
    BY <1>4, <2>1 DEF InsertProposal, IsStoring, Types, Storing, ReviewInv
  <2>3. /\ proposal'[p].status = "pending" /\ proposal'[p].activity = "none"
        /\ \A o \in Proposals : o # p => proposal'[o] = proposal[o]
    BY <2>1, <2>2 DEF Types
  <2>4. \A i \in Jobs : i # j => ~IsStoring(i) /\ store'[i] = store[i]
    BY <2>1, <2>2 DEF JobInv, Types
  <2>5. store'[j].activities = store[j].activities \ {p} /\ store[j].activities \subseteq Proposals
    BY <2>1, <2>2 DEF Storing, Types
  <2>6. \A i \in Jobs : IsStoring(i)' => \A o \in store'[i].activities : proposal'[o] = Unborn
    BY <2>2, <2>3, <2>4, <2>5 DEF ReviewInv, IsStoring
  <2>7. \A s \in Requests : ~Makes(s, p)
    BY <2>2 DEF ReviewInv
  <2>8. \A s \in Requests, o \in Proposals :
          Makes(s, o)' => proposal'[o].status = "accepted" /\ proposal'[o].activity = "none"
    BY <1>1, <2>3, <2>7 DEF ReviewInv
  <2>9. \A o \in Proposals : proposal'[o].status = "accepted" /\ proposal'[o].activity = "none" =>
          \E s \in Requests : Makes(s, o)'
    BY <1>1, <2>3 DEF ReviewInv
  <2>10. \A o \in Pending' : proposal'[o].activity = "none"
    BY <2>3 DEF ReviewInv, Pending
  <2> QED
    BY <1>1, <2>6, <2>8, <2>9, <2>10 DEF ReviewInv
<1>5. CASE SupersedeProposals(j)
  <2>1. store[j] \in Storing /\ IsStoring(j)
    BY <1>5 DEF SupersedeProposals, Inserted, IsStoring, Types, Storing
  <2>2. \A i \in Jobs : IsStoring(i)' => IsStoring(i) /\ store'[i].activities = store[i].activities
                                        /\ store[i].activities \subseteq Proposals
    BY <1>5, <2>1 DEF SupersedeProposals, IsStoring, Types, Storing
  <2>3. \A o \in Proposals : proposal'[o] = proposal[o] \/
          (o \in Pending /\ proposal'[o].status = "superseded")
    BY <1>5, Fields DEF SupersedeProposals, Proposal
  <2>4. \A o \in Proposals : proposal[o] = Unborn \/ proposal[o].status = "accepted" =>
          proposal'[o] = proposal[o]
    BY <2>3 DEF Pending
  <2>5. \A i \in Jobs : IsStoring(i)' => \A o \in store'[i].activities : proposal'[o] = Unborn
    BY <2>2, <2>4 DEF ReviewInv
  <2>6. \A s \in Requests, o \in Proposals :
          Makes(s, o)' => proposal'[o].status = "accepted" /\ proposal'[o].activity = "none"
    BY <1>1, <2>4 DEF ReviewInv
  <2>7. \A o \in Proposals : proposal'[o].status = "accepted" /\ proposal'[o].activity = "none" =>
          \E s \in Requests : Makes(s, o)'
    BY <1>1, <2>3 DEF ReviewInv
  <2>8. \A o \in Pending' : proposal'[o].activity = "none"
    BY <2>3 DEF ReviewInv, Pending
  <2> QED
    BY <1>1, <2>5, <2>6, <2>7, <2>8 DEF ReviewInv
<1>6. CASE InsertArrow(j) \/ SupersedeArrows(j) \/ EndStoring(j) \/ DieStoring(j)
  <2>1. IsStoring(j) /\ store[j] \in Storing
    BY <1>6 DEF InsertArrow, SupersedeArrows, EndStoring, DieStoring, Inserted, IsStoring,
       Types, Storing
  <2>2. proposal' = proposal
    BY <1>6 DEF InsertArrow, SupersedeArrows, EndStoring, DieStoring, reviewed
  <2>3. \A i \in Jobs : IsStoring(i)' => IsStoring(i) /\ store'[i].activities = store[i].activities
    BY <1>6, <2>1 DEF InsertArrow, SupersedeArrows, EndStoring, DieStoring, IsStoring, Types, Storing
  <2> QED
    BY <1>1, <2>2, <2>3, ReviewStays
<1> QED
  BY <1>2, <1>3, <1>4, <1>5, <1>6 DEF Replica, StoreStep

\* The editor removes only activities that are made.
LEMMA EditorReview ==
    ASSUME Types, ReviewInv, RemoveActivity
    PROVE  ReviewInv'
<1>1. PICK p \in Proposals :
        Made(p) /\ proposal' = [proposal EXCEPT ![p].activity = "removed"]
  BY DEF RemoveActivity
<1>2. proposal[p] # Unborn /\ proposal[p] \in Proposal
  BY <1>1, Fields DEF Made
<1> DEFINE new == [proposal[p] EXCEPT !.activity = "removed"]
<1>3. proposal' = [proposal EXCEPT ![p] = new] /\ store' = store /\ req' = req
  BY <1>1 DEF RemoveActivity, background
<1>4. new \in Proposal /\ new.status = "accepted" /\ new.activity = "removed"
  BY <1>1, <1>2 DEF Proposal, Made
<1>5. \A s \in Requests, o \in Proposals : Makes(s, o)' <=> Makes(s, o)
  BY <1>3 DEF Makes
<1>6. \A s \in Requests : ~Makes(s, p)
  BY <1>1 DEF ReviewInv, Made
<1> HIDE DEF new
<1> QED
  BY <1>2, <1>3, <1>4, <1>5, <1>6, ReviewOfOne

\* The invariant the next theorem rests on: a proposal without its activity is accepted
\* when, and only when, one request is making it or giving the proposal back.
THEOREM ReviewsAreRight == Spec => []ReviewInv
<1>1. Init => ReviewInv
  BY DEF Init, ReviewInv, Makes, Making, Pending, IsStoring
<1>2. (Types /\ Born) /\ (Types /\ Born)' /\ JobInv /\ ReviewInv /\ [Next]_vars => ReviewInv'
  <2> SUFFICES ASSUME Types, Types', Born, JobInv, ReviewInv, [Next]_vars PROVE ReviewInv'
    OBVIOUS
  <2>1. CASE \E j \in Jobs : Queue(j) \/ Replica(j)
    BY <2>1, BackgroundReview
  <2>2. CASE \E r \in Requests : Admin(r)
    BY <2>2, AdminReview
  <2>3. CASE RemoveActivity
    BY <2>3, EditorReview
  <2>4. CASE UNCHANGED vars
    BY <2>4, ReviewStays DEF vars, IsStoring, Makes
  <2>5. CASE EditNext
    BY <2>5, EditNextLeaves, ReviewStays DEF IsStoring, Makes
  <2> QED
    BY <2>1, <2>2, <2>3, <2>4, <2>5 DEF Next
<1> QED
  BY <1>1, <1>2, DocumentsTyped, JobsAreRight, PTL DEF Spec

\* However acceptances race, in one by one reviews and in bulk, and whoever dies: an
\* accepted proposal has its activity, or exactly one request is making it.
THEOREM AcceptedOnce == Spec => []OneAcceptance
<1>1. ReviewInv => OneAcceptance
  <2> SUFFICES ASSUME ReviewInv, NEW p \in Proposals
               PROVE  LET accepting == {r \in Requests :
                              req[r].pc \in {"create", "return", "link"} /\ req[r].p = p}
                      IN IF proposal[p].status = "accepted" /\ proposal[p].activity = "none"
                         THEN Cardinality(accepting) = 1 ELSE accepting = {}
    BY DEF OneAcceptance
  <2> DEFINE accepting == {r \in Requests :
                 req[r].pc \in {"create", "return", "link"} /\ req[r].p = p}
  <2>1. \A r \in accepting : r \in Requests /\ Makes(r, p)
    BY DEF Makes, Making
  <2>2. CASE proposal[p].status = "accepted" /\ proposal[p].activity = "none"
    <3>1. PICK r \in Requests : Makes(r, p)
      BY <2>2 DEF ReviewInv
    <3>2. accepting = {r}
      BY <2>1, <3>1 DEF ReviewInv, Makes, Making
    <3>3. Cardinality({r}) = 1
      BY FS_Singleton
    <3> QED
      BY <2>2, <3>2, <3>3
  <2>3. CASE ~(proposal[p].status = "accepted" /\ proposal[p].activity = "none")
    <3>1. accepting = {}
      BY <2>1, <2>3 DEF ReviewInv
    <3> QED
      BY <2>3, <3>1
  <2> QED
    BY <2>2, <2>3
<1> QED
  BY <1>1, ReviewsAreRight, PTL

-----------------------------------------------------------------------------
(* Publications *)

AtPublication == {"guard", "publish"}

\* What a request that publishes has counted was empty, and what is pending of it since
\* is late; it publishes once nothing is left to count.
PublicationInv ==
    /\ PublishedReviewed
    /\ \A r \in Requests : req[r].pc \in AtPublication =>
         \A c \in {"activities", "arrows"} \ req[r].left : Counted(c) \subseteq late
    /\ \A r \in Requests : req[r].pc = "publish" => req[r].left = {}

\* What proposes nothing, or nothing that is not late, keeps the counts.
LEMMA PublicationStays ==
    ASSUME PublicationInv, version' = version, late \subseteq late',
           Pending' \subseteq Pending \cup late', PendingArrows' \subseteq PendingArrows \cup late',
           \A r \in Requests : req'[r].pc \in AtPublication => req'[r] = req[r]
    PROVE  PublicationInv'
<1>1. PublishedReviewed'
  BY DEF PublicationInv, PublishedReviewed
<1>2. ASSUME NEW r \in Requests, req'[r].pc \in AtPublication,
             NEW c \in {"activities", "arrows"} \ req'[r].left
      PROVE  Counted(c)' \subseteq late'
  BY <1>2 DEF PublicationInv, Counted
<1>3. \A r \in Requests : req'[r].pc = "publish" => req'[r].left = {}
  BY DEF PublicationInv, AtPublication
<1> QED
  BY <1>1, <1>2, <1>3 DEF PublicationInv

\* A request proposes nothing, and what it gives back is late.
LEMMA AdminPending ==
    ASSUME Types, Born, NEW r \in Requests, Admin(r)
    PROVE  /\ late \subseteq late'
           /\ Pending' \subseteq Pending \cup late'
           /\ PendingArrows' \subseteq PendingArrows \cup late'
<1> DEFINE q == req[r]
<1>0. q \in Request
  BY DEF Types
<1>1. CASE Claim(r)
  <2>1. q.p \in Proposals /\ proposal[q.p] \in Proposal
    BY <1>0, <1>1, Shapes, Fields DEF Claim, Born, Reviewing
  <2>2. CASE CanClaim(q.p)
    BY <1>1, <2>1, <2>2 DEF Claim, Pending, PendingArrows, Types, Proposal
  <2>3. CASE ~CanClaim(q.p)
    BY <1>1, <2>3 DEF Claim, Pending, PendingArrows
  <2> QED
    BY <2>2, <2>3
<1>2. CASE Return(r)
  BY <1>2 DEF Return, Pending, PendingArrows, Types
<1>3. CASE Link(r)
  BY <1>3 DEF Link, Pending, PendingArrows, Types, Proposal
<1>4. CASE Discard(r)
  BY <1>4 DEF Discard, Pending, PendingArrows, Types
<1>5. CASE DiscardArrows(r) \/ ClaimArrow(r) \/ ReturnArrow(r)
  BY <1>5 DEF DiscardArrows, ClaimArrow, ReturnArrow, Pending, PendingArrows, Types
<1>6. CASE DiscardArrow(r)
  BY <1>6 DEF DiscardArrow, Pending, PendingArrows, Types
<1>7. CASE Start(r) \/ Enqueue(r) \/ EnqueueFails(r) \/ LoadAccept(r) \/ Create(r) \/ Count(r)
           \/ CountDiscarded(r) \/ ReadEnds(r) \/ Draw(r)
           \/ LoadPublish(r) \/ CountPending(r) \/ Publish(r)
  <2>1. proposal' = proposal /\ arrow' = arrow /\ late' = late
    BY <1>7 DEF Start, Enqueue, EnqueueFails, LoadAccept, Create, Count, CountDiscarded,
       ReadEnds, Draw, LoadPublish, CountPending, Publish, reviewed
  <2> QED
    BY <2>1 DEF Pending, PendingArrows
<1> QED
  BY <1>1, <1>2, <1>3, <1>4, <1>5, <1>6, <1>7 DEF Admin

\* The steps of the requests that review, and of those that publish.
LEMMA AdminPublication ==
    ASSUME Types, Born, PublicationInv, NEW r \in Requests, Admin(r)
    PROVE  PublicationInv'
<1> DEFINE q == req[r]
<1>0. q \in Request
  BY DEF Types
<1>1. CASE \/ Start(r) \/ Enqueue(r) \/ EnqueueFails(r) \/ LoadAccept(r) \/ Create(r) \/ Count(r)
           \/ CountDiscarded(r) \/ ReadEnds(r) \/ Draw(r)
           \/ Claim(r) \/ Return(r) \/ Link(r) \/ Discard(r)
           \/ DiscardArrows(r) \/ ClaimArrow(r) \/ ReturnArrow(r)
  <2>1. version' = version
    BY <1>1 DEF Start, Enqueue, EnqueueFails, LoadAccept, Create, Count, CountDiscarded,
       ReadEnds, Draw, Claim, Return, Link, Discard, DiscardArrows, ClaimArrow, ReturnArrow
  <2>2. req'[r].pc \notin AtPublication
    BY <1>0, <1>1, Shapes DEF Start, Enqueue, EnqueueFails, LoadAccept, Create, Count,
       CountDiscarded, ReadEnds, Draw, Claim, Return, Link, Discard, DiscardArrows,
       ClaimArrow, ReturnArrow, Step, Types, AtPublication
  <2>3. \A s \in Requests : s # r => req'[s] = req[s]
    BY <1>1, StepEffect DEF Start, Enqueue, EnqueueFails, LoadAccept, Create, Count,
       CountDiscarded, ReadEnds, Draw, Claim, Return, Link, Discard, DiscardArrows,
       ClaimArrow, ReturnArrow
  <2> QED
    BY <2>1, <2>2, <2>3, AdminPending, PublicationStays
<1>2. CASE DiscardArrow(r)
  BY <1>2, AdminPending, PublicationStays DEF DiscardArrow
<1>3. CASE LoadPublish(r)
  <2>1. /\ version' = version /\ proposal' = proposal /\ arrow' = arrow /\ late' = late
        /\ req'[r] = [pc |-> "guard", left |-> {"activities", "arrows"}]
        /\ \A s \in Requests : s # r => req'[s] = req[s]
    BY <1>3, StepEffect DEF LoadPublish, reviewed
  <2> QED
    BY <2>1 DEF PublicationInv, PublishedReviewed, Counted, Pending, PendingArrows
<1>4. CASE CountPending(r)
  <2>1. /\ version' = version /\ proposal' = proposal /\ arrow' = arrow /\ late' = late
        /\ q.pc = "guard" /\ q.left \subseteq {"activities", "arrows"}
    BY <1>0, <1>4, Shapes DEF CountPending, reviewed
  <2>2. PICK c \in q.left :
          Step(r, IF Counted(c) # {} THEN Idle
                  ELSE [pc |-> IF q.left = {c} THEN "publish" ELSE "guard", left |-> q.left \ {c}])
    BY <1>4 DEF CountPending
  <2>3. \A s \in Requests : s # r => req'[s] = req[s]
    BY <2>2, StepEffect
  <2>4. CASE Counted(c) # {}
    <3>1. req'[r] = Idle
      BY <2>2, <2>4, StepEffect
    <3> QED
      BY <2>1, <2>3, <3>1, PublicationStays DEF Pending, PendingArrows, AtPublication
  <2>5. CASE Counted(c) = {}
    <3>1. /\ req'[r].left = q.left \ {c}
          /\ req'[r].pc = IF q.left = {c} THEN "publish" ELSE "guard"
      BY <2>2, <2>5, StepEffect
    <3>2. \A d \in {"activities", "arrows"} : Counted(d)' = Counted(d)
      BY <2>1 DEF Counted, Pending, PendingArrows
    <3>3. \A d \in {"activities", "arrows"} \ req'[r].left : Counted(d) \subseteq late
      BY <2>1, <2>5, <3>1 DEF PublicationInv, AtPublication
    <3>4. PublishedReviewed'
      BY <2>1 DEF PublicationInv, PublishedReviewed, Pending, PendingArrows
    <3>5. \A s \in Requests : req'[s].pc = "publish" => req'[s].left = {}
      BY <2>3, <3>1 DEF PublicationInv
    <3>6. \A s \in Requests : req'[s].pc \in AtPublication =>
            \A d \in {"activities", "arrows"} \ req'[s].left : Counted(d)' \subseteq late'
      BY <2>1, <2>3, <3>2, <3>3 DEF PublicationInv
    <3> QED
      BY <3>4, <3>5, <3>6 DEF PublicationInv
  <2> QED
    BY <2>4, <2>5
<1>5. CASE Publish(r)
  <2>1. /\ proposal' = proposal /\ arrow' = arrow /\ late' = late /\ req'[r] = Idle
        /\ \A s \in Requests : s # r => req'[s] = req[s]
    BY <1>5, StepEffect DEF Publish, reviewed
  <2>2. Pending \cup PendingArrows \subseteq late
    BY <1>5 DEF Publish, PublicationInv, AtPublication, Counted
  <2> QED
    BY <2>1, <2>2 DEF PublicationInv, PublishedReviewed, Counted, Pending, PendingArrows, AtPublication
<1> QED
  BY <1>1, <1>2, <1>3, <1>4, <1>5 DEF Admin

\* The steps of the queue and of the replicas.
LEMMA BackgroundPublication ==
    ASSUME Types, PublicationInv, NEW j \in Jobs, Queue(j) \/ Replica(j)
    PROVE  PublicationInv'
<1>0. version' = version /\ req' = req
  BY DEF Queue, Take, Finish, Replica, Running, Fail, Expire, StoreStep, ClaimResult,
     InsertProposal, InsertArrow, SupersedeProposals, SupersedeArrows, EndStoring, DieStoring
<1>1. CASE Queue(j) \/ Running(j) \/ Fail(j) \/ Expire(j) \/ ClaimResult(j) \/ EndStoring(j)
           \/ DieStoring(j)
  BY <1>0, <1>1, PublicationStays
  DEF Queue, Take, Finish, Running, Fail, Expire, ClaimResult, EndStoring, DieStoring,
      reviewed, Pending, PendingArrows
<1>2. CASE SupersedeProposals(j) \/ SupersedeArrows(j)
  <2>1. /\ late' = late
        /\ Pending' \subseteq Pending /\ PendingArrows' \subseteq PendingArrows
    BY <1>2 DEF SupersedeProposals, SupersedeArrows, Pending, PendingArrows, Types, Proposal
  <2> QED
    BY <1>0, <2>1, PublicationStays
<1>3. CASE InsertProposal(j)
  <2>1. PICK p \in store[j].activities :
          /\ proposal' = [proposal EXCEPT ![p] =
                            [status |-> "pending", job |-> j, activity |-> "none"]]
          /\ LateIf(p) /\ arrow' = arrow
    BY <1>3 DEF InsertProposal
  <2>2. CASE Publishing
    <3>1. late \subseteq late' /\ Pending' \subseteq Pending \cup late'
      BY <2>1, <2>2 DEF LateIf, Pending, Types
    <3> QED
      BY <1>0, <2>1, <3>1, PublicationStays DEF PendingArrows
  <2>3. CASE ~Publishing
    BY <1>0, <2>3 DEF Publishing, PublicationInv, PublishedReviewed, AtPublication
  <2> QED
    BY <2>2, <2>3
<1>4. CASE InsertArrow(j)
  <2>1. PICK a \in store[j].arrows :
          /\ arrow' = [arrow EXCEPT ![a] = "pending"]
          /\ LateIf(a) /\ proposal' = proposal
    BY <1>4 DEF InsertArrow
  <2>2. CASE Publishing
    <3>1. late \subseteq late' /\ PendingArrows' \subseteq PendingArrows \cup late'
      BY <2>1, <2>2 DEF LateIf, PendingArrows, Types
    <3> QED
      BY <1>0, <2>1, <3>1, PublicationStays DEF Pending
  <2>3. CASE ~Publishing
    BY <1>0, <2>3 DEF Publishing, PublicationInv, PublishedReviewed, AtPublication
  <2> QED
    BY <2>2, <2>3
<1> QED
  BY <1>1, <1>2, <1>3, <1>4 DEF Replica, StoreStep

\* A version is published with nothing to review, but for what a detection stored after
\* its count or an acceptance that failed gave back.
THEOREM PublishedIsReviewed == Spec => []PublishedReviewed
<1>1. Init => PublicationInv
  BY DEF Init, PublicationInv, PublishedReviewed, AtPublication
<1>2. Types /\ Born /\ PublicationInv /\ [Next]_vars => PublicationInv'
  <2> SUFFICES ASSUME Types, Born, PublicationInv, [Next]_vars PROVE PublicationInv'
    OBVIOUS
  <2>1. CASE \E j \in Jobs : Queue(j) \/ Replica(j)
    BY <2>1, BackgroundPublication
  <2>2. CASE \E r \in Requests : Admin(r)
    BY <2>2, AdminPublication
  <2>3. CASE RemoveActivity
    <3>1. Pending' \subseteq Pending
      BY <2>3 DEF RemoveActivity, Made, Pending, Types, Proposal
    <3> QED
      BY <2>3, <3>1, PublicationStays DEF RemoveActivity, PendingArrows
  <2>4. CASE UNCHANGED vars
    BY <2>4, PublicationStays DEF vars, Pending, PendingArrows
  <2>5. CASE EditNext
    BY <2>5, EditNextLeaves, PublicationStays DEF Pending, PendingArrows
  <2> QED
    BY <2>1, <2>2, <2>3, <2>4, <2>5 DEF Next
<1>3. PublicationInv => PublishedReviewed
  BY DEF PublicationInv
<1> QED
  BY <1>1, <1>2, <1>3, DocumentsTyped, PTL DEF Spec

-----------------------------------------------------------------------------
(* Arrows *)

Drawing == {"claimArrow", "draw", "returnArrow"}

\* An arrow that was proposed has both its ends; one still to be inserted will have them,
\* of the detection that inserts it; a request draws an arrow that was proposed.
EndsInv ==
    /\ \A a \in Arrows : arrow[a] # "none" => proposal[a[1]] # Unborn /\ proposal[a[2]] # Unborn
    /\ \A j \in Jobs : IsStoring(j) =>
         \A a \in store[j].arrows : \A e \in {a[1], a[2]} :
           e \in store[j].activities \/ (proposal[e] # Unborn /\ proposal[e].job = j)
    /\ \A r \in Requests : req[r].pc \in Drawing => arrow[req[r].arrow] # "none"

\* A proposal stays of its detection, and an activity that was removed is not made again.
ProposalsLast ==
    \A p \in Proposals : proposal[p] # Unborn =>
        /\ proposal'[p] # Unborn
        /\ proposal'[p].job = proposal[p].job
        /\ proposal[p].activity = "removed" => proposal'[p].activity = "removed"

\* The ends of an arrow are proposals.
LEMMA Ends == \A a \in Arrows : a[1] \in Proposals /\ a[2] \in Proposals
BY ArrowsAssumption

\* No request, replica or editor takes a proposal away.
LEMMA EveryStepLasts ==
    ASSUME Types, Born, ReviewInv, [Next]_vars
    PROVE  ProposalsLast
<1>1. CASE proposal' = proposal
  BY <1>1 DEF ProposalsLast
<1>2. ASSUME NEW r \in Requests, Admin(r), proposal' # proposal PROVE ProposalsLast
  <2> DEFINE q == req[r]
  <2>0. q \in Request
    BY DEF Types
  <2>1. CASE Claim(r)
    <3>1. q.p \in Proposals /\ proposal[q.p] \in Proposal
          /\ proposal' = [proposal EXCEPT ![q.p].status = "accepted"]
      BY <1>2, <2>0, <2>1, Shapes, Fields DEF Claim, Born, Reviewing
    <3> QED
      BY <3>1 DEF ProposalsLast, Types, Proposal
  <2>2. CASE Return(r)
    <3>1. q.p \in Proposals /\ proposal[q.p] \in Proposal
      BY <2>0, <2>2, Shapes, Fields DEF Return, Born, Reviewing
    <3> QED
      BY <2>2, <3>1 DEF Return, ProposalsLast, Types, Proposal
  <2>3. CASE Link(r)
    <3>1. q.p \in Proposals /\ proposal[q.p] \in Proposal /\ proposal[q.p].activity = "none"
      BY <2>0, <2>3, Shapes, Fields DEF Link, Born, Reviewing, ReviewInv, Makes, Making
    <3> QED
      BY <2>3, <3>1 DEF Link, ProposalsLast, Types, Proposal
  <2>4. CASE Discard(r)
    <3>1. PICK p \in Pending : proposal' = [proposal EXCEPT ![p].status = "discarded"]
      BY <2>4 DEF Discard
    <3>2. p \in Proposals /\ proposal[p] \in Proposal
      BY <3>1, Fields DEF Pending
    <3> QED
      BY <3>1, <3>2 DEF ProposalsLast, Types, Proposal
  <2> QED
    BY <1>2, <2>1, <2>2, <2>3, <2>4 DEF Admin, Start, Enqueue, EnqueueFails, LoadAccept, Create,
       Count, DiscardArrows, CountDiscarded, ReadEnds, ClaimArrow, Draw, ReturnArrow,
       DiscardArrow, LoadPublish, CountPending, Publish, reviewed
<1>3. ASSUME NEW j \in Jobs, Queue(j) \/ Replica(j), proposal' # proposal PROVE ProposalsLast
  <2>1. CASE InsertProposal(j)
    <3>1. PICK p \in store[j].activities :
            proposal' = [proposal EXCEPT ![p] =
                           [status |-> "pending", job |-> j, activity |-> "none"]]
      BY <2>1 DEF InsertProposal
    <3>2. proposal[p] = Unborn
      BY <2>1, <3>1 DEF InsertProposal, ReviewInv
    <3> QED
      BY <3>1, <3>2 DEF ProposalsLast, Types
  <2>2. CASE SupersedeProposals(j)
    <3>1. ASSUME NEW p \in Proposals, proposal[p] # Unborn
          PROVE  /\ proposal'[p] # Unborn
                 /\ proposal'[p].job = proposal[p].job
                 /\ proposal[p].activity = "removed" => proposal'[p].activity = "removed"
      <4>1. proposal[p] \in Proposal
        BY <3>1, Fields
      <4>2. proposal'[p] = proposal[p] \/ proposal'[p] = [proposal[p] EXCEPT !.status = "superseded"]
        BY <2>2 DEF SupersedeProposals
      <4> QED
        BY <4>1, <4>2 DEF Proposal, Reviewable
    <3> QED
      BY <3>1 DEF ProposalsLast
  <2> QED
    BY <1>3, <2>1, <2>2 DEF Queue, Take, Finish, Replica, Running, Fail, Expire, StoreStep,
       ClaimResult, InsertArrow, SupersedeArrows, EndStoring, DieStoring, reviewed
<1>4. CASE RemoveActivity
  <2>1. PICK p \in Proposals : proposal' = [proposal EXCEPT ![p].activity = "removed"] /\ Made(p)
    BY <1>4 DEF RemoveActivity
  <2>2. proposal[p] \in Proposal
    BY <2>1, Fields DEF Made
  <2> QED
    BY <2>1, <2>2 DEF ProposalsLast, Types, Proposal
<1>5. CASE EditNext
  BY <1>5, EditNextLeaves DEF ProposalsLast
<1> QED
  BY <1>1, <1>2, <1>3, <1>4, <1>5 DEF Next, vars

\* What proposes no arrow, and leaves what is still to insert as it is.
LEMMA EndsStay ==
    ASSUME Types, EndsInv, ProposalsLast,
           \A a \in Arrows : arrow'[a] # "none" <=> arrow[a] # "none",
           \A j \in Jobs : IsStoring(j)' =>
             /\ IsStoring(j)
             /\ store'[j].arrows = store[j].arrows /\ store'[j].activities = store[j].activities,
           \A r \in Requests : req'[r].pc \in Drawing =>
             req'[r].arrow \in Arrows /\ arrow[req'[r].arrow] # "none"
    PROVE  EndsInv'
<1>1. \A j \in Jobs : IsStoring(j) => \A a \in store[j].arrows : a \in Arrows
  BY DEF IsStoring, Types, Storing
<1>2. \A j \in Jobs : IsStoring(j)' =>
        \A a \in store'[j].arrows : \A e \in {a[1], a[2]} :
          e \in store'[j].activities \/ (proposal'[e] # Unborn /\ proposal'[e].job = j)
  BY <1>1, Ends DEF EndsInv, ProposalsLast
<1>3. \A a \in Arrows : arrow'[a] # "none" => proposal'[a[1]] # Unborn /\ proposal'[a[2]] # Unborn
  BY Ends DEF EndsInv, ProposalsLast
<1> QED
  BY <1>2, <1>3 DEF EndsInv

\* The steps of the requests: they read the ends of an arrow that is pending.
LEMMA AdminEnds ==
    ASSUME Types, Born, ReviewInv, EndsInv, NEW r \in Requests, Admin(r)
    PROVE  EndsInv'
<1> DEFINE q == req[r]
<1>0. q \in Request
  BY DEF Types
<1>1. ProposalsLast
  BY EveryStepLasts DEF Next
<1>2. store' = store
  BY DEF Admin, Start, Enqueue, EnqueueFails, LoadAccept, Claim, Create, Return, Link, Count,
     Discard, DiscardArrows, CountDiscarded, ReadEnds, ClaimArrow, Draw, ReturnArrow,
     DiscardArrow, LoadPublish, CountPending, Publish, background
<1>3. \A s \in Requests : s # r => req'[s] = req[s]
  BY StepEffect
  DEF Admin, Start, Enqueue, EnqueueFails, LoadAccept, Claim, Create, Return, Link, Count,
     Discard, DiscardArrows, CountDiscarded, ReadEnds, ClaimArrow, Draw, ReturnArrow,
     DiscardArrow, LoadPublish, CountPending, Publish
<1>4. \A s \in Requests : req[s].pc \in Drawing => req[s].arrow \in Arrows /\ arrow[req[s].arrow] # "none"
  BY Shapes DEF EndsInv, Types, Drawing
<1>5. \A a \in Arrows : arrow'[a] # "none" <=> arrow[a] # "none"
  <2>1. CASE DiscardArrows(r)
    BY <2>1 DEF DiscardArrows, PendingArrows, Types
  <2>2. CASE ClaimArrow(r)
    BY <2>2 DEF ClaimArrow, PendingArrows, Types
  <2>3. CASE ReturnArrow(r)
    BY <1>4, <2>3 DEF ReturnArrow, Drawing, Types
  <2>4. CASE DiscardArrow(r)
    BY <2>4 DEF DiscardArrow, PendingArrows, Types
  <2> QED
    BY <2>1, <2>2, <2>3, <2>4 DEF Admin, Start, Enqueue, EnqueueFails, LoadAccept, Claim, Create,
       Return, Link, Count, Discard, CountDiscarded, ReadEnds, Draw, LoadPublish, CountPending,
       Publish, reviewed
<1>6. req'[r].pc \in Drawing => req'[r].arrow \in Arrows /\ arrow[req'[r].arrow] # "none"
  <2>1. CASE ReadEnds(r)
    BY <2>1, StepEffect DEF ReadEnds, PendingArrows
  <2>2. CASE ClaimArrow(r)
    BY <1>0, <1>4, <2>2, Shapes, StepEffect DEF ClaimArrow, Drawing
  <2>3. CASE Draw(r)
    BY <1>0, <1>4, <2>3, Shapes, StepEffect DEF Draw, Drawing
  <2>4. CASE DiscardArrow(r)
    BY <1>4, <2>4 DEF DiscardArrow
  <2>5. CASE \/ Start(r) \/ Enqueue(r) \/ EnqueueFails(r) \/ LoadAccept(r) \/ Claim(r) \/ Create(r)
             \/ Return(r) \/ Link(r) \/ Count(r) \/ Discard(r) \/ DiscardArrows(r)
             \/ CountDiscarded(r) \/ ReturnArrow(r) \/ LoadPublish(r) \/ CountPending(r) \/ Publish(r)
    <3>1. req'[r].pc \notin Drawing
      BY <1>0, <2>5, Shapes DEF Start, Enqueue, EnqueueFails, LoadAccept, Claim, Create, Return,
         Link, Count, Discard, DiscardArrows, CountDiscarded, ReturnArrow, LoadPublish,
         CountPending, Publish, Step, Types, Drawing
    <3> QED
      BY <3>1
  <2> QED
    BY <2>1, <2>2, <2>3, <2>4, <2>5 DEF Admin
<1>7. \A s \in Requests : req'[s].pc \in Drawing => req'[s].arrow \in Arrows /\ arrow[req'[s].arrow] # "none"
  BY <1>3, <1>4, <1>6
<1>8. \A j \in Jobs : IsStoring(j)' =>
        /\ IsStoring(j)
        /\ store'[j].arrows = store[j].arrows /\ store'[j].activities = store[j].activities
  BY <1>2 DEF IsStoring
<1> QED
  BY <1>1, <1>5, <1>7, <1>8, EndsStay

\* The steps of the queue and of the replicas: an arrow is inserted after its ends.
LEMMA BackgroundEnds ==
    ASSUME Types, Born, JobInv, ReviewInv, EndsInv, NEW j \in Jobs, Queue(j) \/ Replica(j)
    PROVE  EndsInv'
<1>1. ProposalsLast
  BY EveryStepLasts DEF Next
<1>2. \A s \in Requests : req'[s].pc \in Drawing => req'[s].arrow \in Arrows /\ arrow[req'[s].arrow] # "none"
  <2>1. req' = req
    BY DEF Queue, Take, Finish, Replica, Running, Fail, Expire, StoreStep, ClaimResult,
       InsertProposal, InsertArrow, SupersedeProposals, SupersedeArrows, EndStoring, DieStoring
  <2> QED
    BY <2>1, Shapes DEF EndsInv, Types, Drawing
<1>3. CASE Queue(j) \/ Running(j) \/ Fail(j) \/ Expire(j)
  <2>1. store' = store /\ arrow' = arrow
    BY <1>3 DEF Queue, Take, Finish, Running, Fail, Expire, background, reviewed
  <2> QED
    BY <1>1, <1>2, <2>1, EndsStay DEF IsStoring
<1>4. CASE SupersedeProposals(j) \/ SupersedeArrows(j) \/ EndStoring(j) \/ DieStoring(j)
  <2>1. \A a \in Arrows : arrow'[a] # "none" <=> arrow[a] # "none"
    BY <1>4 DEF SupersedeProposals, SupersedeArrows, EndStoring, DieStoring, reviewed,
       PendingArrows, Types
  <2>2. IsStoring(j) /\ store[j] \in Storing
    BY <1>4 DEF SupersedeProposals, SupersedeArrows, EndStoring, DieStoring, Inserted, IsStoring,
       Types, Storing
  <2>3. \A i \in Jobs : i # j => store'[i] = store[i]
    BY <1>4 DEF SupersedeProposals, SupersedeArrows, EndStoring, DieStoring, Types
  <2>4. IsStoring(j)' =>
          store'[j].arrows = store[j].arrows /\ store'[j].activities = store[j].activities
    BY <1>4, <2>2 DEF SupersedeProposals, SupersedeArrows, EndStoring, DieStoring, IsStoring,
       Types, Storing
  <2> QED
    BY <1>1, <1>2, <2>1, <2>2, <2>3, <2>4, EndsStay DEF IsStoring
<1>5. CASE ClaimResult(j)
  <2>1. PICK found \in SUBSET {p \in Proposals : proposal[p] = Unborn} :
          \E between \in SUBSET (Arrows \cap (found \X found)) :
            store' = [store EXCEPT ![j] =
                        [pc |-> "storing", activities |-> found, arrows |-> between,
                         supersede |-> {"activities", "arrows"}]]
    BY <1>5 DEF ClaimResult
  <2>2. PICK between \in SUBSET (Arrows \cap (found \X found)) :
          store' = [store EXCEPT ![j] =
                      [pc |-> "storing", activities |-> found, arrows |-> between,
                       supersede |-> {"activities", "arrows"}]]
    BY <2>1
  <2>3. \A a \in store'[j].arrows : a[1] \in store'[j].activities /\ a[2] \in store'[j].activities
    BY <2>2 DEF Types
  <2>4. proposal' = proposal /\ arrow' = arrow /\ \A i \in Jobs : i # j => store'[i] = store[i]
    BY <1>5, <2>2 DEF ClaimResult, reviewed, Types
  <2> QED
    BY <1>2, <2>3, <2>4 DEF EndsInv, IsStoring
<1>6. CASE InsertProposal(j)
  <2>1. PICK p \in store[j].activities :
          /\ proposal' = [proposal EXCEPT ![p] =
                            [status |-> "pending", job |-> j, activity |-> "none"]]
          /\ store' = [store EXCEPT ![j].activities = @ \ {p}]
    BY <1>6 DEF InsertProposal
  <2>2. IsStoring(j) /\ store[j] \in Storing /\ p \in Proposals /\ arrow' = arrow
    BY <1>6, <2>1 DEF InsertProposal, IsStoring, Types, Storing
  <2>3. /\ proposal'[p] # Unborn /\ proposal'[p].job = j
        /\ store'[j].arrows = store[j].arrows /\ store'[j].activities = store[j].activities \ {p}
        /\ \A i \in Jobs : i # j => ~IsStoring(i)'
    BY <2>1, <2>2 DEF Types, Storing, JobInv, IsStoring
  <2>4. \A a \in store[j].arrows : a \in Arrows
    BY <2>2 DEF Storing
  <2>5. \A a \in store'[j].arrows : \A e \in {a[1], a[2]} :
          e \in store'[j].activities \/ (proposal'[e] # Unborn /\ proposal'[e].job = j)
    BY <1>1, <2>2, <2>3, <2>4, Ends DEF EndsInv, ProposalsLast
  <2>6. \A a \in Arrows : arrow'[a] # "none" => proposal'[a[1]] # Unborn /\ proposal'[a[2]] # Unborn
    BY <1>1, <2>2, Ends DEF EndsInv, ProposalsLast
  <2> QED
    BY <1>2, <2>2, <2>3, <2>5, <2>6 DEF EndsInv
<1>7. CASE InsertArrow(j)
  <2>1. PICK a \in store[j].arrows :
          /\ arrow' = [arrow EXCEPT ![a] = "pending"]
          /\ store' = [store EXCEPT ![j].arrows = @ \ {a}]
    BY <1>7 DEF InsertArrow
  <2>2. IsStoring(j) /\ store[j] \in Storing /\ store[j].activities = {} /\ proposal' = proposal
    BY <1>7 DEF InsertArrow, IsStoring, Types, Storing
  <2>3. a \in Arrows /\ proposal[a[1]] # Unborn /\ proposal[a[2]] # Unborn
    BY <2>1, <2>2 DEF Storing, EndsInv
  <2>4. /\ store'[j].arrows = store[j].arrows \ {a} /\ store'[j].activities = store[j].activities
        /\ \A i \in Jobs : i # j => ~IsStoring(i)'
    BY <2>1, <2>2 DEF Types, Storing, JobInv, IsStoring
  <2>5. \A b \in Arrows : arrow'[b] # "none" => proposal'[b[1]] # Unborn /\ proposal'[b[2]] # Unborn
    BY <2>1, <2>2, <2>3 DEF EndsInv, Types
  <2>6. \A b \in Arrows : arrow[b] # "none" => arrow'[b] # "none"
    BY <2>1, <2>3 DEF Types
  <2> QED
    BY <1>2, <2>2, <2>4, <2>5, <2>6 DEF EndsInv
<1> QED
  BY <1>3, <1>4, <1>5, <1>6, <1>7 DEF Replica, StoreStep

\* Both ends of an arrow exist, whatever part of a result has been stored.
THEOREM ArrowsHaveEnds == Spec => []EndsInv
<1>1. Init => EndsInv
  BY DEF Init, EndsInv, IsStoring, Drawing
<1>2. (Types /\ Born) /\ JobInv /\ ReviewInv /\ EndsInv /\ [Next]_vars => EndsInv'
  <2> SUFFICES ASSUME Types, Born, JobInv, ReviewInv, EndsInv, [Next]_vars PROVE EndsInv'
    OBVIOUS
  <2>1. CASE \E j \in Jobs : Queue(j) \/ Replica(j)
    BY <2>1, BackgroundEnds
  <2>2. CASE \E r \in Requests : Admin(r)
    BY <2>2, AdminEnds
  <2>3. CASE RemoveActivity \/ EditNext \/ UNCHANGED vars
    <3>1. store' = store /\ arrow' = arrow /\ req' = req
      BY <2>3, EditNextLeaves DEF RemoveActivity, vars, background
    <3>2. \A s \in Requests : req'[s].pc \in Drawing => req'[s].arrow \in Arrows /\ arrow[req'[s].arrow] # "none"
      BY <3>1, Shapes DEF EndsInv, Types, Drawing
    <3> QED
      BY <3>1, <3>2, EveryStepLasts, EndsStay DEF IsStoring
  <2> QED
    BY <2>1, <2>2, <2>3 DEF Next
<1> QED
  BY <1>1, <1>2, DocumentsTyped, JobsAreRight, ReviewsAreRight, PTL DEF Spec

\* An accepted arrow is a transition, unless a request is drawing it or giving it back,
\* an editor took the transition out, or the activity of one of its ends was removed: no
\* acceptance is lost on the way.
THEOREM AcceptedIsDrawn == Spec => []AcceptedArrowDrawn
<1>1. Init => AcceptedArrowDrawn
  BY DEF Init, AcceptedArrowDrawn
<1>2. (Types /\ Born) /\ ReviewInv /\ EndsInv /\ AcceptedArrowDrawn /\ [Next]_vars
        => AcceptedArrowDrawn'
  <2> SUFFICES ASSUME Types, Born, ReviewInv, EndsInv, AcceptedArrowDrawn, [Next]_vars,
                      NEW a \in Arrows, arrow'[a] = "accepted"
               PROVE  \/ drawn'[a] \in {"yes", "undone"}
                      \/ \E r \in Requests : req'[r].pc \in {"draw", "returnArrow"} /\ req'[r].arrow = a
                      \/ \E p \in {a[1], a[2]} : proposal'[p].activity = "removed"
    BY DEF AcceptedArrowDrawn
  <2>0. a[1] \in Proposals /\ a[2] \in Proposals /\ ProposalsLast
    BY Ends, EveryStepLasts
  <2>1. ASSUME arrow[a] = "accepted", \E p \in {a[1], a[2]} : proposal[p].activity = "removed"
        PROVE  \E p \in {a[1], a[2]} : proposal'[p].activity = "removed"
    BY <2>0, <2>1 DEF ProposalsLast, EndsInv
  <2>2. CASE RemoveActivity
    <3>1. PICK p \in Proposals :
            /\ proposal' = [proposal EXCEPT ![p].activity = "removed"] /\ Made(p)
            /\ drawn' = [b \in Arrows |-> IF p \in {b[1], b[2]} THEN "no" ELSE drawn[b]]
      BY <2>2 DEF RemoveActivity
    <3>2. proposal[p] \in Proposal
      BY <3>1, Fields DEF Made
    <3>3. arrow' = arrow /\ req' = req
      BY <2>2 DEF RemoveActivity
    <3>4. proposal'[p].activity = "removed"
      BY <3>1, <3>2 DEF Types, Proposal
    <3> QED
      BY <2>1, <3>1, <3>3, <3>4 DEF AcceptedArrowDrawn
  <2>6. CASE EditNext
    <3>1. arrow' = arrow /\ req' = req /\ proposal' = proposal
      BY <2>6, EditNextLeaves
    <3>2. drawn[a] \in {"yes", "undone"} => drawn'[a] \in {"yes", "undone"}
      BY <2>6 DEF EditNext
    <3> QED
      BY <3>1, <3>2 DEF AcceptedArrowDrawn
  <2>3. ASSUME NEW j \in Jobs, Queue(j) \/ Replica(j)
        PROVE  req' = req /\ drawn' = drawn /\ arrow[a] = "accepted"
    <3>1. req' = req /\ drawn' = drawn
      BY <2>3 DEF Queue, Take, Finish, Replica, Running, Fail, Expire, StoreStep, ClaimResult,
         InsertProposal, InsertArrow, SupersedeProposals, SupersedeArrows, EndStoring,
         DieStoring, reviewed
    <3>2. arrow[a] = "accepted"
      BY <2>3 DEF Queue, Take, Finish, Replica, Running, Fail, Expire, StoreStep, ClaimResult,
         InsertProposal, InsertArrow, SupersedeProposals, SupersedeArrows, EndStoring,
         DieStoring, reviewed, Types
    <3> QED
      BY <3>1, <3>2
  <2>4. ASSUME NEW r \in Requests, Admin(r)
        PROVE  \/ drawn'[a] \in {"yes", "undone"}
               \/ \E s \in Requests : req'[s].pc \in {"draw", "returnArrow"} /\ req'[s].arrow = a
               \/ \E p \in {a[1], a[2]} : proposal'[p].activity = "removed"
    <3>0. req[r] \in Request /\ \A s \in Requests : s # r => req'[s] = req[s]
      BY <2>4, StepEffect
      DEF Types, Admin, Start, Enqueue, EnqueueFails, LoadAccept, Claim, Create, Return, Link,
         Count, Discard, DiscardArrows, CountDiscarded, ReadEnds, ClaimArrow, Draw, ReturnArrow,
         DiscardArrow, LoadPublish, CountPending, Publish
    <3>1. CASE ClaimArrow(r)
      <4>1. CASE req[r].arrow \notin PendingArrows
        <5>1. arrow' = arrow /\ drawn' = drawn /\ proposal' = proposal /\ req[r].pc = "claimArrow"
          BY <3>1, <4>1 DEF ClaimArrow
        <5> QED
          BY <3>0, <5>1 DEF AcceptedArrowDrawn
      <4>2. CASE req[r].arrow \in PendingArrows
        <5>1. /\ arrow' = [arrow EXCEPT ![req[r].arrow] = "accepted"]
              /\ req'[r] = [req[r] EXCEPT !.pc = "draw"] /\ req[r].pc = "claimArrow"
              /\ drawn' = drawn /\ proposal' = proposal
          BY <3>1, <4>2, StepEffect DEF ClaimArrow
        <5>2. req'[r].pc = "draw" /\ req'[r].arrow = req[r].arrow
          BY <3>0, <5>1, Shapes
        <5>3. CASE req[r].arrow = a
          BY <5>2, <5>3
        <5>4. CASE req[r].arrow # a
          BY <3>0, <5>1, <5>4 DEF AcceptedArrowDrawn, Types
        <5> QED
          BY <5>3, <5>4
      <4> QED
        BY <4>1, <4>2
    <3>2. CASE Draw(r)
      <4>0. /\ req[r].arrow \in Arrows
            /\ [req[r] EXCEPT !.pc = "returnArrow"].pc = "returnArrow"
            /\ [req[r] EXCEPT !.pc = "returnArrow"].arrow = req[r].arrow
        BY <3>0, <3>2, Shapes DEF Draw
      <4>1. arrow' = arrow /\ proposal' = proposal /\ req[r].pc = "draw"
        BY <3>2 DEF Draw
      <4>2. \/ drawn' = [drawn EXCEPT ![req[r].arrow] = "yes"]
            \/ drawn' = drawn /\ req'[r] = [req[r] EXCEPT !.pc = "returnArrow"]
        BY <3>2, StepEffect DEF Draw
      <4>3. CASE req[r].arrow = a
        BY <4>0, <4>2, <4>3 DEF Types
      <4>4. CASE req[r].arrow # a
        <5>1. drawn'[a] = drawn[a]
          BY <4>0, <4>2, <4>4 DEF Types
        <5> QED
          BY <3>0, <4>1, <4>4, <5>1 DEF AcceptedArrowDrawn
      <4> QED
        BY <4>3, <4>4
    <3>3. CASE ReturnArrow(r)
      <4>1. req[r].arrow # a /\ arrow[a] = "accepted" /\ drawn' = drawn /\ proposal' = proposal
        BY <3>3 DEF ReturnArrow, Types
      <4> QED
        BY <3>0, <4>1 DEF AcceptedArrowDrawn
    <3>4. CASE DiscardArrow(r)
      <4>1. arrow[a] = "accepted" /\ drawn' = drawn /\ req' = req /\ proposal' = proposal
        BY <3>4 DEF DiscardArrow, Types
      <4> QED
        BY <4>1 DEF AcceptedArrowDrawn
    <3>5. CASE \/ Start(r) \/ Enqueue(r) \/ EnqueueFails(r) \/ LoadAccept(r) \/ Claim(r) \/ Create(r)
               \/ Return(r) \/ Link(r) \/ Count(r) \/ Discard(r) \/ DiscardArrows(r)
               \/ CountDiscarded(r) \/ ReadEnds(r) \/ LoadPublish(r) \/ CountPending(r) \/ Publish(r)
      <4>1. drawn' = drawn /\ req[r].pc \notin {"draw", "returnArrow"}
        BY <3>5 DEF Start, Enqueue, EnqueueFails, LoadAccept, Claim, Create, Return, Link, Count,
           Discard, DiscardArrows, CountDiscarded, ReadEnds, LoadPublish, CountPending, Publish,
           reviewed
      <4>2. arrow[a] = "accepted"
        BY <3>5 DEF Start, Enqueue, EnqueueFails, LoadAccept, Claim, Create, Return, Link, Count,
           Discard, DiscardArrows, CountDiscarded, ReadEnds, LoadPublish, CountPending, Publish,
           reviewed
      <4> QED
        BY <2>1, <3>0, <4>1, <4>2 DEF AcceptedArrowDrawn
    <3> QED
      BY <2>4, <3>1, <3>2, <3>3, <3>4, <3>5 DEF Admin
  <2>5. CASE UNCHANGED vars
    BY <2>5 DEF vars, AcceptedArrowDrawn
  <2> QED
    BY <2>1, <2>2, <2>3, <2>4, <2>5, <2>6 DEF Next, AcceptedArrowDrawn
<1> QED
  BY <1>1, <1>2, DocumentsTyped, ReviewsAreRight, ArrowsHaveEnds, PTL DEF Spec

-----------------------------------------------------------------------------
(* The last detection *)

Stored(j) == store[j].pc = "stored"
OnTime == Pending \ late
OnTimeArrows == PendingArrows \ late

\* What is left to review on time of stored detections is of one of them; the detection
\* that has superseded the others has inserted all of its own.
LastInv ==
    /\ \A p, o \in OnTime :
         Stored(proposal[p].job) /\ Stored(proposal[o].job) => proposal[p].job = proposal[o].job
    /\ \A a, b \in OnTimeArrows :
         Stored(proposal[a[1]].job) /\ Stored(proposal[b[1]].job) =>
           proposal[a[1]].job = proposal[b[1]].job
    /\ \A p \in OnTime, a \in OnTimeArrows :
         Stored(proposal[p].job) /\ Stored(proposal[a[1]].job) => proposal[p].job = proposal[a[1]].job
    /\ \A j \in Jobs : IsStoring(j) =>
         /\ store[j].supersede = {"activities", "arrows"} \/ Inserted(j)
         /\ "activities" \notin store[j].supersede => \A p \in OnTime : proposal[p].job = j
         /\ "arrows" \notin store[j].supersede => \A a \in OnTimeArrows : proposal[a[1]].job = j

\* Where nothing is proposed on time, and no detection is stored or goes on storing.
LEMMA LastStays ==
    ASSUME LastInv, EndsInv, Types, ProposalsLast, OnTime' \subseteq OnTime, OnTimeArrows' \subseteq OnTimeArrows,
           \A j \in Jobs : IsStoring(j)' => IsStoring(j) /\ store'[j] = store[j],
           \A j \in Jobs : Stored(j)' => Stored(j)
    PROVE  LastInv'
<1>1. \A p \in OnTime' : p \in OnTime /\ proposal'[p].job = proposal[p].job /\ proposal[p].job \in Jobs
  BY Fields DEF OnTime, Pending, ProposalsLast, Proposal
<1>2. \A a \in OnTimeArrows' :
        /\ a \in OnTimeArrows /\ proposal'[a[1]].job = proposal[a[1]].job
        /\ proposal[a[1]].job \in Jobs
  <2> SUFFICES ASSUME NEW a \in OnTimeArrows'
               PROVE  /\ a \in OnTimeArrows /\ proposal'[a[1]].job = proposal[a[1]].job
                      /\ proposal[a[1]].job \in Jobs
    OBVIOUS
  <2>1. a \in Arrows /\ a \in OnTimeArrows /\ a[1] \in Proposals /\ proposal[a[1]] # Unborn
    BY Ends DEF OnTimeArrows, PendingArrows, EndsInv
  <2> QED
    BY <2>1, Fields DEF ProposalsLast, Proposal
<1>3. \A p, o \in OnTime' :
        Stored(proposal[p].job)' /\ Stored(proposal[o].job)' => proposal'[p].job = proposal'[o].job
  BY <1>1 DEF LastInv, Stored
<1>4. \A a, b \in OnTimeArrows' :
        Stored(proposal[a[1]].job)' /\ Stored(proposal[b[1]].job)' =>
          proposal'[a[1]].job = proposal'[b[1]].job
  BY <1>2 DEF LastInv, Stored
<1>5. \A p \in OnTime', a \in OnTimeArrows' :
        Stored(proposal[p].job)' /\ Stored(proposal[a[1]].job)' =>
          proposal'[p].job = proposal'[a[1]].job
  BY <1>1, <1>2 DEF LastInv, Stored
<1>6. \A j \in Jobs : IsStoring(j)' =>
         /\ store'[j].supersede = {"activities", "arrows"} \/ Inserted(j)'
         /\ "activities" \notin store'[j].supersede => \A p \in OnTime' : proposal'[p].job = j
         /\ "arrows" \notin store'[j].supersede => \A a \in OnTimeArrows' : proposal'[a[1]].job = j
  BY <1>1, <1>2 DEF LastInv, Inserted, IsStoring
<1> QED
  BY <1>3, <1>4, <1>5, <1>6 DEF LastInv

\* One job at most is storing, and it is not stored.
LEMMA OneStoring ==
    ASSUME JobInv, NEW j \in Jobs, IsStoring(j)
    PROVE  ~Stored(j) /\ \A i \in Jobs : i # j => ~IsStoring(i)
BY DEF JobInv, IsStoring, Stored

\* The jobs of what is left to review.
LEMMA OnTimeJobs ==
    ASSUME Types, EndsInv
    PROVE  /\ \A p \in OnTime : p \in Proposals /\ proposal[p] # Unborn /\ proposal[p].job \in Jobs
           /\ \A a \in OnTimeArrows : /\ a \in Arrows /\ a[1] \in Proposals
                                      /\ proposal[a[1]] # Unborn /\ proposal[a[1]].job \in Jobs
<1>1. \A p \in OnTime : p \in Proposals /\ proposal[p] # Unborn /\ proposal[p].job \in Jobs
  BY Fields DEF OnTime, Pending, Proposal
<1>2. \A a \in OnTimeArrows : a \in Arrows /\ a[1] \in Proposals /\ proposal[a[1]] # Unborn
  BY Ends DEF OnTimeArrows, PendingArrows, EndsInv
<1> QED
  BY <1>1, <1>2, Fields DEF Proposal

\* The steps of the queue and of the replicas.
LEMMA BackgroundLast ==
    ASSUME Types, Types', Born, JobInv, ReviewInv, EndsInv, LastInv, NEW j \in Jobs, Queue(j) \/ Replica(j)
    PROVE  LastInv'
<1>0. ProposalsLast
  BY EveryStepLasts DEF Next
<1>1. CASE Queue(j) \/ Running(j) \/ Fail(j) \/ Expire(j)
  <2>1. proposal' = proposal /\ arrow' = arrow /\ late' = late /\ store' = store
    BY <1>1 DEF Queue, Take, Finish, Running, Fail, Expire, background, reviewed
  <2> QED
    BY <1>0, <2>1, LastStays DEF OnTime, OnTimeArrows, Pending, PendingArrows, IsStoring, Stored
<1>2. CASE DieStoring(j)
  <2>1. /\ proposal' = proposal /\ arrow' = arrow /\ late' = late
        /\ store'[j].pc = "died" /\ \A i \in Jobs : i # j => store'[i] = store[i]
    BY <1>2 DEF DieStoring, reviewed, Types
  <2> QED
    BY <1>0, <2>1, LastStays DEF OnTime, OnTimeArrows, Pending, PendingArrows, IsStoring, Stored
<1>3. CASE ClaimResult(j)
  <2>1. /\ proposal' = proposal /\ arrow' = arrow /\ late' = late
        /\ \A i \in Jobs : i # j => store'[i] = store[i]
        /\ store'[j].pc = "storing" /\ store'[j].supersede = {"activities", "arrows"}
    BY <1>3 DEF ClaimResult, reviewed, Types
  <2>2. /\ OnTime' = OnTime /\ OnTimeArrows' = OnTimeArrows
        /\ \A i \in Jobs : Stored(i)' => Stored(i)
    BY <2>1 DEF OnTime, OnTimeArrows, Pending, PendingArrows, Stored
  <2>3. \A i \in Jobs : IsStoring(i)' =>
         /\ store'[i].supersede = {"activities", "arrows"} \/ Inserted(i)'
         /\ "activities" \notin store'[i].supersede => \A p \in OnTime' : proposal'[p].job = i
         /\ "arrows" \notin store'[i].supersede => \A a \in OnTimeArrows' : proposal'[a[1]].job = i
    BY <2>1, <2>2 DEF LastInv, IsStoring, Inserted
  <2> QED
    BY <2>1, <2>2, <2>3, OnTimeJobs DEF LastInv, Stored
<1>4. CASE InsertProposal(j)
  <2>1. PICK p \in store[j].activities :
          /\ proposal' = [proposal EXCEPT ![p] =
                            [status |-> "pending", job |-> j, activity |-> "none"]]
          /\ store' = [store EXCEPT ![j].activities = @ \ {p}]
          /\ LateIf(p) /\ arrow' = arrow
    BY <1>4 DEF InsertProposal
  <2>2. /\ IsStoring(j) /\ store[j] \in Storing /\ p \in Proposals /\ proposal[p] = Unborn
        /\ store[j].supersede = {"activities", "arrows"}
    BY <1>4, <2>1 DEF InsertProposal, IsStoring, Types, Storing, ReviewInv, LastInv, Inserted
  <2>3. /\ store'[j].supersede = {"activities", "arrows"} /\ store'[j].pc = "storing"
        /\ \A i \in Jobs : i # j => store'[i] = store[i]
    BY <2>1, <2>2 DEF Types, Storing
  <2>4. /\ proposal'[p].job = j /\ late \subseteq late'
        /\ \A o \in Proposals : o # p => proposal'[o] = proposal[o]
    BY <2>1, <2>2 DEF Types, LateIf
  <2>5. /\ \A o \in OnTime' : o = p \/ (o \in OnTime /\ proposal'[o].job = proposal[o].job)
        /\ \A a \in OnTimeArrows' : a \in OnTimeArrows /\ proposal'[a[1]].job = proposal[a[1]].job
    BY <2>1, <2>2, <2>4, Ends DEF OnTime, OnTimeArrows, Pending, PendingArrows, EndsInv
  <2>6. \A i \in Jobs : (Stored(i)' <=> Stored(i)) /\ (IsStoring(i)' => i = j)
    BY <2>2, <2>3, OneStoring DEF Stored, IsStoring
  <2>7. ~Stored(j)
    BY <2>2, OneStoring
  <2>8. proposal[p] = Unborn /\ ~Stored(j)' /\ proposal'[p].job = j
    BY <2>2, <2>4, <2>6, <2>7
  <2>9. \A o \in OnTime' : Stored(proposal[o].job)' =>
          o \in OnTime /\ Stored(proposal[o].job) /\ proposal'[o].job = proposal[o].job
    BY <2>5, <2>6, <2>8, OnTimeJobs DEF Stored
  <2>10. \A a \in OnTimeArrows' : Stored(proposal[a[1]].job)' =>
           a \in OnTimeArrows /\ Stored(proposal[a[1]].job) /\ proposal'[a[1]].job = proposal[a[1]].job
    BY <2>5, <2>6, OnTimeJobs DEF Stored
  <2> QED
    BY <2>3, <2>6, <2>9, <2>10 DEF LastInv
<1>5. CASE InsertArrow(j)
  <2>1. PICK a \in store[j].arrows :
          /\ arrow' = [arrow EXCEPT ![a] = "pending"]
          /\ store' = [store EXCEPT ![j].arrows = @ \ {a}]
          /\ LateIf(a) /\ proposal' = proposal
    BY <1>5 DEF InsertArrow
  <2>2. /\ IsStoring(j) /\ store[j] \in Storing /\ a \in Arrows
        /\ store[j].supersede = {"activities", "arrows"}
    BY <1>5, <2>1 DEF InsertArrow, IsStoring, Types, Storing, LastInv, Inserted
  <2>3. /\ store'[j].supersede = {"activities", "arrows"} /\ store'[j].pc = "storing"
        /\ \A i \in Jobs : i # j => store'[i] = store[i]
    BY <2>1, <2>2 DEF Types, Storing
  <2>4. proposal[a[1]].job = j /\ late \subseteq late'
    BY <1>5, <2>1, <2>2 DEF InsertArrow, EndsInv, LateIf
  <2>5. OnTime' \subseteq OnTime /\ \A b \in OnTimeArrows' : b = a \/ b \in OnTimeArrows
    BY <2>1, <2>2, <2>4 DEF OnTime, OnTimeArrows, Pending, PendingArrows, Types
  <2>6. \A i \in Jobs : (Stored(i)' <=> Stored(i)) /\ (IsStoring(i)' => i = j)
    BY <2>2, <2>3, OneStoring DEF Stored, IsStoring
  <2>7. ~Stored(j)
    BY <2>2, OneStoring
  <2>9. \A o \in OnTime' : Stored(proposal[o].job)' => o \in OnTime /\ Stored(proposal[o].job)
    BY <2>1, <2>5, <2>6, OnTimeJobs DEF Stored
  <2>10. \A b \in OnTimeArrows' : Stored(proposal[b[1]].job)' =>
           b \in OnTimeArrows /\ Stored(proposal[b[1]].job)
    BY <2>1, <2>4, <2>5, <2>6, <2>7, OnTimeJobs DEF Stored
  <2> QED
    BY <2>1, <2>3, <2>6, <2>9, <2>10 DEF LastInv
<1>6. CASE SupersedeProposals(j) \/ SupersedeArrows(j)
  <2>1. IsStoring(j) /\ Inserted(j) /\ store[j] \in Storing /\ late' = late
    BY <1>6 DEF SupersedeProposals, SupersedeArrows, Inserted, IsStoring, Types, Storing
  <2>2. /\ \A i \in Jobs : i # j => store'[i] = store[i]
        /\ store'[j].pc = "storing" /\ Inserted(j)'
    BY <1>6, <2>1 DEF SupersedeProposals, SupersedeArrows, Inserted, IsStoring, Types, Storing
  <2>3. Pending' \subseteq Pending /\ PendingArrows' \subseteq PendingArrows
    BY <1>6 DEF SupersedeProposals, SupersedeArrows, Pending, PendingArrows, Types, Proposal
  <2>4. OnTime' \subseteq OnTime /\ OnTimeArrows' \subseteq OnTimeArrows
    BY <2>1, <2>3 DEF OnTime, OnTimeArrows
  <2>5. /\ \A o \in OnTime' : proposal'[o].job = proposal[o].job
        /\ \A a \in OnTimeArrows' : proposal'[a[1]].job = proposal[a[1]].job
    BY <1>0, <2>4, OnTimeJobs DEF ProposalsLast
  <2>6. \A i \in Jobs : (Stored(i)' <=> Stored(i)) /\ (IsStoring(i)' => i = j)
    BY <2>1, <2>2, OneStoring DEF Stored, IsStoring
  <2>7. ASSUME "activities" \notin store'[j].supersede, NEW o \in OnTime'
        PROVE  proposal'[o].job = j
    <3>1. CASE SupersedeProposals(j)
      <4>1. o \in OnTime /\ o \in Proposals /\ proposal'[o].status = "pending" /\ proposal[o] \in Proposal
        BY <2>4, OnTimeJobs, Fields DEF OnTime, Pending
      <4>2. proposal[o].job # j => proposal'[o].status = "superseded"
        BY <3>1, <4>1 DEF SupersedeProposals, OnTime, Proposal
      <4> QED
        BY <2>5, <4>1, <4>2
    <3>2. CASE SupersedeArrows(j)
      <4>1. "activities" \notin store[j].supersede
        BY <2>1, <2>7, <3>2 DEF SupersedeArrows, Types, Storing
      <4> QED
        BY <2>1, <2>4, <2>5, <4>1 DEF LastInv
    <3> QED
      BY <1>6, <3>1, <3>2
  <2>8. ASSUME "arrows" \notin store'[j].supersede, NEW a \in OnTimeArrows'
        PROVE  proposal'[a[1]].job = j
    <3>1. CASE SupersedeArrows(j)
      <4>1. a \in OnTimeArrows /\ a \in Arrows /\ arrow'[a] = "pending"
        BY <2>4, OnTimeJobs DEF OnTimeArrows, PendingArrows
      <4>2. proposal[a[1]].job # j => arrow'[a] = "superseded"
        BY <3>1, <4>1 DEF SupersedeArrows, OnTimeArrows
      <4> QED
        BY <2>5, <4>1, <4>2
    <3>2. CASE SupersedeProposals(j)
      <4>1. "arrows" \notin store[j].supersede
        BY <2>1, <2>8, <3>2 DEF SupersedeProposals, Types, Storing
      <4> QED
        BY <2>1, <2>4, <2>5, <4>1 DEF LastInv
    <3> QED
      BY <1>6, <3>1, <3>2
  <2>9. \A o \in OnTime' : Stored(proposal[o].job)' => o \in OnTime /\ Stored(proposal[o].job)
    BY <2>4, <2>5, <2>6, OnTimeJobs DEF Stored
  <2>10. \A b \in OnTimeArrows' : Stored(proposal[b[1]].job)' =>
           b \in OnTimeArrows /\ Stored(proposal[b[1]].job)
    BY <2>4, <2>5, <2>6, OnTimeJobs DEF Stored
  <2> QED
    BY <2>2, <2>5, <2>6, <2>7, <2>8, <2>9, <2>10 DEF LastInv
<1>7. CASE EndStoring(j)
  <2>1. /\ proposal' = proposal /\ arrow' = arrow /\ late' = late
        /\ IsStoring(j) /\ store[j].supersede = {} /\ store' = [store EXCEPT ![j] = [pc |-> "stored"]]
    BY <1>7 DEF EndStoring, Inserted, reviewed
  <2>2. /\ \A o \in OnTime' : proposal'[o].job = j
        /\ \A a \in OnTimeArrows' : proposal'[a[1]].job = j
    BY <2>1 DEF LastInv, OnTime, OnTimeArrows, Pending, PendingArrows
  <2>3. \A i \in Jobs : ~IsStoring(i)'
    BY <2>1, OneStoring DEF IsStoring, Types
  <2> QED
    BY <2>2, <2>3 DEF LastInv
<1> QED
  BY <1>1, <1>2, <1>3, <1>4, <1>5, <1>6, <1>7 DEF Replica, StoreStep

\* What is left to review of stored detections was all proposed by one of them, the
\* last, but for what came late: a detection supersedes what earlier ones proposed.
THEOREM LastIsReviewed == Spec => []OneDetectionToReview
<1>1. Init => LastInv
  BY DEF Init, LastInv, OnTime, OnTimeArrows, Pending, PendingArrows, IsStoring
<1>2. (Types /\ Born) /\ (Types /\ Born)' /\ JobInv /\ ReviewInv /\ EndsInv /\ LastInv /\ [Next]_vars
        => LastInv'
  <2> SUFFICES ASSUME Types, Types', Born, JobInv, ReviewInv, EndsInv, LastInv, [Next]_vars
               PROVE  LastInv'
    OBVIOUS
  <2>1. CASE \E j \in Jobs : Queue(j) \/ Replica(j)
    BY <2>1, BackgroundLast
  <2>2. CASE (\E r \in Requests : Admin(r)) \/ RemoveActivity \/ EditNext \/ UNCHANGED vars
    <3>1. store' = store
      BY <2>2, EditNextLeaves DEF RemoveActivity, vars, background, Admin, Start, Enqueue, EnqueueFails,
         LoadAccept, Claim, Create, Return, Link, Count, Discard, DiscardArrows, CountDiscarded,
         ReadEnds, ClaimArrow, Draw, ReturnArrow, DiscardArrow, LoadPublish, CountPending, Publish
    <3>2. /\ late \subseteq late' /\ Pending' \subseteq Pending \cup late'
          /\ PendingArrows' \subseteq PendingArrows \cup late'
      <4>1. CASE \E r \in Requests : Admin(r)
        BY <4>1, AdminPending
      <4>2. CASE RemoveActivity
        BY <4>2 DEF RemoveActivity, Made, Pending, PendingArrows, Types, Proposal
      <4>3. CASE UNCHANGED vars
        BY <4>3 DEF vars, Pending, PendingArrows
      <4>4. CASE EditNext
        BY <4>4, EditNextLeaves DEF Pending, PendingArrows
      <4> QED
        BY <2>2, <4>1, <4>2, <4>3, <4>4
    <3>3. OnTime' \subseteq OnTime /\ OnTimeArrows' \subseteq OnTimeArrows
      BY <3>2 DEF OnTime, OnTimeArrows
    <3> QED
      BY <3>1, <3>3, EveryStepLasts, LastStays DEF IsStoring, Stored
  <2> QED
    BY <2>1, <2>2 DEF Next
<1>3. LastInv => OneDetectionToReview
  BY DEF LastInv, OneDetectionToReview, OnTime, OnTimeArrows, Stored
<1> QED
  BY <1>1, <1>2, <1>3, DocumentsTyped, JobsAreRight, ReviewsAreRight, ArrowsHaveEnds, PTL DEF Spec

-----------------------------------------------------------------------------
(* Metrics *)

Linked(p) == proposal[p] # Unborn /\ proposal[p].activity # "none"
Dropped(p) == proposal[p] # Unborn /\ proposal[p].status = "discarded"
DropsNow == {"discardArrows", "countDiscarded"}

CountingOf(j) == {r \in Requests : req[r].pc = "count" /\ proposal[req[r].p].job = j}
DroppingOf(j) == {r \in Requests : req[r].pc \in DropsNow /\ proposal[req[r].p].job = j}
LinkedOf(j) == {p \in Proposals : Linked(p) /\ proposal[p].job = j}
DroppedOf(j) == {p \in Proposals : Dropped(p) /\ proposal[p].job = j}

\* A metric is behind the reviews of its detection by the requests yet to count.
TallyInv ==
    \A j \in Jobs : job[j] # Unborn =>
        /\ job[j].accepted + Cardinality(CountingOf(j)) = Cardinality(LinkedOf(j))
        /\ job[j].discarded + Cardinality(DroppingOf(j)) = Cardinality(DroppedOf(j))

\* What is counted is finite.
LEMMA FiniteTallies ==
    \A j \in Jobs :
        /\ IsFiniteSet(CountingOf(j)) /\ Cardinality(CountingOf(j)) \in Nat
        /\ IsFiniteSet(DroppingOf(j)) /\ Cardinality(DroppingOf(j)) \in Nat
        /\ IsFiniteSet(LinkedOf(j)) /\ Cardinality(LinkedOf(j)) \in Nat
                                    /\ Cardinality(LinkedOf(j)) <= Cardinality(Proposals)
        /\ IsFiniteSet(DroppedOf(j)) /\ Cardinality(DroppedOf(j)) \in Nat
                                     /\ Cardinality(DroppedOf(j)) <= Cardinality(Proposals)
<1> SUFFICES ASSUME NEW j \in Jobs
             PROVE  /\ IsFiniteSet(CountingOf(j)) /\ Cardinality(CountingOf(j)) \in Nat
                    /\ IsFiniteSet(DroppingOf(j)) /\ Cardinality(DroppingOf(j)) \in Nat
                    /\ IsFiniteSet(LinkedOf(j)) /\ Cardinality(LinkedOf(j)) \in Nat
                                    /\ Cardinality(LinkedOf(j)) <= Cardinality(Proposals)
                    /\ IsFiniteSet(DroppedOf(j)) /\ Cardinality(DroppedOf(j)) \in Nat
                                     /\ Cardinality(DroppedOf(j)) <= Cardinality(Proposals)
  OBVIOUS
<1>1. CountingOf(j) \subseteq Requests /\ DroppingOf(j) \subseteq Requests
  BY DEF CountingOf, DroppingOf
<1>2. LinkedOf(j) \subseteq Proposals /\ DroppedOf(j) \subseteq Proposals
  BY DEF LinkedOf, DroppedOf
<1>3. IsFiniteSet(CountingOf(j)) /\ IsFiniteSet(DroppingOf(j))
  BY <1>1, FinitelyMany, FS_Subset
<1>4. /\ IsFiniteSet(LinkedOf(j)) /\ Cardinality(LinkedOf(j)) <= Cardinality(Proposals)
      /\ IsFiniteSet(DroppedOf(j)) /\ Cardinality(DroppedOf(j)) <= Cardinality(Proposals)
  BY <1>2, FinitelyMany, FS_Subset
<1> QED
  BY <1>3, <1>4, FS_CardinalityType

\* Two sets without an element, which are the same but for it.
LEMMA SameWithout ==
    ASSUME NEW S, NEW T, NEW x, x \notin S, x \notin T, S \ {x} = T \ {x}
    PROVE  S = T
OBVIOUS

\* Two finite sets that differ by one element at most.
LEMMA SameButOne ==
    ASSUME NEW S, NEW T, NEW x, IsFiniteSet(S), IsFiniteSet(T), T \ {x} = S \ {x}
    PROVE  Cardinality(T) = Cardinality(S) - (IF x \in S THEN 1 ELSE 0) + (IF x \in T THEN 1 ELSE 0)
<1>1. Cardinality(S \ {x}) = Cardinality(S) - (IF x \in S THEN 1 ELSE 0)
  BY FS_RemoveElement, FS_CardinalityType
<1>2. Cardinality(T \ {x}) = Cardinality(T) - (IF x \in T THEN 1 ELSE 0)
  BY FS_RemoveElement, FS_CardinalityType
<1>3. Cardinality(S) \in Int /\ Cardinality(T) \in Int
  BY FS_CardinalityType
<1>4. Cardinality(T \ {x}) = Cardinality(S \ {x})
  OBVIOUS
<1>5. Cardinality(T) - (IF x \in T THEN 1 ELSE 0) = Cardinality(S) - (IF x \in S THEN 1 ELSE 0)
  BY <1>1, <1>2, <1>4
<1> QED
  BY <1>3, <1>5

\* What no review of this step changes.
LEMMA TallyStays ==
    ASSUME Types, Born, TallyInv, ProposalsLast,
           \A p \in Proposals : (Linked(p)' <=> Linked(p)) /\ (Dropped(p)' <=> Dropped(p)),
           \A r \in Requests : /\ req'[r].pc = "count" <=> req[r].pc = "count"
                               /\ req'[r].pc \in DropsNow <=> req[r].pc \in DropsNow
                               /\ req[r].pc \in DropsNow \cup {"count"} => req'[r].p = req[r].p,
           \A j \in Jobs : job'[j] # Unborn =>
             /\ job[j] # Unborn
             /\ job'[j].accepted = job[j].accepted /\ job'[j].discarded = job[j].discarded
    PROVE  TallyInv'
<1>1. \A r \in Requests : req[r].pc \in DropsNow \cup {"count"} =>
        req[r].p \in Proposals /\ proposal'[req[r].p].job = proposal[req[r].p].job
  BY Shapes DEF Types, Born, Reviewing, Discarding, DropsNow, ProposalsLast
<1>2. \A j \in Jobs : CountingOf(j)' = CountingOf(j) /\ DroppingOf(j)' = DroppingOf(j)
  BY <1>1 DEF CountingOf, DroppingOf
<1>3. \A j \in Jobs : LinkedOf(j)' = LinkedOf(j) /\ DroppedOf(j)' = DroppedOf(j)
  BY DEF LinkedOf, DroppedOf, Linked, Dropped, ProposalsLast
<1> QED
  BY <1>2, <1>3 DEF TallyInv

\* Another request at a proposal, and another detection, count what they counted.
LEMMA OthersTally ==
    ASSUME Types, Born, ProposalsLast, NEW r \in Requests, NEW p \in Proposals, proposal[p] # Unborn,
           \A s \in Requests : s # r => req'[s] = req[s],
           req[r].pc \in DropsNow \cup {"count"} => req[r].p = p,
           req'[r].pc \in DropsNow \cup {"count"} => req'[r].p = p,
           \A o \in Proposals : o # p => proposal'[o] = proposal[o]
    PROVE  \A j \in Jobs :
             /\ CountingOf(j)' \ {r} = CountingOf(j) \ {r}
             /\ DroppingOf(j)' \ {r} = DroppingOf(j) \ {r}
             /\ LinkedOf(j)' \ {p} = LinkedOf(j) \ {p}
             /\ DroppedOf(j)' \ {p} = DroppedOf(j) \ {p}
             /\ j # proposal[p].job =>
                  /\ r \notin CountingOf(j) \cup CountingOf(j)' \cup DroppingOf(j) \cup DroppingOf(j)'
                  /\ p \notin LinkedOf(j) \cup LinkedOf(j)' \cup DroppedOf(j) \cup DroppedOf(j)'
<1>1. \A s \in Requests : req[s].pc \in DropsNow \cup {"count"} =>
        req[s].p \in Proposals /\ proposal'[req[s].p].job = proposal[req[s].p].job
  BY Shapes DEF Types, Born, Reviewing, Discarding, DropsNow, ProposalsLast
<1>2. \A j \in Jobs : /\ CountingOf(j)' \ {r} = CountingOf(j) \ {r}
                      /\ DroppingOf(j)' \ {r} = DroppingOf(j) \ {r}
  BY <1>1 DEF CountingOf, DroppingOf
<1>3. \A j \in Jobs : /\ LinkedOf(j)' \ {p} = LinkedOf(j) \ {p}
                      /\ DroppedOf(j)' \ {p} = DroppedOf(j) \ {p}
  BY DEF LinkedOf, DroppedOf, Linked, Dropped
<1>4. proposal'[p].job = proposal[p].job
  BY DEF ProposalsLast
<1>5. \A j \in Jobs : j # proposal[p].job =>
        r \notin CountingOf(j) \cup CountingOf(j)' \cup DroppingOf(j) \cup DroppingOf(j)'
  BY <1>4 DEF CountingOf, DroppingOf
<1>6. \A j \in Jobs : j # proposal[p].job =>
        p \notin LinkedOf(j) \cup LinkedOf(j)' \cup DroppedOf(j) \cup DroppedOf(j)'
  BY <1>4 DEF LinkedOf, DroppedOf
<1> QED
  BY <1>2, <1>3, <1>5, <1>6

\* A request at a proposal moves what its detection has counted as its reviews move.
LEMMA TallyMoves ==
    ASSUME Types, Types', Born, TallyInv, ProposalsLast,
           NEW r \in Requests, NEW p \in Proposals, proposal[p] # Unborn,
           \A s \in Requests : s # r => req'[s] = req[s],
           req[r].pc \in DropsNow \cup {"count"} => req[r].p = p,
           req'[r].pc \in DropsNow \cup {"count"} => req'[r].p = p,
           \A o \in Proposals : o # p => proposal'[o] = proposal[o],
           NEW k \in Jobs, k = proposal[p].job,
           \A j \in Jobs : j # k => job'[j] = job[j],
           job'[k].accepted = job[k].accepted + (IF req[r].pc = "count" THEN 1 ELSE 0)
                                              - (IF req'[r].pc = "count" THEN 1 ELSE 0)
                                              + (IF Linked(p)' THEN 1 ELSE 0)
                                              - (IF Linked(p) THEN 1 ELSE 0),
           job'[k].discarded = job[k].discarded + (IF req[r].pc \in DropsNow THEN 1 ELSE 0)
                                                - (IF req'[r].pc \in DropsNow THEN 1 ELSE 0)
                                                + (IF Dropped(p)' THEN 1 ELSE 0)
                                                - (IF Dropped(p) THEN 1 ELSE 0)
    PROVE  TallyInv'
<1>1. ASSUME NEW j \in Jobs, j # k
      PROVE  /\ CountingOf(j)' = CountingOf(j) /\ DroppingOf(j)' = DroppingOf(j)
             /\ LinkedOf(j)' = LinkedOf(j) /\ DroppedOf(j)' = DroppedOf(j)
  <2>1. /\ CountingOf(j)' \ {r} = CountingOf(j) \ {r}
        /\ DroppingOf(j)' \ {r} = DroppingOf(j) \ {r}
        /\ LinkedOf(j)' \ {p} = LinkedOf(j) \ {p}
        /\ DroppedOf(j)' \ {p} = DroppedOf(j) \ {p}
    BY OthersTally
  <2>2. /\ r \notin CountingOf(j) \cup CountingOf(j)' \cup DroppingOf(j) \cup DroppingOf(j)'
        /\ p \notin LinkedOf(j) \cup LinkedOf(j)' \cup DroppedOf(j) \cup DroppedOf(j)'
    BY <1>1, OthersTally
  <2> HIDE DEF CountingOf, DroppingOf, LinkedOf, DroppedOf
  <2>5. CountingOf(j)' = CountingOf(j) /\ DroppingOf(j)' = DroppingOf(j)
    BY <2>1, <2>2, SameWithout
  <2>6. LinkedOf(j)' = LinkedOf(j) /\ DroppedOf(j)' = DroppedOf(j)
    BY <2>1, <2>2, SameWithout
  <2> QED
    BY <2>5, <2>6
<1>2. job[k] # Unborn /\ job[k].accepted \in Nat /\ job[k].discarded \in Nat
  BY Fields DEF Born, CountedJob
<1>3. /\ r \in CountingOf(k) <=> req[r].pc = "count"
      /\ r \in DroppingOf(k) <=> req[r].pc \in DropsNow
      /\ p \in LinkedOf(k) <=> Linked(p)
      /\ p \in DroppedOf(k) <=> Dropped(p)
  BY DEF CountingOf, DroppingOf, LinkedOf, DroppedOf
<1>4. proposal'[p].job = k
  BY DEF ProposalsLast
<1>5. /\ r \in CountingOf(k)' <=> req'[r].pc = "count"
      /\ r \in DroppingOf(k)' <=> req'[r].pc \in DropsNow
      /\ p \in LinkedOf(k)' <=> Linked(p)'
      /\ p \in DroppedOf(k)' <=> Dropped(p)'
  BY <1>4 DEF CountingOf, DroppingOf, LinkedOf, DroppedOf
<1>6. /\ IsFiniteSet(CountingOf(k)') /\ IsFiniteSet(DroppingOf(k)')
      /\ IsFiniteSet(LinkedOf(k)') /\ IsFiniteSet(DroppedOf(k)')
  <2>1. CountingOf(k)' \subseteq Requests /\ DroppingOf(k)' \subseteq Requests
    BY DEF CountingOf, DroppingOf
  <2>2. LinkedOf(k)' \subseteq Proposals /\ DroppedOf(k)' \subseteq Proposals
    BY DEF LinkedOf, DroppedOf
  <2> QED
    BY <2>1, <2>2, FinitelyMany, FS_Subset
<1>7. /\ CountingOf(k)' \ {r} = CountingOf(k) \ {r}
      /\ DroppingOf(k)' \ {r} = DroppingOf(k) \ {r}
      /\ LinkedOf(k)' \ {p} = LinkedOf(k) \ {p}
      /\ DroppedOf(k)' \ {p} = DroppedOf(k) \ {p}
  BY OthersTally
<1>8. Cardinality(CountingOf(k)') = Cardinality(CountingOf(k))
        - (IF req[r].pc = "count" THEN 1 ELSE 0) + (IF req'[r].pc = "count" THEN 1 ELSE 0)
  BY <1>3, <1>5, <1>6, <1>7, SameButOne, FiniteTallies
<1>9. Cardinality(DroppingOf(k)') = Cardinality(DroppingOf(k))
        - (IF req[r].pc \in DropsNow THEN 1 ELSE 0) + (IF req'[r].pc \in DropsNow THEN 1 ELSE 0)
  BY <1>3, <1>5, <1>6, <1>7, SameButOne, FiniteTallies
<1>10. Cardinality(LinkedOf(k)') = Cardinality(LinkedOf(k))
        - (IF Linked(p) THEN 1 ELSE 0) + (IF Linked(p)' THEN 1 ELSE 0)
  BY <1>3, <1>5, <1>6, <1>7, SameButOne, FiniteTallies
<1>11. Cardinality(DroppedOf(k)') = Cardinality(DroppedOf(k))
        - (IF Dropped(p) THEN 1 ELSE 0) + (IF Dropped(p)' THEN 1 ELSE 0)
  BY <1>3, <1>5, <1>6, <1>7, SameButOne, FiniteTallies
<1>12. /\ job'[k].accepted + Cardinality(CountingOf(k)') = Cardinality(LinkedOf(k)')
       /\ job'[k].discarded + Cardinality(DroppingOf(k)') = Cardinality(DroppedOf(k)')
  <2>1. /\ job[k].accepted + Cardinality(CountingOf(k)) = Cardinality(LinkedOf(k))
        /\ job[k].discarded + Cardinality(DroppingOf(k)) = Cardinality(DroppedOf(k))
    BY <1>2 DEF TallyInv
  <2> HIDE DEF CountingOf, DroppingOf, LinkedOf, DroppedOf, Linked, Dropped
  <2> QED
    BY <1>2, <1>8, <1>9, <1>10, <1>11, <2>1, FiniteTallies
<1> QED
  BY <1>1, <1>12 DEF TallyInv

\* The steps of the requests: each review is counted once, after it.
LEMMA AdminTally ==
    ASSUME Types, Types', Born, ReviewInv, TallyInv, NEW r \in Requests, Admin(r)
    PROVE  TallyInv'
<1> DEFINE q == req[r]
<1>0. q \in Request
  BY DEF Types
<1>1. ProposalsLast
  BY EveryStepLasts DEF Next
<1>2. \A s \in Requests : s # r => req'[s] = req[s]
  BY StepEffect
  DEF Admin, Start, Enqueue, EnqueueFails, LoadAccept, Claim, Create, Return, Link, Count,
     Discard, DiscardArrows, CountDiscarded, ReadEnds, ClaimArrow, Draw, ReturnArrow,
     DiscardArrow, LoadPublish, CountPending, Publish
<1>3. CASE Start(r)
  <2>1. PICK j \in Jobs :
          /\ job[j] = Unborn
          /\ job' = [job EXCEPT ![j] = [status |-> "pending", accepted |-> 0, discarded |-> 0]]
          /\ Step(r, [pc |-> "enqueue", job |-> j])
    BY <1>3 DEF Start
  <2>2. proposal' = proposal /\ q = Idle /\ req'[r].pc = "enqueue"
    BY <1>3, <2>1, StepEffect DEF Start, reviewed
  <2>3. \A i \in Jobs : /\ CountingOf(i)' = CountingOf(i) /\ DroppingOf(i)' = DroppingOf(i)
                        /\ LinkedOf(i)' = LinkedOf(i) /\ DroppedOf(i)' = DroppedOf(i)
    BY <1>2, <2>2 DEF CountingOf, DroppingOf, LinkedOf, DroppedOf, Linked, Dropped, DropsNow
  <2>4. CountingOf(j) = {} /\ DroppingOf(j) = {}
    BY <2>1, Shapes DEF CountingOf, DroppingOf, DropsNow, Types, Born, Reviewing, Discarding
  <2>5. LinkedOf(j) = {} /\ DroppedOf(j) = {}
    BY <2>1 DEF LinkedOf, DroppedOf, Linked, Dropped, Born
  <2>6. job'[j].accepted = 0 /\ job'[j].discarded = 0 /\ \A i \in Jobs : i # j => job'[i] = job[i]
    BY <2>1 DEF Types
  <2> QED
    BY <2>3, <2>4, <2>5, <2>6, FS_EmptySet DEF TallyInv
<1>4. CASE Link(r)
  <2>1. q.pc = "link" /\ q.p \in Proposals /\ proposal[q.p] \in Proposal /\ proposal[q.p] # Unborn
    BY <1>0, <1>4, Shapes, Fields DEF Link, Born, Reviewing
  <2>2. PICK p \in Proposals : p = q.p
    BY <2>1
  <2>3. proposal[p].status = "accepted" /\ proposal[p].activity = "none"
    BY <2>1, <2>2 DEF ReviewInv, Makes, Making
  <2>4. proposal' = [proposal EXCEPT ![p].activity = "made"] /\ job' = job
    BY <1>4, <2>2 DEF Link
  <2>5. req'[r].pc = "count" /\ req'[r].p = p
    BY <1>0, <1>4, <2>2, StepEffect, Shapes DEF Link
  <2>6. ~Linked(p) /\ Linked(p)' /\ ~Dropped(p) /\ ~Dropped(p)'
    BY <2>1, <2>2, <2>3, <2>4 DEF Linked, Dropped, Types, Proposal
  <2>7. \A o \in Proposals : o # p => proposal'[o] = proposal[o]
    BY <2>4 DEF Types
  <2>8. proposal[p] # Unborn /\ proposal[p].job \in Jobs /\ job[proposal[p].job] \in CountedJob
    BY <2>1, <2>2, Fields DEF Born, Proposal
  <2>9. job[proposal[p].job].accepted \in Int /\ job[proposal[p].job].discarded \in Int
    BY <2>8 DEF CountedJob
  <2> QED
    BY <1>1, <1>2, <2>1, <2>2, <2>4, <2>5, <2>6, <2>7, <2>8, <2>9, TallyMoves DEF DropsNow
<1>5. CASE Count(r) \/ CountDiscarded(r)
  <2>1. q.pc \in {"count", "countDiscarded"} /\ q.p \in Proposals /\ proposal[q.p] # Unborn
    BY <1>0, <1>5, Shapes DEF Count, CountDiscarded, Born, Reviewing, Discarding
  <2>2. PICK p \in Proposals : p = q.p
    BY <2>1
  <2>3. PICK k \in Jobs : k = proposal[p].job
    BY <2>1, <2>2, Fields DEF Proposal
  <2>4. job[k] \in CountedJob
    BY <2>1, <2>2, <2>3, Fields DEF Born
  <2>5. proposal' = proposal /\ req'[r] = Idle
    BY <1>5, StepEffect DEF Count, CountDiscarded, reviewed
  <2>6. \A j \in Jobs : j # k => job'[j] = job[j]
    BY <1>5, <2>2, <2>3 DEF Count, CountDiscarded, Types
  <2>7. (Linked(p)' <=> Linked(p)) /\ (Dropped(p)' <=> Dropped(p))
    BY <2>5 DEF Linked, Dropped
  <2>8. CASE Count(r)
    <3>1. job'[k].accepted = job[k].accepted + 1 /\ job'[k].discarded = job[k].discarded
      BY <2>2, <2>3, <2>4, <2>8 DEF Count, Types, CountedJob
    <3>2. q.pc = "count"
      BY <2>8 DEF Count
    <3>3. /\ job'[k].accepted = job[k].accepted + (IF req[r].pc = "count" THEN 1 ELSE 0)
                                              - (IF req'[r].pc = "count" THEN 1 ELSE 0)
                                              + (IF Linked(p)' THEN 1 ELSE 0)
                                              - (IF Linked(p) THEN 1 ELSE 0)
          /\ job'[k].discarded = job[k].discarded + (IF req[r].pc \in DropsNow THEN 1 ELSE 0)
                                                - (IF req'[r].pc \in DropsNow THEN 1 ELSE 0)
                                                + (IF Dropped(p)' THEN 1 ELSE 0)
                                                - (IF Dropped(p) THEN 1 ELSE 0)
      BY <2>4, <2>5, <2>7, <3>1, <3>2 DEF DropsNow, CountedJob
    <3> QED
      BY <1>1, <1>2, <2>1, <2>2, <2>3, <2>5, <2>6, <3>3, TallyMoves DEF DropsNow
  <2>9. CASE CountDiscarded(r)
    <3>1. job'[k].discarded = job[k].discarded + 1 /\ job'[k].accepted = job[k].accepted
      BY <2>2, <2>3, <2>4, <2>9 DEF CountDiscarded, Types, CountedJob
    <3>2. q.pc = "countDiscarded"
      BY <2>9 DEF CountDiscarded
    <3>3. /\ job'[k].accepted = job[k].accepted + (IF req[r].pc = "count" THEN 1 ELSE 0)
                                              - (IF req'[r].pc = "count" THEN 1 ELSE 0)
                                              + (IF Linked(p)' THEN 1 ELSE 0)
                                              - (IF Linked(p) THEN 1 ELSE 0)
          /\ job'[k].discarded = job[k].discarded + (IF req[r].pc \in DropsNow THEN 1 ELSE 0)
                                                - (IF req'[r].pc \in DropsNow THEN 1 ELSE 0)
                                                + (IF Dropped(p)' THEN 1 ELSE 0)
                                                - (IF Dropped(p) THEN 1 ELSE 0)
      BY <2>4, <2>5, <2>7, <3>1, <3>2 DEF DropsNow, CountedJob
    <3> QED
      BY <1>1, <1>2, <2>1, <2>2, <2>3, <2>5, <2>6, <3>3, TallyMoves DEF DropsNow
  <2> QED
    BY <1>5, <2>8, <2>9
<1>6. CASE Discard(r)
  <2>1. PICK p \in Pending : /\ proposal' = [proposal EXCEPT ![p].status = "discarded"]
                             /\ Step(r, [pc |-> "discardArrows", p |-> p])
    BY <1>6 DEF Discard
  <2>2. p \in Proposals /\ proposal[p] \in Proposal /\ proposal[p] # Unborn
        /\ proposal[p].status = "pending" /\ proposal[p].activity = "none"
    BY <2>1, Fields DEF Pending, ReviewInv
  <2>3. q = Idle /\ req'[r].pc = "discardArrows" /\ req'[r].p = p /\ job' = job
    BY <1>6, <2>1, StepEffect DEF Discard
  <2>4. ~Linked(p) /\ ~Linked(p)' /\ ~Dropped(p) /\ Dropped(p)'
    BY <2>1, <2>2 DEF Linked, Dropped, Types, Proposal
  <2>5. \A o \in Proposals : o # p => proposal'[o] = proposal[o]
    BY <2>1 DEF Types
  <2>6. proposal[p].job \in Jobs /\ job[proposal[p].job] \in CountedJob
    BY <2>2, Fields DEF Born, Proposal
  <2>7. job[proposal[p].job].accepted \in Int /\ job[proposal[p].job].discarded \in Int
    BY <2>6 DEF CountedJob
  <2> QED
    BY <1>1, <1>2, <2>2, <2>3, <2>4, <2>5, <2>6, <2>7, TallyMoves DEF DropsNow
<1>7. CASE \/ Enqueue(r) \/ EnqueueFails(r) \/ LoadAccept(r) \/ Claim(r) \/ Create(r) \/ Return(r)
           \/ DiscardArrows(r) \/ ReadEnds(r) \/ ClaimArrow(r) \/ Draw(r) \/ ReturnArrow(r)
           \/ DiscardArrow(r) \/ LoadPublish(r) \/ CountPending(r) \/ Publish(r)
  <2>1. \A p \in Proposals : (Linked(p)' <=> Linked(p)) /\ (Dropped(p)' <=> Dropped(p))
    <3>1. CASE Claim(r)
      <4>1. q.p \in Proposals /\ proposal[q.p] \in Proposal /\ proposal[q.p] # Unborn
        BY <1>0, <3>1, Shapes, Fields DEF Claim, Born, Reviewing
      <4>2. proposal' = proposal \/
              (proposal' = [proposal EXCEPT ![q.p].status = "accepted"] /\ proposal[q.p].status = "pending")
        BY <3>1 DEF Claim, CanClaim
      <4> QED
        BY <4>1, <4>2 DEF Linked, Dropped, Types, Proposal
    <3>2. CASE Return(r)
      <4>1. q.p \in Proposals /\ proposal[q.p] \in Proposal /\ proposal[q.p] # Unborn
            /\ proposal[q.p].status = "accepted"
        BY <1>0, <3>2, Shapes, Fields DEF Return, Born, Reviewing, ReviewInv, Makes, Making
      <4> QED
        BY <3>2, <4>1 DEF Return, Linked, Dropped, Types, Proposal
    <3>3. CASE ~Claim(r) /\ ~Return(r)
      <4>1. proposal' = proposal
        BY <1>7, <3>3 DEF Enqueue, EnqueueFails, LoadAccept, Create, DiscardArrows, ReadEnds,
           ClaimArrow, Draw, ReturnArrow, DiscardArrow, LoadPublish, CountPending, Publish, reviewed
      <4> QED
        BY <4>1 DEF Linked, Dropped
    <3> QED
      BY <3>1, <3>2, <3>3
  <2>2. /\ req'[r].pc = "count" <=> req[r].pc = "count"
        /\ req'[r].pc \in DropsNow <=> req[r].pc \in DropsNow
        /\ req[r].pc \in DropsNow \cup {"count"} => req'[r].p = req[r].p
    <3>1. CASE DiscardArrows(r)
      BY <1>0, <3>1, Shapes, StepEffect DEF DiscardArrows, DropsNow
    <3>2. CASE DiscardArrow(r)
      BY <3>2 DEF DiscardArrow
    <3>3. CASE ~DiscardArrows(r) /\ ~DiscardArrow(r)
      <4>1. req[r].pc \notin DropsNow \cup {"count"}
        BY <1>7, <3>3 DEF Enqueue, EnqueueFails, LoadAccept, Claim, Create, Return, ReadEnds,
           ClaimArrow, Draw, ReturnArrow, LoadPublish, CountPending, Publish, DropsNow
      <4>2. req'[r].pc \notin DropsNow \cup {"count"}
        BY <1>0, <1>7, <3>3, Shapes DEF Enqueue, EnqueueFails, LoadAccept, Claim, Create, Return,
           ReadEnds, ClaimArrow, Draw, ReturnArrow, LoadPublish, CountPending, Publish, DropsNow,
           Step, Types
      <4> QED
        BY <4>1, <4>2
    <3> QED
      BY <3>1, <3>2, <3>3
  <2>3. \A j \in Jobs : job'[j] # Unborn =>
          /\ job[j] # Unborn
          /\ job'[j].accepted = job[j].accepted /\ job'[j].discarded = job[j].discarded
    <3>1. CASE EnqueueFails(r)
      <4>1. q.job \in Jobs /\ job[q.job] \in CountedJob /\ job[q.job] # Unborn
        BY <1>0, <3>1, Shapes, Fields DEF EnqueueFails, Born
      <4> QED
        BY <3>1, <4>1 DEF EnqueueFails, Types, CountedJob
    <3>2. CASE ~EnqueueFails(r)
      BY <1>7, <3>2 DEF Enqueue, LoadAccept, Claim, Create, Return, DiscardArrows, ReadEnds,
         ClaimArrow, Draw, ReturnArrow, DiscardArrow, LoadPublish, CountPending, Publish
    <3> QED
      BY <3>1, <3>2
  <2> QED
    BY <1>1, <1>2, <2>1, <2>2, <2>3, TallyStays
<1> QED
  BY <1>3, <1>4, <1>5, <1>6, <1>7 DEF Admin

\* The steps of the queue and of the replicas count nothing.
LEMMA BackgroundTally ==
    ASSUME Types, Born, ReviewInv, TallyInv, NEW j \in Jobs, Queue(j) \/ Replica(j)
    PROVE  TallyInv'
<1>1. ProposalsLast
  BY EveryStepLasts DEF Next
<1>2. req' = req
  BY DEF Queue, Take, Finish, Replica, Running, Fail, Expire, StoreStep, ClaimResult,
     InsertProposal, InsertArrow, SupersedeProposals, SupersedeArrows, EndStoring, DieStoring
<1>3. \A p \in Proposals : (Linked(p)' <=> Linked(p)) /\ (Dropped(p)' <=> Dropped(p))
  <2>1. CASE InsertProposal(j)
    <3>1. PICK p \in store[j].activities :
            proposal' = [proposal EXCEPT ![p] =
                           [status |-> "pending", job |-> j, activity |-> "none"]]
      BY <2>1 DEF InsertProposal
    <3>2. proposal[p] = Unborn
      BY <2>1, <3>1 DEF InsertProposal, ReviewInv
    <3> QED
      BY <3>1, <3>2 DEF Linked, Dropped, Types
  <2>2. CASE SupersedeProposals(j)
    <3>1. ASSUME NEW p \in Proposals
          PROVE  (Linked(p)' <=> Linked(p)) /\ (Dropped(p)' <=> Dropped(p))
      <4>1. CASE proposal'[p] = proposal[p]
        BY <4>1 DEF Linked, Dropped
      <4>2. CASE p \in Pending /\ proposal'[p] = [proposal[p] EXCEPT !.status = "superseded"]
        <5>1. proposal[p] \in Proposal /\ proposal[p].status = "pending"
          BY <4>2, Fields DEF Pending
        <5> QED
          BY <4>2, <5>1 DEF Linked, Dropped, Proposal
      <4> QED
        BY <2>2, <4>1, <4>2 DEF SupersedeProposals
    <3> QED
      BY <3>1
  <2>3. CASE ~InsertProposal(j) /\ ~SupersedeProposals(j)
    <3>1. proposal' = proposal
      BY <2>3 DEF Queue, Take, Finish, Replica, Running, Fail, Expire, StoreStep, ClaimResult,
         InsertArrow, SupersedeArrows, EndStoring, DieStoring, reviewed
    <3> QED
      BY <3>1 DEF Linked, Dropped
  <2> QED
    BY <2>1, <2>2, <2>3
<1>4. \A i \in Jobs : job'[i] # Unborn =>
        /\ job[i] # Unborn
        /\ job'[i].accepted = job[i].accepted /\ job'[i].discarded = job[i].discarded
  <2>1. CASE Running(j) \/ Fail(j) \/ Expire(j) \/ EndStoring(j)
    <3>1. job[j] # Unborn /\ job[j] \in CountedJob
      BY <2>1, Fields DEF Running, Fail, Expire, EndStoring, CanFail, IsActive, Active, Born,
         Inserted, IsStoring
    <3>2. \E status \in {"running", "failed", "done"} : job' = [job EXCEPT ![j].status = status]
      BY <2>1 DEF Running, Fail, Expire, EndStoring
    <3> QED
      BY <3>1, <3>2 DEF Types, CountedJob
  <2>2. CASE ~(Running(j) \/ Fail(j) \/ Expire(j) \/ EndStoring(j))
    BY <2>2 DEF Queue, Take, Finish, Replica, StoreStep, ClaimResult, InsertProposal, InsertArrow,
       SupersedeProposals, SupersedeArrows, DieStoring
  <2> QED
    BY <2>1, <2>2
<1> QED
  BY <1>1, <1>2, <1>3, <1>4, TallyStays

\* What the metrics of a detection say, and what its requests have yet to count, are the
\* reviews of its proposals: none is counted twice, and none missed by a living request.
THEOREM ReviewsAreCounted == Spec => []TallyInv
<1>1. Init => TallyInv
  BY DEF Init, TallyInv
<1>2. (Types /\ Born) /\ (Types /\ Born)' /\ ReviewInv /\ TallyInv /\ [Next]_vars => TallyInv'
  <2> SUFFICES ASSUME Types, Types', Born, ReviewInv, TallyInv, [Next]_vars PROVE TallyInv'
    OBVIOUS
  <2>1. CASE \E j \in Jobs : Queue(j) \/ Replica(j)
    BY <2>1, BackgroundTally
  <2>2. CASE \E r \in Requests : Admin(r)
    BY <2>2, AdminTally
  <2>3. CASE RemoveActivity \/ EditNext \/ UNCHANGED vars
    <3>1. \A p \in Proposals : (Linked(p)' <=> Linked(p)) /\ (Dropped(p)' <=> Dropped(p))
      <4>1. CASE RemoveActivity
        <5>1. PICK p \in Proposals : proposal' = [proposal EXCEPT ![p].activity = "removed"] /\ Made(p)
          BY <4>1 DEF RemoveActivity
        <5>2. proposal[p] \in Proposal
          BY <5>1, Fields DEF Made
        <5> QED
          BY <5>1, <5>2 DEF Made, Linked, Dropped, Types, Proposal
      <4>2. CASE UNCHANGED vars
        BY <4>2 DEF vars, Linked, Dropped
      <4>3. CASE EditNext
        BY <4>3, EditNextLeaves DEF Linked, Dropped
      <4> QED
        BY <2>3, <4>1, <4>2, <4>3
    <3>2. job' = job /\ req' = req
      BY <2>3, EditNextLeaves DEF RemoveActivity, vars
    <3> QED
      BY <3>1, <3>2, EveryStepLasts, TallyStays
  <2> QED
    BY <2>1, <2>2, <2>3 DEF Next
<1> QED
  BY <1>1, <1>2, DocumentsTyped, ReviewsAreRight, PTL DEF Spec

\* The metrics of a detection are the reviews of its proposals, less those whose request
\* has not counted yet, or died before it did.
THEOREM MetricsAreReviews == Spec => []MetricsCounted
<1>1. Types /\ TallyInv => MetricsCounted
  <2> SUFFICES ASSUME Types, TallyInv, NEW j \in Jobs, job[j] # Unborn
               PROVE  LET counting(pc) == {r \in Requests :
                              req[r].pc = pc /\ proposal[req[r].p].job = j}
                      IN /\ job[j].accepted + Cardinality(counting("count")) =
                              Cardinality({p \in ProposedBy(j) : proposal[p].activity # "none"})
                         /\ job[j].discarded + Cardinality(counting("discardArrows"))
                                             + Cardinality(counting("countDiscarded")) =
                              Cardinality({p \in ProposedBy(j) : proposal[p].status = "discarded"})
    BY DEF MetricsCounted
  <2> DEFINE at(pc) == {r \in Requests : req[r].pc = pc /\ proposal[req[r].p].job = j}
  <2>1. /\ LinkedOf(j) = {p \in ProposedBy(j) : proposal[p].activity # "none"}
        /\ DroppedOf(j) = {p \in ProposedBy(j) : proposal[p].status = "discarded"}
    BY DEF LinkedOf, DroppedOf, Linked, Dropped, ProposedBy
  <2>2. /\ CountingOf(j) = at("count")
        /\ DroppingOf(j) = at("discardArrows") \cup at("countDiscarded")
        /\ at("discardArrows") \cap at("countDiscarded") = {}
    BY DEF CountingOf, DroppingOf, DropsNow
  <2>3. IsFiniteSet(at("discardArrows")) /\ IsFiniteSet(at("countDiscarded"))
    <3>1. at("discardArrows") \in SUBSET Requests /\ at("countDiscarded") \in SUBSET Requests
      OBVIOUS
    <3> QED
      BY <3>1, FinitelyMany, FS_Subset
  <2>4. /\ Cardinality(at("discardArrows")) \in Nat /\ Cardinality(at("countDiscarded")) \in Nat
        /\ job[j].discarded \in Nat
    BY <2>3, FS_CardinalityType, Fields DEF CountedJob
  <2>5. Cardinality(DroppingOf(j)) = Cardinality(at("discardArrows")) + Cardinality(at("countDiscarded"))
    <3> HIDE DEF at
    <3> QED
      BY <2>2, <2>3, <2>4, FS_Union, FS_EmptySet
  <2> HIDE DEF at
  <2>6. job[j].discarded + Cardinality(at("discardArrows")) + Cardinality(at("countDiscarded"))
          = Cardinality(DroppedOf(j))
    BY <2>4, <2>5 DEF TallyInv
  <2>7. job[j].accepted + Cardinality(at("count")) = Cardinality(LinkedOf(j))
    BY <2>2 DEF TallyInv
  <2> QED
    BY <2>1, <2>6, <2>7 DEF at
<1> QED
  BY <1>1, DocumentsTyped, ReviewsAreCounted, PTL

\* The type of every document and request; a metric goes no further than the proposals.
THEOREM TypesHold == Spec => []TypeOK
<1>1. Types /\ TallyInv => TypeOK
  <2> SUFFICES ASSUME Types, TallyInv PROVE TypeOK
    OBVIOUS
  <2>1. ASSUME NEW j \in Jobs, job[j] # Unborn PROVE job[j] \in Job
    <3>1. job[j] \in CountedJob
      BY <2>1, Fields
    <3>2. job[j].accepted \in Nat /\ job[j].discarded \in Nat
      BY <3>1 DEF CountedJob
    <3>3. job[j].accepted <= Cardinality(LinkedOf(j)) /\ job[j].discarded <= Cardinality(DroppedOf(j))
      BY <2>1, <3>2, FiniteTallies DEF TallyInv
    <3>4. Cardinality(Proposals) \in Nat
      BY FinitelyMany, FS_CardinalityType
    <3>5. job[j].accepted \in Metric /\ job[j].discarded \in Metric
      BY <3>2, <3>3, <3>4, FiniteTallies DEF Metric
    <3> QED
      BY <3>1, <3>5 DEF CountedJob, Job
  <2>2. job \in [Jobs -> Job \cup {Unborn}]
    BY <2>1 DEF Types
  <2> QED
    BY <2>2 DEF Types, TypeOK
<1> QED
  BY <1>1, DocumentsTyped, ReviewsAreCounted, PTL
=============================================================================
