--------------------------- MODULE Details_proofs ---------------------------
(***************************************************************************)
(* Proofs about the details of a project, for any users, administrators,   *)
(* details, comments, activities, texts, request slots and bound on rev:   *)
(* the versions of a detail and its history, then its two counters.        *)
(***************************************************************************)
EXTENDS Details, FiniteSetTheorems, TLAPS

USE DEF Idle

\* Every kind of request record, once for all the typing steps.
LEMMA RequestKinds ==
    /\ Idle \in Request
    /\ CreateRequest \subseteq Request /\ EditRequest \subseteq Request
    /\ ModerateRequest \subseteq Request /\ ReassignRequest \subseteq Request
    /\ RecordRequest \subseteq Request /\ RemoveRequest \subseteq Request
    /\ VoteRequest \subseteq Request /\ CountRequest \subseteq Request
    /\ UncommentRequest \subseteq Request
BY DEF Request

\* Where a request is determines what its record holds.
LEMMA Shapes ==
    ASSUME NEW q \in Request
    PROVE  /\ q.pc = "create" => q \in CreateRequest
           /\ q.pc \in {"viewing", "edit"} => q \in EditRequest
           /\ q.pc \in {"original", "moderate"} => q \in ModerateRequest
           /\ q.pc \in {"orphan", "target", "reassign"} => q \in ReassignRequest
           /\ q.pc = "record" => q \in RecordRequest
           /\ q.pc = "remove" => q \in RemoveRequest
           /\ q.pc \in {"vote", "unvote", "comment"} => q \in VoteRequest
           /\ q.pc \in {"countVote", "countComment"} => q \in CountRequest
           /\ q.pc = "uncomment" => q \in UncommentRequest
BY DEF Request, CreateRequest, EditRequest, ModerateRequest, ReassignRequest,
       RecordRequest, RemoveRequest, VoteRequest, CountRequest, UncommentRequest

\* A step of a request leaves the other slots alone.
LEMMA StepEffect ==
    ASSUME TypeOK, NEW r \in Requests, NEW q, Step(r, q)
    PROVE  /\ req'[r] = q
           /\ \A s \in Requests : s # r => req'[s] = req[s]
           /\ q \in Request => req' \in [Requests -> Request]
BY DEF TypeOK, Step

\* A detail is a document, or one of the two marks that are none.
LEMMA LiveIsDoc ==
    ASSUME TypeOK, NEW d \in DetailIds
    PROVE  /\ Live(d) <=> detail[d] \in Doc
           /\ ~Live(d) <=> detail[d] \in {Unborn, Removed}
BY DEF TypeOK, Live, Doc, Unborn, Removed, Statuses

-----------------------------------------------------------------------------
(* Type correctness *)

\* A project starts with no detail and every slot free.
LEMMA InitTypeOK == Init => TypeOK
BY RequestKinds DEF Init, TypeOK

\* A step that only reads fills the slot of its request with a request record.
LEMMA LoadEffect ==
    ASSUME TypeOK, NEW r \in Requests, Load(r)
    PROVE  /\ UNCHANGED <<project, docs, votes, comment, history>>
           /\ \E q \in Request : Step(r, q)
<1> DEFINE q0 == req[r]
<1>0. q0 \in Request
  BY DEF TypeOK
<1> USE RequestKinds
<1>1. CASE LoadCreate(r)
  BY <1>1 DEF LoadCreate, CreateRequest, TypeOK
<1>2. CASE View(r)
  <2>1. PICK u \in Users, d \in DetailIds :
          Live(d) /\ Step(r, [pc |-> "viewing", user |-> u, detail |-> d, seen |-> detail[d]])
    BY <1>2 DEF View
  <2> DEFINE q == [pc |-> "viewing", user |-> u, detail |-> d, seen |-> detail[d]]
  <2>2. q \in EditRequest
    BY <2>1, LiveIsDoc DEF EditRequest
  <2> QED
    BY <1>2, <2>1, <2>2 DEF View
<1>3. CASE LoadEdit(r)
  <2>1. [q0 EXCEPT !.pc = "edit"] \in EditRequest
    BY <1>0, <1>3, Shapes DEF LoadEdit, EditRequest
  <2> QED
    BY <1>3, <2>1 DEF LoadEdit
<1>4. CASE LoadModerate(r)
  <2>1. PICK d \in DetailIds, to \in Statuses, original \in DetailIds \cup {NoDetail} :
          Step(r, [pc |-> IF to = "duplicate" THEN "original" ELSE "moderate",
                   detail |-> d, to |-> to, original |-> original])
    BY <1>4 DEF LoadModerate
  <2>2. [pc |-> IF to = "duplicate" THEN "original" ELSE "moderate",
         detail |-> d, to |-> to, original |-> original] \in ModerateRequest
    BY DEF ModerateRequest
  <2> QED
    BY <1>4, <2>1, <2>2 DEF LoadModerate
<1>5. CASE LoadOriginal(r)
  <2>1. [q0 EXCEPT !.pc = "moderate"] \in ModerateRequest
    BY <1>0, <1>5, Shapes DEF LoadOriginal, ModerateRequest
  <2> QED
    BY <1>5, <2>1 DEF LoadOriginal
<1>6. CASE LoadReassign(r)
  <2>1. PICK d \in DetailIds, to \in Keys :
          Live(d) /\ Step(r, [pc |-> "orphan", detail |-> d, from |-> detail[d].key, to |-> to])
    BY <1>6 DEF LoadReassign, Writable
  <2>2. [pc |-> "orphan", detail |-> d, from |-> detail[d].key, to |-> to] \in ReassignRequest
    BY <2>1, LiveIsDoc DEF ReassignRequest, Doc
  <2> QED
    BY <1>6, <2>1, <2>2 DEF LoadReassign
<1>7. CASE LoadOwnKeys(r)
  <2>1. [q0 EXCEPT !.pc = "target"] \in ReassignRequest
    BY <1>0, <1>7, Shapes DEF LoadOwnKeys, ReassignRequest
  <2> QED
    BY <1>7, <2>1 DEF LoadOwnKeys
<1>8. CASE LoadTargetKeys(r)
  <2>1. [q0 EXCEPT !.pc = "reassign"] \in ReassignRequest
    BY <1>0, <1>8, Shapes DEF LoadTargetKeys, ReassignRequest
  <2> QED
    BY <1>8, <2>1 DEF LoadTargetKeys
<1>9. CASE LoadRemove(r)
  <2>1. \A d \in DetailIds : [pc |-> "remove", detail |-> d, todo |-> Parts] \in RemoveRequest
    BY DEF RemoveRequest
  <2> QED
    BY <1>9, <2>1 DEF LoadRemove
<1>10. CASE LoadVote(r)
  BY <1>10 DEF LoadVote, VoteRequest
<1>11. CASE LoadUnvote(r)
  BY <1>11 DEF LoadUnvote, VoteRequest
<1>12. CASE LoadComment(r)
  BY <1>12 DEF LoadComment, VoteRequest
<1>13. CASE LoadUncomment(r)
  <2>1. PICK c \in CommentIds :
          Posted(c) /\ Step(r, [pc |-> "uncomment", id |-> c, detail |-> comment[c].detail])
    BY <1>13 DEF LoadUncomment
  <2>2. comment[c] \in Comment
    BY <2>1 DEF Posted, TypeOK
  <2>3. [pc |-> "uncomment", id |-> c, detail |-> comment[c].detail] \in UncommentRequest
    BY <2>2 DEF UncommentRequest, Comment
  <2> QED
    BY <1>13, <2>1, <2>3 DEF LoadUncomment
<1> QED
  BY <1>1, <1>2, <1>3, <1>4, <1>5, <1>6, <1>7, <1>8, <1>9, <1>10, <1>11, <1>12, <1>13
  DEF Load

\* A change to a live detail keeps it a document, and files the rev it had.
LEMMA WriteTypes ==
    ASSUME TypeOK, NEW r \in Requests, NEW d \in DetailIds, Live(d),
           NEW doc \in Doc, Write(r, d, doc)
    PROVE  /\ detail' \in [DetailIds -> Doc \cup {Unborn, Removed}]
           /\ req' \in [Requests -> Request]
<1>1. detail[d].rev \in 0 .. MaxRev
  BY LiveIsDoc DEF Doc
<1>2. [doc EXCEPT !.rev = detail[d].rev + 1] \in Doc
  BY <1>1, MaxRevAssumption DEF Doc, Write
<1>3. detail' \in [DetailIds -> Doc \cup {Unborn, Removed}]
  BY <1>2 DEF Write, TypeOK
<1>4. [pc |-> "record", detail |-> d, rev |-> detail[d].rev] \in Request
  BY <1>1, RequestKinds DEF RecordRequest
<1> QED
  BY <1>3, <1>4, StepEffect DEF Write

\* The five kinds of change to a detail keep every type.
LEMMA WriteDetailTypeOK ==
    ASSUME TypeOK, NEW r \in Requests, WriteDetail(r)
    PROVE  TypeOK'
<1> DEFINE q == req[r]
<1>0. q \in Request
  BY DEF TypeOK
<1>i. Step(r, Idle) => req' \in [Requests -> Request]
  BY RequestKinds, StepEffect
<1>1. CASE Create(r)
  <2>1. q \in CreateRequest
    BY <1>0, <1>1, Shapes DEF Create
  <2>2. [author |-> q.user, status |-> "pending", duplicateOf |-> NoDetail,
         key |-> q.key, text |-> q.text, rev |-> 0] \in Doc
    BY <2>1, MaxRevAssumption DEF CreateRequest, Doc, Statuses
  <2> QED
    BY <1>1, <1>i, <2>2 DEF Create, TypeOK, project
<1>2. CASE Edit(r)
  <2>1. q \in EditRequest
    BY <1>0, <1>2, Shapes DEF Edit
  <2>2. q.detail \in DetailIds
    BY <2>1 DEF EditRequest
  <2>3. CASE EditMatches(q)
    <3>1. PICK t \in Texts : Write(r, q.detail, [detail[q.detail] EXCEPT !.text = t])
      BY <1>2, <2>3 DEF Edit
    <3>2. Live(q.detail)
      BY <2>3 DEF EditMatches
    <3>3. [detail[q.detail] EXCEPT !.text = t] \in Doc
      BY <2>2, <3>2, LiveIsDoc DEF Doc
    <3> QED
      BY <1>2, <2>2, <3>1, <3>2, <3>3, WriteTypes DEF Edit, TypeOK, project
  <2> QED
    BY <1>2, <1>i, <2>3 DEF Edit, TypeOK, project
<1>3. CASE Moderate(r)
  <2>1. q \in ModerateRequest
    BY <1>0, <1>3, Shapes DEF Moderate
  <2>2. CASE Live(q.detail)
    <3>1. q.detail \in DetailIds
      BY <2>1 DEF ModerateRequest
    <3>2. [detail[q.detail] EXCEPT !.status = q.to, !.duplicateOf = q.original] \in Doc
      BY <2>1, <2>2, <3>1, LiveIsDoc DEF Doc, ModerateRequest
    <3> QED
      BY <1>3, <2>2, <3>1, <3>2, WriteTypes DEF Moderate, Change, TypeOK, project
  <2> QED
    BY <1>3, <1>i, <2>2 DEF Moderate, Change, TypeOK, project
<1>4. CASE Reassign(r)
  <2>1. q \in ReassignRequest
    BY <1>0, <1>4, Shapes DEF Reassign
  <2>2. CASE Live(q.detail)
    <3>1. q.detail \in DetailIds
      BY <2>1 DEF ReassignRequest
    <3>2. [detail[q.detail] EXCEPT !.key = q.to] \in Doc
      BY <2>1, <2>2, <3>1, LiveIsDoc DEF Doc, ReassignRequest
    <3> QED
      BY <1>4, <2>2, <3>1, <3>2, WriteTypes DEF Reassign, Change, TypeOK, project
  <2> QED
    BY <1>4, <1>i, <2>2 DEF Reassign, Change, TypeOK, project
<1>5. CASE DeleteDetail(r)
  <2>1. q.detail \in DetailIds
    BY <1>0, <1>5, Shapes DEF DeleteDetail, RemoveRequest
  <2>2. detail' \in [DetailIds -> Doc \cup {Unborn, Removed}]
    BY <1>5, <2>1 DEF DeleteDetail, TypeOK
  <2>3. /\ voteCount' \in [DetailIds -> Int]
        /\ commentCount' \in [DetailIds -> Int]
    BY <1>5, <2>1 DEF DeleteDetail, TypeOK
  <2> QED
    BY <1>5, <1>i, <2>2, <2>3 DEF DeleteDetail, TypeOK, project
<1> QED
  BY <1>1, <1>2, <1>3, <1>4, <1>5 DEF WriteDetail

\* So do the writes to the history, the votes, the comments and the removals.
LEMMA WriteRestTypeOK ==
    ASSUME TypeOK, NEW r \in Requests, WriteRest(r)
    PROVE  TypeOK'
<1> DEFINE q == req[r]
<1>0. q \in Request
  BY DEF TypeOK
<1>i. \A p \in Request : Step(r, p) => req' \in [Requests -> Request]
  BY StepEffect
<1>c. \A what \in {"countVote", "countComment"}, d \in DetailIds, delta \in {1, -1} :
        Counting(what, d, delta) \in Request
  BY RequestKinds DEF Counting, CountRequest
<1>n. \A counter \in [DetailIds -> Int], d \in DetailIds, delta \in {1, -1} :
        Inc(counter, d, delta) \in [DetailIds -> Int]
  BY DEF Inc
<1> USE RequestKinds DEF project, docs
<1>1. CASE RecordHistory(r)
  <2>1. q \in RecordRequest
    BY <1>0, <1>1, Shapes DEF RecordHistory
  <2> QED
    BY <1>1, <1>i, <2>1 DEF RecordHistory, RecordRequest, TypeOK
<1>2. ASSUME NEW part \in Parts, DeletePart(r, part) PROVE TypeOK'
  <2>1. q \in RemoveRequest
    BY <1>0, <1>2, Shapes DEF DeletePart
  <2>2. [q EXCEPT !.todo = @ \ {part}] \in Request
    BY <2>1 DEF RemoveRequest
  <2>3. comment' \in [CommentIds -> Comment \cup {Unposted, Erased}]
    BY <1>2 DEF DeletePart, TypeOK
  <2>4. votes' \subseteq votes /\ history' \subseteq history
    BY <1>2 DEF DeletePart
  <2> QED
    BY <1>2, <1>i, <2>2, <2>3, <2>4 DEF DeletePart, TypeOK
<1>3. CASE Vote(r) \/ Unvote(r)
  <2>1. q \in VoteRequest
    BY <1>0, <1>3, Shapes DEF Vote, Unvote
  <2>2. q.detail \in DetailIds /\ q.user \in Users
    BY <2>1 DEF VoteRequest
  <2>3. req' \in [Requests -> Request]
    BY <1>3, <1>i, <1>c, <2>2 DEF Vote, Unvote
  <2> QED
    BY <1>3, <2>2, <2>3 DEF Vote, Unvote, TypeOK
<1>4. CASE CountVote(r) \/ CountComment(r)
  <2>1. q \in CountRequest
    BY <1>0, <1>4, Shapes DEF CountVote, CountComment
  <2>2. q.detail \in DetailIds /\ q.delta \in {1, -1}
    BY <2>1 DEF CountRequest
  <2> QED
    BY <1>4, <1>i, <1>n, <2>2 DEF CountVote, CountComment, TypeOK
<1>5. CASE PostComment(r)
  <2>1. q \in VoteRequest
    BY <1>0, <1>5, Shapes DEF PostComment
  <2>2. q.detail \in DetailIds /\ q.user \in Users
    BY <2>1 DEF VoteRequest
  <2>3. [detail |-> q.detail, author |-> q.user] \in Comment
    BY <2>2 DEF Comment
  <2>4. req' \in [Requests -> Request]
    BY <1>5, <1>i, <1>c, <2>2 DEF PostComment
  <2> QED
    BY <1>5, <2>3, <2>4 DEF PostComment, TypeOK
<1>6. CASE Uncomment(r)
  <2>1. q \in UncommentRequest
    BY <1>0, <1>6, Shapes DEF Uncomment
  <2>2. q.detail \in DetailIds
    BY <2>1 DEF UncommentRequest
  <2>3. req' \in [Requests -> Request]
    BY <1>6, <1>i, <1>c, <2>2 DEF Uncomment
  <2> QED
    BY <1>6, <2>3 DEF Uncomment, TypeOK
<1> QED
  BY <1>1, <1>2, <1>3, <1>4, <1>5, <1>6 DEF WriteRest

\* Documents, counters, votes, comments, history and requests keep their types.
THEOREM TypeCorrect == Spec => []TypeOK
<1>1. Init => TypeOK
  BY InitTypeOK
<1>2. TypeOK /\ [Next]_vars => TypeOK'
  <2> SUFFICES ASSUME TypeOK, [Next]_vars PROVE TypeOK'
    OBVIOUS
  <2>1. ASSUME NEW r \in Requests, Load(r) PROVE TypeOK'
    <3>1. req' \in [Requests -> Request]
      BY <2>1, LoadEffect, StepEffect
    <3> QED
      BY <2>1, <3>1, LoadEffect DEF TypeOK, project, docs
  <2>2. ASSUME NEW r \in Requests, WriteDetail(r) PROVE TypeOK'
    BY <2>2, WriteDetailTypeOK
  <2>3. ASSUME NEW r \in Requests, WriteRest(r) PROVE TypeOK'
    BY <2>3, WriteRestTypeOK
  <2>4. CASE ToggleOpen
    BY <2>4 DEF ToggleOpen, TypeOK, docs
  <2>5. CASE Publish
    BY <2>5 DEF Publish, TypeOK, docs
  <2>6. CASE UNCHANGED vars
    BY <2>6 DEF vars, TypeOK, project, docs
  <2> QED
    BY <2>1, <2>2, <2>3, <2>4, <2>5, <2>6 DEF Next
<1> QED
  BY <1>1, <1>2, PTL DEF Spec

-----------------------------------------------------------------------------
(* How a detail and a slot evolve *)

\* One step on a detail: nothing, its creation, a change that takes the next
\* rev, or its deletion.
Evolves(d) ==
    \/ detail'[d] = detail[d]
    \/ /\ detail[d] = Unborn
       /\ Live(d)' /\ detail'[d].rev = 0
    \/ /\ Live(d) /\ Live(d)'
       /\ detail'[d].rev = detail[d].rev + 1
    \/ detail'[d] = Removed

\* A change by Write moves only the detail it names, to the next rev.
LEMMA WriteEffect ==
    ASSUME TypeOK, NEW r \in Requests, NEW d \in DetailIds, Live(d),
           NEW doc \in Doc, Write(r, d, doc)
    PROVE  /\ Live(d)' /\ detail'[d].rev = detail[d].rev + 1
           /\ \A e \in DetailIds : e # d => detail'[e] = detail[e]
           /\ req'[r] = [pc |-> "record", detail |-> d, rev |-> detail[d].rev]
           /\ detail'[d] = [doc EXCEPT !.rev = detail[d].rev + 1]
<1>1. detail'[d] = [doc EXCEPT !.rev = detail[d].rev + 1]
  BY DEF Write, TypeOK
<1>2. detail'[d].rev = detail[d].rev + 1 /\ detail'[d].status \in Statuses
  BY <1>1 DEF Doc
<1>3. \A e \in DetailIds : e # d => detail'[e] = detail[e]
  BY DEF Write, TypeOK
<1> QED
  BY <1>1, <1>2, <1>3, StepEffect DEF Write, Live

\* An edition, a moderation or a reassignment either gives up or writes.
LEMMA ChangeEffect ==
    ASSUME TypeOK, NEW r \in Requests, Edit(r) \/ Moderate(r) \/ Reassign(r)
    PROVE  LET d == req[r].detail
           IN  /\ d \in DetailIds
               /\ \/ UNCHANGED detail /\ Step(r, Idle)
                  \/ /\ Live(d)
                     /\ \E doc \in Doc :
                          /\ Write(r, d, doc)
                          /\ \/ doc.key = detail[d].key
                             \/ req[r].pc = "reassign" /\ doc.key = req[r].to
<1> DEFINE q == req[r]
           d == q.detail
<1>0. q \in Request
  BY DEF TypeOK
<1>1. CASE Edit(r)
  <2>1. q \in EditRequest /\ d \in DetailIds
    BY <1>0, <1>1, Shapes DEF Edit, EditRequest
  <2>2. CASE EditMatches(q)
    <3>1. PICK t \in Texts : Write(r, d, [detail[d] EXCEPT !.text = t])
      BY <1>1, <2>2 DEF Edit
    <3>2. Live(d)
      BY <2>2 DEF EditMatches
    <3>3. /\ [detail[d] EXCEPT !.text = t] \in Doc
          /\ [detail[d] EXCEPT !.text = t].key = detail[d].key
      BY <2>1, <3>2, LiveIsDoc DEF Doc
    <3> QED
      BY <2>1, <3>1, <3>2, <3>3
  <2> QED
    BY <1>1, <2>1, <2>2 DEF Edit
<1>2. CASE Moderate(r)
  <2>1. q \in ModerateRequest /\ d \in DetailIds
    BY <1>0, <1>2, Shapes DEF Moderate, ModerateRequest
  <2>2. CASE Live(d)
    <3> DEFINE doc == [detail[d] EXCEPT !.status = q.to, !.duplicateOf = q.original]
    <3>1. doc \in Doc /\ doc.key = detail[d].key
      BY <2>1, <2>2, LiveIsDoc DEF Doc, ModerateRequest
    <3>2. Write(r, d, doc)
      BY <1>2, <2>2 DEF Moderate, Change
    <3> QED
      BY <2>1, <2>2, <3>1, <3>2
  <2> QED
    BY <1>2, <2>1, <2>2 DEF Moderate, Change
<1>3. CASE Reassign(r)
  <2>1. q \in ReassignRequest /\ d \in DetailIds /\ q.pc = "reassign"
    BY <1>0, <1>3, Shapes DEF Reassign, ReassignRequest
  <2>2. CASE Live(d)
    <3> DEFINE doc == [detail[d] EXCEPT !.key = q.to]
    <3>1. doc \in Doc /\ doc.key = q.to
      BY <2>1, <2>2, LiveIsDoc DEF Doc, ReassignRequest
    <3>2. Write(r, d, doc)
      BY <1>3, <2>2 DEF Reassign, Change
    <3> QED
      BY <2>1, <2>2, <3>1, <3>2
  <2> QED
    BY <1>3, <2>1, <2>2 DEF Reassign, Change
<1> QED
  BY <1>1, <1>2, <1>3

\* A new detail takes an identifier never used.
LEMMA CreateEffect ==
    ASSUME TypeOK, NEW r \in Requests, Create(r)
    PROVE  \E d \in DetailIds :
             /\ detail[d] = Unborn
             /\ Live(d)' /\ detail'[d].rev = 0 /\ detail'[d].key = req[r].key
             /\ \A e \in DetailIds : e # d => detail'[e] = detail[e]
<1>1. PICK d \in DetailIds :
        /\ detail[d] = Unborn
        /\ detail' = [detail EXCEPT ![d] =
             [author |-> req[r].user, status |-> "pending", duplicateOf |-> NoDetail,
              key |-> req[r].key, text |-> req[r].text, rev |-> 0]]
  BY DEF Create
<1> QED
  BY <1>1 DEF TypeOK, Live, Statuses

\* Reading, and writing anything but the document, leaves details alone.
LEMMA OtherStepsKeepDetail ==
    ASSUME TypeOK, NEW r \in Requests, Load(r) \/ WriteRest(r)
    PROVE  UNCHANGED detail
BY LoadEffect DEF WriteRest, RecordHistory, DeletePart, Vote, Unvote, CountVote,
       PostComment, Uncomment, CountComment, docs

\* Every step of the system evolves every detail.
LEMMA DetailsEvolve ==
    ASSUME TypeOK, [Next]_vars, NEW d \in DetailIds
    PROVE  Evolves(d)
<1>1. ASSUME NEW r \in Requests, Load(r) \/ WriteRest(r) PROVE Evolves(d)
  BY <1>1, OtherStepsKeepDetail DEF Evolves
<1>2. ASSUME NEW r \in Requests, Edit(r) \/ Moderate(r) \/ Reassign(r)
      PROVE  Evolves(d)
  BY <1>2, ChangeEffect, WriteEffect DEF Evolves
<1>3. ASSUME NEW r \in Requests, Create(r) PROVE Evolves(d)
  BY <1>3, CreateEffect DEF Evolves
<1>4. ASSUME NEW r \in Requests, DeleteDetail(r) PROVE Evolves(d)
  <2>1. req[r] \in RemoveRequest
    BY <1>4, Shapes DEF DeleteDetail, TypeOK
  <2> QED
    BY <1>4, <2>1 DEF DeleteDetail, RemoveRequest, Evolves, TypeOK
<1>5. CASE ToggleOpen \/ Publish \/ UNCHANGED vars
  BY <1>5 DEF ToggleOpen, Publish, vars, docs, Evolves
<1> QED
  BY <1>1, <1>2, <1>3, <1>4, <1>5 DEF Next, WriteDetail

\* The places of a handler that no proof below looks at.
MinorPcs == {"idle", "original", "moderate", "orphan", "target", "vote", "unvote",
             "comment", "uncomment", "countVote", "countComment"}

\* Which steps lead to the places that matter.
LEMMA NextPc ==
    ASSUME TypeOK, NEW r \in Requests, Load(r) \/ WriteDetail(r) \/ WriteRest(r)
    PROVE  \/ req'[r].pc \in MinorPcs
           \/ req'[r].pc = "create" /\ LoadCreate(r)
           \/ req'[r].pc = "viewing" /\ View(r)
           \/ req'[r].pc = "edit" /\ LoadEdit(r)
           \/ req'[r].pc = "reassign" /\ LoadTargetKeys(r)
           \/ req'[r].pc = "record" /\ (Edit(r) \/ Moderate(r) \/ Reassign(r))
           \/ req'[r].pc = "remove" /\ (LoadRemove(r) \/ \E part \in Parts : DeletePart(r, part))
<1> DEFINE q == req[r]
<1>q. q \in Request /\ req \in [Requests -> Request]
  BY DEF TypeOK
<1> USE DEF MinorPcs
<1>1. CASE LoadCreate(r)
  <2>1. req'[r].pc = "create"
    BY <1>1, <1>q DEF LoadCreate, Step
  <2> QED
    BY <1>1, <2>1
<1>2. CASE View(r)
  <2>1. req'[r].pc = "viewing"
    BY <1>2, <1>q DEF View, Step
  <2> QED
    BY <1>2, <2>1
<1>3. CASE LoadEdit(r)
  <2>1. [q EXCEPT !.pc = "edit"].pc = "edit"
    BY <1>3, <1>q, Shapes DEF LoadEdit, EditRequest
  <2>2. req'[r] = Idle \/ req'[r] = [q EXCEPT !.pc = "edit"]
    BY <1>3, <1>q DEF LoadEdit, Step
  <2>3. CASE req'[r] = Idle
    BY <2>3
  <2>4. CASE req'[r] = [q EXCEPT !.pc = "edit"]
    BY <1>3, <2>1, <2>4
  <2> QED
    BY <2>2, <2>3, <2>4
<1>4. CASE LoadModerate(r)
  <2>1. PICK d \in DetailIds, to \in Statuses, original \in DetailIds \cup {NoDetail} :
          Step(r, [pc |-> IF to = "duplicate" THEN "original" ELSE "moderate",
                   detail |-> d, to |-> to, original |-> original])
    BY <1>4 DEF LoadModerate
  <2>2. req'[r].pc = IF to = "duplicate" THEN "original" ELSE "moderate"
    BY <2>1, <1>q DEF Step
  <2> QED
    BY <2>2
<1>5. CASE LoadOriginal(r)
  <2>1. [q EXCEPT !.pc = "moderate"].pc = "moderate"
    BY <1>5, <1>q, Shapes DEF LoadOriginal, ModerateRequest
  <2>2. req'[r] = Idle \/ req'[r] = [q EXCEPT !.pc = "moderate"]
    BY <1>5, <1>q DEF LoadOriginal, Step
  <2>3. CASE req'[r] = Idle
    BY <2>3
  <2>4. CASE req'[r] = [q EXCEPT !.pc = "moderate"]
    BY <2>1, <2>4
  <2> QED
    BY <2>2, <2>3, <2>4
<1>6. CASE LoadReassign(r)
  BY <1>6, <1>q DEF LoadReassign, Step
<1>7. CASE LoadOwnKeys(r)
  <2>1. [q EXCEPT !.pc = "target"].pc = "target"
    BY <1>7, <1>q, Shapes DEF LoadOwnKeys, ReassignRequest
  <2>2. req'[r] = Idle \/ req'[r] = [q EXCEPT !.pc = "target"]
    BY <1>7, <1>q DEF LoadOwnKeys, Step
  <2>3. CASE req'[r] = Idle
    BY <2>3
  <2>4. CASE req'[r] = [q EXCEPT !.pc = "target"]
    BY <2>1, <2>4
  <2> QED
    BY <2>2, <2>3, <2>4
<1>8. CASE LoadTargetKeys(r)
  <2>1. [q EXCEPT !.pc = "reassign"].pc = "reassign"
    BY <1>8, <1>q, Shapes DEF LoadTargetKeys, ReassignRequest
  <2>2. req'[r] = Idle \/ req'[r] = [q EXCEPT !.pc = "reassign"]
    BY <1>8, <1>q DEF LoadTargetKeys, Step
  <2>3. CASE req'[r] = Idle
    BY <2>3
  <2>4. CASE req'[r] = [q EXCEPT !.pc = "reassign"]
    BY <1>8, <2>1, <2>4
  <2> QED
    BY <2>2, <2>3, <2>4
<1>9. CASE LoadRemove(r)
  <2>1. req'[r].pc = "remove"
    BY <1>9, <1>q DEF LoadRemove, Step
  <2> QED
    BY <1>9, <2>1
<1>10. CASE LoadVote(r) \/ LoadUnvote(r) \/ LoadComment(r)
  BY <1>10, <1>q DEF LoadVote, LoadUnvote, LoadComment, Step
<1>11. CASE LoadUncomment(r)
  BY <1>11, <1>q DEF LoadUncomment, Step
<1>12. CASE Create(r) \/ DeleteDetail(r) \/ RecordHistory(r) \/ CountVote(r) \/ CountComment(r)
  BY <1>12, <1>q DEF Create, DeleteDetail, RecordHistory, CountVote, CountComment, Step
<1>13. CASE Edit(r) \/ Moderate(r) \/ Reassign(r)
  <2>1. Step(r, Idle) \/ \E doc \in Doc : Write(r, q.detail, doc)
    BY <1>13, ChangeEffect
  <2>2. CASE Step(r, Idle)
    BY <2>2, <1>q DEF Step
  <2>3. ASSUME NEW doc \in Doc, Write(r, q.detail, doc) PROVE req'[r].pc = "record"
    <3>1. req' = [req EXCEPT ![r] =
                    [pc |-> "record", detail |-> q.detail, rev |-> detail[q.detail].rev]]
      BY <2>3 DEF Write, Step
    <3> QED
      BY <3>1, <1>q
  <2> QED
    BY <1>13, <2>1, <2>2, <2>3
<1>14. ASSUME NEW part \in Parts, DeletePart(r, part) PROVE req'[r].pc = "remove"
  <2>1. [q EXCEPT !.todo = @ \ {part}].pc = "remove"
    BY <1>14, <1>q, Shapes DEF DeletePart, RemoveRequest
  <2> QED
    BY <1>14, <2>1, <1>q DEF DeletePart, Step
<1>15. CASE Vote(r) \/ Unvote(r)
  BY <1>15, <1>q DEF Vote, Unvote, Counting, Step
<1>16. CASE PostComment(r) \/ Uncomment(r)
  BY <1>16, <1>q DEF PostComment, Uncomment, Counting, Step
<1> QED
  BY <1>1, <1>2, <1>3, <1>4, <1>5, <1>6, <1>7, <1>8, <1>9, <1>10, <1>11, <1>12, <1>13,
     <1>14, <1>15, <1>16
  DEF Load, WriteDetail, WriteRest

\* A slot that changed is the slot of a request that took a step.
LEMMA MovesOneSlot ==
    ASSUME TypeOK, [Next]_vars, NEW s \in Requests
    PROVE  req'[s] = req[s] \/ Load(s) \/ WriteDetail(s) \/ WriteRest(s)
<1>1. ASSUME NEW r \in Requests, r # s, Load(r) \/ WriteDetail(r) \/ WriteRest(r)
      PROVE  req'[s] = req[s]
  <2>1. \E q : Step(r, q)
    <3>1. CASE Load(r)
      BY <3>1, LoadEffect
    <3>2. CASE WriteDetail(r)
      BY <3>2, ChangeEffect DEF WriteDetail, Create, DeleteDetail, Write
    <3>3. CASE WriteRest(r)
      BY <3>3 DEF WriteRest, RecordHistory, DeletePart, Vote, Unvote, CountVote,
                  PostComment, Uncomment, CountComment
    <3> QED
      BY <1>1, <3>1, <3>2, <3>3
  <2> QED
    BY <1>1, <2>1, StepEffect
<1>2. CASE ToggleOpen \/ Publish \/ UNCHANGED vars
  BY <1>2 DEF ToggleOpen, Publish, vars
<1> QED
  BY <1>1, <1>2 DEF Next

-----------------------------------------------------------------------------
(* Editions *)

\* What the client of r saw is a past version of the detail, or the present
\* one; and a PATCH past its guard may still edit that version.
SeenOK(r) ==
    LET q == req[r]  d == q.detail
    IN  q.pc \in {"viewing", "edit"} =>
           /\ detail[d] # Unborn
           /\ Live(d) =>
                /\ q.seen.rev <= detail[d].rev
                /\ q.seen.rev = detail[d].rev =>
                     /\ q.seen = detail[d]
                     /\ q.pc = "edit" => CanEdit(q.user, detail[d])

SeenInv == \A r \in Requests : SeenOK(r)

\* A request that does not move keeps it: the detail may only go past what it saw.
LEMMA SeenStays ==
    ASSUME TypeOK, TypeOK', [Next]_vars, NEW s \in Requests, SeenOK(s), req'[s] = req[s]
    PROVE  SeenOK(s)'
<1> DEFINE q == req[s]
           d == q.detail
<1> SUFFICES ASSUME q.pc \in {"viewing", "edit"} PROVE SeenOK(s)'
  BY DEF SeenOK
<1>1. q \in EditRequest
  BY Shapes DEF TypeOK
<1>2. d \in DetailIds /\ q.seen.rev \in 0 .. MaxRev
  BY <1>1 DEF EditRequest, Doc
<1>3. Evolves(d)
  BY <1>2, DetailsEvolve
<1>4. detail[d] # Unborn
  BY DEF SeenOK
<1>5. CASE detail'[d] = detail[d]
  BY <1>5 DEF SeenOK, Live, CanEdit
<1>6. CASE Live(d) /\ Live(d)' /\ detail'[d].rev = detail[d].rev + 1
  <2>1. detail[d].rev \in 0 .. MaxRev
    BY <1>2, <1>6, LiveIsDoc DEF Doc
  <2>2. q.seen.rev <= detail[d].rev
    BY <1>6 DEF SeenOK
  <2>3. q.seen.rev < detail'[d].rev
    BY <1>2, <1>6, <2>1, <2>2, MaxRevAssumption
  <2>4. detail'[d] # Unborn
    BY <1>6 DEF Live, Unborn, Statuses
  <2>5. q.seen.rev # detail'[d].rev /\ q.seen.rev <= detail'[d].rev
    BY <1>2, <1>6, <2>1, <2>2, MaxRevAssumption
  <2> QED
    BY <2>4, <2>5 DEF SeenOK
<1>7. CASE detail'[d] = Removed
  BY <1>7 DEF SeenOK, Live, Removed, Unborn, Statuses
<1> QED
  BY <1>3, <1>4, <1>5, <1>6, <1>7 DEF Evolves

\* The request that moves: it read the present version, or its guard let it pass.
LEMMA SeenMoves ==
    ASSUME TypeOK, NEW r \in Requests, SeenOK(r),
           Load(r) \/ WriteDetail(r) \/ WriteRest(r)
    PROVE  SeenOK(r)'
<1>1. CASE View(r)
  <2>1. PICK u \in Users, d \in DetailIds :
          Live(d) /\ Step(r, [pc |-> "viewing", user |-> u, detail |-> d, seen |-> detail[d]])
    BY <1>1 DEF View
  <2>2. req'[r] = [pc |-> "viewing", user |-> u, detail |-> d, seen |-> detail[d]]
    BY <2>1, StepEffect
  <2>3. detail' = detail /\ detail[d].rev \in 0 .. MaxRev /\ detail[d] # Unborn
    BY <1>1, <2>1, LiveIsDoc DEF View, docs, Doc, Live, Unborn, Statuses
  <2> QED
    BY <2>2, <2>3 DEF SeenOK, Live
<1>2. CASE LoadEdit(r)
  <2> DEFINE q == req[r]
  <2>1. q \in EditRequest
    BY <1>2, Shapes DEF LoadEdit, TypeOK
  <2>2. CASE Step(r, Idle)
    BY <2>2, StepEffect DEF SeenOK
  <2>3. CASE /\ Live(q.detail) /\ CanEdit(q.user, detail[q.detail])
             /\ Step(r, [q EXCEPT !.pc = "edit"])
    <3> DEFINE p == [q EXCEPT !.pc = "edit"]
    <3>1. /\ p.pc = "edit" /\ p.detail = q.detail
          /\ p.seen = q.seen /\ p.user = q.user
      BY <2>1 DEF EditRequest
    <3>2. req'[r] = p /\ detail' = detail
      BY <1>2, <2>3, StepEffect DEF LoadEdit, docs
    <3>3. /\ detail[q.detail] # Unborn
          /\ q.seen.rev <= detail[q.detail].rev
          /\ q.seen.rev = detail[q.detail].rev => q.seen = detail[q.detail]
      BY <1>2, <2>3 DEF SeenOK, LoadEdit
    <3> QED
      BY <2>3, <3>1, <3>2, <3>3 DEF SeenOK, Live, CanEdit
  <2> QED
    BY <1>2, <2>2, <2>3 DEF LoadEdit
<1>3. CASE ~View(r) /\ ~LoadEdit(r)
  <2>1. req'[r].pc \notin {"viewing", "edit"}
    BY <1>3, NextPc DEF MinorPcs
  <2> QED
    BY <2>1 DEF SeenOK
<1> QED
  BY <1>1, <1>2, <1>3

\* What a request read of a detail is at most as new as the detail, and passed the
\* guard of its operation: the invariant the editions rest on.
THEOREM SeenVersions == Spec => []SeenInv
<1>1. Init => SeenInv
  BY DEF Init, SeenInv, SeenOK
<1>2. TypeOK /\ TypeOK' /\ SeenInv /\ [Next]_vars => SeenInv'
  <2> SUFFICES ASSUME TypeOK, TypeOK', SeenInv, [Next]_vars, NEW s \in Requests
               PROVE  SeenOK(s)'
    BY DEF SeenInv
  <2>1. SeenOK(s)
    BY DEF SeenInv
  <2>2. CASE Load(s) \/ WriteDetail(s) \/ WriteRest(s)
    BY <2>1, <2>2, SeenMoves
  <2>3. CASE ~(Load(s) \/ WriteDetail(s) \/ WriteRest(s))
    <3>1. req'[s] = req[s]
      BY <2>3, MovesOneSlot
    <3> QED
      BY <2>1, <3>1, SeenStays
  <2> QED
    BY <2>2, <2>3
<1> QED
  BY <1>1, <1>2, TypeCorrect, PTL DEF Spec

\* An applied edition overwrites exactly the version its author saw, and one
\* the author may edit.
THEOREM EditionsAreSafe == Spec => EditsSafe
<1>1. TypeOK /\ SeenInv /\ [Next]_vars =>
        [\A r \in Requests :
          (req[r].pc = "edit" /\ req'[r].pc = "record") =>
             /\ detail[req[r].detail] = req[r].seen
             /\ CanEdit(req[r].user, detail[req[r].detail])]_vars
  <2> SUFFICES ASSUME TypeOK, SeenInv, [Next]_vars, NEW r \in Requests,
                      req[r].pc = "edit", req'[r].pc = "record"
               PROVE  /\ detail[req[r].detail] = req[r].seen
                      /\ CanEdit(req[r].user, detail[req[r].detail])
    OBVIOUS
  <2>1. Edit(r)
    <3>1. Load(r) \/ WriteDetail(r) \/ WriteRest(r)
      BY MovesOneSlot
    <3> QED
      BY <3>1 DEF Load, LoadCreate, View, LoadEdit, LoadModerate, LoadOriginal, LoadReassign,
          LoadOwnKeys, LoadTargetKeys, LoadRemove, LoadVote, LoadUnvote, LoadComment,
          LoadUncomment, Writable, WriteDetail, Create, Moderate, Reassign, DeleteDetail,
          WriteRest, RecordHistory, DeletePart, Vote, Unvote, CountVote, PostComment,
          Uncomment, CountComment
  <2>2. EditMatches(req[r])
    BY <2>1, StepEffect DEF Edit
  <2> QED
    BY <2>2 DEF SeenInv, SeenOK, EditMatches
<1> QED
  BY <1>1, TypeCorrect, SeenVersions, PTL DEF Spec, EditsSafe

-----------------------------------------------------------------------------
(* Anchors *)

\* Where a request takes an activity from, it was published when it was read.
AnchorsInv ==
    /\ published \subseteq everPublished
    /\ AnchorsEverPublished
    /\ \A r \in Requests :
         /\ req[r].pc = "create" => req[r].key \in everPublished
         /\ req[r].pc = "reassign" => req[r].to \in everPublished

\* Each step keeps the anchors, and what the requests carry, among the published.
LEMMA AnchorsSteps ==
    ASSUME TypeOK, AnchorsInv, NEW r \in Requests,
           Load(r) \/ WriteDetail(r) \/ WriteRest(r)
    PROVE  /\ AnchorsEverPublished'
           /\ req'[r].pc = "create" => req'[r].key \in everPublished
           /\ req'[r].pc = "reassign" => req'[r].to \in everPublished
<1> DEFINE q == req[r]
<1>1. UNCHANGED <<published, everPublished>>
  BY LoadEffect DEF WriteDetail, WriteRest, Create, Edit, Moderate, Reassign,
     DeleteDetail, RecordHistory, DeletePart, Vote, Unvote, CountVote, PostComment,
     Uncomment, CountComment, project
<1>2. req'[r].pc = "create" => req'[r].key \in everPublished
  <2> SUFFICES ASSUME LoadCreate(r) PROVE req'[r].key \in everPublished
    BY NextPc DEF MinorPcs
  <2> QED
    BY DEF LoadCreate, Step, TypeOK, AnchorsInv
<1>3. req'[r].pc = "reassign" => req'[r].to \in everPublished
  <2> SUFFICES ASSUME LoadTargetKeys(r), req'[r].pc = "reassign"
               PROVE  req'[r].to \in everPublished
    BY NextPc DEF MinorPcs
  <2>1. q \in ReassignRequest
    BY Shapes DEF LoadTargetKeys, TypeOK
  <2>2. [q EXCEPT !.pc = "reassign"].to = q.to
    BY <2>1 DEF ReassignRequest
  <2>3. \/ req'[r] = Idle
        \/ q.to \in published /\ req'[r] = [q EXCEPT !.pc = "reassign"]
    BY DEF LoadTargetKeys, TargetPublished, Step, TypeOK
  <2>4. Idle.pc # "reassign"
    OBVIOUS
  <2> QED
    BY <2>2, <2>3, <2>4 DEF AnchorsInv
<1>4. AnchorsEverPublished'
  <2> SUFFICES ASSUME NEW d \in DetailIds, Live(d)' PROVE detail'[d].key \in everPublished
    BY <1>1 DEF AnchorsEverPublished
  <2>1. Live(d) => detail[d].key \in everPublished
    BY DEF AnchorsInv, AnchorsEverPublished
  <2>2. CASE Load(r) \/ WriteRest(r)
    BY <2>1, <2>2, OtherStepsKeepDetail DEF Live
  <2>3. CASE Create(r)
    BY <2>1, <2>3, CreateEffect DEF AnchorsInv, Create, Live
  <2>4. CASE DeleteDetail(r)
    <3>1. q.detail \in DetailIds
      BY <2>4, Shapes DEF DeleteDetail, TypeOK, RemoveRequest
    <3> QED
      BY <2>1, <2>4, <3>1 DEF DeleteDetail, Live, Removed, Statuses, TypeOK
  <2>5. CASE Edit(r) \/ Moderate(r) \/ Reassign(r)
    <3>1. CASE UNCHANGED detail
      BY <2>1, <3>1 DEF Live
    <3>2. ASSUME NEW doc \in Doc, Live(q.detail), q.detail \in DetailIds,
                 Write(r, q.detail, doc),
                 doc.key = detail[q.detail].key
                   \/ (q.pc = "reassign" /\ doc.key = q.to)
          PROVE  detail'[d].key \in everPublished
      <4>1. /\ detail'[q.detail] = [doc EXCEPT !.rev = detail[q.detail].rev + 1]
            /\ d # q.detail => detail'[d] = detail[d]
        BY <3>2 DEF Write, TypeOK
      <4>2. doc.key \in everPublished
        BY <3>2 DEF AnchorsInv, AnchorsEverPublished
      <4>3. detail'[q.detail].key = doc.key
        BY <4>1 DEF Doc
      <4> QED
        BY <2>1, <4>1, <4>2, <4>3 DEF Live
    <3> QED
      BY <2>5, <3>1, <3>2, ChangeEffect
  <2> QED
    BY <2>2, <2>3, <2>4, <2>5 DEF WriteDetail
<1> QED
  BY <1>2, <1>3, <1>4

\* A detail never hangs from an activity that was never published.
THEOREM AnchorsPublished == Spec => []AnchorsEverPublished
<1>1. Init => AnchorsInv
  BY DEF Init, AnchorsInv, AnchorsEverPublished, Live, Unborn, Statuses
<1>2. TypeOK /\ AnchorsInv /\ [Next]_vars => AnchorsInv'
  <2> SUFFICES ASSUME TypeOK, AnchorsInv, [Next]_vars PROVE AnchorsInv'
    OBVIOUS
  <2>1. ASSUME NEW r \in Requests, Load(r) \/ WriteDetail(r) \/ WriteRest(r)
        PROVE  AnchorsInv'
    <3>1. UNCHANGED <<published, everPublished>>
      BY <2>1, LoadEffect DEF WriteDetail, WriteRest, Create, Edit, Moderate, Reassign,
         DeleteDetail, RecordHistory, DeletePart, Vote, Unvote, CountVote, PostComment,
         Uncomment, CountComment, project
    <3>2. \A s \in Requests :
            /\ req'[s].pc = "create" => req'[s].key \in everPublished
            /\ req'[s].pc = "reassign" => req'[s].to \in everPublished
      BY MovesOneSlot, AnchorsSteps DEF AnchorsInv
    <3> QED
      BY <2>1, <3>1, <3>2, AnchorsSteps DEF AnchorsInv
  <2>2. CASE Publish
    BY <2>2 DEF Publish, AnchorsInv, AnchorsEverPublished, docs, Live
  <2>3. CASE ToggleOpen \/ UNCHANGED vars
    BY <2>3 DEF ToggleOpen, vars, project, docs, AnchorsInv, AnchorsEverPublished, Live
  <2> QED
    BY <2>1, <2>2, <2>3 DEF Next
<1>3. AnchorsInv => AnchorsEverPublished
  BY DEF AnchorsInv
<1> QED
  BY <1>1, <1>2, <1>3, TypeCorrect, PTL DEF Spec

-----------------------------------------------------------------------------
(* History *)

Removing(r, d) == req[r].pc = "remove" /\ req[r].detail = d

\* HistoryComplete for one detail, and that nothing refers to one not created.
HistoryOK(d) ==
    /\ detail[d] = Unborn =>
         /\ \A n \in 0 .. MaxRev : <<d, n>> \notin history
         /\ \A r \in Requests :
              ~Removing(r, d) /\ \A n \in 0 .. MaxRev : ~Recording(r, d, n)
    /\ (Live(d) /\ ~Purged(d, "history")) =>
         /\ \A n \in 0 .. MaxRev :
              (<<d, n>> \in history \/ \E r \in Requests : Recording(r, d, n))
                <=> n < detail[d].rev
         /\ \A r, s \in Requests, n \in 0 .. MaxRev :
              Recording(r, d, n) =>
                 <<d, n>> \notin history /\ (Recording(s, d, n) => r = s)

HistoryInv == \A d \in DetailIds : HistoryOK(d)

\* A step that changes nothing HistoryOK speaks of keeps it.
LEMMA HistoryFrame ==
    ASSUME NEW d \in DetailIds, HistoryOK(d), detail'[d] = detail[d],
           \A n \in 0 .. MaxRev : <<d, n>> \in history' <=> <<d, n>> \in history,
           \A r \in Requests, n \in 0 .. MaxRev : Recording(r, d, n)' <=> Recording(r, d, n),
           \A r \in Requests : Removing(r, d)' => Removing(r, d) \/ Live(d),
           Purged(d, "history")' <=> Purged(d, "history")
    PROVE  HistoryOK(d)'
<1>1. Live(d)' <=> Live(d)
  BY DEF Live
<1>2. detail[d] = Unborn => ~Live(d)
  BY DEF Live, Unborn, Statuses
<1> QED
  BY <1>1, <1>2 DEF HistoryOK

\* A change to d: the version that was current is now on its way.
LEMMA WriteKeepsHistory ==
    ASSUME TypeOK, NEW r \in Requests, NEW e \in DetailIds, NEW doc \in Doc, Live(e),
           Write(r, e, doc), history' = history,
           req[r].pc \notin {"record", "remove"}, NEW d \in DetailIds, HistoryOK(d)
    PROVE  HistoryOK(d)'
<1> DEFINE cur == detail[e].rev
<1>1. /\ detail'[e].rev = cur + 1 /\ Live(e)'
      /\ req'[r] = [pc |-> "record", detail |-> e, rev |-> cur]
      /\ \A f \in DetailIds : f # e => detail'[f] = detail[f]
  BY WriteEffect
<1>2. \A s \in Requests : s # r => req'[s] = req[s]
  BY DEF Write, Step, TypeOK
<1>3. cur \in 0 .. MaxRev
  BY LiveIsDoc DEF Doc
<1>4. \A s \in Requests, n \in 0 .. MaxRev :
        Recording(s, d, n)' <=> Recording(s, d, n) \/ (s = r /\ d = e /\ n = cur)
  BY <1>1, <1>2 DEF Recording
<1>5. \A s \in Requests : Removing(s, d)' <=> Removing(s, d)
  BY <1>1, <1>2 DEF Removing
<1>6. Purged(d, "history")' <=> Purged(d, "history")
  BY <1>1, <1>2 DEF Purged
<1>7. CASE d # e
  BY <1>1, <1>4, <1>5, <1>6, <1>7, HistoryFrame
<1>8. CASE d = e
  <2>1. detail'[d] # Unborn
    BY <1>1, <1>8 DEF Live, Unborn, Statuses
  <2> SUFFICES ASSUME ~Purged(d, "history")
               PROVE  /\ \A n \in 0 .. MaxRev :
                           (<<d, n>> \in history \/ \E s \in Requests : Recording(s, d, n)')
                             <=> n < cur + 1
                      /\ \A s, t \in Requests, n \in 0 .. MaxRev :
                           Recording(s, d, n)' =>
                             <<d, n>> \notin history /\ (Recording(t, d, n)' => s = t)
    BY <1>1, <1>6, <1>8, <2>1 DEF HistoryOK
  <2>2. /\ \A n \in 0 .. MaxRev :
             (<<d, n>> \in history \/ \E s \in Requests : Recording(s, d, n)) <=> n < cur
        /\ \A s, t \in Requests, n \in 0 .. MaxRev :
             Recording(s, d, n) =>
                <<d, n>> \notin history /\ (Recording(t, d, n) => s = t)
    BY <1>8 DEF HistoryOK
  <2>3. \A n \in 0 .. MaxRev : n < cur + 1 <=> n < cur \/ n = cur
    BY <1>3, MaxRevAssumption
  <2>4. <<d, cur>> \notin history /\ \A s \in Requests : ~Recording(s, d, cur)
    BY <1>3, <2>2, MaxRevAssumption
  <2> QED
    BY <1>3, <1>4, <1>8, <2>2, <2>3, <2>4
<1> QED
  BY <1>7, <1>8

\* The record takes the version on its way into the history.
LEMMA RecordKeepsHistory ==
    ASSUME TypeOK, NEW r \in Requests, RecordHistory(r), NEW d \in DetailIds, HistoryOK(d)
    PROVE  HistoryOK(d)'
<1> DEFINE e == req[r].detail
           m == req[r].rev
<1>1. e \in DetailIds /\ m \in 0 .. MaxRev
  BY Shapes DEF RecordHistory, TypeOK, RecordRequest
<1>2. /\ history' = history \cup {<<e, m>>}
      /\ detail' = detail
      /\ req'[r] = Idle
      /\ \A s \in Requests : s # r => req'[s] = req[s]
  BY DEF RecordHistory, docs, Step, TypeOK
<1>3. req[r].pc = "record" /\ Recording(r, e, m)
  BY DEF RecordHistory, Recording
<1>4. \A s \in Requests, n \in 0 .. MaxRev :
        Recording(s, d, n)' <=> Recording(s, d, n) /\ s # r
  BY <1>2 DEF Recording
<1>5. \A s \in Requests : Removing(s, d)' <=> Removing(s, d)
  BY <1>2, <1>3 DEF Removing
<1>6. Purged(d, "history")' <=> Purged(d, "history")
  BY <1>2, <1>3 DEF Purged
<1>7. \A n \in 0 .. MaxRev :
        <<d, n>> \in history' <=> <<d, n>> \in history \/ (d = e /\ n = m)
  BY <1>2
<1>8. \A n \in 0 .. MaxRev : Recording(r, d, n) <=> d = e /\ n = m
  BY <1>3 DEF Recording
<1>9. CASE d # e
  BY <1>2, <1>4, <1>5, <1>6, <1>7, <1>8, <1>9, HistoryFrame
<1>10. CASE d = e
  <2>1. detail'[d] # Unborn
    BY <1>1, <1>2, <1>3, <1>10 DEF HistoryOK
  <2>2. Live(d)' <=> Live(d)
    BY <1>2 DEF Live
  <2> SUFFICES ASSUME Live(d), ~Purged(d, "history")
               PROVE  /\ \A n \in 0 .. MaxRev :
                           (<<d, n>> \in history' \/ \E s \in Requests : Recording(s, d, n)')
                             <=> n < detail[d].rev
                      /\ \A s, t \in Requests, n \in 0 .. MaxRev :
                           Recording(s, d, n)' =>
                             <<d, n>> \notin history' /\ (Recording(t, d, n)' => s = t)
    BY <1>2, <1>6, <2>1, <2>2 DEF HistoryOK
  <2>3. /\ \A n \in 0 .. MaxRev :
             (<<d, n>> \in history \/ \E s \in Requests : Recording(s, d, n))
                <=> n < detail[d].rev
        /\ \A s, t \in Requests, n \in 0 .. MaxRev :
             Recording(s, d, n) =>
                <<d, n>> \notin history /\ (Recording(t, d, n) => s = t)
    BY DEF HistoryOK
  <2>4. \A n \in 0 .. MaxRev :
          (<<d, n>> \in history' \/ \E s \in Requests : Recording(s, d, n)')
            <=> (<<d, n>> \in history \/ \E s \in Requests : Recording(s, d, n))
    BY <1>4, <1>7, <1>8
  <2> QED
    BY <1>4, <1>7, <1>8, <2>3, <2>4
<1> QED
  BY <1>9, <1>10

\* Deleting the history of d takes d out of the scope of HistoryOK; deleting
\* another part, or another detail's, touches nothing of it.
LEMMA DeletePartKeepsHistory ==
    ASSUME TypeOK, NEW r \in Requests, NEW part \in Parts, DeletePart(r, part),
           NEW d \in DetailIds, HistoryOK(d)
    PROVE  HistoryOK(d)'
<1> DEFINE q == req[r]
           e == q.detail
           p == [q EXCEPT !.todo = @ \ {part}]
<1>1. q \in RemoveRequest
  BY Shapes DEF DeletePart, TypeOK
<1>2. p.pc = "remove" /\ p.detail = e /\ p.todo = q.todo \ {part} /\ q.pc = "remove"
  BY <1>1 DEF RemoveRequest, DeletePart
<1>3. /\ req'[r] = p /\ detail' = detail
      /\ \A s \in Requests : s # r => req'[s] = req[s]
      /\ history' = IF part = "history" THEN {h \in history : h[1] # e} ELSE history
  BY DEF DeletePart, docs, Step, TypeOK
<1>4. \A s \in Requests, n \in 0 .. MaxRev : Recording(s, d, n)' <=> Recording(s, d, n)
  BY <1>2, <1>3 DEF Recording
<1>5. \A s \in Requests : Removing(s, d)' <=> Removing(s, d)
  BY <1>2, <1>3 DEF Removing
<1>6. CASE part # "history" \/ d # e
  <2>1. Purged(d, "history")' <=> Purged(d, "history")
    BY <1>2, <1>3, <1>6 DEF Purged
  <2>2. \A n \in 0 .. MaxRev : <<d, n>> \in history' <=> <<d, n>> \in history
    BY <1>3, <1>6
  <2> QED
    BY <1>3, <1>4, <1>5, <2>1, <2>2, HistoryFrame
<1>7. CASE part = "history" /\ d = e
  <2>1. Purged(d, "history")'
    BY <1>2, <1>3, <1>7 DEF Purged
  <2>2. detail'[d] # Unborn
    BY <1>2, <1>3, <1>7 DEF HistoryOK, Removing
  <2> QED
    BY <2>1, <2>2 DEF HistoryOK
<1> QED
  BY <1>6, <1>7

\* Steps that neither file a version, nor delete, nor change a detail: their
\* slot comes from no place and goes to no place HistoryOK speaks of, but for
\* the start of a removal, which has purged nothing yet.
LEMMA OtherStepsKeepHistory ==
    ASSUME TypeOK, NEW r \in Requests, NEW d \in DetailIds, HistoryOK(d),
           \/ Load(r)
           \/ Vote(r) \/ Unvote(r) \/ CountVote(r)
           \/ PostComment(r) \/ Uncomment(r) \/ CountComment(r)
           \/ (Edit(r) \/ Moderate(r) \/ Reassign(r)) /\ UNCHANGED detail /\ Step(r, Idle)
    PROVE  HistoryOK(d)'
<1>1. Load(r) \/ WriteDetail(r) \/ WriteRest(r)
  BY DEF WriteDetail, WriteRest
<1>2. UNCHANGED <<detail, history>>
  BY OtherStepsKeepDetail, LoadEffect
  DEF WriteRest, Vote, Unvote, CountVote, PostComment, Uncomment, CountComment,
      Edit, Moderate, Reassign
<1>3. req[r].pc \notin {"record", "remove"}
  BY DEF Load, LoadCreate, View, LoadEdit, LoadModerate, LoadOriginal, LoadReassign,
         LoadOwnKeys, LoadTargetKeys, LoadRemove, LoadVote, LoadUnvote, LoadComment,
         LoadUncomment, Writable, Vote, Unvote, CountVote, PostComment, Uncomment,
         CountComment, Edit, Moderate, Reassign
<1>4. \A s \in Requests : s # r => req'[s] = req[s]
  <2>1. \E q : Step(r, q)
    BY LoadEffect DEF Vote, Unvote, CountVote, PostComment, Uncomment, CountComment
  <2> QED
    BY <2>1, StepEffect
<1>5. \/ req'[r].pc \notin {"record", "remove"}
      \/ req'[r].pc = "remove" /\ Live(req'[r].detail) /\ req'[r].todo = Parts
  <2>1. CASE Load(r)
    <3>1. CASE LoadRemove(r)
      <4>1. PICK e \in DetailIds :
              Live(e) /\ Step(r, [pc |-> "remove", detail |-> e, todo |-> Parts])
        BY <3>1 DEF LoadRemove, Writable
      <4>2. req'[r] = [pc |-> "remove", detail |-> e, todo |-> Parts]
        BY <4>1, StepEffect
      <4> QED
        BY <4>1, <4>2
    <3>2. CASE ~LoadRemove(r)
      <4>1. ~DeletePart(r, "votes") /\ ~DeletePart(r, "comments") /\ ~DeletePart(r, "history")
        BY <1>3 DEF DeletePart
      <4>2. ~(Edit(r) \/ Moderate(r) \/ Reassign(r))
        BY <2>1 DEF Load, LoadCreate, View, LoadEdit, LoadModerate, LoadOriginal,
          LoadReassign, LoadOwnKeys, LoadTargetKeys, LoadRemove, LoadVote, LoadUnvote,
          LoadComment, LoadUncomment, Writable, Edit, Moderate, Reassign
      <4> QED
        BY <1>1, <3>2, <4>1, <4>2, NextPc DEF MinorPcs, Parts
    <3> QED
      BY <3>1, <3>2
  <2>2. CASE Vote(r) \/ Unvote(r) \/ CountVote(r)
    BY <2>2 DEF Vote, Unvote, CountVote, Counting, Step, TypeOK
  <2>3. CASE PostComment(r) \/ Uncomment(r) \/ CountComment(r)
    BY <2>3 DEF PostComment, Uncomment, CountComment, Counting, Step, TypeOK
  <2>4. CASE Step(r, Idle)
    BY <2>4 DEF Step, TypeOK
  <2> QED
    BY <2>1, <2>2, <2>3, <2>4
<1>6. "history" \in Parts
  BY DEF Parts
<1>7. \A s \in Requests, n \in 0 .. MaxRev : Recording(s, d, n)' <=> Recording(s, d, n)
  BY <1>3, <1>4, <1>5 DEF Recording
<1>8. \A s \in Requests : Removing(s, d)' => Removing(s, d) \/ Live(d)
  BY <1>4, <1>5 DEF Removing
<1>9. Purged(d, "history")' <=> Purged(d, "history")
  BY <1>3, <1>4, <1>5, <1>6 DEF Purged
<1> QED
  BY <1>2, <1>7, <1>8, <1>9, HistoryFrame

\* A new detail is at rev 0: there is no earlier version to keep.
LEMMA CreateKeepsHistory ==
    ASSUME TypeOK, NEW r \in Requests, Create(r), NEW d \in DetailIds, HistoryOK(d)
    PROVE  HistoryOK(d)'
<1>1. PICK e \in DetailIds :
        /\ detail[e] = Unborn
        /\ Live(e)' /\ detail'[e].rev = 0
        /\ \A f \in DetailIds : f # e => detail'[f] = detail[f]
  BY CreateEffect
<1>2. /\ history' = history /\ req'[r] = Idle /\ req[r].pc = "create"
      /\ \A s \in Requests : s # r => req'[s] = req[s]
  BY DEF Create, Step, TypeOK
<1>3. \A s \in Requests, n \in 0 .. MaxRev : Recording(s, d, n)' <=> Recording(s, d, n)
  BY <1>2 DEF Recording
<1>4. \A s \in Requests : Removing(s, d)' <=> Removing(s, d)
  BY <1>2 DEF Removing
<1>5. Purged(d, "history")' <=> Purged(d, "history")
  BY <1>2 DEF Purged
<1>6. CASE d # e
  BY <1>1, <1>2, <1>3, <1>4, <1>5, <1>6, HistoryFrame
<1>7. CASE d = e
  <2>1. detail'[d] # Unborn
    BY <1>1, <1>7 DEF Live, Unborn, Statuses
  <2>2. \A n \in 0 .. MaxRev :
          <<d, n>> \notin history' /\ \A s \in Requests : ~Recording(s, d, n)'
    BY <1>1, <1>2, <1>3, <1>7 DEF HistoryOK
  <2>3. \A n \in 0 .. MaxRev : ~(n < detail'[d].rev)
    BY <1>1, <1>7, MaxRevAssumption
  <2> QED
    BY <2>1, <2>2, <2>3 DEF HistoryOK
<1> QED
  BY <1>6, <1>7

\* Removing a detail takes it out of the scope of HistoryOK.
LEMMA DeleteKeepsHistory ==
    ASSUME TypeOK, NEW r \in Requests, DeleteDetail(r), NEW d \in DetailIds, HistoryOK(d)
    PROVE  HistoryOK(d)'
<1> DEFINE e == req[r].detail
<1>1. e \in DetailIds /\ req[r].pc = "remove"
  BY Shapes DEF DeleteDetail, TypeOK, RemoveRequest
<1>2. /\ history' = history /\ req'[r] = Idle
      /\ \A s \in Requests : s # r => req'[s] = req[s]
      /\ detail'[e] = Removed
      /\ \A f \in DetailIds : f # e => detail'[f] = detail[f]
  BY <1>1 DEF DeleteDetail, Step, TypeOK
<1>3. CASE d # e
  <2>1. \A s \in Requests, n \in 0 .. MaxRev : Recording(s, d, n)' <=> Recording(s, d, n)
    BY <1>1, <1>2 DEF Recording
  <2>2. \A s \in Requests : Removing(s, d)' <=> Removing(s, d)
    BY <1>2, <1>3 DEF Removing
  <2>3. Purged(d, "history")' <=> Purged(d, "history")
    BY <1>2, <1>3 DEF Purged
  <2> QED
    BY <1>2, <1>3, <2>1, <2>2, <2>3, HistoryFrame
<1>4. CASE d = e
  BY <1>2, <1>4 DEF HistoryOK, Live, Removed, Unborn, Statuses
<1> QED
  BY <1>3, <1>4

\* No version of a live detail is missing from its history, nor filed twice.
THEOREM HistoryIsComplete == Spec => []HistoryComplete
<1>1. Init => HistoryInv
  BY DEF Init, HistoryInv, HistoryOK, Removing, Recording, Live, Unborn, Statuses
<1>2. TypeOK /\ HistoryInv /\ [Next]_vars => HistoryInv'
  <2> SUFFICES ASSUME TypeOK, HistoryInv, [Next]_vars, NEW d \in DetailIds
               PROVE  HistoryOK(d)'
    BY DEF HistoryInv
  <2>0. HistoryOK(d)
    BY DEF HistoryInv
  <2>1. ASSUME NEW r \in Requests, Load(r) PROVE HistoryOK(d)'
    BY <2>0, <2>1, OtherStepsKeepHistory
  <2>2. ASSUME NEW r \in Requests, WriteRest(r) PROVE HistoryOK(d)'
    BY <2>0, <2>2, OtherStepsKeepHistory, RecordKeepsHistory, DeletePartKeepsHistory
    DEF WriteRest
  <2>3. ASSUME NEW r \in Requests, Edit(r) \/ Moderate(r) \/ Reassign(r) PROVE HistoryOK(d)'
    <3>1. history' = history /\ req[r].pc \notin {"record", "remove"}
      BY <2>3 DEF Edit, Moderate, Reassign
    <3>2. CASE UNCHANGED detail /\ Step(r, Idle)
      BY <2>0, <2>3, <3>2, OtherStepsKeepHistory
    <3>3. ASSUME NEW doc \in Doc, Live(req[r].detail), req[r].detail \in DetailIds,
                 Write(r, req[r].detail, doc)
          PROVE  HistoryOK(d)'
      BY <2>0, <3>1, <3>3, WriteKeepsHistory
    <3> QED
      BY <2>3, <3>2, <3>3, ChangeEffect
  <2>4. ASSUME NEW r \in Requests, Create(r) PROVE HistoryOK(d)'
    BY <2>0, <2>4, CreateKeepsHistory
  <2>5. ASSUME NEW r \in Requests, DeleteDetail(r) PROVE HistoryOK(d)'
    BY <2>0, <2>5, DeleteKeepsHistory
  <2>6. CASE ToggleOpen \/ Publish \/ UNCHANGED vars
    <3>1. UNCHANGED <<detail, history, req>>
      BY <2>6 DEF ToggleOpen, Publish, vars, docs
    <3> QED
      BY <2>0, <3>1 DEF HistoryOK, Live, Purged, Recording, Removing
  <2> QED
    BY <2>1, <2>2, <2>3, <2>4, <2>5, <2>6 DEF Next, WriteDetail
<1>3. HistoryInv => HistoryComplete
  BY DEF HistoryInv, HistoryOK, HistoryComplete
<1> QED
  BY <1>1, <1>2, <1>3, TypeCorrect, PTL DEF Spec

USE DEF Idle

-----------------------------------------------------------------------------
(* What is counted exists *)

Naming == {"remove", "vote", "unvote", "comment", "countVote", "countComment", "uncomment"}

\* Nothing counts, or is about, a detail that was not created; a request that deletes a
\* comment found it, and it is of the detail it names as long as it is there.
FreshInv ==
    /\ \A d \in DetailIds : detail[d] = Unborn =>
         /\ voteCount[d] = 0 /\ commentCount[d] = 0
         /\ \A v \in votes : v[1] # d
         /\ \A c \in CommentIds : comment[c].detail # d
    /\ \A r \in Requests : req[r].pc \in Naming => detail[req[r].detail] # Unborn
    /\ \A r \in Requests : req[r].pc = "uncomment" =>
         \/ comment[req[r].id] = Erased
         \/ Posted(req[r].id) /\ comment[req[r].id].detail = req[r].detail

\* A request that names a detail names one there is, or was.
LEMMA Named ==
    ASSUME TypeOK, NEW r \in Requests, req[r].pc \in Naming
    PROVE  req[r].detail \in DetailIds
BY Shapes DEF TypeOK, Naming, RemoveRequest, VoteRequest, CountRequest, UncommentRequest

\* No detail goes back to not being created.
LEMMA NeverUnborn ==
    ASSUME TypeOK, [Next]_vars, NEW d \in DetailIds, detail[d] # Unborn
    PROVE  detail'[d] # Unborn
BY DetailsEvolve DEF Evolves, Live, Unborn, Removed, Statuses

\* What has to hold after a step that creates no detail.
LEMMA FreshBecomes ==
    ASSUME detail' = detail,
           \A d \in DetailIds : detail[d] = Unborn =>
             voteCount'[d] = 0 /\ commentCount'[d] = 0,
           \A d \in DetailIds : detail[d] = Unborn => \A v \in votes' : v[1] # d,
           \A d \in DetailIds, c \in CommentIds : detail[d] = Unborn => comment'[c].detail # d,
           \A r \in Requests : req'[r].pc \in Naming => detail[req'[r].detail] # Unborn,
           \A r \in Requests : req'[r].pc = "uncomment" =>
             \/ comment'[req'[r].id] = Erased
             \/ /\ comment'[req'[r].id] \notin {Unposted, Erased}
                /\ comment'[req'[r].id].detail = req'[r].detail
    PROVE  FreshInv'
BY DEF FreshInv, Posted

\* What leaves votes, comments and counters as they are.
LEMMA FreshStays ==
    ASSUME TypeOK, FreshInv, [Next]_vars,
           votes' = votes, comment' = comment,
           \A d \in DetailIds : detail[d] = Unborn =>
             voteCount'[d] = voteCount[d] /\ commentCount'[d] = commentCount[d],
           \A r \in Requests : req'[r].pc \in Naming =>
             \/ req'[r].pc = req[r].pc /\ req'[r].detail = req[r].detail
                /\ (req[r].pc = "uncomment" => req'[r].id = req[r].id)
             \/ /\ req'[r].detail \in DetailIds /\ detail[req'[r].detail] # Unborn
                /\ req'[r].pc = "uncomment" =>
                     Posted(req'[r].id) /\ comment[req'[r].id].detail = req'[r].detail
    PROVE  FreshInv'
<1>1. \A d \in DetailIds : detail'[d] = Unborn => detail[d] = Unborn
  BY NeverUnborn
<1>2. \A r \in Requests : req'[r].pc \in Naming =>
        req'[r].detail \in DetailIds /\ detail[req'[r].detail] # Unborn
  BY Named DEF FreshInv
<1>3. \A r \in Requests : req'[r].pc \in Naming => detail'[req'[r].detail] # Unborn
  BY <1>1, <1>2
<1>4. \A r \in Requests : req'[r].pc = "uncomment" =>
         \/ comment[req'[r].id] = Erased
         \/ Posted(req'[r].id) /\ comment[req'[r].id].detail = req'[r].detail
  BY DEF FreshInv, Naming
<1>5. \A c : Posted(c)' <=> Posted(c)
  BY DEF Posted
<1> QED
  BY <1>1, <1>3, <1>4, <1>5 DEF FreshInv

\* The steps that only read: the detail they name is there, and so is the comment.
LEMMA LoadNames ==
    ASSUME TypeOK, FreshInv, NEW r \in Requests, Load(r), req'[r].pc \in Naming
    PROVE  /\ req'[r].pc \in {"remove", "vote", "unvote", "comment", "uncomment"}
           /\ req'[r].pc = "remove" => req'[r].todo = Parts
           /\ req'[r].detail \in DetailIds /\ detail[req'[r].detail] # Unborn
           /\ req'[r].pc = "uncomment" =>
                Posted(req'[r].id) /\ comment[req'[r].id].detail = req'[r].detail
<1>0. \A d \in DetailIds : Live(d) => detail[d] # Unborn
  BY DEF Live, Unborn, Statuses
<1>1. CASE LoadRemove(r)
  <2>1. PICK d \in DetailIds : Live(d) /\ Step(r, [pc |-> "remove", detail |-> d, todo |-> Parts])
    BY <1>1 DEF LoadRemove, Writable
  <2> QED
    BY <1>0, <2>1, StepEffect
<1>2. CASE LoadVote(r) \/ LoadUnvote(r) \/ LoadComment(r)
  <2>1. PICK d \in DetailIds, pc \in {"vote", "unvote", "comment"}, u \in Users :
          Live(d) /\ Step(r, [pc |-> pc, detail |-> d, user |-> u])
    BY <1>2 DEF LoadVote, LoadUnvote, LoadComment, Writable
  <2> QED
    BY <1>0, <2>1, StepEffect
<1>3. CASE LoadUncomment(r)
  <2>1. PICK c \in CommentIds :
          Posted(c) /\ Step(r, [pc |-> "uncomment", id |-> c, detail |-> comment[c].detail])
    BY <1>3 DEF LoadUncomment
  <2>2. comment[c].detail \in DetailIds
    BY <2>1 DEF Posted, TypeOK, Comment
  <2> QED
    BY <2>1, <2>2, StepEffect DEF FreshInv
<1>4. CASE LoadCreate(r) \/ View(r) \/ LoadEdit(r) \/ LoadModerate(r) \/ LoadOriginal(r)
           \/ LoadReassign(r) \/ LoadOwnKeys(r) \/ LoadTargetKeys(r)
  <2>1. CASE LoadCreate(r) \/ View(r) \/ LoadModerate(r) \/ LoadReassign(r)
    <3>1. \E q : Step(r, q) /\ q.pc \notin Naming
      <4>1. CASE LoadCreate(r)
        BY <4>1 DEF LoadCreate, Naming
      <4>2. CASE View(r)
        BY <4>2 DEF View, Naming
      <4>3. CASE LoadModerate(r)
        <5>1. PICK pc \in {"original", "moderate"}, d \in DetailIds, to \in Statuses,
                   original \in DetailIds \cup {NoDetail} :
                Step(r, [pc |-> pc, detail |-> d, to |-> to, original |-> original])
          BY <4>3 DEF LoadModerate
        <5> QED
          BY <5>1 DEF Naming
      <4>4. CASE LoadReassign(r)
        BY <4>4 DEF LoadReassign, Naming
      <4> QED
        BY <2>1, <4>1, <4>2, <4>3, <4>4
    <3> QED
      BY <3>1, StepEffect
  <2>2. CASE LoadEdit(r) \/ LoadOriginal(r) \/ LoadOwnKeys(r) \/ LoadTargetKeys(r)
    <3>1. req[r] \in EditRequest \cup ModerateRequest \cup ReassignRequest
      BY <2>2, Shapes DEF TypeOK, LoadEdit, LoadOriginal, LoadOwnKeys, LoadTargetKeys
    <3>2. \A pc \in {"edit", "moderate", "target", "reassign"} :
            [req[r] EXCEPT !.pc = pc].pc = pc
      BY <3>1 DEF EditRequest, ModerateRequest, ReassignRequest
    <3>3. \E q : Step(r, q) /\ q.pc \in {"idle", "edit", "moderate", "target", "reassign"}
      <4>1. \/ Step(r, Idle)
            \/ \E pc \in {"edit", "moderate", "target", "reassign"} :
                 Step(r, [req[r] EXCEPT !.pc = pc])
        BY <2>2 DEF LoadEdit, LoadOriginal, LoadOwnKeys, LoadTargetKeys
      <4>2. CASE Step(r, Idle)
        BY <4>2
      <4>3. ASSUME NEW pc \in {"edit", "moderate", "target", "reassign"},
                   Step(r, [req[r] EXCEPT !.pc = pc])
            PROVE  \E q : Step(r, q) /\ q.pc \in {"edit", "moderate", "target", "reassign"}
        BY <3>2, <4>3
      <4> QED
        BY <4>1, <4>2, <4>3
    <3> QED
      BY <3>3, StepEffect DEF Naming
  <2> QED
    BY <1>4, <2>1, <2>2
<1> QED
  BY <1>1, <1>2, <1>3, <1>4 DEF Load

\* A request that only reads breaks nothing of it.
LEMMA LoadFresh ==
    ASSUME TypeOK, FreshInv, NEW r \in Requests, Load(r)
    PROVE  FreshInv'
<1>1. /\ [Next]_vars /\ UNCHANGED <<docs, votes, comment>>
      /\ \A s \in Requests : s # r => req'[s] = req[s]
  BY LoadEffect, StepEffect DEF Next
<1> QED
  BY <1>1, LoadNames, FreshStays DEF docs

\* The changes to details end the request, but for its history.
LEMMA WriteDetailEnds ==
    ASSUME TypeOK, NEW r \in Requests, WriteDetail(r)
    PROVE  /\ req'[r].pc \notin Naming
           /\ \A s \in Requests : s # r => req'[s] = req[s]
           /\ votes' = votes /\ comment' = comment
<1>1. votes' = votes /\ comment' = comment
  BY DEF WriteDetail, Create, Edit, Moderate, Reassign, DeleteDetail
<1>2. \E q : Step(r, q) /\ q.pc \notin Naming
  <2>1. CASE Create(r) \/ DeleteDetail(r)
    BY <2>1 DEF Create, DeleteDetail, Naming
  <2>2. CASE Edit(r) \/ Moderate(r) \/ Reassign(r)
    <3>1. \/ Step(r, Idle)
          \/ Step(r, [pc |-> "record", detail |-> req[r].detail, rev |-> detail[req[r].detail].rev])
      BY <2>2, ChangeEffect DEF Write
    <3> QED
      BY <3>1 DEF Naming
  <2> QED
    BY <2>1, <2>2 DEF WriteDetail
<1> QED
  BY <1>1, <1>2, StepEffect

\* They break nothing of it: a removal resets the counters of a detail there was.
LEMMA WriteDetailFresh ==
    ASSUME TypeOK, FreshInv, NEW r \in Requests, WriteDetail(r)
    PROVE  FreshInv'
<1>1. [Next]_vars
  BY DEF Next
<1>4. \A d \in DetailIds : detail[d] = Unborn =>
        voteCount'[d] = voteCount[d] /\ commentCount'[d] = commentCount[d]
  <2>1. CASE DeleteDetail(r)
    <3>1. req[r].detail \in DetailIds /\ detail[req[r].detail] # Unborn
      BY <2>1, Named DEF DeleteDetail, FreshInv, Naming
    <3> QED
      BY <2>1, <3>1 DEF DeleteDetail, TypeOK
  <2> QED
    BY <2>1 DEF WriteDetail, Create, Edit, Moderate, Reassign
<1> QED
  BY <1>1, <1>4, WriteDetailEnds, FreshStays

\* The steps of votes, comments, the history and removals name a detail there is.
LEMMA WriteRestFresh ==
    ASSUME TypeOK, FreshInv, NEW r \in Requests, WriteRest(r)
    PROVE  FreshInv'
<1> DEFINE q == req[r]
           e == q.detail
<1>0. q \in Request /\ [Next]_vars
  BY DEF TypeOK, Next
<1>1. detail' = detail /\ \A s \in Requests : s # r => req'[s] = req[s]
  BY StepEffect DEF WriteRest, RecordHistory, DeletePart, Vote, Unvote, CountVote, PostComment,
     Uncomment, CountComment, docs
<1>2. q.pc \in Naming => e \in DetailIds /\ detail[e] # Unborn
  BY Named DEF FreshInv
<1>3. CASE RecordHistory(r)
  <2>1. req'[r].pc \notin Naming
    BY <1>3, StepEffect DEF RecordHistory, Naming
  <2> QED
    BY <1>0, <1>1, <1>3, <2>1, FreshStays DEF RecordHistory, docs
<1>4. CASE CountVote(r) \/ CountComment(r)
  <2>1. req'[r].pc \notin Naming /\ votes' = votes /\ comment' = comment
    BY <1>4, StepEffect DEF CountVote, CountComment, Naming
  <2>2. \A d \in DetailIds : detail[d] = Unborn =>
          voteCount'[d] = voteCount[d] /\ commentCount'[d] = commentCount[d]
    BY <1>2, <1>4 DEF CountVote, CountComment, Inc, TypeOK, Naming
  <2> QED
    BY <1>0, <1>1, <2>1, <2>2, FreshStays
<1>5. CASE Vote(r) \/ Unvote(r)
  <2>1. q.pc \in Naming /\ votes' \subseteq votes \cup {<<e, q.user>>} /\ comment' = comment
        /\ voteCount' = voteCount /\ commentCount' = commentCount
    BY <1>5 DEF Vote, Unvote, Naming, docs
  <2>2. req'[r].pc \in Naming => req'[r].detail = e /\ req'[r].pc = "countVote"
    BY <1>5, StepEffect DEF Vote, Unvote, Counting, Naming
  <2>3. \A s \in Requests : req'[s].pc \in Naming => detail[req'[s].detail] # Unborn
    BY <1>1, <1>2, <2>1, <2>2 DEF FreshInv
  <2>4. \A s \in Requests : req'[s].pc = "uncomment" =>
          \/ comment'[req'[s].id] = Erased
          \/ comment'[req'[s].id] \notin {Unposted, Erased} /\ comment'[req'[s].id].detail = req'[s].detail
    BY <1>1, <2>1, <2>2 DEF FreshInv, Posted, Naming
  <2>5. \A d \in DetailIds : detail[d] = Unborn => \A v \in votes' : v[1] # d
    BY <1>2, <2>1 DEF FreshInv
  <2> QED
    BY <1>1, <2>1, <2>3, <2>4, <2>5, FreshBecomes DEF FreshInv
<1>6. CASE PostComment(r)
  <2>1. PICK c \in CommentIds :
          comment[c] = Unposted /\ comment' = [comment EXCEPT ![c] = [detail |-> e, author |-> q.user]]
    BY <1>6 DEF PostComment
  <2>2. /\ q.pc \in Naming /\ votes' = votes
        /\ voteCount' = voteCount /\ commentCount' = commentCount
        /\ req'[r].pc = "countComment" /\ req'[r].detail = e
    BY <1>6, StepEffect DEF PostComment, Naming, docs, Counting
  <2>3. comment'[c].detail = e /\ \A b \in CommentIds : b # c => comment'[b] = comment[b]
    BY <2>1 DEF TypeOK
  <2>4. \A s \in Requests : req'[s].pc = "uncomment" => req[s].id \in CommentIds /\ req[s].id # c
    BY <1>1, <2>1, <2>2, Shapes DEF FreshInv, TypeOK, UncommentRequest, Posted, Unposted, Erased
  <2>5. \A s \in Requests : req'[s].pc = "uncomment" =>
          \/ comment'[req'[s].id] = Erased
          \/ comment'[req'[s].id] \notin {Unposted, Erased} /\ comment'[req'[s].id].detail = req'[s].detail
    BY <1>1, <2>2, <2>3, <2>4 DEF FreshInv, Posted
  <2>6. \A s \in Requests : req'[s].pc \in Naming => detail[req'[s].detail] # Unborn
    BY <1>1, <1>2, <2>2 DEF FreshInv
  <2>7. \A d \in DetailIds, b \in CommentIds : detail[d] = Unborn => comment'[b].detail # d
    BY <1>2, <2>2, <2>3 DEF FreshInv
  <2> QED
    BY <1>1, <2>2, <2>5, <2>6, <2>7, FreshBecomes DEF FreshInv
<1>7. CASE Uncomment(r)
  <2>1. q.id \in CommentIds /\ q.pc = "uncomment" /\ q.pc \in Naming
    BY <1>0, <1>7, Shapes DEF Uncomment, UncommentRequest, Naming
  <2>2. comment'[q.id] = Erased /\ \A b \in CommentIds : b # q.id => comment'[b] = comment[b]
    BY <1>7, <2>1 DEF Uncomment, TypeOK
  <2>3. votes' = votes /\ voteCount' = voteCount /\ commentCount' = commentCount
    BY <1>7 DEF Uncomment, docs
  <2>4. req'[r].pc \in Naming => req'[r].detail = e /\ req'[r].pc = "countComment"
    BY <1>7, StepEffect DEF Uncomment, Counting, Naming
  <2>5. \A s \in Requests : req'[s].pc = "uncomment" => req'[s] = req[s] /\ req[s].id \in CommentIds
    BY <1>1, <2>4, Shapes DEF TypeOK, UncommentRequest, Naming
  <2>6. \A s \in Requests : req'[s].pc = "uncomment" =>
          \/ comment'[req'[s].id] = Erased
          \/ comment'[req'[s].id] \notin {Unposted, Erased} /\ comment'[req'[s].id].detail = req'[s].detail
    BY <2>2, <2>5 DEF FreshInv, Posted
  <2>7. \A d \in DetailIds, c \in CommentIds : detail[d] = Unborn => comment'[c].detail # d
    BY <2>2, MarksAssumption DEF FreshInv, Erased
  <2>8. \A s \in Requests : req'[s].pc \in Naming => detail[req'[s].detail] # Unborn
    BY <1>1, <1>2, <2>1, <2>4 DEF FreshInv
  <2> QED
    BY <1>1, <2>3, <2>6, <2>7, <2>8, FreshBecomes DEF FreshInv
<1>8. ASSUME NEW part \in Parts, DeletePart(r, part) PROVE FreshInv'
  <2>1. q.pc \in Naming /\ q.pc = "remove"
    BY <1>8 DEF DeletePart, Naming
  <2>2. req'[r].pc = "remove" /\ req'[r].detail = e
    BY <1>0, <1>8, Shapes, StepEffect DEF DeletePart, RemoveRequest
  <2>3. votes' \subseteq votes /\ voteCount' = voteCount /\ commentCount' = commentCount
    BY <1>8 DEF DeletePart, docs
  <2>4. \A c \in CommentIds : comment'[c] = comment[c] \/ comment'[c] = Erased
    BY <1>8 DEF DeletePart
  <2>5. \A d \in DetailIds, c \in CommentIds : detail[d] = Unborn => comment'[c].detail # d
    BY <2>4, MarksAssumption DEF FreshInv, Erased
  <2>6. \A s \in Requests : req'[s].pc = "uncomment" => req'[s] = req[s] /\ req[s].id \in CommentIds
    BY <1>1, <2>2, Shapes DEF TypeOK, UncommentRequest
  <2>7. \A s \in Requests : req'[s].pc = "uncomment" =>
          \/ comment'[req'[s].id] = Erased
          \/ comment'[req'[s].id] \notin {Unposted, Erased} /\ comment'[req'[s].id].detail = req'[s].detail
    BY <2>4, <2>6 DEF FreshInv, Posted
  <2>8. \A s \in Requests : req'[s].pc \in Naming => detail[req'[s].detail] # Unborn
    BY <1>1, <1>2, <2>1, <2>2 DEF FreshInv
  <2>9. \A d \in DetailIds : detail[d] = Unborn => \A v \in votes' : v[1] # d
    BY <2>3 DEF FreshInv
  <2> QED
    BY <1>1, <2>3, <2>5, <2>7, <2>8, <2>9, FreshBecomes DEF FreshInv
<1> QED
  BY <1>3, <1>4, <1>5, <1>6, <1>7, <1>8 DEF WriteRest

\* No vote, comment, counter or request is of a detail that was not created.
THEOREM NothingBefore == Spec => []FreshInv
<1>1. Init => FreshInv
  BY MarksAssumption DEF Init, FreshInv, Naming, Unposted
<1>2. TypeOK /\ FreshInv /\ [Next]_vars => FreshInv'
  <2> SUFFICES ASSUME TypeOK, FreshInv, [Next]_vars PROVE FreshInv'
    OBVIOUS
  <2>1. CASE ToggleOpen \/ Publish \/ UNCHANGED vars
    BY <2>1, FreshStays DEF ToggleOpen, Publish, vars, docs
  <2> QED
    BY <2>1, LoadFresh, WriteDetailFresh, WriteRestFresh DEF Next
<1> QED
  BY <1>1, <1>2, TypeCorrect, PTL DEF Spec

-----------------------------------------------------------------------------
(* Counting *)

Counters == {"countVote", "countComment"}
Bit(b) == IF b THEN 1 ELSE 0

\* Two finite sets that differ by one element at most.
LEMMA SameButOne ==
    ASSUME NEW S, NEW T, NEW x, IsFiniteSet(S), IsFiniteSet(T), T \ {x} = S \ {x}
    PROVE  /\ Cardinality(S) \in Nat /\ Cardinality(T) \in Nat
           /\ Cardinality(T) = Cardinality(S) - Bit(x \in S) + Bit(x \in T)
<1>1. Cardinality(S \ {x}) = Cardinality(S) - Bit(x \in S)
  BY FS_RemoveElement, FS_CardinalityType DEF Bit
<1>2. Cardinality(T \ {x}) = Cardinality(T) - Bit(x \in T)
  BY FS_RemoveElement, FS_CardinalityType DEF Bit
<1>3. Cardinality(S) \in Nat /\ Cardinality(T) \in Nat
  BY FS_CardinalityType
<1>4. Cardinality(T \ {x}) = Cardinality(S \ {x})
  OBVIOUS
<1> QED
  BY <1>1, <1>2, <1>3, <1>4 DEF Bit

\* A step of one request keeps the balance of a counter n, the requests that have not
\* counted, and the set S that is counted, when what it adds on one side it adds on the
\* other.
LEMMA Balance ==
    ASSUME TypeOK, NEW r \in Requests, \A s \in Requests : s # r => req'[s] = req[s],
           NEW what, NEW d, NEW n \in Int, NEW m \in Int,
           NEW S, NEW T, NEW x, IsFiniteSet(S), IsFiniteSet(T), T \ {x} = S \ {x},
           n + Uncounted(what, d, 1) - Uncounted(what, d, -1) = Cardinality(S),
           m - n + Bit(req'[r] = Counting(what, d, 1)) - Bit(req[r] = Counting(what, d, 1))
                 - Bit(req'[r] = Counting(what, d, -1)) + Bit(req[r] = Counting(what, d, -1))
             = Bit(x \in T) - Bit(x \in S)
    PROVE  m + Uncounted(what, d, 1)' - Uncounted(what, d, -1)' = Cardinality(T)
<1> DEFINE W(q, delta) == {s \in Requests : q[s] = Counting(what, d, delta)}
<1>1. ASSUME NEW delta
      PROVE  /\ Cardinality(W(req, delta)) \in Nat /\ Cardinality(W(req', delta)) \in Nat
             /\ Cardinality(W(req', delta)) = Cardinality(W(req, delta))
                  - Bit(req[r] = Counting(what, d, delta)) + Bit(req'[r] = Counting(what, d, delta))
  <2>1. IsFiniteSet(W(req, delta)) /\ IsFiniteSet(W(req', delta))
    BY FinitelyMany, FS_Subset
  <2>2. W(req', delta) \ {r} = W(req, delta) \ {r}
    OBVIOUS
  <2>3. /\ r \in W(req, delta) <=> req[r] = Counting(what, d, delta)
        /\ r \in W(req', delta) <=> req'[r] = Counting(what, d, delta)
    OBVIOUS
  <2> HIDE DEF W
  <2> QED
    BY <2>1, <2>2, <2>3, SameButOne DEF Bit
<1>2. \A delta : /\ Uncounted(what, d, delta) = Cardinality(W(req, delta))
                 /\ Uncounted(what, d, delta)' = Cardinality(W(req', delta))
  BY DEF Uncounted, Counting
<1>3. Cardinality(T) = Cardinality(S) - Bit(x \in S) + Bit(x \in T) /\ Cardinality(S) \in Nat
  BY SameButOne
<1> HIDE DEF W
<1> DEFINE a == Cardinality(W(req, 1))    b == Cardinality(W(req, -1))
           aa == Cardinality(W(req', 1))  bb == Cardinality(W(req', -1))
<1>4. a \in Nat /\ aa \in Nat /\ b \in Nat /\ bb \in Nat
  BY <1>1
<1>5. /\ aa = a - Bit(req[r] = Counting(what, d, 1)) + Bit(req'[r] = Counting(what, d, 1))
      /\ bb = b - Bit(req[r] = Counting(what, d, -1)) + Bit(req'[r] = Counting(what, d, -1))
  BY <1>1
<1>6. n + a - b = Cardinality(S)
  BY <1>2
<1>7. Uncounted(what, d, 1)' = aa /\ Uncounted(what, d, -1)' = bb
  BY <1>2
<1>8. \A p : Bit(p) \in Int
  BY DEF Bit
<1> HIDE DEF a, b, aa, bb
<1>9. m + aa - bb = Cardinality(T)
  BY <1>3, <1>4, <1>5, <1>6, <1>8
<1> QED
  BY <1>7, <1>9

\* The same when only the counter and the requests change.
LEMMA BalanceCounted ==
    ASSUME TypeOK, NEW r \in Requests, \A s \in Requests : s # r => req'[s] = req[s],
           NEW what, NEW d, NEW n \in Int, NEW m \in Int, NEW S, IsFiniteSet(S),
           n + Uncounted(what, d, 1) - Uncounted(what, d, -1) = Cardinality(S),
           m - n + Bit(req'[r] = Counting(what, d, 1)) - Bit(req[r] = Counting(what, d, 1))
                 - Bit(req'[r] = Counting(what, d, -1)) + Bit(req[r] = Counting(what, d, -1))
             = 0
    PROVE  m + Uncounted(what, d, 1)' - Uncounted(what, d, -1)' = Cardinality(S)
<1> DEFINE T == S
<1>1. T \ {r} = S \ {r} /\ Bit(r \in T) - Bit(r \in S) = 0
  BY DEF Bit
<1>2. /\ IsFiniteSet(T)
      /\ m - n + Bit(req'[r] = Counting(what, d, 1)) - Bit(req[r] = Counting(what, d, 1))
               - Bit(req'[r] = Counting(what, d, -1)) + Bit(req[r] = Counting(what, d, -1))
           = Bit(r \in T) - Bit(r \in S)
  BY <1>1
<1> HIDE DEF T
<1>3. m + Uncounted(what, d, 1)' - Uncounted(what, d, -1)' = Cardinality(T)
  BY <1>1, <1>2, Balance
<1> QED
  BY <1>3 DEF T

\* What a counter that nothing touches still counts.
LEMMA BalanceStays ==
    ASSUME NEW what \in Counters, NEW d, NEW n, NEW S,
           \A r \in Requests : /\ req'[r].pc = what <=> req[r].pc = what
                               /\ req[r].pc = what => req'[r] = req[r],
           n + Uncounted(what, d, 1) - Uncounted(what, d, -1) = Cardinality(S)
    PROVE  n + Uncounted(what, d, 1)' - Uncounted(what, d, -1)' = Cardinality(S)
<1>1. ASSUME NEW delta
      PROVE  {r \in Requests : req'[r] = Counting(what, d, delta)}
               = {r \in Requests : req[r] = Counting(what, d, delta)}
  BY DEF Counting
<1> QED
  BY <1>1 DEF Uncounted, Counting

\* A detail that is there, its part not being deleted, was so before, or is new.
LEMMA Scope ==
    ASSUME TypeOK, [Next]_vars, NEW d \in DetailIds, NEW part \in Parts,
           Live(d)', ~Purged(d, part)'
    PROVE  \/ Live(d) /\ ~Purged(d, part)
           \/ detail[d] = Unborn /\ detail'[d] # detail[d]
<1>1. detail'[d] \notin {Unborn, Removed}
  BY DEF Live, Unborn, Removed, Statuses
<1>2. Live(d) \/ (detail[d] = Unborn /\ detail'[d] # detail[d])
  BY <1>1, DetailsEvolve, LiveIsDoc DEF Evolves
<1>3. ASSUME NEW r \in Requests, req[r].pc = "remove", req[r].detail = d, part \notin req[r].todo
      PROVE  FALSE
  <2>1. req[r] \in RemoveRequest
    BY <1>3, Shapes DEF TypeOK
  <2>2. req'[r] # req[r]
    BY <1>3 DEF Purged
  <2>3. CASE Load(r)
    BY <1>3, <2>3 DEF Load, LoadCreate, View, LoadEdit, LoadModerate, LoadOriginal,
       LoadReassign, LoadOwnKeys, LoadTargetKeys, LoadRemove, LoadVote, LoadUnvote,
       LoadComment, LoadUncomment, Writable
  <2>4. CASE WriteDetail(r)
    <3>1. DeleteDetail(r)
      BY <1>3, <2>4 DEF WriteDetail, Create, Edit, Moderate, Reassign
    <3> QED
      BY <1>1, <1>3, <3>1 DEF DeleteDetail, TypeOK
  <2>5. CASE WriteRest(r)
    <3>1. PICK p \in Parts : DeletePart(r, p)
      BY <1>3, <2>5 DEF WriteRest, RecordHistory, Vote, Unvote, CountVote, PostComment,
         Uncomment, CountComment
    <3>2. req'[r] = [req[r] EXCEPT !.todo = @ \ {p}]
      BY <3>1, StepEffect DEF DeletePart
    <3>3. req'[r].pc = "remove" /\ req'[r].detail = d /\ part \notin req'[r].todo
      BY <1>3, <2>1, <3>2 DEF RemoveRequest
    <3> QED
      BY <3>3 DEF Purged
  <2> QED
    BY <2>2, <2>3, <2>4, <2>5, MovesOneSlot
<1> QED
  BY <1>2, <1>3 DEF Purged

-----------------------------------------------------------------------------
(* Votes *)

VotesOf(d) == {v \in votes : v[1] = d}
VotesOK(d) ==
    voteCount[d] + Uncounted("countVote", d, 1) - Uncounted("countVote", d, -1)
        = Cardinality(VotesOf(d))

\* The votes of a detail are finitely many.
LEMMA VotesFinite == ASSUME TypeOK, NEW d \in DetailIds PROVE IsFiniteSet(VotesOf(d))
<1>1. IsFiniteSet({d} \X Users)
  BY FinitelyMany, FS_Singleton, FS_Product
<1>2. VotesOf(d) \subseteq {d} \X Users
  BY DEF VotesOf, TypeOK
<1> QED
  BY <1>1, <1>2, FS_Subset

\* A new detail has no vote, and none of the requests counts one.
LEMMA NewUncounted ==
    ASSUME FreshInv, NEW d \in DetailIds, detail[d] = Unborn, NEW what \in Counters, NEW delta
    PROVE  Uncounted(what, d, delta) = 0
<1>1. \A r \in Requests : req[r] # Counting(what, d, delta)
  BY DEF FreshInv, Counting, Counters, Naming
<1>2. {r \in Requests : req[r] = Counting(what, d, delta)} = {}
  BY <1>1
<1> QED
  BY <1>2, FS_EmptySet DEF Uncounted

\* So a new detail's votes are counted.
LEMMA NewVotesOK ==
    ASSUME FreshInv, NEW d \in DetailIds, detail[d] = Unborn
    PROVE  VotesOK(d)
<1>1. VotesOf(d) = {} /\ voteCount[d] = 0
  BY DEF FreshInv, VotesOf
<1> QED
  BY <1>1, NewUncounted, FS_EmptySet DEF VotesOK, Counters

\* The two insertions and deletions that are counted later.
LEMMA VoteSteps ==
    ASSUME TypeOK, NEW r \in Requests, Vote(r) \/ Unvote(r), NEW d \in DetailIds, VotesOK(d)
    PROVE  VotesOK(d)'
<1> DEFINE q == req[r]
           v == <<q.detail, q.user>>
<1>1. q \in VoteRequest
  BY Shapes DEF TypeOK, Vote, Unvote
<1>2. \A s \in Requests : s # r => req'[s] = req[s]
  BY StepEffect DEF Vote, Unvote
<1>3. voteCount' = voteCount /\ detail' = detail /\ voteCount[d] \in Int
  BY DEF Vote, Unvote, docs, TypeOK
<1>4. \A delta : q # Counting("countVote", d, delta)
  BY <1>1 DEF VoteRequest, Counting
<1>5. IsFiniteSet(VotesOf(d)) /\ IsFiniteSet(VotesOf(d)') /\ VotesOf(d)' \ {v} = VotesOf(d) \ {v}
  <2>1. VotesOf(d)' \subseteq VotesOf(d) \cup {v} /\ VotesOf(d)' \ {v} = VotesOf(d) \ {v}
    BY DEF VotesOf, Vote, Unvote
  <2>2. IsFiniteSet(VotesOf(d) \cup {v})
    BY VotesFinite, FS_AddElement
  <2> QED
    BY <2>1, <2>2, VotesFinite, FS_Subset
<1>6. /\ v \in VotesOf(d) <=> (v \in votes /\ q.detail = d)
      /\ v \in VotesOf(d)' <=> (v \in votes' /\ q.detail = d)
  BY DEF VotesOf
<1>7. /\ req'[r] = Counting("countVote", d, 1) <=> (q.detail = d /\ v \notin votes /\ v \in votes')
      /\ req'[r] = Counting("countVote", d, -1) <=> (q.detail = d /\ v \in votes /\ v \notin votes')
  <2>1. CASE Vote(r)
    <3>1. req'[r] = IF v \in votes THEN Idle ELSE Counting("countVote", q.detail, 1)
      BY <2>1, StepEffect DEF Vote
    <3> QED
      BY <2>1, <3>1 DEF Vote, Counting
  <2>2. CASE Unvote(r)
    <3>1. req'[r] = IF v \in votes THEN Counting("countVote", q.detail, -1) ELSE Idle
      BY <2>2, StepEffect DEF Unvote
    <3> QED
      BY <2>2, <3>1 DEF Unvote, Counting
  <2> QED
    BY <2>1, <2>2
<1>8. voteCount'[d] - voteCount[d] = 0
  BY <1>3
<1>9. voteCount'[d] - voteCount[d]
        + Bit(req'[r] = Counting("countVote", d, 1)) - Bit(req[r] = Counting("countVote", d, 1))
        - Bit(req'[r] = Counting("countVote", d, -1)) + Bit(req[r] = Counting("countVote", d, -1))
      = Bit(v \in VotesOf(d)') - Bit(v \in VotesOf(d))
  BY <1>4, <1>6, <1>7, <1>8 DEF Bit
<1> HIDE DEF q, v
<1>10. /\ voteCount'[d] \in Int
       /\ voteCount[d] + Uncounted("countVote", d, 1) - Uncounted("countVote", d, -1)
            = Cardinality(VotesOf(d))
  BY <1>3 DEF VotesOK
<1>11. voteCount'[d] + Uncounted("countVote", d, 1)' - Uncounted("countVote", d, -1)'
         = Cardinality(VotesOf(d)')
  BY <1>2, <1>3, <1>5, <1>9, <1>10, Balance
<1> QED
  BY <1>11 DEF VotesOK

\* The $inc of a request takes it out of those that have not counted.
LEMMA CountVoteStep ==
    ASSUME TypeOK, NEW r \in Requests, CountVote(r), NEW d \in DetailIds, Live(d), VotesOK(d)
    PROVE  VotesOK(d)'
<1> DEFINE q == req[r]
<1>1. q \in CountRequest /\ q.pc = "countVote"
  BY Shapes DEF TypeOK, CountVote
<1>2. req'[r] = Idle /\ \A s \in Requests : s # r => req'[s] = req[s]
  BY StepEffect DEF CountVote
<1>3. /\ VotesOf(d)' = VotesOf(d)
      /\ IsFiniteSet(VotesOf(d)) /\ voteCount[d] \in Int
  BY VotesFinite DEF CountVote, VotesOf, TypeOK
<1>4. q.delta \in {1, -1} /\ q = Counting("countVote", q.detail, q.delta)
  BY <1>1 DEF CountRequest, Counting
<1>5. \A delta : /\ q = Counting("countVote", d, delta) <=> (q.detail = d /\ q.delta = delta)
                 /\ req'[r] # Counting("countVote", d, delta)
  BY <1>2, <1>4 DEF Counting
<1>6. voteCount'[d] = IF q.detail = d THEN voteCount[d] + q.delta ELSE voteCount[d]
  BY <1>1 DEF CountVote, Inc, TypeOK, CountRequest
<1> HIDE DEF q
<1>7. voteCount'[d] - voteCount[d]
        + Bit(req'[r] = Counting("countVote", d, 1)) - Bit(q = Counting("countVote", d, 1))
        - Bit(req'[r] = Counting("countVote", d, -1)) + Bit(q = Counting("countVote", d, -1))
      = 0
  BY <1>3, <1>4, <1>5, <1>6 DEF Bit
<1>8. voteCount'[d] \in Int
  BY <1>3, <1>4, <1>6
<1> USE DEF q
<1>9. voteCount[d] + Uncounted("countVote", d, 1) - Uncounted("countVote", d, -1)
            = Cardinality(VotesOf(d))
  BY DEF VotesOK
<1>10. voteCount'[d] + Uncounted("countVote", d, 1)' - Uncounted("countVote", d, -1)'
         = Cardinality(VotesOf(d))
  BY <1>2, <1>3, <1>7, <1>8, <1>9, BalanceCounted
<1> QED
  BY <1>3, <1>10 DEF VotesOK

\* What touches neither votes, nor their counter, nor the requests about to count.
LEMMA VotesStay ==
    ASSUME NEW d \in DetailIds, VotesOK(d),
           VotesOf(d)' = VotesOf(d), voteCount'[d] = voteCount[d],
           \A r \in Requests : /\ req'[r].pc = "countVote" <=> req[r].pc = "countVote"
                               /\ req[r].pc = "countVote" => req'[r] = req[r]
    PROVE  VotesOK(d)'
<1>1. voteCount[d] + Uncounted("countVote", d, 1)' - Uncounted("countVote", d, -1)'
         = Cardinality(VotesOf(d))
  BY BalanceStays DEF VotesOK, Counters
<1> QED
  BY <1>1 DEF VotesOK

\* Which steps lead a request to a counter, and which leave it.
LEMMA CountPc ==
    ASSUME TypeOK, FreshInv, NEW r \in Requests, Load(r) \/ WriteDetail(r) \/ WriteRest(r)
    PROVE  /\ req'[r].pc = "countVote" => Vote(r) \/ Unvote(r)
           /\ req[r].pc = "countVote" => CountVote(r)
           /\ req'[r].pc = "countComment" => PostComment(r) \/ Uncomment(r)
           /\ req[r].pc = "countComment" => CountComment(r)
<1>1. CASE Load(r)
  <2>1. req'[r].pc \notin Counters
    BY <1>1, LoadNames DEF Counters, Naming
  <2>2. req[r].pc \notin Counters
    BY <1>1 DEF Load, LoadCreate, View, LoadEdit, LoadModerate, LoadOriginal, LoadReassign,
       LoadOwnKeys, LoadTargetKeys, LoadRemove, LoadVote, LoadUnvote, LoadComment,
       LoadUncomment, Writable, Counters
  <2> QED
    BY <2>1, <2>2 DEF Counters
<1>2. CASE WriteDetail(r)
  <2>1. req[r].pc \notin Counters
    BY <1>2 DEF WriteDetail, Create, Edit, Moderate, Reassign, DeleteDetail, Counters
  <2> QED
    BY <1>2, <2>1, WriteDetailEnds DEF Counters, Naming
<1>3. CASE RecordHistory(r) \/ CountVote(r) \/ CountComment(r)
  <2>1. req'[r] = Idle
    BY <1>3, StepEffect DEF RecordHistory, CountVote, CountComment
  <2> QED
    BY <1>3, <2>1 DEF RecordHistory, CountVote, CountComment
<1>4. CASE Vote(r) \/ Unvote(r)
  <2>1. req'[r] = Idle \/ req'[r].pc = "countVote"
    BY <1>4, StepEffect DEF Vote, Unvote, Counting
  <2> QED
    BY <1>4, <2>1 DEF Vote, Unvote
<1>5. CASE PostComment(r) \/ Uncomment(r)
  <2>1. req'[r] = Idle \/ req'[r].pc = "countComment"
    BY <1>5, StepEffect DEF PostComment, Uncomment, Counting
  <2> QED
    BY <1>5, <2>1 DEF PostComment, Uncomment
<1>6. CASE \E part \in Parts : DeletePart(r, part)
  <2>1. req[r].pc = "remove" /\ req[r] \in RemoveRequest
    BY <1>6, Shapes DEF DeletePart, TypeOK
  <2>2. req'[r].pc = "remove"
    BY <1>6, <2>1, StepEffect DEF DeletePart, RemoveRequest
  <2> QED
    BY <2>1, <2>2
<1> QED
  BY <1>1, <1>2, <1>3, <1>4, <1>5, <1>6 DEF WriteRest

\* A step of one request leaves the others where they are.
LEMMA OthersStay ==
    ASSUME TypeOK, NEW r \in Requests, Load(r) \/ WriteDetail(r) \/ WriteRest(r)
    PROVE  \A s \in Requests : s # r => req'[s] = req[s]
<1>1. CASE Load(r)
  BY <1>1, LoadEffect, StepEffect
<1>2. CASE WriteDetail(r)
  BY <1>2, WriteDetailEnds
<1>3. CASE WriteRest(r)
  BY <1>3, StepEffect DEF WriteRest, RecordHistory, DeletePart, Vote, Unvote, CountVote,
     PostComment, Uncomment, CountComment
<1> QED
  BY <1>1, <1>2, <1>3

\* Every step keeps the votes of a detail counted, as long as they are not being deleted.
LEMMA VotesSteps ==
    ASSUME TypeOK, FreshInv, [Next]_vars, NEW d \in DetailIds,
           Live(d)', ~Purged(d, "votes")',
           Live(d) /\ ~Purged(d, "votes") => VotesOK(d)
    PROVE  VotesOK(d)'
<1>1. Live(d) \/ (detail[d] = Unborn /\ detail'[d] # detail[d])
  BY Scope DEF Parts
<1>2. VotesOK(d)
  BY Scope, NewVotesOK DEF Parts
<1>3. ASSUME NEW r \in Requests, Load(r) \/ WriteDetail(r) \/ WriteRest(r),
             ~(Vote(r) \/ Unvote(r) \/ CountVote(r))
      PROVE  VotesOK(d)'
  <2>1. \A s \in Requests : /\ req'[s].pc = "countVote" <=> req[s].pc = "countVote"
                            /\ req[s].pc = "countVote" => req'[s] = req[s]
    BY <1>3, CountPc, OthersStay
  <2>2. voteCount'[d] = voteCount[d]
    <3>1. CASE DeleteDetail(r)
      <4>1. req[r].detail \in DetailIds
        BY <3>1, Shapes DEF DeleteDetail, TypeOK, RemoveRequest
      <4>2. req[r].detail # d
        BY <3>1, <4>1 DEF DeleteDetail, Live, Removed, Statuses, TypeOK
      <4> QED
        BY <3>1, <4>1, <4>2 DEF DeleteDetail, TypeOK
    <3>2. CASE Load(r)
      BY <3>2, LoadEffect DEF docs
    <3>3. CASE WriteDetail(r) /\ ~DeleteDetail(r)
      BY <3>3 DEF WriteDetail, Create, Edit, Moderate, Reassign
    <3>4. CASE WriteRest(r)
      BY <1>3, <3>4 DEF WriteRest, RecordHistory, DeletePart, PostComment, Uncomment,
         CountComment, docs
    <3> QED
      BY <1>3, <3>1, <3>2, <3>3, <3>4
  <2>3. VotesOf(d)' = VotesOf(d)
    <3>1. CASE DeletePart(r, "votes")
      <4>1. req[r] \in RemoveRequest /\ req[r].pc = "remove"
        BY <3>1, Shapes DEF DeletePart, TypeOK
      <4>2. req'[r] = [req[r] EXCEPT !.todo = @ \ {"votes"}]
        BY <3>1, StepEffect DEF DeletePart
      <4>3. req[r].detail # d
        BY <4>1, <4>2 DEF RemoveRequest, Purged
      <4>4. votes' = {v \in votes : v[1] # req[r].detail}
        BY <3>1 DEF DeletePart
      <4> QED
        BY <4>3, <4>4 DEF VotesOf
    <3>2. CASE \E part \in Parts \ {"votes"} : DeletePart(r, part)
      BY <3>2 DEF DeletePart, VotesOf
    <3>3. CASE Load(r) \/ WriteDetail(r)
      BY <3>3, LoadEffect, WriteDetailEnds DEF VotesOf
    <3>4. CASE RecordHistory(r) \/ PostComment(r) \/ Uncomment(r) \/ CountComment(r)
      BY <3>4 DEF RecordHistory, PostComment, Uncomment, CountComment, VotesOf
    <3> QED
      BY <1>3, <3>1, <3>2, <3>3, <3>4 DEF WriteRest
  <2> QED
    BY <1>2, <2>1, <2>2, <2>3, VotesStay
<1>4. ASSUME NEW r \in Requests, Vote(r) \/ Unvote(r) PROVE VotesOK(d)'
  BY <1>2, <1>4, VoteSteps
<1>5. ASSUME NEW r \in Requests, CountVote(r) PROVE VotesOK(d)'
  <2>1. Live(d)
    BY <1>1, <1>5 DEF CountVote
  <2> QED
    BY <1>2, <1>5, <2>1, CountVoteStep
<1>6. CASE ToggleOpen \/ Publish \/ UNCHANGED vars
  BY <1>2, <1>6, VotesStay DEF ToggleOpen, Publish, vars, docs, VotesOf
<1> QED
  BY <1>3, <1>4, <1>5, <1>6 DEF Next

\* voteCount is the number of votes, but for those that are between their two writes.
THEOREM VotesAreCounted == Spec => []VotesCounted
<1>1. VotesCounted <=> \A d \in DetailIds : Live(d) /\ ~Purged(d, "votes") => VotesOK(d)
  BY DEF VotesCounted, VotesOK, VotesOf
<1>2. Init => VotesCounted
  BY DEF Init, VotesCounted, Live, Unborn, Statuses
<1>3. TypeOK /\ FreshInv /\ VotesCounted /\ [Next]_vars => VotesCounted'
  <2> SUFFICES ASSUME TypeOK, FreshInv, VotesCounted, [Next]_vars,
                      NEW d \in DetailIds, Live(d)', ~Purged(d, "votes")'
               PROVE  VotesOK(d)'
    BY DEF VotesCounted, VotesOK, VotesOf
  <2> QED
    BY <1>1, VotesSteps
<1> QED
  BY <1>2, <1>3, TypeCorrect, NothingBefore, PTL DEF Spec

-----------------------------------------------------------------------------
(* Comments *)

CommentsOf(d) == {c \in CommentIds : comment[c].detail = d}
CommentsOK(d) ==
    commentCount[d] + Uncounted("countComment", d, 1) - Uncounted("countComment", d, -1)
        = Cardinality(CommentsOf(d))

\* So are its comments, before a step and after it.
LEMMA CommentsFinite == ASSUME NEW d PROVE IsFiniteSet(CommentsOf(d)) /\ IsFiniteSet(CommentsOf(d)')
BY FinitelyMany, FS_Subset DEF CommentsOf

\* A new detail's comments are counted.
LEMMA NewCommentsOK ==
    ASSUME FreshInv, NEW d \in DetailIds, detail[d] = Unborn
    PROVE  CommentsOK(d)
<1>1. CommentsOf(d) = {} /\ commentCount[d] = 0
  BY DEF FreshInv, CommentsOf
<1> QED
  BY <1>1, NewUncounted, FS_EmptySet DEF CommentsOK, Counters

\* The step that inserts or deletes the comment c of the detail e, and will count it as
\* delta.
LEMMA CommentBalance ==
    ASSUME TypeOK, NEW r \in Requests, \A s \in Requests : s # r => req'[s] = req[s],
           NEW d \in DetailIds, CommentsOK(d), commentCount' = commentCount,
           req[r].pc # "countComment",
           NEW c \in CommentIds, \A b \in CommentIds : b # c => comment'[b] = comment[b],
           req'[r] = Counting("countComment", d, 1) <=> (comment[c].detail # d /\ comment'[c].detail = d),
           req'[r] = Counting("countComment", d, -1) <=> (comment[c].detail = d /\ comment'[c].detail # d)
    PROVE  CommentsOK(d)'
<1>1. CommentsOf(d)' \ {c} = CommentsOf(d) \ {c}
  BY DEF CommentsOf
<1>2. /\ c \in CommentsOf(d) <=> comment[c].detail = d
      /\ c \in CommentsOf(d)' <=> comment'[c].detail = d
  BY DEF CommentsOf
<1>3. commentCount[d] \in Int /\ commentCount'[d] - commentCount[d] = 0
  BY DEF TypeOK
<1>4. \A delta : req[r] # Counting("countComment", d, delta)
  BY DEF Counting
<1>5. commentCount'[d] - commentCount[d]
        + Bit(req'[r] = Counting("countComment", d, 1)) - Bit(req[r] = Counting("countComment", d, 1))
        - Bit(req'[r] = Counting("countComment", d, -1)) + Bit(req[r] = Counting("countComment", d, -1))
      = Bit(c \in CommentsOf(d)') - Bit(c \in CommentsOf(d))
  BY <1>2, <1>3, <1>4 DEF Bit
<1>6. /\ commentCount'[d] \in Int
      /\ commentCount[d] + Uncounted("countComment", d, 1) - Uncounted("countComment", d, -1)
           = Cardinality(CommentsOf(d))
  BY <1>3 DEF CommentsOK
<1>7. commentCount'[d] + Uncounted("countComment", d, 1)' - Uncounted("countComment", d, -1)'
        = Cardinality(CommentsOf(d)')
  BY <1>1, <1>3, <1>5, <1>6, CommentsFinite, Balance
<1> QED
  BY <1>7 DEF CommentsOK

\* A comment is inserted.
LEMMA PostStep ==
    ASSUME TypeOK, NEW r \in Requests, PostComment(r), NEW d \in DetailIds, CommentsOK(d)
    PROVE  CommentsOK(d)'
<1> DEFINE e == req[r].detail
<1>1. PICK c \in CommentIds :
        comment[c] = Unposted
        /\ comment' = [comment EXCEPT ![c] = [detail |-> e, author |-> req[r].user]]
  BY DEF PostComment
<1>2. comment[c].detail # d
  BY <1>1, MarksAssumption DEF Unposted
<1>3. comment'[c].detail = e /\ \A b \in CommentIds : b # c => comment'[b] = comment[b]
  BY <1>1 DEF TypeOK
<1>4. /\ req'[r] = Counting("countComment", e, 1) /\ req[r].pc # "countComment"
      /\ \A s \in Requests : s # r => req'[s] = req[s]
      /\ commentCount' = commentCount
  BY StepEffect DEF PostComment, docs
<1>5. /\ req'[r] = Counting("countComment", d, 1) <=> (comment[c].detail # d /\ comment'[c].detail = d)
      /\ req'[r] = Counting("countComment", d, -1) <=> (comment[c].detail = d /\ comment'[c].detail # d)
  BY <1>2, <1>3, <1>4 DEF Counting
<1> QED
  BY <1>3, <1>4, <1>5, CommentBalance

\* A comment is deleted, by the request that finds it.
LEMMA UncommentStep ==
    ASSUME TypeOK, FreshInv, NEW r \in Requests, Uncomment(r), NEW d \in DetailIds, CommentsOK(d)
    PROVE  CommentsOK(d)'
<1> DEFINE e == req[r].detail
           c == req[r].id
<1>1. c \in CommentIds
  BY Shapes DEF Uncomment, TypeOK, UncommentRequest
<1>2. comment'[c] = Erased /\ \A b \in CommentIds : b # c => comment'[b] = comment[b]
  BY <1>1 DEF Uncomment, TypeOK
<1>3. comment'[c].detail # d
  BY <1>2, MarksAssumption DEF Erased
<1>4. \/ comment[c] = Erased
      \/ Posted(c) /\ comment[c].detail = e
  BY DEF FreshInv, Uncomment
<1>5. /\ req'[r] = IF Posted(c) THEN Counting("countComment", e, -1) ELSE Idle
      /\ req[r].pc # "countComment"
      /\ \A s \in Requests : s # r => req'[s] = req[s]
      /\ commentCount' = commentCount
  BY StepEffect DEF Uncomment, docs
<1>6. CASE comment[c] = Erased
  <2>1. req'[r] = Idle /\ comment[c].detail # d
    BY <1>5, <1>6, MarksAssumption DEF Posted, Erased
  <2>2. /\ req'[r] = Counting("countComment", d, 1) <=> (comment[c].detail # d /\ comment'[c].detail = d)
        /\ req'[r] = Counting("countComment", d, -1) <=> (comment[c].detail = d /\ comment'[c].detail # d)
    BY <1>3, <2>1 DEF Counting
  <2> QED
    BY <1>1, <1>2, <1>5, <2>2, CommentBalance
<1>7. CASE Posted(c) /\ comment[c].detail = e
  <2>1. /\ req'[r] = Counting("countComment", d, 1) <=> (comment[c].detail # d /\ comment'[c].detail = d)
        /\ req'[r] = Counting("countComment", d, -1) <=> (comment[c].detail = d /\ comment'[c].detail # d)
    BY <1>3, <1>5, <1>7 DEF Counting
  <2> QED
    BY <1>1, <1>2, <1>5, <2>1, CommentBalance
<1> QED
  BY <1>4, <1>6, <1>7

\* The $inc of a request takes it out of those that have not counted.
LEMMA CountCommentStep ==
    ASSUME TypeOK, NEW r \in Requests, CountComment(r), NEW d \in DetailIds, Live(d),
           CommentsOK(d)
    PROVE  CommentsOK(d)'
<1> DEFINE q == req[r]
<1>1. q \in CountRequest /\ q.pc = "countComment"
  BY Shapes DEF TypeOK, CountComment
<1>2. req'[r] = Idle /\ \A s \in Requests : s # r => req'[s] = req[s]
  BY StepEffect DEF CountComment
<1>3. CommentsOf(d)' = CommentsOf(d) /\ commentCount[d] \in Int
  BY DEF CountComment, CommentsOf, TypeOK
<1>4. q.delta \in {1, -1} /\ q = Counting("countComment", q.detail, q.delta)
  BY <1>1 DEF CountRequest, Counting
<1>5. \A delta : /\ q = Counting("countComment", d, delta) <=> (q.detail = d /\ q.delta = delta)
                 /\ req'[r] # Counting("countComment", d, delta)
  BY <1>2, <1>4 DEF Counting
<1>6. commentCount'[d] = IF q.detail = d THEN commentCount[d] + q.delta ELSE commentCount[d]
  BY <1>1 DEF CountComment, Inc, TypeOK, CountRequest
<1> HIDE DEF q
<1>7. commentCount'[d] - commentCount[d]
        + Bit(req'[r] = Counting("countComment", d, 1)) - Bit(q = Counting("countComment", d, 1))
        - Bit(req'[r] = Counting("countComment", d, -1)) + Bit(q = Counting("countComment", d, -1))
      = 0
  BY <1>3, <1>4, <1>5, <1>6 DEF Bit
<1>8. commentCount'[d] \in Int
  BY <1>3, <1>4, <1>6
<1> USE DEF q
<1>9. commentCount[d] + Uncounted("countComment", d, 1) - Uncounted("countComment", d, -1)
            = Cardinality(CommentsOf(d))
  BY DEF CommentsOK
<1>10. commentCount'[d] + Uncounted("countComment", d, 1)' - Uncounted("countComment", d, -1)'
         = Cardinality(CommentsOf(d))
  BY <1>2, <1>3, <1>7, <1>8, <1>9, CommentsFinite, BalanceCounted
<1> QED
  BY <1>3, <1>10 DEF CommentsOK

\* What touches neither comments, nor their counter, nor the requests about to count.
LEMMA CommentsStay ==
    ASSUME NEW d \in DetailIds, CommentsOK(d),
           CommentsOf(d)' = CommentsOf(d), commentCount'[d] = commentCount[d],
           \A r \in Requests : /\ req'[r].pc = "countComment" <=> req[r].pc = "countComment"
                               /\ req[r].pc = "countComment" => req'[r] = req[r]
    PROVE  CommentsOK(d)'
<1>1. commentCount[d] + Uncounted("countComment", d, 1)' - Uncounted("countComment", d, -1)'
         = Cardinality(CommentsOf(d))
  BY BalanceStays DEF CommentsOK, Counters
<1> QED
  BY <1>1 DEF CommentsOK

\* Every step keeps the comments of a detail counted, as long as they are not being deleted.
LEMMA CommentsSteps ==
    ASSUME TypeOK, FreshInv, [Next]_vars, NEW d \in DetailIds,
           Live(d)', ~Purged(d, "comments")',
           Live(d) /\ ~Purged(d, "comments") => CommentsOK(d)
    PROVE  CommentsOK(d)'
<1>1. Live(d) \/ (detail[d] = Unborn /\ detail'[d] # detail[d])
  BY Scope DEF Parts
<1>2. CommentsOK(d)
  BY Scope, NewCommentsOK DEF Parts
<1>3. ASSUME NEW r \in Requests, Load(r) \/ WriteDetail(r) \/ WriteRest(r),
             ~(PostComment(r) \/ Uncomment(r) \/ CountComment(r))
      PROVE  CommentsOK(d)'
  <2>1. \A s \in Requests : /\ req'[s].pc = "countComment" <=> req[s].pc = "countComment"
                            /\ req[s].pc = "countComment" => req'[s] = req[s]
    BY <1>3, CountPc, OthersStay
  <2>2. commentCount'[d] = commentCount[d]
    <3>1. CASE DeleteDetail(r)
      <4>1. req[r].detail \in DetailIds
        BY <3>1, Shapes DEF DeleteDetail, TypeOK, RemoveRequest
      <4>2. req[r].detail # d
        BY <3>1, <4>1 DEF DeleteDetail, Live, Removed, Statuses, TypeOK
      <4> QED
        BY <3>1, <4>1, <4>2 DEF DeleteDetail, TypeOK
    <3>2. CASE Load(r)
      BY <3>2, LoadEffect DEF docs
    <3>3. CASE WriteDetail(r) /\ ~DeleteDetail(r)
      BY <3>3 DEF WriteDetail, Create, Edit, Moderate, Reassign
    <3>4. CASE WriteRest(r)
      BY <1>3, <3>4 DEF WriteRest, RecordHistory, DeletePart, Vote, Unvote, CountVote, docs
    <3> QED
      BY <1>3, <3>1, <3>2, <3>3, <3>4
  <2>3. CommentsOf(d)' = CommentsOf(d)
    <3>1. CASE DeletePart(r, "comments")
      <4>1. req[r] \in RemoveRequest /\ req[r].pc = "remove"
        BY <3>1, Shapes DEF DeletePart, TypeOK
      <4>2. req'[r] = [req[r] EXCEPT !.todo = @ \ {"comments"}]
        BY <3>1, StepEffect DEF DeletePart
      <4>3. req[r].detail # d
        BY <4>1, <4>2 DEF RemoveRequest, Purged
      <4>4. comment' = [c \in CommentIds |-> IF comment[c].detail = req[r].detail THEN Erased
                                             ELSE comment[c]]
        BY <3>1 DEF DeletePart
      <4>5. Erased.detail # d
        BY MarksAssumption DEF Erased
      <4> QED
        BY <4>3, <4>4, <4>5 DEF CommentsOf
    <3>2. CASE \E part \in Parts \ {"comments"} : DeletePart(r, part)
      BY <3>2 DEF DeletePart, CommentsOf
    <3>3. CASE Load(r) \/ WriteDetail(r)
      BY <3>3, LoadEffect, WriteDetailEnds DEF CommentsOf
    <3>4. CASE RecordHistory(r) \/ Vote(r) \/ Unvote(r) \/ CountVote(r)
      BY <3>4 DEF RecordHistory, Vote, Unvote, CountVote, CommentsOf
    <3> QED
      BY <1>3, <3>1, <3>2, <3>3, <3>4 DEF WriteRest
  <2> QED
    BY <1>2, <2>1, <2>2, <2>3, CommentsStay
<1>4. ASSUME NEW r \in Requests, PostComment(r) \/ Uncomment(r) PROVE CommentsOK(d)'
  BY <1>2, <1>4, PostStep, UncommentStep
<1>5. ASSUME NEW r \in Requests, CountComment(r) PROVE CommentsOK(d)'
  <2>1. Live(d)
    BY <1>1, <1>5 DEF CountComment
  <2> QED
    BY <1>2, <1>5, <2>1, CountCommentStep
<1>6. CASE ToggleOpen \/ Publish \/ UNCHANGED vars
  BY <1>2, <1>6, CommentsStay DEF ToggleOpen, Publish, vars, docs, CommentsOf
<1> QED
  BY <1>3, <1>4, <1>5, <1>6 DEF Next

\* commentCount is the number of comments, whoever deletes the same comment at once.
THEOREM CommentsAreCounted == Spec => []CommentsCounted
<1>1. CommentsCounted <=> \A d \in DetailIds : Live(d) /\ ~Purged(d, "comments") => CommentsOK(d)
  BY DEF CommentsCounted, CommentsOK, CommentsOf
<1>2. Init => CommentsCounted
  BY DEF Init, CommentsCounted, Live, Unborn, Statuses
<1>3. TypeOK /\ FreshInv /\ CommentsCounted /\ [Next]_vars => CommentsCounted'
  <2> SUFFICES ASSUME TypeOK, FreshInv, CommentsCounted, [Next]_vars,
                      NEW d \in DetailIds, Live(d)', ~Purged(d, "comments")'
               PROVE  CommentsOK(d)'
    BY DEF CommentsCounted, CommentsOK, CommentsOf
  <2> QED
    BY <1>1, CommentsSteps
<1> QED
  BY <1>2, <1>3, TypeCorrect, NothingBefore, PTL DEF Spec

=============================================================================
