--------------------------- MODULE Project_proofs ---------------------------
(***************************************************************************)
(* Proofs about the project document, for any users, request slots,        *)
(* invitations, attempts and stalls.                                       *)
(***************************************************************************)
EXTENDS Project, TLAPS

USE DEF Idle

\* What each step of a request puts into its slot is a request record.
LEMMA StepTypeOK ==
    ASSUME TypeOK, NEW r \in Requests, NEW q \in Request, Step(r, q)
    PROVE  req' \in [Requests -> Request]
BY DEF TypeOK, Step

\* A slot given back holds a request record too.
LEMMA IdleIsRequest == Idle \in Request
BY DEF Request, PlainRequest

\* Each kind of record that is not plain determines what its fields range over.
LEMMA Shapes ==
    ASSUME NEW q \in Request
    PROVE  /\ q.pc = "changeRole" => q \in RoleRequest
           /\ q.pc = "remove" => q \in RemoveRequest
           /\ q.pc = "changeStatus" => q \in StatusRequest
           /\ q.pc = "join" => q \in JoinRequest
           /\ q.pc = "revoke" => q \in RevokeRequest
BY DEF Request, RoleRequest, RemoveRequest, StatusRequest, JoinRequest,
       RevokeRequest, PlainRequest

-----------------------------------------------------------------------------
(* Type correctness *)

\* The document just created has its types.
LEMMA InitTypeOK == Init => TypeOK
<1> SUFFICES ASSUME Init PROVE TypeOK
  OBVIOUS
<1>1. 0 \in 0 .. MaxStalls
  BY MaxStallsAssumption
<1>2. members \subseteq Member
  BY DEF Init, Member, Roles
<1> QED
  BY <1>1, <1>2, IdleIsRequest DEF Init, TypeOK, Statuses, JobState

\* A guard only fills the slot of its request.
LEMMA LoadTypeOK ==
    ASSUME TypeOK, NEW r \in Requests, Load(r)
    PROVE  TypeOK'
<1>1. UNCHANGED <<status, members, name, deletion, invitation, job>>
  BY DEF Load, LoadChangeRole, LoadRemove, LoadChangeStatus, LoadUpdate,
         LoadDeletion, LoadInvite, LoadRevoke, LoadAccept
<1>2. \E q \in Request : Step(r, q)
  BY DEF TypeOK, Load, LoadChangeRole, LoadRemove, LoadChangeStatus, LoadUpdate,
         LoadDeletion, LoadInvite, LoadRevoke, LoadAccept, Request, RoleRequest,
         RemoveRequest, StatusRequest, JoinRequest, RevokeRequest, PlainRequest
<1>3. req' \in [Requests -> Request]
  BY <1>2, StepTypeOK
<1> QED
  BY <1>1, <1>3 DEF TypeOK

\* So does the document after the second half of a request.
LEMMA WriteTypeOK ==
    ASSUME TypeOK, NEW r \in Requests, Write(r)
    PROVE  TypeOK'
<1> DEFINE q == req[r]
<1>q. q \in Request
  BY DEF TypeOK
<1>s. /\ q.pc = "changeRole" => q \in RoleRequest
      /\ q.pc = "changeStatus" => q \in StatusRequest
      /\ q.pc = "join" => q \in JoinRequest
      /\ q.pc = "revoke" => q \in RevokeRequest
  BY <1>q, Shapes
<1>1. req' \in [Requests -> Request]
  <2>1. [pc |-> "enqueue"] \in Request
    BY DEF Request, PlainRequest
  <2>2. Step(r, Idle) \/ Step(r, [pc |-> "enqueue"])
    BY DEF Write, ChangeRole, Remove, ChangeStatus, Update, MarkDeleting,
           EnqueueDeletion, CreateInvitation, Revoke, Join
  <2> QED
    BY <2>1, <2>2, IdleIsRequest, StepTypeOK
<1>2. CASE ChangeRole(r)
  <2>1. WithRole(q.target, q.role) \subseteq Member
    BY <1>2, <1>s DEF ChangeRole, WithRole, TypeOK, Member, RoleRequest
  <2> QED
    BY <1>1, <1>2, <2>1 DEF ChangeRole, TypeOK
<1>3. CASE Remove(r)
  BY <1>1, <1>3 DEF Remove, TypeOK
<1>4. CASE ChangeStatus(r)
  BY <1>1, <1>4, <1>s DEF ChangeStatus, StatusRequest, TypeOK
<1>5. CASE Update(r)
  BY <1>1, <1>5 DEF Update, TypeOK
<1>6. CASE MarkDeleting(r)
  BY <1>1, <1>6 DEF MarkDeleting, TypeOK, Statuses
<1>7. CASE EnqueueDeletion(r)
  BY <1>1, <1>7 DEF EnqueueDeletion, TypeOK, JobState
<1>8. CASE CreateInvitation(r)
  BY <1>1, <1>8 DEF CreateInvitation, TypeOK
<1>9. CASE Revoke(r)
  BY <1>1, <1>9 DEF Revoke, TypeOK
<1>10. CASE Join(r)
  <2>1. {[userId |-> q.user, role |-> "participant"]} \subseteq Member
    BY <1>10, <1>s DEF Join, JoinRequest, Member, Roles
  <2> QED
    BY <1>1, <1>10, <2>1 DEF Join, TypeOK
<1> QED
  BY <1>2, <1>3, <1>4, <1>5, <1>6, <1>7, <1>8, <1>9, <1>10 DEF Write

\* And after a step of the deletion job.
LEMMA JobTypeOK ==
    ASSUME TypeOK, Job
    PROVE  TypeOK'
<1> USE MaxStallsAssumption DEF TypeOK, JobState
<1>1. CASE JobStart
  BY <1>1 DEF JobStart
<1>2. CASE JobCascade
  BY <1>2 DEF JobCascade
<1>3. CASE JobFinish
  BY <1>3 DEF JobFinish
<1>4. CASE JobComplete
  BY <1>4 DEF JobComplete
<1>5. CASE JobFail
  <2>1. job.made + 1 \in Nat
    OBVIOUS
  <2>2. \E s \in JobState : job' = [job EXCEPT !.made = job.made + 1, !.state = s]
    BY <1>5 DEF JobFail
  <2>3. job' \in [state : JobState, made : Nat, stalls : 0 .. MaxStalls]
    BY <2>1, <2>2
  <2> QED
    BY <1>5, <2>3 DEF JobFail
<1>6. CASE JobRecordFailure
  BY <1>6 DEF JobRecordFailure
<1>7. CASE JobStall
  <2>1. job.stalls + 1 \in 0 .. MaxStalls
    BY <1>7 DEF JobStall
  <2>2. job' = [job EXCEPT !.state = "waiting", !.stalls = job.stalls + 1]
    BY <1>7 DEF JobStall
  <2>3. job' \in [state : JobState, made : Nat, stalls : 0 .. MaxStalls]
    BY <2>1, <2>2
  <2> QED
    BY <1>7, <2>3 DEF JobStall
<1>8. CASE JobLoseFailure
  BY <1>8 DEF JobLoseFailure
<1> QED
  BY <1>1, <1>2, <1>3, <1>4, <1>5, <1>6, <1>7, <1>8 DEF Job

\* The document, the invitations, the job and the requests keep their types.
THEOREM TypeCorrect == Spec => []TypeOK
<1>1. Init => TypeOK
  BY InitTypeOK
<1>2. TypeOK /\ [Next]_vars => TypeOK'
  <2> SUFFICES ASSUME TypeOK, [Next]_vars PROVE TypeOK'
    OBVIOUS
  <2>1. ASSUME NEW r \in Requests, Load(r) PROVE TypeOK'
    BY <2>1, LoadTypeOK
  <2>2. ASSUME NEW r \in Requests, Write(r) PROVE TypeOK'
    BY <2>2, WriteTypeOK
  <2>3. ASSUME NEW r \in Requests, Crash(r) PROVE TypeOK'
    <3>1. req' \in [Requests -> Request]
      BY <2>3, IdleIsRequest, StepTypeOK DEF Crash
    <3> QED
      BY <2>3, <3>1 DEF Crash, TypeOK
  <2>4. ASSUME NEW i \in Invitations, Expire(i) PROVE TypeOK'
    BY <2>4 DEF Expire, TypeOK
  <2>5. CASE Job
    BY <2>5, JobTypeOK
  <2>6. CASE UNCHANGED vars
    BY <2>6 DEF vars, TypeOK
  <2> QED
    BY <2>1, <2>2, <2>3, <2>4, <2>5, <2>6 DEF Next
<1> QED
  BY <1>1, <1>2, PTL DEF Spec

-----------------------------------------------------------------------------
(* Members *)

\* Only these steps touch the list of members.
LEMMA WritersOfMembers ==
    ASSUME [Next]_vars
    PROVE  \/ UNCHANGED members \/ JobFinish
           \/ \E r \in Requests : ChangeRole(r) \/ Remove(r) \/ Join(r)
BY DEF Next, vars, Load, Write, Job, Crash, Expire, LoadChangeRole, LoadRemove,
       LoadChangeStatus, LoadUpdate, LoadDeletion, LoadInvite, LoadRevoke,
       LoadAccept, ChangeStatus, Update, MarkDeleting, EnqueueDeletion,
       CreateInvitation, Revoke, JobStart, JobCascade, JobComplete, JobFail,
       JobRecordFailure, JobLoseFailure, JobStall

\* Changing one user's role keeps users unique.
LEMMA WithRoleUnique ==
    ASSUME TypeOK, UniqueMember, NEW u \in Users, NEW role \in Roles
    PROVE  \A m, n \in WithRole(u, role) : m.userId = n.userId => m = n
<1> SUFFICES ASSUME NEW m \in WithRole(u, role), NEW n \in WithRole(u, role),
                    m.userId = n.userId
             PROVE  m = n
  OBVIOUS
<1>1. PICK m0 \in members :
        m = IF m0.userId = u THEN [m0 EXCEPT !.role = role] ELSE m0
  BY DEF WithRole
<1>2. PICK n0 \in members :
        n = IF n0.userId = u THEN [n0 EXCEPT !.role = role] ELSE n0
  BY DEF WithRole
<1>3. m0 \in Member /\ n0 \in Member
  BY DEF TypeOK
<1>4. m.userId = m0.userId /\ n.userId = n0.userId
  BY <1>1, <1>2, <1>3 DEF Member
<1>5. m0 = n0
  BY <1>4 DEF UniqueMember
<1> QED
  BY <1>1, <1>2, <1>5

\* No user is ever listed twice, however acceptances and role changes interleave.
THEOREM MembersUnique == Spec => []UniqueMember
<1>1. Init => UniqueMember
  BY DEF Init, UniqueMember
<1>2. TypeOK /\ UniqueMember /\ [Next]_vars => UniqueMember'
  <2> SUFFICES ASSUME TypeOK, UniqueMember, [Next]_vars PROVE UniqueMember'
    OBVIOUS
  <2> USE DEF UniqueMember
  <2>1. ASSUME NEW r \in Requests, ChangeRole(r) PROVE UniqueMember'
    <3>1. req[r] \in RoleRequest
      BY <2>1, Shapes DEF ChangeRole, TypeOK
    <3>2. req[r].target \in Users /\ req[r].role \in Roles
      BY <3>1 DEF RoleRequest
    <3> QED
      BY <2>1, <3>2, WithRoleUnique DEF ChangeRole
  <2>2. ASSUME NEW r \in Requests, Join(r) PROVE UniqueMember'
    BY <2>2 DEF Join, JoinAllowed, IsMember
  <2>3. ASSUME NEW r \in Requests, Remove(r) PROVE UniqueMember'
    BY <2>3 DEF Remove
  <2>4. CASE JobFinish
    BY <2>4 DEF JobFinish
  <2>5. CASE UNCHANGED members
    BY <2>5
  <2> QED
    BY <2>1, <2>2, <2>3, <2>4, <2>5, WritersOfMembers
<1> QED
  BY <1>1, <1>2, TypeCorrect, PTL DEF Spec

-----------------------------------------------------------------------------
(* Life cycle and deletion *)

\* The status only moves along its cycle, or to deleting, where it stays.
THEOREM StatusFollowsCycle == Spec => LifeCycle
<1> DEFINE Legal == \/ status' = status
                    \/ <<status, status'>> \in StatusCycle
                    \/ status' = "deleting"
<1>1. TypeOK /\ [Next]_vars => [Legal]_vars
  <2> SUFFICES ASSUME TypeOK, Next PROVE Legal
    OBVIOUS
  <2>1. ASSUME NEW r \in Requests, ChangeStatus(r) PROVE Legal
    <3>1. req[r] \in StatusRequest
      BY <2>1, Shapes DEF ChangeStatus, TypeOK
    <3> QED
      BY <2>1, <3>1 DEF ChangeStatus, StatusRequest
  <2>2. ASSUME NEW r \in Requests, MarkDeleting(r) PROVE Legal
    BY <2>2 DEF MarkDeleting
  <2>3. \/ status' = status
        \/ \E r \in Requests : ChangeStatus(r) \/ MarkDeleting(r)
    BY DEF Next, Load, Write, Job, Crash, Expire, LoadChangeRole, LoadRemove,
           LoadChangeStatus, LoadUpdate, LoadDeletion, LoadInvite, LoadRevoke,
           LoadAccept, ChangeRole, Remove, Join, Update, EnqueueDeletion,
           CreateInvitation, Revoke, JobStart, JobCascade, JobFinish, JobComplete,
           JobFail, JobRecordFailure, JobLoseFailure, JobStall
  <2> QED
    BY <2>1, <2>2, <2>3
<1> QED
  BY <1>1, TypeCorrect, PTL DEF Spec, LifeCycle

\* The deletion is only ever under way in a project marked as deleting.
AliveUntilErased ==
    (\/ deletion # "none"
     \/ job.state # "none"
     \/ \E r \in Requests : req[r].pc = "enqueue") => status = "deleting"

\* A job, a deletion record or a request about to enqueue implies the mark, which
\* the requests that read the project before cannot undo.
THEOREM DeletionOrder == Spec => []AliveUntilErased
<1>1. Init => AliveUntilErased
  BY DEF Init, AliveUntilErased
<1>2. TypeOK /\ AliveUntilErased /\ [Next]_vars => AliveUntilErased'
  <2> SUFFICES ASSUME TypeOK, AliveUntilErased, [Next]_vars PROVE AliveUntilErased'
    OBVIOUS
  <2> USE DEF AliveUntilErased
  <2>1. ASSUME NEW r \in Requests, Load(r) PROVE AliveUntilErased'
    <3>1. UNCHANGED <<status, deletion, job>>
      BY <2>1 DEF Load, LoadChangeRole, LoadRemove, LoadChangeStatus, LoadUpdate,
              LoadDeletion, LoadInvite, LoadRevoke, LoadAccept
    <3>2. PICK q \in Request : q.pc # "enqueue" /\ Step(r, q)
      BY <2>1 DEF TypeOK, Load, LoadChangeRole, LoadRemove, LoadChangeStatus,
              LoadUpdate, LoadDeletion, LoadInvite, LoadRevoke, LoadAccept, Request,
              RoleRequest, RemoveRequest, StatusRequest, JoinRequest, RevokeRequest,
              PlainRequest
    <3>3. \A s \in Requests : req'[s].pc = "enqueue" => req[s].pc = "enqueue"
      BY <3>2 DEF Step, TypeOK
    <3> QED
      BY <3>1, <3>3
  <2>2. ASSUME NEW r \in Requests, ChangeStatus(r) PROVE AliveUntilErased'
    <3>1. req[r] \in StatusRequest
      BY <2>2, Shapes DEF ChangeStatus, TypeOK
    <3>2. req[r].from # "deleting"
      BY <3>1 DEF StatusRequest, StatusCycle
    <3>3. \A s \in Requests : req'[s].pc = "enqueue" => req[s].pc = "enqueue"
      BY <2>2 DEF ChangeStatus, Step, TypeOK
    <3> QED
      BY <2>2, <3>2, <3>3 DEF ChangeStatus
  <2>3. ASSUME NEW r \in Requests, MarkDeleting(r) PROVE AliveUntilErased'
    BY <2>3 DEF MarkDeleting, Step, TypeOK
  <2>4. ASSUME NEW r \in Requests,
               \/ ChangeRole(r) \/ Remove(r) \/ Update(r) \/ CreateInvitation(r)
               \/ Revoke(r) \/ Join(r) \/ Crash(r)
        PROVE AliveUntilErased'
    <3>1. UNCHANGED <<status, deletion, job>>
      BY <2>4 DEF ChangeRole, Remove, Update, CreateInvitation, Revoke, Join, Crash
    <3>2. \A s \in Requests : req'[s].pc = "enqueue" => req[s].pc = "enqueue"
      BY <2>4 DEF ChangeRole, Remove, Update, CreateInvitation, Revoke, Join, Crash,
              Step, TypeOK
    <3> QED
      BY <3>1, <3>2
  <2>5. ASSUME NEW r \in Requests, EnqueueDeletion(r) PROVE AliveUntilErased'
    BY <2>5 DEF EnqueueDeletion
  <2>6. CASE Job
    <3>1. job.state # "none" /\ UNCHANGED status
      BY <2>6 DEF Job, JobStart, JobCascade, JobFinish, JobComplete, JobFail,
              JobRecordFailure, JobLoseFailure, JobStall
    <3> QED
      BY <3>1
  <2>7. ASSUME NEW i \in Invitations, Expire(i) PROVE AliveUntilErased'
    BY <2>7 DEF Expire
  <2>8. CASE UNCHANGED vars
    BY <2>8 DEF vars
  <2> QED
    BY <2>1, <2>2, <2>3, <2>4, <2>5, <2>6, <2>7, <2>8 DEF Next, Write
<1> QED
  BY <1>1, <1>2, TypeCorrect, PTL DEF Spec

\* What the deletion erased stays erased.
THEOREM TombstoneEmpty == Spec => []TombstoneStaysEmpty
<1>1. Init => TombstoneStaysEmpty
  BY DEF Init, TombstoneStaysEmpty
<1>2. TypeOK /\ AliveUntilErased /\ TombstoneStaysEmpty /\ [Next]_vars
         => TombstoneStaysEmpty'
  <2> SUFFICES ASSUME TypeOK, AliveUntilErased, TombstoneStaysEmpty, [Next]_vars,
                      deletion' = "done"
               PROVE  status' = "deleting" /\ members' = {} /\ name' = "erased"
    BY DEF TombstoneStaysEmpty
  <2>1. CASE JobFinish
    BY <2>1 DEF JobFinish, AliveUntilErased
  <2>2. CASE deletion = "done"
    <3>1. status = "deleting" /\ members = {} /\ name = "erased"
      BY <2>2 DEF TombstoneStaysEmpty
    <3>2. ASSUME NEW r \in Requests, Write(r)
          PROVE  UNCHANGED <<status, members, name>>
      <4>1. CASE ChangeStatus(r)
        <5>1. req[r] \in StatusRequest
          BY <4>1, Shapes DEF ChangeStatus, TypeOK
        <5> QED
          BY <3>1, <4>1, <5>1 DEF ChangeStatus, StatusRequest, StatusCycle
      <4> QED
        BY <3>1, <3>2, <4>1 DEF Write, ChangeRole, RoleChangeAllowed, Remove,
           RemovalAllowed, Update, MarkDeleting, EnqueueDeletion, CreateInvitation,
           Revoke, Join, JoinAllowed
    <3>3. ASSUME NEW r \in Requests, Load(r)
          PROVE  UNCHANGED <<status, members, name>>
      BY <3>3 DEF Load, LoadChangeRole, LoadRemove, LoadChangeStatus, LoadUpdate,
              LoadDeletion, LoadInvite, LoadRevoke, LoadAccept
    <3>4. CASE Job
      BY <2>1, <3>1, <3>4 DEF Job, JobStart, JobCascade, JobComplete, JobFail,
              JobRecordFailure, JobLoseFailure, JobStall
    <3>5. CASE UNCHANGED <<status, members, name>>
      BY <3>1, <3>5
    <3> QED
      BY <3>1, <3>2, <3>3, <3>4, <3>5 DEF Next, Crash, Expire, vars
  <2>3. deletion # "done" => JobFinish
    BY DEF Next, Load, Write, Job, Crash, Expire, vars, LoadChangeRole, LoadRemove,
           LoadChangeStatus, LoadUpdate, LoadDeletion, LoadInvite, LoadRevoke,
           LoadAccept, ChangeRole, Remove, ChangeStatus, Update, MarkDeleting,
           EnqueueDeletion, CreateInvitation, Revoke, Join, JobStart, JobCascade,
           JobComplete, JobFail, JobRecordFailure, JobLoseFailure, JobStall
  <2> QED
    BY <2>1, <2>2, <2>3
<1> QED
  BY <1>1, <1>2, TypeCorrect, DeletionOrder, PTL DEF Spec

-----------------------------------------------------------------------------
(* Administrators *)

\* A role change never takes the last administrator: what the filter leaves
\* behind still holds one.
LEMMA ChangeRoleKeepsAdmin ==
    ASSUME TypeOK, UniqueMember, HasAdmin, NEW r \in Requests, ChangeRole(r)
    PROVE  HasAdmin'
<1> DEFINE q == req[r]
<1>1. q \in RoleRequest
  BY Shapes DEF ChangeRole, TypeOK
<1>2. CASE ~RoleChangeAllowed(q)
  BY <1>2 DEF ChangeRole, HasAdmin
<1>3. CASE RoleChangeAllowed(q) /\ q.seen = "admin"
  <2>1. PICK m \in members : m.role = "admin" /\ m.userId # q.target
    BY <1>3 DEF RoleChangeAllowed, AnotherAdmin
  <2>2. m \in WithRole(q.target, q.role)
    BY <2>1 DEF WithRole
  <2> QED
    BY <1>3, <2>1, <2>2 DEF ChangeRole, HasAdmin
<1>4. CASE RoleChangeAllowed(q) /\ q.seen = "participant" /\ q.role = "admin"
  <2>1. PICK m \in members : m.userId = q.target
    BY <1>4 DEF RoleChangeAllowed, IsMember
  <2>2. m \in Member
    BY DEF TypeOK
  <2>3. [m EXCEPT !.role = q.role] \in WithRole(q.target, q.role)
    BY <2>1 DEF WithRole
  <2>4. [m EXCEPT !.role = q.role].role = "admin"
    BY <2>2, <1>4 DEF Member
  <2>5. members' = WithRole(q.target, q.role)
    BY <1>4 DEF ChangeRole
  <2> QED
    BY <2>3, <2>4, <2>5 DEF HasAdmin
<1> QED
  BY <1>1, <1>2, <1>3, <1>4 DEF RoleRequest, Roles

\* A live project loses its last administrator only to a removal that read the
\* target as a participant.
THEOREM AdminLoss == Spec => LastAdminLostOnlyByStaleRemoval
<1> DEFINE Stale == \E r \in Requests :
                      /\ req[r].pc = "remove"
                      /\ req[r].seen = "participant"
                      /\ HasRole(req[r].target, "admin")
           Lost == HasAdmin /\ ~HasAdmin' /\ status' # "deleting"
<1>1. TypeOK /\ UniqueMember /\ AliveUntilErased /\ [Next]_vars => [Lost => Stale]_vars
  <2> SUFFICES ASSUME TypeOK, UniqueMember, AliveUntilErased, Next, Lost
               PROVE  Stale
    OBVIOUS
  <2>1. ASSUME NEW r \in Requests, ChangeRole(r) PROVE FALSE
    BY <2>1, ChangeRoleKeepsAdmin
  <2>2. ASSUME NEW r \in Requests, Join(r) PROVE FALSE
    BY <2>2 DEF Join, HasAdmin
  <2>3. ASSUME NEW r \in Requests, Remove(r) PROVE Stale
    <3> DEFINE q == req[r]
    <3>1. q \in RemoveRequest
      BY <2>3, Shapes DEF Remove, TypeOK
    <3>2. members' = {m \in members : m.userId # q.target} /\ RemovalAllowed(q)
      BY <2>3 DEF Remove, HasAdmin
    <3>3. q.seen = "participant"
      <4>1. q.seen # "admin"
        BY <3>2 DEF RemovalAllowed, AnotherAdmin, HasAdmin
      <4> QED
        BY <3>1, <4>1 DEF RemoveRequest, Roles
    <3>4. PICK m \in members : m.role = "admin"
      BY DEF HasAdmin
    <3>5. m.userId = q.target
      BY <3>2, <3>4 DEF HasAdmin
    <3>6. m = [userId |-> q.target, role |-> "admin"]
      BY <3>4, <3>5 DEF TypeOK, Member
    <3> QED
      BY <2>3, <3>3, <3>4, <3>6 DEF HasRole, Remove
  <2>4. CASE JobFinish
    BY <2>4 DEF JobFinish, AliveUntilErased
  <2>5. CASE UNCHANGED members
    BY <2>5 DEF HasAdmin
  <2> QED
    BY <2>1, <2>2, <2>3, <2>4, <2>5, WritersOfMembers
<1> QED
  BY <1>1, TypeCorrect, MembersUnique, DeletionOrder, PTL
      DEF Spec, LastAdminLostOnlyByStaleRemoval, vars
=============================================================================
