------------------------------ MODULE Project ------------------------------
(***************************************************************************)
(* One project document: its members and roles, its life cycle             *)
(* (draft -> open <-> closed, and deleting), its invitations, and the      *)
(* background job that erases it.                                          *)
(*                                                                         *)
(* MongoDB runs without transactions: a call to it is one atomic step and  *)
(* a request is the read made by its authorization guard followed by its   *)
(* writes, with the steps of other requests in between.  What the guard    *)
(* read (a target's role, the status, an invitation) is kept in the        *)
(* request's record and may be stale when the write runs.                  *)
(*                                                                         *)
(* Left out: audit records (written best effort, read by no handler), the  *)
(* response bodies, and the domain events other modules subscribe to.      *)
(***************************************************************************)
EXTENDS Naturals, FiniteSets

CONSTANTS
    Users,         \* accounts that may be members
    Requests,      \* bound: HTTP requests in flight at once; a slot is reused
    Invitations,   \* bound: invitation links ever created
    MaxAttempts,   \* attempts of the deletion job (BullMQ option)
    MaxStalls      \* bound: times a worker dies in the middle of the job

ASSUME MaxAttemptsAssumption == MaxAttempts \in Nat \ {0}
ASSUME MaxStallsAssumption == MaxStalls \in Nat

VARIABLES
    status,      \* projects.status
    members,     \* projects.members: a set of [userId, role]
    name,        \* projects.name: whether it still holds data
    deletion,    \* projects.deletion.status
    invitation,  \* state of each invitation document
    job,         \* the BullMQ job delete-<projectId>
    req          \* where each request is, and what it has read

vars == <<status, members, name, deletion, invitation, job, req>>

Roles == {"admin", "participant"}
Statuses == {"draft", "open", "closed", "deleting"}
\* nextStatus: open a draft, close an open project, reopen a closed one.
StatusCycle == {<<"draft", "open">>, <<"open", "closed">>, <<"closed", "open">>}

Member == [userId : Users, role : Roles]

JobState == {"none", "waiting", "active", "cascaded", "erased", "exhausted",
             "unrecorded", "finished"}

RoleRequest ==
    {q \in [pc : {"changeRole"}, target : Users, role : Roles, seen : Roles] :
        q.role # q.seen}
RemoveRequest == [pc : {"remove"}, target : Users, seen : Roles]
StatusRequest ==
    {q \in [pc : {"changeStatus"}, from : Statuses, to : Statuses] :
        <<q.from, q.to>> \in StatusCycle}
JoinRequest == [pc : {"join"}, user : Users]
RevokeRequest == [pc : {"revoke"}, inv : Invitations]
PlainRequest == [pc : {"idle", "update", "delete", "enqueue", "invite"}]

Request == UNION {RoleRequest, RemoveRequest, StatusRequest, JoinRequest,
                  RevokeRequest, PlainRequest}

\* One type invariant for the module.
TypeOK ==
    /\ status \in Statuses
    /\ members \subseteq Member
    /\ name \in {"set", "erased"}
    /\ deletion \in {"none", "pending", "running", "done", "failed"}
    /\ invitation \in [Invitations ->
                        {"unused", "active", "expired", "revoked", "erased"}]
    /\ job \in [state : JobState, made : Nat, stalls : 0 .. MaxStalls]
    /\ req \in [Requests -> Request]

-----------------------------------------------------------------------------
(* What the code reads off the document *)

Idle == [pc |-> "idle"]

IsMember(u) == \E m \in members : m.userId = u
HasRole(u, role) == [userId |-> u, role |-> role] \in members

\* The filter "another administrator remains besides u".
AnotherAdmin(u) == \E m \in members : m.role = "admin" /\ m.userId # u

\* authorize(): the project is not being deleted and the caller is a member
\* with the role the route asks for.
MayCall(u, role) ==
    /\ status # "deleting"
    /\ IsMember(u)
    /\ role = "admin" => HasRole(u, "admin")

\* A project just created: its owner is the only member, an administrator.
Init ==
    /\ status = "draft"
    /\ \E owner \in Users : members = {[userId |-> owner, role |-> "admin"]}
    /\ name = "set"
    /\ deletion = "none"
    /\ invitation = [i \in Invitations |-> "unused"]
    /\ job = [state |-> "none", made |-> 0, stalls |-> 0]
    /\ req = [r \in Requests |-> Idle]

-----------------------------------------------------------------------------
(* Members: change a role, remove a member or leave *)

Step(r, next) == req' = [req EXCEPT ![r] = next]

\* Slip: a change to the role the target has goes on to the write.
LoadSameRole(r) ==
    /\ req[r].pc = "idle"
    /\ \E actor, target \in Users, seen, role \in Roles :
        /\ MayCall(actor, "admin")
        /\ HasRole(target, seen)
        /\ Step(r, [pc |-> "changeRole", target |-> target, role |-> role, seen |-> seen])
    /\ UNCHANGED <<status, members, name, deletion, invitation, job>>

LoadChangeRole(r) ==
    /\ req[r].pc = "idle"
    /\ \E actor, target \in Users, seen, role \in Roles :
        /\ MayCall(actor, "admin")
        /\ HasRole(target, seen)
        /\ seen # role
        /\ Step(r, [pc |-> "changeRole", target |-> target, role |-> role, seen |-> seen])
    /\ UNCHANGED <<status, members, name, deletion, invitation, job>>

\* Slip: the demotion forgets to ask for another administrator.
RoleChangeUnchecked(q) == status # "deleting" /\ IsMember(q.target)

\* The filter of the update; a demotion also asks for another administrator.
RoleChangeAllowed(q) ==
    /\ status # "deleting"
    /\ IsMember(q.target)
    /\ q.seen = "admin" => AnotherAdmin(q.target)

WithRole(u, role) ==
    {IF m.userId = u THEN [m EXCEPT !.role = role] ELSE m : m \in members}

ChangeRole(r) ==
    /\ req[r].pc = "changeRole"
    /\ members' = IF RoleChangeAllowed(req[r])
                  THEN WithRole(req[r].target, req[r].role)
                  ELSE members                                \* 409 LAST_ADMIN
    /\ Step(r, Idle)
    /\ UNCHANGED <<status, name, deletion, invitation, job>>

\* Anyone may leave; only an administrator removes somebody else.
LoadRemove(r) ==
    /\ req[r].pc = "idle"
    /\ \E actor, target \in Users, seen \in Roles :
        /\ MayCall(actor, "member")
        /\ actor # target => HasRole(actor, "admin")
        /\ HasRole(target, seen)
        /\ Step(r, [pc |-> "remove", target |-> target, seen |-> seen])
    /\ UNCHANGED <<status, members, name, deletion, invitation, job>>

\* The filter asks for another administrator only when the target was read as one.
RemovalAllowed(q) ==
    /\ status # "deleting"
    /\ IsMember(q.target)
    /\ q.seen = "admin" => AnotherAdmin(q.target)

Remove(r) ==
    /\ req[r].pc = "remove"
    /\ members' = IF RemovalAllowed(req[r])
                  THEN {m \in members : m.userId # req[r].target}
                  ELSE members                                \* 409 LAST_ADMIN
    /\ Step(r, Idle)
    /\ UNCHANGED <<status, name, deletion, invitation, job>>

-----------------------------------------------------------------------------
(* The document: status, name, and the request to delete it *)

LoadChangeStatus(r) ==
    /\ req[r].pc = "idle"
    /\ \E actor \in Users : MayCall(actor, "admin")
    /\ \E to \in Statuses :
        /\ <<status, to>> \in StatusCycle
        /\ Step(r, [pc |-> "changeStatus", from |-> status, to |-> to])
    /\ UNCHANGED <<status, members, name, deletion, invitation, job>>

\* Slip: the write trusts the status the guard read.
ChangeStatusByIdOnly(r) ==
    /\ req[r].pc = "changeStatus"
    /\ status' = req[r].to
    /\ Step(r, Idle)
    /\ UNCHANGED <<members, name, deletion, invitation, job>>

\* Conditioned on the status the guard read.
ChangeStatus(r) ==
    /\ req[r].pc = "changeStatus"
    /\ status' = IF status = req[r].from THEN req[r].to ELSE status
    /\ Step(r, Idle)
    /\ UNCHANGED <<members, name, deletion, invitation, job>>

LoadUpdate(r) ==
    /\ req[r].pc = "idle"
    /\ \E actor \in Users : MayCall(actor, "admin")
    /\ Step(r, [pc |-> "update"])
    /\ UNCHANGED <<status, members, name, deletion, invitation, job>>

Update(r) ==
    /\ req[r].pc = "update"
    /\ name' = IF status # "deleting" THEN "set" ELSE name    \* 404 otherwise
    /\ Step(r, Idle)
    /\ UNCHANGED <<status, members, deletion, invitation, job>>

LoadDeletion(r) ==
    /\ req[r].pc = "idle"
    /\ \E actor \in Users : MayCall(actor, "admin")
    /\ Step(r, [pc |-> "delete"])
    /\ UNCHANGED <<status, members, name, deletion, invitation, job>>

\* Hides the project from everybody; the second of two requests gets a 404.
MarkDeleting(r) ==
    /\ req[r].pc = "delete"
    /\ \/ /\ status # "deleting"
          /\ status' = "deleting"
          /\ deletion' = "pending"
          /\ Step(r, [pc |-> "enqueue"])
       \/ /\ status = "deleting"
          /\ Step(r, Idle)
          /\ UNCHANGED <<status, deletion>>
    /\ UNCHANGED <<members, name, invitation, job>>

\* The job id is the project's: adding it again changes nothing.
EnqueueDeletion(r) ==
    /\ req[r].pc = "enqueue"
    /\ job' = IF job.state = "none" THEN [job EXCEPT !.state = "waiting"] ELSE job
    /\ Step(r, Idle)
    /\ UNCHANGED <<status, members, name, deletion, invitation>>

-----------------------------------------------------------------------------
(* Invitations *)

LoadInvite(r) ==
    /\ req[r].pc = "idle"
    /\ \E actor \in Users : MayCall(actor, "admin")
    /\ Step(r, [pc |-> "invite"])
    /\ UNCHANGED <<status, members, name, deletion, invitation, job>>

CreateInvitation(r) ==
    /\ req[r].pc = "invite"
    /\ \E i \in Invitations :
        /\ invitation[i] = "unused"
        /\ invitation' = [invitation EXCEPT ![i] = "active"]
    /\ Step(r, Idle)
    /\ UNCHANGED <<status, members, name, deletion, job>>

LoadRevoke(r) ==
    /\ req[r].pc = "idle"
    /\ \E actor \in Users : MayCall(actor, "admin")
    /\ \E i \in Invitations :
        /\ invitation[i] \in {"active", "expired", "revoked"}
        /\ Step(r, [pc |-> "revoke", inv |-> i])
    /\ UNCHANGED <<status, members, name, deletion, invitation, job>>

Revoke(r) ==
    /\ req[r].pc = "revoke"
    /\ invitation' = IF invitation[req[r].inv] \in {"active", "expired"}
                     THEN [invitation EXCEPT ![req[r].inv] = "revoked"]
                     ELSE invitation
    /\ Step(r, Idle)
    /\ UNCHANGED <<status, members, name, deletion, job>>

\* Seven days after its creation.
Expire(i) ==
    /\ invitation[i] = "active"
    /\ invitation' = [invitation EXCEPT ![i] = "expired"]
    /\ UNCHANGED <<status, members, name, deletion, job, req>>

\* findValid: a public route, so the caller need not be a member.
LoadAccept(r) ==
    /\ req[r].pc = "idle"
    /\ \E i \in Invitations : invitation[i] = "active"
    /\ status # "deleting"
    /\ \E u \in Users : Step(r, [pc |-> "join", user |-> u])
    /\ UNCHANGED <<status, members, name, deletion, invitation, job>>

\* Slips: the filter forgets that the user may be a member already, or that
\* the project may be being deleted.
JoinTwice(u) == status # "deleting"
JoinDeleted(u) == ~IsMember(u)

\* The filter of the $push: alive, and not a member yet.
JoinAllowed(u) == status # "deleting" /\ ~IsMember(u)

Join(r) ==
    /\ req[r].pc = "join"
    /\ members' = IF JoinAllowed(req[r].user)
                  THEN members \cup {[userId |-> req[r].user, role |-> "participant"]}
                  ELSE members
    /\ Step(r, Idle)
    /\ UNCHANGED <<status, name, deletion, invitation, job>>

-----------------------------------------------------------------------------
(* The deletion job *)

JobStart ==
    /\ job.state = "waiting"
    /\ job' = [job EXCEPT !.state = "active"]
    /\ deletion' = "running"
    /\ UNCHANGED <<status, members, name, invitation, req>>

\* The registered cascade handlers; of this module, the one on invitations.
JobCascade ==
    /\ job.state = "active"
    /\ job' = [job EXCEPT !.state = "cascaded"]
    /\ invitation' = [i \in Invitations |->
                        IF invitation[i] = "unused" THEN "unused" ELSE "erased"]
    /\ UNCHANGED <<status, members, name, deletion, req>>

JobFinish ==
    /\ job.state = "cascaded"
    /\ job' = [job EXCEPT !.state = "erased"]
    /\ name' = "erased"
    /\ members' = {}
    /\ deletion' = "done"
    /\ UNCHANGED <<status, invitation, req>>

\* The queue takes note that the job's function returned.
JobComplete ==
    /\ job.state = "erased"
    /\ job' = [job EXCEPT !.state = "finished"]
    /\ UNCHANGED <<status, members, name, deletion, invitation, req>>

\* A write or a handler throws, the first write included: the queue retries until
\* the attempts run out.
JobFail ==
    /\ job.state \in {"waiting", "active", "cascaded"}
    /\ LET made == job.made + 1
       IN job' = [job EXCEPT !.made = made,
                    !.state = IF made < MaxAttempts THEN "waiting" ELSE "exhausted"]
    /\ UNCHANGED <<status, members, name, deletion, invitation, req>>

\* Slip: the listener does not write the failure down.
JobForgetFailure ==
    /\ job.state = "exhausted"
    /\ job' = [job EXCEPT !.state = "finished"]
    /\ UNCHANGED <<status, members, name, deletion, invitation, req>>

\* The listener of the worker's 'failed' event.
JobRecordFailure ==
    /\ job.state = "exhausted"
    /\ job' = [job EXCEPT !.state = "finished"]
    /\ deletion' = "failed"
    /\ UNCHANGED <<status, members, name, invitation, req>>

\* Nobody waits for the listener's write: when it fails, or the process dies
\* first, nothing repeats it.
JobLoseFailure ==
    /\ job.state = "exhausted"
    /\ job' = [job EXCEPT !.state = "unrecorded"]
    /\ UNCHANGED <<status, members, name, deletion, invitation, req>>

\* The process running the job dies, even after the last write: the queue hands
\* the job to another worker.  What the queue does with a job that stalls too
\* often is not in the repository.
JobStall ==
    /\ job.state \in {"active", "cascaded", "erased"}
    /\ job.stalls < MaxStalls
    /\ job' = [job EXCEPT !.state = "waiting", !.stalls = @ + 1]
    /\ UNCHANGED <<status, members, name, deletion, invitation, req>>

-----------------------------------------------------------------------------

\* The process serving the request dies between two of its steps.
Crash(r) ==
    /\ req[r].pc # "idle"
    /\ Step(r, Idle)
    /\ UNCHANGED <<status, members, name, deletion, invitation, job>>

Load(r) ==
    \/ LoadChangeRole(r) \/ LoadRemove(r) \/ LoadChangeStatus(r)
    \/ LoadUpdate(r) \/ LoadDeletion(r)
    \/ LoadInvite(r) \/ LoadRevoke(r) \/ LoadAccept(r)

Write(r) ==
    \/ ChangeRole(r) \/ Remove(r) \/ ChangeStatus(r)
    \/ Update(r) \/ MarkDeleting(r) \/ EnqueueDeletion(r)
    \/ CreateInvitation(r) \/ Revoke(r) \/ Join(r)

Job ==
    \/ JobStart \/ JobCascade \/ JobFinish \/ JobComplete
    \/ JobFail \/ JobRecordFailure \/ JobLoseFailure \/ JobStall

Next ==
    \/ \E r \in Requests : Load(r) \/ Write(r) \/ Crash(r)
    \/ \E i \in Invitations : Expire(i)
    \/ Job

Spec == Init /\ [][Next]_vars

\* A waiting job is eventually taken by a worker, which goes on with it; a
\* request in flight goes on too, unless its process dies.
Fairness ==
    /\ WF_vars(JobStart \/ JobFail) /\ WF_vars(JobRecordFailure \/ JobLoseFailure)
    /\ WF_vars(JobCascade \/ JobFinish \/ JobFail)
    /\ \A r \in Requests : WF_vars(Write(r))

FairSpec == Spec /\ Fairness

-----------------------------------------------------------------------------
(* Properties *)

HasAdmin == \E m \in members : m.role = "admin"

\* FR-010 and the comment on anotherAdmin: a project that is not being deleted
\* has at least one administrator.
AtLeastOneAdmin == status # "deleting" => HasAdmin

\* What the filters do achieve: the only write that leaves a live project
\* without administrators is a removal whose guard read the target as a
\* participant who was promoted in between; role changes never do.
LastAdminLostOnlyByStaleRemoval ==
    [][ (HasAdmin /\ ~HasAdmin' /\ status' # "deleting") =>
          \E r \in Requests :
             /\ req[r].pc = "remove"
             /\ req[r].seen = "participant"
             /\ HasRole(req[r].target, "admin") ]_vars

\* A user is listed once, whatever the invitations accepted at the same time
\* and the roles changed meanwhile.
UniqueMember ==
    \A m, n \in members : m.userId = n.userId => m = n

\* The status follows draft -> open <-> closed, may become deleting from any of
\* them, and never leaves deleting, whatever stale status a request carries.
LifeCycle ==
    [][ \/ status' = status
        \/ <<status, status'>> \in StatusCycle
        \/ status' = "deleting" ]_vars

\* What deletion erased stays erased: no request that was in flight gives the
\* tombstone members or a name again.
TombstoneStaysEmpty ==
    deletion = "done" => status = "deleting" /\ members = {} /\ name = "erased"

\* An enqueued deletion ends, done or recorded as failed, whatever retries and
\* worker deaths happen on the way, unless the single write of the failure is lost.
EnqueuedDeletionEnds ==
    []<>(deletion \in {"done", "failed"} \/ job.state \in {"none", "unrecorded"})

=============================================================================
