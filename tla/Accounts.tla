------------------------------ MODULE Accounts ------------------------------
(***************************************************************************)
(* The account of one person and the lock on its log-ins: two counters of  *)
(* failures in Redis, of the email and of the address it is tried from.    *)
(*                                                                         *)
(* Each attempt to register or to log in is handled call by call.  Redis   *)
(* may not answer, and the process of an attempt may die: both are faults, *)
(* and without faults an attempt goes on.  Left out: the password and its  *)
(* policy (a password is right or wrong), the messages, the rate limit,    *)
(* and how long the window of a counter is.                                *)
(***************************************************************************)
EXTENDS Integers, FiniteSets

CONSTANTS
    Attempts,     \* bound: attempts in flight at once
    MaxFailures,  \* MAX_FAILURES, smaller
    MaxFaults     \* bound: faults of Redis or deaths, ever

Keys == 1 .. 2    \* the counters, in the order failureKeys gives them
Email == 1

VARIABLES
    account,      \* how many documents the users collection has for the email
    count,        \* the value of each counter
    ttl,          \* whether the counter has a time to live
    attempt,      \* the call each attempt makes next, and on which key
    faults

vars == <<account, count, ttl, attempt, faults>>

Idle == [pc |-> "idle", key |-> Email]
MaxCount == MaxFailures + Cardinality(Attempts) + MaxFaults

\* One type invariant for the module.
TypeOK ==
    /\ account \in 0 .. 1
    /\ count \in [Keys -> 0 .. MaxCount]
    /\ ttl \in [Keys -> BOOLEAN]
    /\ attempt \in [Attempts ->
         [pc : {"idle", "create", "verify", "forget", "incr", "expire"}, key : Keys]]
    /\ faults \in 0 .. MaxFaults

-----------------------------------------------------------------------------

Go(a, pc, key) == attempt' = [attempt EXCEPT ![a] = [pc |-> pc, key |-> key]]

Init ==
    /\ account = 0
    /\ count = [k \in Keys |-> 0]
    /\ ttl = [k \in Keys |-> FALSE]
    /\ attempt = [a \in Attempts |-> Idle]
    /\ faults = 0

\* The email is looked for, ...
Register(a) ==
    /\ attempt[a].pc = "idle"
    /\ account = 0
    /\ Go(a, "create", Email)
    /\ UNCHANGED <<account, count, ttl, faults>>

\* Slip: what was read is trusted; there is no unique index.
WithAnother == account + 1

\* The unique index refuses a second account of the email: a 409.
WithAccount == 1

\* ... then the account is created.
CreateAccount(a) ==
    /\ attempt[a].pc = "create"
    /\ account' = WithAccount
    /\ Go(a, "idle", Email)
    /\ UNCHANGED <<count, ttl, faults>>

\* Slip: one failure too many.
IsLockedAfter(k) == count[k] > MaxFailures

IsLocked(k) == count[k] >= MaxFailures

\* A locked attempt is refused here: a 429.  Redis may not answer; nothing is locked.
LogIn(a) ==
    /\ attempt[a].pc = "idle"
    /\ \/ /\ \A k \in Keys : ~IsLocked(k)
          /\ UNCHANGED faults
       \/ faults < MaxFaults /\ faults' = faults + 1
    /\ Go(a, "verify", Email)
    /\ UNCHANGED <<account, count, ttl>>

\* The password is right, of an account there is; or it is wrong, or there is none.
Verify(a) ==
    /\ attempt[a].pc = "verify"
    /\ \/ account = 1 /\ Go(a, "forget", Email)
       \/ Go(a, "incr", Email)
    /\ UNCHANGED <<account, count, ttl, faults>>

\* The counter of the email goes, if Redis answers; the session is issued anyway.
Forget(a) ==
    /\ attempt[a].pc = "forget"
    /\ count' = [count EXCEPT ![Email] = 0]
    /\ ttl' = [ttl EXCEPT ![Email] = FALSE]
    /\ Go(a, "idle", Email)
    /\ UNCHANGED <<account, faults>>

Following(a, key) ==
    IF key = 2 THEN Go(a, "idle", Email) ELSE Go(a, "incr", key + 1)

\* Slip: only the first failure starts the window.
NeedsWindowFirst(n) == n = 1

NeedsWindow(n) == n = 1 \/ n >= MaxFailures

Increment(a) ==
    LET k == attempt[a].key
        n == count[k] + 1
    IN /\ attempt[a].pc = "incr"
       /\ count' = [count EXCEPT ![k] = n]
       /\ IF NeedsWindow(n) THEN Go(a, "expire", k) ELSE Following(a, k)
       /\ UNCHANGED <<account, ttl, faults>>

\* On a counter that is gone it does nothing.
SetWindow(a) ==
    LET k == attempt[a].key
    IN /\ attempt[a].pc = "expire"
       /\ ttl' = [ttl EXCEPT ![k] = count[k] > 0]
       /\ Following(a, k)
       /\ UNCHANGED <<account, count, faults>>

\* Redis fails and the failure is not recorded any further, or the process dies.
Fault(a) ==
    /\ attempt[a].pc # "idle"
    /\ faults < MaxFaults
    /\ faults' = faults + 1
    /\ Go(a, "idle", Email)
    /\ UNCHANGED <<account, count, ttl>>

WindowEnds(k) ==
    /\ ttl[k]
    /\ count' = [count EXCEPT ![k] = 0]
    /\ ttl' = [ttl EXCEPT ![k] = FALSE]
    /\ UNCHANGED <<account, attempt, faults>>

-----------------------------------------------------------------------------

Next ==
    \/ \E a \in Attempts :
        \/ Register(a) \/ CreateAccount(a) \/ LogIn(a) \/ Verify(a) \/ Forget(a)
        \/ Increment(a) \/ SetWindow(a) \/ Fault(a)
    \/ \E k \in Keys : WindowEnds(k)

\* Redis ends every window; an attempt that began to record a failure goes on, but for
\* the faults.
Fairness ==
    /\ \A k \in Keys : WF_vars(WindowEnds(k))
    /\ \A a \in Attempts : WF_vars(Increment(a)) /\ WF_vars(SetWindow(a))

Spec == Init /\ [][Next]_vars /\ Fairness

-----------------------------------------------------------------------------
(* Properties *)

\* A locked account is not locked for ever: with MaxFaults = 1, Redis or the process
\* failing once between INCR and EXPIRE leaves no counter at the limit without a
\* window (service.ts:86-90).
LockEnds == \A k \in Keys : []<>(count[k] < MaxFailures)

\* The lock is read before the failure is recorded: the attempts that exceed it are those
\* in flight when it fell, and those Redis did not answer (service.ts:132-145).
OverrunIsInFlight ==
    \A k \in Keys : count[k] <= MaxFailures - 1 + Cardinality(Attempts) + faults
=============================================================================
