------------------------------ MODULE Decisions ------------------------------
(***************************************************************************)
(* The decision about one pair of possible duplicates                      *)
(* (apps/api/src/modules/dashboard/decisions.routes.ts).  Confirming is    *)
(* two writes in two collections: the decision, which a unique index       *)
(* allows once for a pair, and the moderation of the detail that is not    *)
(* kept; when the second fails the first is undone, which may fail in its  *)
(* turn.  Other requests of the project change the details meanwhile, and  *)
(* a process may die between the writes.  The moderation itself is in      *)
(* Details.                                                                *)
(***************************************************************************)
EXTENDS Naturals, FiniteSets

CONSTANTS Requests,   \* requests under way at once
          MaxDeaths   \* bound: processes that die

Pair == {1, 2}
Other(d) == 3 - d

VARIABLES
  status,    \* the status of the two details
  decision,  \* the decisions stored for the pair
  request,   \* what each request does next
  applied,   \* history: the requests whose moderation was written
  cut        \* history: the requests cut short, whose process died or whose undo failed

vars == <<status, decision, request, applied, cut>>

Idle == [pc |-> "idle", kind |-> "none", keep |-> 0, read |-> "none"]

TypeOK ==
  /\ status \in [Pair -> {"open", "duplicate", "discarded", "gone"}]
  /\ decision \subseteq [kind : {"confirmed", "rejected"}, by : Requests]
  /\ request \in [Requests ->
       [pc : {"idle", "create", "moderate", "write", "undo", "done"},
        kind : {"none", "confirmed", "rejected"}, keep : 0..2,
        read : {"none", "open", "duplicate", "discarded"}]]
  /\ applied \subseteq Requests /\ cut \subseteq Requests

Init ==
  /\ status = [d \in Pair |-> "open"]
  /\ decision = {}
  /\ request = [r \in Requests |-> Idle]
  /\ applied = {} /\ cut = {}

Go(r, pc) == request' = [request EXCEPT ![r].pc = pc]

\* Both details are read; keep names the one that stays.
Ask(r, kind, keep) ==
  /\ request[r] = Idle
  /\ \A d \in Pair : status[d] # "gone"
  /\ request' = [request EXCEPT
       ![r] = [pc |-> "create", kind |-> kind, keep |-> keep,
               read |-> status[Other(keep)]]]
  /\ UNCHANGED <<status, decision, applied, cut>>

\* The unique index: the other request is answered ALREADY_DECIDED.
Taken == decision # {}

Create(r) ==
  /\ request[r].pc = "create"
  /\ \/ /\ Taken
        /\ Go(r, "done")
        /\ UNCHANGED decision
     \/ /\ ~Taken
        /\ decision' = {[kind |-> request[r].kind, by |-> r]}
        /\ Go(r, IF request[r].kind = "confirmed" THEN "moderate" ELSE "done")
  /\ UNCHANGED <<status, applied, cut>>

\* The transition is checked on what was read first, and the kept detail is
\* read now: it must exist and not be a duplicate itself.  Reading it may fail.
Moderates(r) ==
  request[r].read = "open" /\ status[request[r].keep] \notin {"gone", "duplicate"}

Moderate(r) ==
  /\ request[r].pc = "moderate"
  /\ \/ Moderates(r) /\ Go(r, "write")
     \/ Go(r, "undo")
  /\ UNCHANGED <<status, decision, applied, cut>>

\* The status is written, unless the detail is gone or the write fails; whatever
\* comes after it, its history and its event, may fail too.
Write(r) ==
  /\ request[r].pc = "write"
  /\ LET d == Other(request[r].keep) IN
       \/ /\ Go(r, "undo")
          /\ UNCHANGED <<status, applied>>
       \/ /\ status[d] # "gone"
          /\ \E next \in {"done", "undo"} : Go(r, next)
          /\ status' = [status EXCEPT ![d] = "duplicate"]
          /\ applied' = applied \cup {r}
  /\ UNCHANGED <<decision, cut>>

\* Slip: the decision stays when the moderation fails.
Kept(r) == decision

\* The decision that was created is deleted, by its id.
Without(r) == {x \in decision : x.by # r}

Undo(r) ==
  /\ request[r].pc = "undo"
  /\ decision' = Without(r)
  /\ Go(r, "done")
  /\ UNCHANGED <<status, applied, cut>>

\* The deletion fails: the request answers an error and the decision stays.
UndoFails(r) ==
  /\ request[r].pc = "undo"
  /\ cut' = cut \cup {r}
  /\ Go(r, "done")
  /\ UNCHANGED <<status, decision, applied>>

Die(r) ==
  /\ request[r].pc \notin {"idle", "done"}
  /\ Cardinality(cut) < MaxDeaths
  /\ cut' = cut \cup {r}
  /\ Go(r, "done")
  /\ UNCHANGED <<status, decision, applied>>

\* Other requests moderate the details, or delete them.
Change(d, next) ==
  /\ status[d] # "gone" /\ status[d] # next
  /\ status' = [status EXCEPT ![d] = next]
  /\ UNCHANGED <<decision, request, applied, cut>>

Next ==
  \/ \E r \in Requests :
       \/ Create(r) \/ Moderate(r) \/ Write(r) \/ Undo(r) \/ UndoFails(r) \/ Die(r)
       \/ \E kind \in {"confirmed", "rejected"}, keep \in Pair : Ask(r, kind, keep)
  \/ \E d \in Pair, next \in {"open", "discarded", "gone"} : Change(d, next)

-----------------------------------------------------------------------------
(* Properties. *)

\* A stored confirmation had its effect: the request that stored it has written
\* the moderation, or is still at it, or its process died between both writes, or
\* the deletion that undoes the decision failed.
\* (decisions.routes.ts: "La moderación no se pudo aplicar: la decisión no queda
\* registrada")
ConfirmedIsApplied ==
  \A x \in decision : x.kind = "confirmed" =>
    x.by \in applied \cup cut \/ request[x.by].pc \in {"moderate", "write", "undo"}

=============================================================================
