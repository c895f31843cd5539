--------------------------- MODULE VersionHistory ---------------------------
(***************************************************************************)
(* What the versions of a diagram promise to whoever reads them, without   *)
(* requests, indexes or activities: versions are uploaded one after        *)
(* another, at most one is a draft and at most one is published, and a     *)
(* version only moves on, draft -> published -> archived.                  *)
(***************************************************************************)
EXTENDS Naturals

CONSTANTS VersionIds

VARIABLES
    status,    \* of each version; "none" before it is uploaded
    number     \* 1, 2, 3... in the order of upload; 0 before

vars == <<status, number>>

Init ==
    /\ status = [v \in VersionIds |-> "none"]
    /\ number = [v \in VersionIds |-> 0]

\* A new draft comes after every other version, and only when there is none.
Upload(v) ==
    /\ status[v] = "none"
    /\ \A w \in VersionIds : status[w] # "draft"
    /\ \E last \in {0} \cup {number[w] : w \in VersionIds} :
        /\ \A w \in VersionIds : number[w] <= last
        /\ number' = [number EXCEPT ![v] = last + 1]
    /\ status' = [status EXCEPT ![v] = "draft"]

\* The draft takes the place of the published version, which left it before.
Publish(v) ==
    /\ status[v] = "draft"
    /\ \A w \in VersionIds : status[w] # "published"
    /\ status' = [status EXCEPT ![v] = "published"]
    /\ UNCHANGED number

Archive(v) ==
    /\ status[v] = "published"
    /\ status' = [status EXCEPT ![v] = "archived"]
    /\ UNCHANGED number

Next == \E v \in VersionIds : Upload(v) \/ Publish(v) \/ Archive(v)

Spec == Init /\ [][Next]_vars
=============================================================================
