---------------------------- MODULE MCDetection ----------------------------
(***************************************************************************)
(* An instance of Detection for TLC: two proposals and the arrow from one  *)
(* to the other.                                                           *)
(***************************************************************************)
EXTENDS Detection, TLC

CONSTANTS p1, p2

Symmetry == Permutations(Jobs) \cup Permutations(Requests)

OneArrow == {<<p1, p2>>}
=============================================================================
