----------------------------- MODULE MCProject -----------------------------
(***************************************************************************)
(* The project document for TLC.  Users and request slots are              *)
(* interchangeable, so the runs use both symmetries; MCProgress, which     *)
(* checks the liveness, uses none.                                        *)
(***************************************************************************)
EXTENDS Project, TLC

Symmetry == Permutations(Users) \cup Permutations(Requests)
=============================================================================
