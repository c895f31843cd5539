--------------------------- MODULE MCPublication ---------------------------
(***************************************************************************)
(* Instances of Publication for TLC: versions, keys and request slots are  *)
(* interchangeable.                                                        *)
(***************************************************************************)
EXTENDS Publication, TLC

Symmetry ==
    Permutations(VersionIds) \cup Permutations(Keys) \cup Permutations(Requests)
=============================================================================
