------------------------------ MODULE MCRealtime ------------------------------
(* Two tabs of a user show one draft, or one tab passes from one diagram of   *)
(* the project to another.                                                    *)
EXTENDS Realtime, TLC
CONSTANTS s1, s2, u1, v1, v2
OneUser == (s1 :> u1) @@ (s2 :> u1)
SameOrTwo == {{s1, s2} \X {v1}, {s1} \X {v1, v2}, {s2} \X {v1, v2}}
Alike == Permutations({s1, s2})
=============================================================================
