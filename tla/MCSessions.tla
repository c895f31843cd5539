----------------------------- MODULE MCSessions -----------------------------
(* Sessions for TLC: the tabs are alike. *)
EXTENDS Sessions, TLC

Alike == Permutations(Tabs)
=============================================================================
