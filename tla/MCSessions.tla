---------------------------- MODULE MCSessions ------------------------------
(* Module Sessions for TLC: users are symmetric. *)
EXTENDS Sessions, TLC

Symmetry == Permutations(Users)
=============================================================================
