------------------------------ MODULE MCSessions ------------------------------
(* Sessions on small instances. *)
EXTENDS Sessions, TLC

Slots == Permutations(Request) \cup Permutations(ResetToken)
=============================================================================
