----------------------------- MODULE MCLoginGate -----------------------------
(* LoginGate on small instances. *)
EXTENDS LoginGate, TLC

Handlers == Permutations(Request)
=============================================================================
