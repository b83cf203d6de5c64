------------------------------ MODULE MCPresence ------------------------------
(* Presence on small instances. *)
EXTENDS Presence, TLC

Slots == Permutations(Call) \cup Permutations(Socket)
=============================================================================
