----------------------------- MODULE MCMembership -----------------------------
(* Membership on small instances.                                              *)
EXTENDS Membership, TLC

CONSTANTS owner, local, remote

Slots == Permutations(Slot)
=============================================================================
