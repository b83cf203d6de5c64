--------------------------- MODULE MCFederatedRoster ---------------------------
(* FederatedRoster with symmetric guests and fields. *)
EXTENDS FederatedRoster, TLC

Alike == Permutations(Guest) \cup Permutations(Field)
=============================================================================
