----------------------------- MODULE MCFederatedDm -----------------------------
(* Two instances, named by model values, for TLC.                            *)
EXTENDS FederatedDm
=============================================================================
