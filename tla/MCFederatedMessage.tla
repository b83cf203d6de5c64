-------------------------- MODULE MCFederatedMessage --------------------------
(* FederatedMessage on small instances.                                        *)
EXTENDS FederatedMessage

CONSTANTS a, b, c
=============================================================================
