------------------------------- MODULE MCPeering -------------------------------
(* Peering on two instances: one speaks both capabilities, the other one.      *)
EXTENDS Peering, TLC

CONSTANTS a, b, messages, dms

MCAdvertised == (a :> {messages}) @@ (b :> {messages, dms})
=============================================================================
