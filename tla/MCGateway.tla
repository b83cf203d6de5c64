----------------------------- MODULE MCGateway ------------------------------
(* Instances of Gateway for TLC.                                             *)
EXTENDS Gateway

CONSTANTS tab1, tab2, alice

OneTab == [d \in {tab1} |-> alice]
TwoTabs == [d \in {tab1, tab2} |-> alice]

=============================================================================
