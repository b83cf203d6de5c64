------------------------------ MODULE MCWebStore ------------------------------
(* WebStore on two users or two messages.                                      *)
EXTENDS WebStore

CONSTANTS x, y
=============================================================================
