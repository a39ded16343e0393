---------------------------- MODULE MCWebSession ----------------------------
(* Two tabs with a call or operation each.                                  *)
EXTENDS WebSession

CONSTANTS c1, c2

MCTabOf == [c \in Clients |-> c]
=============================================================================
