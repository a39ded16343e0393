------------------------- MODULE MCJournalCommands -------------------------
(* Two tabs of one browser, two scopes. *)
EXTENDS JournalCommands

CONSTANTS t1, t2, shop, bakery
=============================================================================
