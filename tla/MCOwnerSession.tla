--------------------------- MODULE MCOwnerSession ---------------------------
(* One installation of the owner app.                                       *)
EXTENDS OwnerSession

CONSTANT phone
=============================================================================
