---------------------------- MODULE MCDraftPage -----------------------------
(* Three drafts and five runs of submit, enough for one draft's answer to  *)
(* arrive while a later draft is in doubt.                                  *)
EXTENDS DraftPage
=============================================================================
