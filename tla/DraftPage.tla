----------------------------- MODULE DraftPage ------------------------------
(***************************************************************************)
(* The web page that prepares service drafts.  A form is composed into a   *)
(* draft with a request id of its own; submit sends it and, once saved,    *)
(* reads the list of drafts again before it ends.  Several runs of submit  *)
(* may be under way: the page offers a new form while the list is read.    *)
(* The server keeps its promise of Billing: one draft per request id, the  *)
(* same answer again; the network may lose or delay every message.         *)
(*                                                                         *)
(* A draft is its number.  operationRef and the pending state always hold  *)
(* the same draft and are one variable here, as are inFlightRef and the    *)
(* saving state.                                                           *)
(***************************************************************************)
EXTENDS Naturals, Sequences

CONSTANTS
  MaxDrafts,    \* bound: drafts composed
  MaxCalls      \* bound: runs of submit

ASSUME DraftPageAssumption == MaxDrafts \in Nat /\ MaxCalls \in Nat

None == 0

VARIABLES
  made,         \* how many drafts were composed
  pending,      \* the draft whose identity the page keeps, or None
  busy,         \* the submit button is disabled
  saved,        \* the draft shown as saved, or None
  calls,        \* the runs of submit: draft, stage, and where the request is
  recorded,     \* the server's drafts
  acked,        \* drafts the user was told are saved
  forgotten,    \* drafts in doubt when the page was left
  doubled       \* a draft was sent while an earlier sending of it was open

pageVars == <<made, pending, busy, saved, calls, recorded, acked, forgotten, doubled>>

Drafts == 1..made
Runs == 1..Len(calls)
Posting(d) == {n \in Runs : calls[n].stage = "posting" /\ calls[n].draft = d}

PageInit ==
  /\ made = 0 /\ pending = None /\ busy = FALSE /\ saved = None
  /\ calls = <<>>
  /\ recorded = {} /\ acked = {} /\ forgotten = {} /\ doubled = FALSE

-----------------------------------------------------------------------------
(* The user. *)

Send(d) ==
  /\ Len(calls) < MaxCalls
  /\ calls' = Append(calls, [draft |-> d, stage |-> "posting", request |-> "sent"])
  /\ pending' = d /\ busy' = TRUE
  /\ doubled' = (doubled \/ Posting(d) # {})
  /\ UNCHANGED <<saved, recorded, acked, forgotten>>

(* A draft the page still holds is sent again as it is; only without one    *)
(* is the form composed anew.                                               *)
Submit ==
  /\ ~ busy /\ saved = None
  /\ \/ pending # None /\ Send(pending) /\ UNCHANGED made
     \/ pending = None /\ made < MaxDrafts /\ made' = made + 1 /\ Send(made')

(* The button for a new form is offered next to a saved draft only.         *)
Reset ==
  /\ saved # None
  /\ pending' = None /\ busy' = FALSE /\ saved' = None
  /\ UNCHANGED <<made, calls, recorded, acked, forgotten, doubled>>

(* Leaving the page ends its runs; the requests go their way.               *)
Reload ==
  /\ pending' = None /\ busy' = FALSE /\ saved' = None
  /\ calls' = [n \in Runs |-> [calls[n] EXCEPT !.stage = "ended"]]
  /\ forgotten' = forgotten \cup (Drafts \ acked)
  /\ UNCHANGED <<made, recorded, acked, doubled>>

-----------------------------------------------------------------------------
(* Server and network. *)

Record(n) ==
  /\ calls[n].request = "sent"
  /\ recorded' = recorded \cup {calls[n].draft}
  /\ calls' = [calls EXCEPT ![n].request = "answered"]
  /\ UNCHANGED <<made, pending, busy, saved, acked, forgotten, doubled>>

(* The request is lost, or refused and nothing recorded.                    *)
Drop(n) ==
  /\ calls[n].request = "sent"
  /\ calls' = [calls EXCEPT ![n].request = "gone"]
  /\ UNCHANGED <<made, pending, busy, saved, recorded, acked, forgotten, doubled>>

-----------------------------------------------------------------------------
(* The rest of submit. *)

(* Variants for the mutant runs: an error path that forgets the identity,   *)
(* and no finally to release the button.                                    *)
FailedForgetting(n) ==
  /\ calls[n].stage = "posting"
  /\ calls' = [calls EXCEPT ![n].stage = "ended"]
  /\ busy' = FALSE /\ pending' = None
  /\ UNCHANGED <<made, saved, recorded, acked, forgotten, doubled>>

ReadWithoutFinally(n) ==
  /\ calls[n].stage = "reading"
  /\ calls' = [calls EXCEPT ![n].stage = "ended"]
  /\ UNCHANGED <<made, pending, busy, saved, recorded, acked, forgotten, doubled>>

Saved(n) ==
  /\ calls[n].stage = "posting" /\ calls[n].request = "answered"
  /\ saved' = calls[n].draft /\ acked' = acked \cup {calls[n].draft}
  /\ pending' = None
  /\ calls' = [calls EXCEPT ![n].stage = "reading"]
  /\ UNCHANGED <<made, busy, recorded, forgotten, doubled>>

(* An error, a broken connection or the page's own timeout; whether the     *)
(* request is gone, under way or answered.                                  *)
Failed(n) ==
  /\ calls[n].stage = "posting"
  /\ calls' = [calls EXCEPT ![n].stage = "ended"]
  /\ busy' = FALSE
  /\ UNCHANGED <<made, pending, saved, recorded, acked, forgotten, doubled>>

(* The list was read, or the reading failed.                                *)
Read(n) ==
  /\ calls[n].stage = "reading"
  /\ calls' = [calls EXCEPT ![n].stage = "ended"]
  /\ busy' = FALSE
  /\ UNCHANGED <<made, pending, saved, recorded, acked, forgotten, doubled>>

PageNext ==
  \/ Submit \/ Reset \/ Reload
  \/ \E n \in Runs : Record(n) \/ Drop(n) \/ Saved(n) \/ Failed(n) \/ Read(n)

PageSpec == PageInit /\ [][PageNext]_pageVars

(* Every request of the page has a deadline of its own.                     *)
PageFairSpec ==
  PageSpec /\ \A n \in 1..MaxCalls : WF_pageVars(n \in Runs /\ (Saved(n) \/ Failed(n) \/ Read(n)))

-----------------------------------------------------------------------------
(* Properties *)

(* What the page's own comment promises: the identity of a draft whose      *)
(* outcome is unknown is retained, so that it can be sent again and never   *)
(* be composed twice.  (Leaving the page gives it up.)                      *)
DoubtKeepsIdentity == \A d \in Drafts : d \in acked \cup forgotten \cup {pending}

(* The promise holds, a form is never both in doubt and saved, and what is  *)
(* shown as saved is recorded, unless a draft was sent twice at a time.     *)
DoubtKeptUnlessDoubled ==
  \/ doubled
  \/ /\ DoubtKeepsIdentity
     /\ pending # None => saved = None
     /\ saved # None => saved \in recorded

(* The button comes back.                                                   *)
SavingEnds == busy ~> ~ busy
=============================================================================
