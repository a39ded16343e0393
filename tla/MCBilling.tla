----------------------------- MODULE MCBilling ------------------------------
(***************************************************************************)
(* Days 1 and 2.  The drafts sit on the rounding boundaries: 0.500 at 0.01  *)
(* rounds up to a cent, 0.499 at 0.01 down to none; 10 cents bear a tax of *)
(* 1.5, 11 cents with their tax do not fit 12.  Both drafts d1 use one     *)
(* request id.                                                             *)
(***************************************************************************)
EXTENDS Billing, TLC

CONSTANTS w1, w2, receivable

Profile(n, day, registration) ==
  [op |-> "profile", request |-> n, from |-> day, status |-> registration]

MCCommands ==
  {[op |-> "customer", request |-> 1, name |-> "shop"],
   [op |-> "draft", request |-> 1, lines |-> <<<<500, 1>>, <<499, 1>>, <<3000, 3>>>>],
   [op |-> "draft", request |-> 1, lines |-> <<<<1000, 11>>>>],
   Profile(1, 1, "REGISTERED"), Profile(2, 2, "NOT_REGISTERED"), Profile(3, 2, "REGISTERED"),
   [op |-> "assessment", request |-> 1, draft |-> 1, date |-> 1],
   [op |-> "assessment", request |-> 2, draft |-> 1, date |-> 2],
   [op |-> "charge", request |-> 1, assessment |-> 1, customer |-> 1, date |-> 1,
    accounts |-> {receivable}],
   [op |-> "charge", request |-> 2, assessment |-> 2, customer |-> 1, date |-> 2,
    accounts |-> {receivable}]}

Symmetry == Permutations(Workers)
=============================================================================
