------------------------------ MODULE MCLedger ------------------------------
(***************************************************************************)
(* A small organization for TLC: one branch, two posting accounts (one may *)
(* be deactivated by hand), a summary account, a caller who may post        *)
(* everywhere and on the branch, and the commands that collide.            *)
(***************************************************************************)
EXTENDS Ledger, TLC

CONSTANTS w1, w2, r1, r2, r3, b1, cash, sales, assets, d1

Sale == <<[account |-> cash, debit |-> 2, credit |-> 0],
          [account |-> sales, debit |-> 0, credit |-> 2]>>
Summary == <<[account |-> assets, debit |-> 1, credit |-> 0],
             [account |-> sales, debit |-> 0, credit |-> 1]>>
MCPayloads == {Sale, Summary}

MCAccounts == [a \in {cash, sales, assets} |-> IF a = assets THEN "SUMMARY" ELSE "ACTIVE"]
MCBranches == [b \in {b1} |-> "ACTIVE"]
MCGrants == {"post", "reverse", "opening", "periods", "approve"} \X {NoBranch} \cup {<<"post", b1>>}
MCSymmetry == Permutations({w1, w2})

Post(r, b, d) == [op |-> "post", request |-> r, branch |-> b, date |-> d, lines |-> Sale]
Reverse(r, d, n) == [op |-> "reverse", request |-> r, date |-> d, entry |-> n]
Opening(r, d) == [op |-> "opening", request |-> r, date |-> d, lines |-> Sale]
Charge(r, dr, d) == [op |-> "charge", request |-> r, draft |-> dr, date |-> d, lines |-> Sale,
                     accounts |-> {cash, sales}]
SummaryTax(r, dr, d) == [Charge(r, dr, d) EXCEPT !.accounts = {cash, sales, assets}]
Create(s, e) == [op |-> "create_period", range |-> <<s, e>>]
Close(s, e) == [op |-> "close_period", range |-> <<s, e>>]

MCRevocable == {<<"post", NoBranch>>}

(* Colliding uses of request ids: the same id as post, reversal and opening,*)
(* the same id with another payload, an entry reversed under two ids, two   *)
(* openings, a draft charged under two ids, lines on a summary account.     *)
EntryCommands ==
  {Post(r1, b1, 2), [Post(r2, b1, 2) EXCEPT !.lines = Summary],
   Post(r1, NoBranch, 1), Reverse(r2, 2, 1), Reverse(r3, 2, 1),
   Opening(r2, 1), Charge(r3, d1, 2), Charge(r1, d1, 2)}

(* Posts, a reversal, an opening and a charge against overlapping periods;  *)
(* the charge also with a tax account that no line needs and no one may     *)
(* post to.                                                                 *)
CalendarCommands ==
  {Post(r1, b1, 2), Post(r2, NoBranch, 2), Reverse(r3, 2, 1), Opening(r2, 1),
   Charge(r3, d1, 2), SummaryTax(r3, d1, 2), Create(2, 2), Create(1, 2), Close(2, 2)}

(* One branch, one request and its resubmission, for the two statements of  *)
(* ADR 0010 the code departs from.                                          *)
BranchCommands == {Post(r1, b1, 2), Reverse(r2, 2, 1), Create(2, 2), Close(2, 2)}

=============================================================================
