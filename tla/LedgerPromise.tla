---------------------------- MODULE LedgerPromise ----------------------------
(***************************************************************************)
(* What the accounting domain promises (ADR 0010, 0014 and 0015), with no  *)
(* workers, transactions or locks: the ledger changes one whole command at *)
(* a time, and each change is admissible in the ledger it is applied to.   *)
(***************************************************************************)
EXTENDS Naturals, Sequences

CONSTANT Dates

VARIABLES journal, periods, batches, charges

ledger == <<journal, periods, batches, charges>>

Ranges == {r \in Dates \X Dates : r[1] <= r[2]}

Init ==
  /\ journal = <<>>
  /\ periods = [r \in Ranges |-> "NONE"]
  /\ batches = {}
  /\ charges = {}

(* Line by line, the two entries move the same amounts in opposite ways. *)
Cancels(e, f) ==
  /\ e.branch = f.branch
  /\ Len(e.lines) = Len(f.lines)
  /\ \A n \in DOMAIN e.lines :
       /\ e.lines[n].account = f.lines[n].account
       /\ e.lines[n].debit = f.lines[n].credit
       /\ e.lines[n].credit = f.lines[n].debit

Admissible(e) ==
  /\ \A n \in DOMAIN journal : journal[n].request # e.request
  /\ \A r \in Ranges : periods[r] = "CLOSED" => e.date < r[1] \/ e.date > r[2]
  /\ \A batch \in batches : e.date > batch.date

ReversesWhole(e) ==
  /\ e.reversalOf \in DOMAIN journal
  /\ journal[e.reversalOf].reversalOf = 0
  /\ Cancels(journal[e.reversalOf], e)
  /\ \A n \in DOMAIN journal : journal[n].reversalOf # e.reversalOf
  /\ \A row \in batches \cup charges : row.journal # e.reversalOf

(* One entry joins the journal, with the opening batch or the charge it is  *)
(* the journal of, when it is one.                                          *)
Record ==
  /\ journal' # <<>>
  /\ LET n == Len(journal')
         e == journal'[n]
     IN /\ journal' = Append(journal, e)
        /\ Admissible(e)
        /\ \/ UNCHANGED <<batches, charges>> /\ (e.reversalOf = 0 \/ ReversesWhole(e))
           \/ /\ batches = {}
              /\ batches' = {[journal |-> n, date |-> e.date]}
              /\ \A i \in DOMAIN journal : journal[i].date > e.date
              /\ e.reversalOf = 0
              /\ UNCHANGED charges
           \/ /\ \E row \in charges' :
                   /\ row.journal = n
                   /\ \A old \in charges : old.draft # row.draft
                   /\ charges' = charges \cup {row}
              /\ e.reversalOf = 0
              /\ UNCHANGED batches
  /\ UNCHANGED periods

CreatePeriod(r) ==
  /\ \A s \in Ranges : periods[s] # "NONE" => r[2] < s[1] \/ s[2] < r[1]
  /\ periods' = [periods EXCEPT ![r] = "OPEN"]
  /\ UNCHANGED <<journal, batches, charges>>

ClosePeriod(r) ==
  /\ periods[r] = "OPEN"
  /\ periods' = [periods EXCEPT ![r] = "CLOSED"]
  /\ UNCHANGED <<journal, batches, charges>>

Next == Record \/ \E r \in Ranges : CreatePeriod(r) \/ ClosePeriod(r)

Spec == Init /\ [][Next]_ledger

=============================================================================
