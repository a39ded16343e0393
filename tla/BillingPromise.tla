--------------------------- MODULE BillingPromise ----------------------------
(***************************************************************************)
(* What the billing commands promise (ADR 0016 to 0022), with no workers,  *)
(* transactions, locks or triggers: rows join the tables one at a time,    *)
(* each admissible in the tables as they are by then, and never change.    *)
(***************************************************************************)
EXTENDS Naturals

CONSTANTS
  MaxMinor,     \* the largest amount of a column
  Total(_),     \* the amount of a draft's lines
  Tax(_)        \* the tax on an amount

VARIABLE rows

Init == rows = {}

Table(op) == {r \in rows : r.command.op = op}
Find(op, request) == {r \in Table(op) : r.command.request = request}

(* The row names the declaration in force on its day, a registration.       *)
UnderProfile(r) ==
  \E p \in Table("profile") :
    /\ p.command.request = r.profile
    /\ p.command.status = "REGISTERED" /\ p.command.from <= r.command.date
    /\ \A q \in Table("profile") : q.command.from <= r.command.date
                                     => q.command.from <= p.command.from

Draft(r) ==
  /\ r.net = Total(r.command.lines)
  /\ r.net <= MaxMinor

(* Profiles are declared in the order they take effect, none backwards.     *)
Profile(r) ==
  /\ r.on <= r.command.from
  /\ \A p \in Table("profile") : p.command.from < r.command.from

Assessment(r) ==
  /\ \E d \in Find("draft", r.command.draft) : r.net = d.net
  /\ r.net > 0
  /\ r.tax = Tax(r.net)
  /\ r.net + r.tax <= MaxMinor
  /\ UnderProfile(r)

Charged(draft) ==
  \E c \in Table("charge") : \E a \in Find("assessment", c.command.assessment) : a.command.draft = draft

(* A draft is charged once, to a customer, as it was assessed and under the *)
(* profile of its assessment, which is in force on its booking date.        *)
Charge(r) ==
  /\ Find("customer", r.command.customer) # {}
  /\ r.command.date <= r.on
  /\ \E a \in Find("assessment", r.command.assessment) :
       /\ r.command.date = a.command.date
       /\ r.net = a.net /\ r.tax = a.tax /\ r.profile = a.profile
       /\ ~ Charged(a.command.draft)
  /\ UnderProfile(r)

Admissible(r) ==
  /\ Find(r.command.op, r.command.request) = {}
  /\ \A q \in rows : q.on <= r.on
  /\ \/ r.command.op = "customer"
     \/ r.command.op = "draft" /\ Draft(r)
     \/ r.command.op = "profile" /\ Profile(r)
     \/ r.command.op = "assessment" /\ Assessment(r)
     \/ r.command.op = "charge" /\ Charge(r)

Join(r) ==
  /\ Admissible(r)
  /\ rows' = rows \cup {r}

Next == \E r \in rows' : Join(r)

Spec == Init /\ [][Next]_rows
=============================================================================
