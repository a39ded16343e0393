---------------------------- MODULE BillingProofs ----------------------------
(***************************************************************************)
(* The billing commands for any commands, workers, amounts and days.  The  *)
(* inductive invariant says that a row the application has accepted stays  *)
(* acceptable until it is committed, but for the clock and the accounts:    *)
(* the tables change only at a commit, and only the worker that has the    *)
(* organization row commits.                                               *)
(***************************************************************************)
EXTENDS Billing, DraftPage, FiniteSetTheorems, TLAPS

-----------------------------------------------------------------------------
(* The arithmetic *)

(* Division of a natural number with its remainder.                         *)
LEMMA Division ==
  ASSUME NEW p \in Nat, NEW d \in Nat, d > 0
  PROVE  /\ p \div d \in Nat
         /\ p % d \in 0..(d - 1)
         /\ p = d * (p \div d) + (p % d)
  OBVIOUS

(* A product of natural numbers is one. *)
LEMMA Products ==
  ASSUME NEW p \in Nat, NEW q \in Nat
  PROVE  p * q \in Nat
  OBVIOUS

(* Python's quantize, PostgreSQL's round and the page's BigInt arithmetic   *)
(* compute the same amount of a line: line_amount, the check of migration   *)
(* 0006 and draftLineCents.                                                 *)
THEOREM LineAmountsAgree ==
  ASSUME NEW mills \in Nat, NEW cents \in Nat
  PROVE  /\ line_amount(mills, cents) = SqlLineTotal(mills, cents)
         /\ line_amount(mills, cents) = draftLineCents(mills, cents)
<1> DEFINE p == mills * cents
<1>1. p \in Nat
  BY Products
<1> HIDE DEF p
<1>2. HalfUp(p, 1000) = SqlRound(p, 1000)
  BY <1>1 DEF HalfUp, SqlRound
<1>3. HalfUp(p, 1000) = (p + 500) \div 1000
  BY <1>1 DEF HalfUp
<1> QED
  BY <1>2, <1>3 DEF p, line_amount, SqlLineTotal, draftLineCents

(* The tax the backend computes is the one the check of migration 0009      *)
(* expects.                                                                 *)
THEOREM TaxesAgree ==
  ASSUME NEW net \in Nat
  PROVE  standard_vat(net) = SqlStandardVat(net)
BY DEF standard_vat, SqlStandardVat, SqlRound

(* The tax of a category is within half a cent of 15 per cent of it, as     *)
(* tax_calculation.py:35 requires by rounding it once.                      *)
THEOREM TaxIsNearest ==
  ASSUME NEW net \in Nat
  PROVE  /\ 100 * standard_vat(net) - 15 * net \in -49..50
         /\ standard_vat(net) \in Nat
BY DEF standard_vat

-----------------------------------------------------------------------------
(* The invariant *)

Phases == {"idle", "waiting", "holding", "accepted", "flushed"}
Profiled == {0} \cup {c.request : c \in Commands}

Rows == [command : Commands, on : Nat, net : 0..MaxMinor, tax : 0..MaxMinor, profile : Profiled]

Sessions == [phase : Phases, command : Commands \cup {NoCommand}, began : Nat,
             row : Rows \cup {NoRow}, read : SUBSET Accounts, answer : {"none", "ok", "refused", "broken"}]

Typed ==
  /\ today \in 1..MaxDay
  /\ rows \in SUBSET Rows
  /\ worker \in [Workers -> Sessions]
  /\ usable \subseteq Accounts
  /\ \A r \in rows : r.on \in 1..today

Exclusive == \A v, w \in Workers : Holds(v) /\ Holds(w) => v = w

(* The tables: one row per request id, and rows that fit one another. *)
OneRow ==
  \A q, r \in rows : q.command.op = r.command.op /\ q.command.request = r.command.request => q = r

DraftsAddUp == \A d \in Table("draft") : d.net = Net(d)

ProfilesInOrder ==
  /\ \A p, q \in Profiles : p.command.from = q.command.from => p = q
  /\ \A p \in Profiles : p.on <= p.command.from

AssessmentsFit ==
  \A a \in Table("assessment") : \E d \in Find("draft", a.command.draft) : d.net = a.net /\ d.net > 0

ChargesAreBooked ==
  \A r \in Table("charge") :
    r.command.date <= r.on /\ Find("assessment", r.command.assessment) # {}

ChargedOnce ==
  \A q, r \in Table("charge") :
    \A a \in Find("assessment", q.command.assessment), b \in Find("assessment", r.command.assessment) :
      a.command.draft = b.command.draft => q = r

TablesFit ==
  OneRow /\ DraftsAddUp /\ ProfilesInOrder /\ AssessmentsFit /\ ChargesAreBooked
  /\ ChargedOnce /\ ChargesKeepProfile

(* A row that may still be committed: the tables admit it as they are.      *)
Fits(row) ==
  /\ Find(row.command.op, row.command.request) = {}
  /\ \A r \in rows : r.on <= row.on
  /\ row.command.op = "draft" => row.net = Net(row)
  /\ row.command.op = "profile" =>
       row.on <= row.command.from /\ \A p \in Profiles : p.command.from < row.command.from
  /\ row.command.op = "assessment" =>
       \E d \in Find("draft", row.command.draft) : d.net = row.net /\ d.net > 0
  /\ row.command.op = "charge" =>
       /\ row.command.date <= row.on
       /\ \E p \in RegisteredOn(row.command.date) : p.command.request = row.profile
       /\ \E a \in Find("assessment", row.command.assessment) : ChargesOf(a.command.draft) = {}

(* What the triggers check that no other actor can change while the row     *)
(* waits to be written: all but the day and the accounts of a charge.       *)
LastingGuards(row, began) ==
  /\ Find(row.command.op, row.command.request) = {}
  /\ row.command.op = "draft" => GuardDraft(row)
  /\ row.command.op = "profile" => GuardProfile(row, began)
  /\ row.command.op = "assessment" => GuardAssessment(row)
  /\ row.command.op = "charge" => GuardSource(row)

Writing(s) == s.phase \in {"accepted", "flushed"}

SessionOK(s) ==
  /\ s.phase # "idle" => s.command \in Commands
  /\ s.began \in 0..today
  /\ ~ Writing(s) => s.row = NoRow
  /\ Writing(s) => /\ s.row \in Rows /\ s.row.command = s.command /\ s.row.on \in 1..today
                   /\ Fits(s.row)
  /\ s.phase = "accepted" =>
       /\ LastingGuards(s.row, s.began)
       /\ s.row.command.op = "charge" => s.row.command.accounts \subseteq s.read

IInv ==
  /\ Typed
  /\ Exclusive
  /\ TablesFit
  /\ \A w \in Workers : SessionOK(worker[w])

-----------------------------------------------------------------------------
(* What the application accepts fits, and the database accepts it *)

(* The amounts of a draft, in each of their computations.                   *)
LEMMA DraftAmounts ==
  ASSUME NEW c \in Commands, c.op = "draft"
  PROVE  /\ LinesExact(c)
         /\ draftTotalCents(c.lines) = Sum(LineTotals(c.lines))
         /\ Sum(LineTotals(c.lines)) \in Nat
<1>1. c.lines \in Seq(Nat \X Nat) /\ Sum(LineTotals(c.lines)) \in Nat
  BY CommandsAssumption
<1>2. \A n \in DOMAIN c.lines : c.lines[n][1] \in Nat /\ c.lines[n][2] \in Nat
  <2>1. \A n \in DOMAIN c.lines : c.lines[n] \in Nat \X Nat
    BY <1>1
  <2> QED
    BY <2>1
<1>3. \A n \in DOMAIN c.lines :
        /\ line_amount(c.lines[n][1], c.lines[n][2]) = SqlLineTotal(c.lines[n][1], c.lines[n][2])
        /\ line_amount(c.lines[n][1], c.lines[n][2]) = draftLineCents(c.lines[n][1], c.lines[n][2])
  BY <1>2, LineAmountsAgree
<1>4. LinesExact(c)
  BY <1>3 DEF LinesExact, LineTotals
<1>5. [n \in DOMAIN c.lines |-> draftLineCents(c.lines[n][1], c.lines[n][2])] = LineTotals(c.lines)
  BY <1>3 DEF LineTotals
<1>6. draftTotalCents(c.lines) = Sum(LineTotals(c.lines))
  BY <1>5 DEF draftTotalCents
<1> QED
  BY <1>1, <1>4, <1>6

(* The rows of a table, and the one row of a request id.                    *)
LEMMA Finding ==
  ASSUME Typed, OneRow, NEW op, NEW request
  PROVE  /\ \A r \in Find(op, request) : r \in Rows /\ r \in rows /\ r \in Table(op)
                                        /\ r.command.op = op /\ r.command.request = request
         /\ \A q, r \in Find(op, request) : q = r
BY DEF Typed, OneRow, Find, Table

(* At most one declaration is in force on a day. *)
LEMMA OneProfile ==
  ASSUME Typed, ProfilesInOrder, NEW day, NEW p \in ProfileOn(day), NEW q \in ProfileOn(day)
  PROVE  p = q
<1>1. p \in Profiles /\ q \in Profiles /\ p.command.from <= q.command.from /\ q.command.from <= p.command.from
  BY DEF ProfileOn
<1>2. p.command.from \in Nat /\ q.command.from \in Nat
  BY <1>1, CommandsAssumption DEF Profiles, Table, Typed, Rows
<1>3. p.command.from = q.command.from
  BY <1>1, <1>2
<1> QED
  BY <1>1, <1>3 DEF ProfilesInOrder

(* What an accepted command writes. *)
Written(c, row, began) ==
  /\ row \in Rows /\ row.command = c /\ row.on = today
  /\ Fits(row)
  /\ LastingGuards(row, began)

LEMMA AcceptedDraft ==
  ASSUME Typed, TablesFit, NEW c \in Commands, c.op = "draft", ~ OnRecord(c), AcceptsDraft(c),
         NEW row \in RowsOf(c), NEW began
  PROVE  Written(c, row, began)
<1>1. row = Row(c, Sum(LineTotals(c.lines)), 0, 0)
  BY DEF RowsOf
<1>2. Sum(LineTotals(c.lines)) \in 0..MaxMinor /\ LinesExact(c)
  BY DraftAmounts, BillingAssumption DEF AcceptsDraft
<1>3. row = [command |-> c, on |-> today, net |-> Sum(LineTotals(c.lines)), tax |-> 0, profile |-> 0]
  BY <1>1 DEF Row
<1>4. row \in Rows /\ row.command = c /\ row.on = today /\ row.net = Net(row)
  BY <1>2, <1>3, BillingAssumption DEF Rows, Profiled, Typed, Net
<1>5. Find(row.command.op, row.command.request) = {}
  BY <1>4 DEF OnRecord
<1>6. Fits(row)
  BY <1>4, <1>5, BillingAssumption DEF Fits, Typed
<1>7. GuardDraft(row)
  BY <1>2, <1>3, CommandsAssumption DEF GuardDraft
<1> QED
  BY <1>4, <1>5, <1>6, <1>7 DEF Written, LastingGuards

LEMMA AcceptedProfile ==
  ASSUME Typed, TablesFit, NEW c \in Commands, c.op = "profile", ~ OnRecord(c), AcceptsProfile(c),
         NEW row \in RowsOf(c), NEW began \in 0..today
  PROVE  Written(c, row, began)
<1>1. row = Row(c, 0, 0, 0)
  BY DEF RowsOf
<1>2. row \in Rows /\ row.command = c /\ row.on = today
  BY <1>1, BillingAssumption DEF Rows, Profiled, Typed, Row
<1>3. Find(row.command.op, row.command.request) = {}
  BY <1>2 DEF OnRecord
<1>4. c.from >= today /\ c.from \in Nat /\ today \in Nat /\ \A p \in Profiles : p.command.from < c.from
  BY CommandsAssumption DEF AcceptsProfile, Typed
<1>5. Fits(row)
  BY <1>2, <1>3, <1>4 DEF Fits, Typed
<1>6. GuardProfile(row, began)
  BY <1>2, <1>4 DEF GuardProfile
<1> QED
  BY <1>2, <1>3, <1>5, <1>6 DEF Written, LastingGuards

LEMMA AcceptedCustomer ==
  ASSUME Typed, TablesFit, NEW c \in Commands, c.op = "customer", ~ OnRecord(c),
         NEW row \in RowsOf(c), NEW began
  PROVE  Written(c, row, began)
<1>1. row = Row(c, 0, 0, 0)
  BY DEF RowsOf
<1>2. row \in Rows /\ row.command = c /\ row.on = today
  BY <1>1, BillingAssumption DEF Rows, Profiled, Typed, Row
<1>3. Find(row.command.op, row.command.request) = {}
  BY <1>2 DEF OnRecord
<1> QED
  BY <1>2, <1>3 DEF Written, LastingGuards, Fits, Typed

LEMMA AcceptedAssessment ==
  ASSUME Typed, TablesFit, NEW c \in Commands, c.op = "assessment", ~ OnRecord(c), AcceptsAssessment(c),
         NEW row \in RowsOf(c), NEW began
  PROVE  Written(c, row, began)
<1>1. PICK d \in Find("draft", c.draft), p \in ProfileOn(c.date) :
        row = Row(c, Net(d), standard_vat(Net(d)), p.command.request)
  BY DEF RowsOf
<1>2. row = [command |-> c, on |-> today, net |-> Net(d), tax |-> standard_vat(Net(d)),
             profile |-> p.command.request]
  BY <1>1 DEF Row
<1>3. d \in Table("draft") /\ d \in Rows /\ \A e \in Find("draft", c.draft) : e = d
  BY Finding DEF TablesFit
<1>4. d.net = Net(d) /\ Net(d) \in Nat
  BY <1>3 DEF TablesFit, DraftsAddUp, Rows
<1>5. Net(d) > 0 /\ Gross(Net(d)) <= MaxMinor
  BY <1>3 DEF AcceptsAssessment
<1>6. standard_vat(Net(d)) \in Nat /\ standard_vat(Net(d)) = SqlStandardVat(Net(d))
  BY <1>4, TaxIsNearest, TaxesAgree
<1>7. Net(d) \in 0..MaxMinor /\ standard_vat(Net(d)) \in 0..MaxMinor
  BY <1>4, <1>5, <1>6, BillingAssumption DEF Gross
<1>8. p \in RegisteredOn(c.date)
  BY OneProfile DEF AcceptsAssessment, RegisteredOn, TablesFit
<1>9. p.command \in Commands
  BY DEF ProfileOn, Profiles, Table, Typed, Rows
<1>10. row \in Rows /\ row.command = c /\ row.on = today
  BY <1>2, <1>7, <1>9 DEF Rows, Profiled, Typed
<1>11. Find(row.command.op, row.command.request) = {}
  BY <1>10 DEF OnRecord
<1>12. Fits(row)
  BY <1>2, <1>4, <1>5, <1>10, <1>11 DEF Fits, Typed
<1>13. GuardAssessment(row)
  BY <1>2, <1>4, <1>5, <1>6, <1>8 DEF GuardAssessment, Gross
<1> QED
  BY <1>10, <1>11, <1>12, <1>13 DEF Written, LastingGuards

LEMMA AcceptedCharge ==
  ASSUME Typed, TablesFit, NEW c \in Commands, c.op = "charge", ~ OnRecord(c), AcceptsCharge(c),
         NEW row \in RowsOf(c), NEW began \in 0..today
  PROVE  Written(c, row, began)
<1>1. PICK a \in Find("assessment", c.assessment) :
        row = Row(c, a.net, a.tax, a.profile)
  BY DEF RowsOf
<1>2. row = [command |-> c, on |-> today, net |-> a.net, tax |-> a.tax, profile |-> a.profile]
  BY <1>1 DEF Row
<1>3. a \in Table("assessment") /\ a \in Rows /\ \A b \in Find("assessment", c.assessment) : b = a
  BY Finding DEF TablesFit
<1>4. /\ c.date = a.command.date /\ c.date <= today /\ ChargesOf(a.command.draft) = {}
      /\ \E p \in RegisteredOn(c.date) : p.command.request = a.profile
  BY <1>3 DEF AcceptsCharge
<1>5. row \in Rows /\ row.command = c /\ row.on = today /\ row.profile = a.profile
  BY <1>2, <1>3 DEF Rows, Typed
<1>6. Find(row.command.op, row.command.request) = {}
  BY <1>5 DEF OnRecord
<1>7. Fits(row)
  BY <1>4, <1>5, <1>6 DEF Fits, Typed
<1>8. \E d \in Find("draft", a.command.draft) : d.net = a.net /\ d.net > 0
  BY <1>3 DEF TablesFit, AssessmentsFit
<1>9. GuardSource(row)
  BY <1>4, <1>5, <1>8 DEF GuardSource
<1> QED
  BY <1>5, <1>6, <1>7, <1>9 DEF Written, LastingGuards

LEMMA AcceptedFits ==
  ASSUME Typed, TablesFit, NEW c \in Commands, ~ OnRecord(c), Accepts(c),
         NEW row \in RowsOf(c), NEW began \in 0..today
  PROVE  Written(c, row, began)
BY AcceptedDraft, AcceptedProfile, AcceptedCustomer, AcceptedAssessment, AcceptedCharge DEF Accepts

-----------------------------------------------------------------------------
(* Steps that leave the tables alone *)

LEMMA SameTables ==
  ASSUME rows' = rows
  PROVE  /\ \A op : Table(op)' = Table(op)
         /\ \A op, request : Find(op, request)' = Find(op, request)
         /\ Profiles' = Profiles
         /\ \A day : ProfileOn(day)' = ProfileOn(day)
         /\ \A day : RegisteredOn(day)' = RegisteredOn(day)
         /\ \A draft : ChargesOf(draft)' = ChargesOf(draft)
<1>1. \A op : Table(op)' = Table(op)
  BY DEF Table
<1>2. \A op, request : Find(op, request)' = Find(op, request)
  BY <1>1 DEF Find
<1>3. Profiles' = Profiles
  BY <1>1 DEF Profiles
<1>4. \A day : ProfileOn(day)' = ProfileOn(day)
  BY <1>3 DEF ProfileOn
<1>5. \A day : RegisteredOn(day)' = RegisteredOn(day)
  BY <1>4 DEF RegisteredOn
<1>6. \A draft : ChargesOf(draft)' = ChargesOf(draft)
  BY <1>1, <1>2 DEF ChargesOf
<1> QED
  BY <1>1, <1>2, <1>3, <1>4, <1>5, <1>6

LEMMA SameFit ==
  ASSUME rows' = rows, TablesFit
  PROVE  TablesFit'
<1>1. OneRow' /\ DraftsAddUp'
  BY SameTables DEF TablesFit, OneRow, DraftsAddUp
<1>2. ProfilesInOrder' /\ AssessmentsFit'
  BY SameTables DEF TablesFit, ProfilesInOrder, AssessmentsFit
<1>3. ChargesAreBooked' /\ ChargedOnce'
  BY SameTables DEF TablesFit, ChargesAreBooked, ChargedOnce
<1>4. ChargesKeepProfile'
  BY SameTables DEF TablesFit, ChargesKeepProfile
<1> QED
  BY <1>1, <1>2, <1>3, <1>4 DEF TablesFit

LEMMA SameAcceptance ==
  ASSUME rows' = rows, NEW row, NEW began
  PROVE  /\ Fits(row) => Fits(row)'
         /\ LastingGuards(row, began) => LastingGuards(row, began)'
<1>1. Fits(row) => Fits(row)'
  BY SameTables DEF Fits
<1>2. /\ GuardDraft(row) => GuardDraft(row)'
      /\ GuardProfile(row, began) => GuardProfile(row, began)'
  BY SameTables DEF GuardDraft, GuardProfile
<1>3. GuardAssessment(row) => GuardAssessment(row)'
  BY SameTables DEF GuardAssessment
<1>4. GuardSource(row) => GuardSource(row)'
  BY SameTables DEF GuardSource
<1> QED
  BY <1>1, <1>2, <1>3, <1>4, SameTables DEF LastingGuards

LEMMA SameSessions ==
  ASSUME rows' = rows, Typed, today' \in {today, today + 1}, NEW s, SessionOK(s)
  PROVE  SessionOK(s)'
<1>1. \A n : (n \in 0..today => n \in 0..today') /\ (n \in 1..today => n \in 1..today')
  BY BillingAssumption DEF Typed
<1> QED
  BY <1>1, SameAcceptance DEF SessionOK, Writing

(* A step of one worker that changes no table and no clock.                 *)
LEMMA OwnStep ==
  ASSUME IInv, NEW w \in Workers, NEW s \in Sessions, SessionOK(s),
         worker' = [worker EXCEPT ![w] = s],
         s.phase \in {"holding", "accepted", "flushed"} =>
           \A v \in Workers : v # w => ~ Holds(v),
         UNCHANGED <<today, rows, usable>>
  PROVE  IInv'
<1>1. Typed'
  <2>1. worker' \in [Workers -> Sessions]
    BY DEF IInv, Typed
  <2> QED
    BY <2>1 DEF IInv, Typed
<1>2. worker'[w] = s /\ \A v \in Workers : v # w => worker'[v] = worker[v]
  BY DEF IInv, Typed
<1>3. Exclusive'
  BY <1>2 DEF IInv, Exclusive, Holds
<1>4. TablesFit'
  BY SameFit DEF IInv
<1>5. \A v \in Workers : SessionOK(worker[v])'
  <2> TAKE v \in Workers
  <2>1. SessionOK(worker'[v])
    BY <1>2 DEF IInv
  <2>2. PICK t : t = worker'[v]
    OBVIOUS
  <2>3. SessionOK(t)'
    BY <2>1, <2>2, SameSessions DEF IInv
  <2> QED
    BY <2>2, <2>3 DEF SessionOK
<1> QED
  BY <1>1, <1>3, <1>4, <1>5 DEF IInv

-----------------------------------------------------------------------------
(* The steps *)

LEMMA IdleFits ==
  ASSUME Typed, NEW answer \in {"none", "ok", "refused", "broken"}
  PROVE  Idle(answer) \in Sessions /\ SessionOK(Idle(answer)) /\ Idle(answer).phase = "idle"
BY BillingAssumption DEF Typed, Idle, Sessions, Phases, SessionOK, Writing

(* A transaction that ends without a commit.                                *)
LEMMA EndStep ==
  ASSUME IInv, NEW w \in Workers, NEW answer \in {"none", "ok", "refused", "broken"}, End(w, answer),
         UNCHANGED <<today, rows, usable>>
  PROVE  IInv'
<1>1. Idle(answer) \in Sessions /\ SessionOK(Idle(answer)) /\ Idle(answer).phase = "idle"
  BY IdleFits DEF IInv
<1>2. worker' = [worker EXCEPT ![w] = Idle(answer)]
  BY DEF End
<1> HIDE DEF Idle
<1> QED
  BY <1>1, <1>2, OwnStep

LEMMA BeginStep ==
  ASSUME IInv, NEW w \in Workers, Begin(w)
  PROVE  IInv'
<1>1. PICK c \in Commands :
        worker' = [worker EXCEPT ![w] = [phase |-> "waiting", command |-> c, began |-> today,
                                         row |-> NoRow, read |-> {}, answer |-> "none"]]
  BY DEF Begin
<1> DEFINE s == [phase |-> "waiting", command |-> c, began |-> today, row |-> NoRow, read |-> {}, answer |-> "none"]
<1>2. s \in Sessions /\ SessionOK(s) /\ s.phase = "waiting"
  BY DEF IInv, Typed, Sessions, Phases, SessionOK, Writing
<1>3. worker' = [worker EXCEPT ![w] = s]
  BY <1>1
<1> HIDE DEF s
<1> QED
  BY <1>2, <1>3, OwnStep DEF Begin

LEMMA LockStep ==
  ASSUME IInv, NEW w \in Workers, LockOrganization(w)
  PROVE  IInv'
<1> DEFINE s == [worker[w] EXCEPT !.phase = "holding"]
<1>1. worker[w] \in Sessions /\ SessionOK(worker[w]) /\ worker[w].phase = "waiting"
  BY DEF IInv, Typed, LockOrganization
<1>2. /\ s.phase = "holding" /\ s.command = worker[w].command /\ s.began = worker[w].began
      /\ s.row = worker[w].row /\ s \in Sessions
  BY <1>1 DEF Sessions, Phases
<1>3. worker' = [worker EXCEPT ![w] = s]
  BY DEF LockOrganization, IInv, Typed
<1> HIDE DEF s
<1>4. SessionOK(s)
  BY <1>1, <1>2 DEF SessionOK, Writing
<1> QED
  BY <1>2, <1>3, <1>4, OwnStep DEF LockOrganization

(* A worker that has the organization row is the only one.                  *)
LEMMA Alone ==
  ASSUME IInv, NEW w \in Workers, Holds(w), NEW v \in Workers, v # w
  PROVE  ~ Holds(v)
BY DEF IInv, Exclusive

(* A command that has no row yet is accepted with a row that fits.          *)
LEMMA AcceptStep ==
  ASSUME IInv, NEW w \in Workers, worker[w].phase = "holding",
         UNCHANGED <<today, rows, usable>>,
         ~ OnRecord(worker[w].command), Accepts(worker[w].command),
         NEW row \in RowsOf(worker[w].command),
         worker' = [worker EXCEPT ![w].phase = "accepted", ![w].row = row,
                                  ![w].read = Reads(worker[w].command)]
  PROVE  IInv'
<1> DEFINE c == worker[w].command
           s == [worker[w] EXCEPT !.phase = "accepted", !.row = row, !.read = Reads(c)]
<1>1. worker[w] \in Sessions /\ SessionOK(worker[w]) /\ c \in Commands /\ worker[w].began \in 0..today
  BY DEF IInv, Typed, SessionOK
<1>2. Written(c, row, worker[w].began)
  BY <1>1, AcceptedFits DEF IInv
<1>3. row \in Rows /\ row.command = c /\ Reads(c) \in SUBSET Accounts
  BY <1>2 DEF Written, Reads, IInv, Typed
<1> HIDE DEF c
<1>4. /\ s.phase = "accepted" /\ s.command = worker[w].command /\ s.began = worker[w].began
      /\ s.row = row /\ s.read = Reads(c) /\ s \in Sessions
  BY <1>1, <1>3 DEF Sessions, Phases
<1>5. worker' = [worker EXCEPT ![w] = s]
  BY DEF IInv, Typed, c
<1>6. today \in 1..today
  BY BillingAssumption DEF IInv, Typed
<1> HIDE DEF s
<1>7. c.op = "charge" => c.accounts \subseteq Reads(c)
  BY CommandsAssumption DEF c, Accepts, AcceptsCharge, Reads
<1>8. SessionOK(s)
  BY <1>1, <1>2, <1>3, <1>4, <1>6, <1>7 DEF SessionOK, Written, Writing, c
<1>9. \A v \in Workers : v # w => ~ Holds(v)
  BY Alone DEF Holds
<1> QED
  BY <1>4, <1>5, <1>8, <1>9, OwnStep

LEMMA ExecuteStep ==
  ASSUME IInv, NEW w \in Workers, Execute(w)
  PROVE  IInv'
<1>1. CASE Replay(w)
  <2>1. End(w, "ok") \/ End(w, "refused")
    BY <1>1 DEF Replay
  <2> QED
    BY <2>1, EndStep DEF Execute
<1>2. CASE LedgerRefuses(w)
  BY <1>2, EndStep DEF Execute, LedgerRefuses
<1>3. CASE FirstTime(w)
  <2>1. CASE Accepts(worker[w].command)
    <3>1. PICK row \in RowsOf(worker[w].command) :
            worker' = [worker EXCEPT ![w].phase = "accepted", ![w].row = row,
                                     ![w].read = Reads(worker[w].command)]
      BY <1>3, <2>1 DEF FirstTime
    <3> QED
      BY <1>3, <2>1, <3>1, AcceptStep DEF FirstTime, Execute
  <2>2. CASE ~ Accepts(worker[w].command)
    BY <1>3, <2>2, EndStep DEF FirstTime, Execute
  <2> QED
    BY <2>1, <2>2
<1> QED
  BY <1>1, <1>2, <1>3 DEF Execute

LEMMA FlushStep ==
  ASSUME IInv, NEW w \in Workers, Flush(w)
  PROVE  IInv'
<1> DEFINE t == worker[w]
<1>1. t \in Sessions /\ SessionOK(t) /\ t.phase = "accepted"
  BY DEF IInv, Typed, Flush
<1>2. CASE DatabaseAccepts(t.row, t.began)
  <2> DEFINE s == [t EXCEPT !.phase = "flushed"]
  <2>1. worker' = [worker EXCEPT ![w] = s]
    BY <1>2 DEF Flush, IInv, Typed
  <2>2. /\ s.phase = "flushed" /\ s.command = t.command /\ s.began = t.began
        /\ s.row = t.row /\ s \in Sessions
    BY <1>1 DEF Sessions, Phases
  <2> HIDE DEF s
  <2>3. SessionOK(s)
    BY <1>1, <2>2 DEF SessionOK, Writing
  <2>4. \A v \in Workers : v # w => ~ Holds(v)
    BY <1>1, Alone DEF Holds
  <2> QED
    BY <2>1, <2>2, <2>3, <2>4, OwnStep DEF Flush
<1>3. CASE ~ DatabaseAccepts(t.row, t.began)
  BY <1>3, EndStep DEF Flush
<1> QED
  BY <1>2, <1>3

LEMMA MidnightStep ==
  ASSUME IInv, Midnight
  PROVE  IInv'
<1>1. today' \in 1..MaxDay /\ today' = today + 1
  BY BillingAssumption DEF IInv, Typed, Midnight
<1>2. \A n : n \in 1..today => n \in 1..today'
  BY <1>1, BillingAssumption DEF IInv, Typed
<1>3. Typed'
  BY <1>1, <1>2 DEF IInv, Typed, Midnight
<1>4. TablesFit'
  BY SameFit DEF IInv, Midnight
<1>5. \A v \in Workers : SessionOK(worker[v])'
  <2> TAKE v \in Workers
  <2>1. PICK t : t = worker[v]
    OBVIOUS
  <2>2. SessionOK(t)'
    BY <1>1, <2>1, SameSessions DEF IInv, Midnight
  <2> QED
    BY <2>1, <2>2 DEF SessionOK, Midnight
<1>6. Exclusive'
  BY DEF IInv, Exclusive, Holds, Midnight
<1> QED
  BY <1>3, <1>4, <1>5, <1>6 DEF IInv

(* What a commit adds to the tables. *)
LEMMA Added ==
  ASSUME NEW row, rows' = rows \cup {row}
  PROVE  /\ \A op : row.command.op # op => Table(op)' = Table(op)
         /\ \A op : Table(op) \subseteq Table(op)' /\ Table(op)' \subseteq Table(op) \cup {row}
         /\ \A op, request : row.command.op # op => Find(op, request)' = Find(op, request)
         /\ \A op, request : Find(op, request) \subseteq Find(op, request)'
         /\ Profiles \subseteq Profiles' /\ Profiles' \subseteq Profiles \cup {row}
         /\ row.command.op # "profile" => Profiles' = Profiles
<1>1. \A op : row.command.op # op => Table(op)' = Table(op)
  BY DEF Table
<1>2. \A op : Table(op) \subseteq Table(op)' /\ Table(op)' \subseteq Table(op) \cup {row}
  BY DEF Table
<1>3. /\ \A op, request : row.command.op # op => Find(op, request)' = Find(op, request)
      /\ \A op, request : Find(op, request) \subseteq Find(op, request)'
  BY <1>1, <1>2 DEF Find
<1> QED
  BY <1>1, <1>2, <1>3 DEF Profiles

LEMMA CommitTables ==
  ASSUME rows \subseteq Rows, TablesFit, NEW row \in Rows, Fits(row), rows' = rows \cup {row}
  PROVE  TablesFit'
<1>1. OneRow'
  <2>1. \A q \in rows : ~ (q.command.op = row.command.op /\ q.command.request = row.command.request)
    BY DEF Fits, Find, Table
  <2> QED
    BY <2>1 DEF OneRow, TablesFit
<1>2. DraftsAddUp'
  BY DEF DraftsAddUp, TablesFit, Fits, Table
<1>3. ProfilesInOrder'
  <2> SUFFICES ASSUME NEW p \in Profiles', NEW q \in Profiles'
               PROVE  /\ p.command.from = q.command.from => p = q
                      /\ p.on <= p.command.from
    BY DEF ProfilesInOrder
  <2>1. /\ p \in Profiles \/ (p = row /\ row.command.op = "profile")
        /\ q \in Profiles \/ (q = row /\ row.command.op = "profile")
    BY Added
  <2>2. \A r \in Profiles : r.command.from \in Nat
    BY CommandsAssumption DEF Profiles, Table, Rows
  <2>3. row.command.op = "profile" =>
          row.on <= row.command.from /\ \A r \in Profiles : r.command.from < row.command.from
    BY DEF Fits
  <2> QED
    BY <2>1, <2>2, <2>3 DEF TablesFit, ProfilesInOrder
<1>4. AssessmentsFit'
  <2> SUFFICES ASSUME NEW a \in Table("assessment")'
               PROVE  \E d \in Find("draft", a.command.draft)' : d.net = a.net /\ d.net > 0
    BY DEF AssessmentsFit
  <2>1. \E d \in Find("draft", a.command.draft) : d.net = a.net /\ d.net > 0
    BY Added DEF TablesFit, AssessmentsFit, Fits
  <2> QED
    BY <2>1, Added
<1>5. ChargesAreBooked'
  <2> SUFFICES ASSUME NEW r \in Table("charge")'
               PROVE  r.command.date <= r.on /\ Find("assessment", r.command.assessment)' # {}
    BY DEF ChargesAreBooked
  <2>1. r.command.date <= r.on /\ Find("assessment", r.command.assessment) # {}
    BY Added DEF TablesFit, ChargesAreBooked, Fits
  <2> QED
    BY <2>1, Added
<1>6. ChargedOnce'
  <2> SUFFICES ASSUME NEW q \in Table("charge")', NEW r \in Table("charge")',
                      NEW a \in Find("assessment", q.command.assessment)',
                      NEW b \in Find("assessment", r.command.assessment)',
                      a.command.draft = b.command.draft
               PROVE  q = r
    BY DEF ChargedOnce
  <2>1. \A s \in Table("charge")' : s \in Table("charge") \/ (s = row /\ row.command.op = "charge")
    BY Added DEF Table
  <2>2. \A s \in Table("charge") : Find("assessment", s.command.assessment) # {}
    BY DEF TablesFit, ChargesAreBooked
  <2>3. row.command.op = "charge" =>
          \E e \in Find("assessment", row.command.assessment) : ChargesOf(e.command.draft) = {}
    BY DEF Fits
  <2>4. \A s \in Table("charge")' : Find("assessment", s.command.assessment) # {}
    BY <2>1, <2>2, <2>3
  <2>5. \A s, e : Find("assessment", s) # {} /\ e \in Find("assessment", s)'
                    => e \in Find("assessment", s)
    <3> SUFFICES ASSUME NEW s, NEW e \in Find("assessment", s)', NEW f \in Find("assessment", s)
                 PROVE  e = f
      OBVIOUS
    <3>1. e \in rows' /\ f \in rows' /\ e.command.op = "assessment" /\ f.command.op = "assessment"
          /\ e.command.request = s /\ f.command.request = s
      BY DEF Find, Table
    <3> QED
      BY <1>1, <3>1 DEF OneRow
  <2>6. a \in Find("assessment", q.command.assessment) /\ b \in Find("assessment", r.command.assessment)
    BY <2>4, <2>5
  <2>7. \A s, e, f : e \in Find("assessment", s) /\ f \in Find("assessment", s) => e = f
    BY DEF TablesFit, OneRow, Find, Table
  <2>8. CASE q \in Table("charge") /\ r \in Table("charge")
    BY <2>6, <2>8 DEF TablesFit, ChargedOnce
  <2>9. CASE q = row /\ r \in Table("charge") /\ row.command.op = "charge"
    <3>1. ChargesOf(a.command.draft) = {}
      BY <2>3, <2>6, <2>7, <2>9
    <3>2. r \in ChargesOf(a.command.draft)
      BY <2>6, <2>9 DEF ChargesOf
    <3> QED
      BY <3>1, <3>2
  <2>10. CASE r = row /\ q \in Table("charge") /\ row.command.op = "charge"
    <3>1. ChargesOf(b.command.draft) = {}
      BY <2>3, <2>6, <2>7, <2>10
    <3>2. q \in ChargesOf(b.command.draft)
      BY <2>6, <2>10 DEF ChargesOf
    <3> QED
      BY <3>1, <3>2
  <2> QED
    BY <2>1, <2>8, <2>9, <2>10
<1>7. ChargesKeepProfile'
  <2> SUFFICES ASSUME NEW r \in Table("charge")'
               PROVE  \E p \in Profiles' :
                        /\ p.command.request = r.profile
                        /\ p.command.status = "REGISTERED" /\ p.command.from <= r.command.date
                        /\ \A q \in Profiles' :
                             p.command.from < q.command.from =>
                               \/ r.command.date < q.command.from
                               \/ q.command.from = r.command.date /\ q.on = r.command.date
                                                                  /\ r.on = r.command.date
    BY DEF ChargesKeepProfile
  <2>1. CASE r \in Table("charge")
    <3>1. PICK p \in Profiles :
            /\ p.command.request = r.profile
            /\ p.command.status = "REGISTERED" /\ p.command.from <= r.command.date
            /\ \A q \in Profiles :
                 p.command.from < q.command.from =>
                   \/ r.command.date < q.command.from
                   \/ q.command.from = r.command.date /\ q.on = r.command.date
                                                      /\ r.on = r.command.date
      BY <2>1 DEF TablesFit, ChargesKeepProfile
    <3>2. r \in rows /\ r.command \in Commands /\ r.command.op = "charge"
      BY <2>1 DEF Table, Rows
    <3>3. r.command.date \in Nat /\ r.on \in Nat /\ row.on \in Nat
      BY <3>2, CommandsAssumption DEF Rows
    <3>4. r.command.date <= r.on /\ r.on <= row.on
      BY <2>1, <3>2 DEF TablesFit, ChargesAreBooked, Fits
    <3>5. row.command.op = "profile" =>
            \/ r.command.date < row.command.from
            \/ row.command.from = r.command.date /\ row.on = r.command.date /\ r.on = r.command.date
      <4> HAVE row.command.op = "profile"
      <4>1. row.on <= row.command.from /\ row.command.from \in Nat
        BY CommandsAssumption DEF Fits, Rows
      <4> QED
        BY <3>3, <3>4, <4>1
    <3>6. \A q \in Profiles' : q \in Profiles \/ (q = row /\ row.command.op = "profile")
      BY Added
    <3> QED
      BY <3>1, <3>5, <3>6, Added
  <2>2. CASE r = row /\ row.command.op = "charge"
    <3>1. PICK p \in RegisteredOn(row.command.date) : p.command.request = row.profile
      BY <2>2 DEF Fits
    <3>2. /\ p \in Profiles /\ p.command.status = "REGISTERED" /\ p.command.from <= row.command.date
          /\ \A q \in Profiles : q.command.from <= row.command.date => q.command.from <= p.command.from
      BY DEF RegisteredOn, ProfileOn
    <3>3. Profiles' = Profiles
      BY <2>2, Added
    <3>4. \A q \in Profiles : q.command.from \in Nat
      BY CommandsAssumption DEF Profiles, Table, Rows
    <3>5. row.command.date \in Nat
      BY <2>2, CommandsAssumption DEF Rows
    <3>6. \A q \in Profiles' : p.command.from < q.command.from => row.command.date < q.command.from
      BY <3>2, <3>3, <3>4, <3>5
    <3> QED
      BY <2>2, <3>1, <3>2, <3>3, <3>6
  <2> QED
    BY <2>1, <2>2, Added DEF Table
<1> QED
  BY <1>1, <1>2, <1>3, <1>4, <1>5, <1>6, <1>7 DEF TablesFit

LEMMA CommitStep ==
  ASSUME IInv, NEW w \in Workers, Commit(w)
  PROVE  IInv'
<1>1. PICK row : row = worker[w].row
  OBVIOUS
<1>2. /\ row \in Rows /\ Fits(row) /\ row.on \in 1..today
      /\ rows' = rows \cup {row} /\ today' = today /\ usable' = usable
      /\ worker' = [worker EXCEPT ![w] = Idle("ok")]
      /\ worker[w].phase = "flushed"
  BY <1>1 DEF Commit, End, IInv, SessionOK, Writing
<1>3. Idle("ok") \in Sessions /\ SessionOK(Idle("ok")) /\ Idle("ok").phase = "idle"
  BY IdleFits DEF IInv
<1>4. Idle("ok").began = 0 /\ Idle("ok").row = NoRow
  BY DEF Idle
<1> HIDE DEF Idle
<1>5. Typed'
  <2>1. worker' \in [Workers -> Sessions]
    BY <1>2, <1>3 DEF IInv, Typed
  <2> QED
    BY <1>2, <2>1 DEF IInv, Typed
<1>6. TablesFit'
  BY <1>2, CommitTables DEF IInv, Typed
<1>7. worker'[w] = Idle("ok") /\ \A v \in Workers : v # w => worker'[v] = worker[v] /\ ~ Holds(v)
  BY <1>2, Alone DEF IInv, Typed, Holds
<1>8. Exclusive'
  BY <1>3, <1>7 DEF Exclusive, Holds
<1>9. \A v \in Workers : SessionOK(worker[v])'
  <2> SUFFICES ASSUME NEW v \in Workers
               PROVE  SessionOK(worker[v])'
    OBVIOUS
  <2>1. CASE v = w
    BY <1>2, <1>3, <1>4, <1>7, <2>1 DEF SessionOK, Writing
  <2>2. CASE v # w
    <3>1. worker'[v] = worker[v] /\ worker[v].phase \notin {"holding", "accepted", "flushed"}
      BY <1>7, <2>2 DEF Holds
    <3>2. SessionOK(worker[v])
      BY DEF IInv
    <3> QED
      BY <1>2, <3>1, <3>2 DEF SessionOK, Writing
  <2> QED
    BY <2>1, <2>2
<1> QED
  BY <1>5, <1>6, <1>8, <1>9 DEF IInv

LEMMA InitInvariant ==
  ASSUME Init
  PROVE  IInv
<1>1. today = 1 /\ rows = {} /\ usable = Accounts
  BY DEF Init
<1>2. Idle("none") \in Sessions /\ SessionOK(Idle("none")) /\ Idle("none").phase = "idle"
  BY <1>1, BillingAssumption DEF Idle, Sessions, Phases, SessionOK, Writing
<1> HIDE DEF Idle
<1>3. Typed
  BY <1>1, <1>2, BillingAssumption DEF Init, Typed
<1>4. TablesFit
  BY <1>1 DEF TablesFit, OneRow, DraftsAddUp, ProfilesInOrder, AssessmentsFit, ChargesAreBooked,
              ChargedOnce, ChargesKeepProfile, Profiles, Table
<1>5. Exclusive
  BY <1>1, <1>2 DEF Init, Exclusive, Holds
<1> QED
  BY <1>2, <1>3, <1>4, <1>5 DEF IInv, Init

(* A step that changes neither tables nor transactions. *)
LEMMA QuietStep ==
  ASSUME IInv, UNCHANGED <<today, rows, worker>>, usable' \subseteq Accounts
  PROVE  IInv'
<1>1. TablesFit'
  BY SameFit DEF IInv
<1>2. \A w \in Workers : SessionOK(worker[w])'
  <2> TAKE w \in Workers
  <2>1. PICK t : t = worker[w]
    OBVIOUS
  <2>2. SessionOK(t)'
    BY <2>1, SameSessions DEF IInv
  <2> QED
    BY <2>1, <2>2 DEF SessionOK
<1> QED
  BY <1>1, <1>2 DEF IInv, Typed, Exclusive, Holds

LEMMA StepInvariant ==
  ASSUME IInv, [Next]_vars
  PROVE  IInv'
<1>1. CASE UNCHANGED vars
  BY <1>1, QuietStep DEF vars, IInv, Typed
<1>2. ASSUME NEW w \in Workers,
             Begin(w) \/ LockOrganization(w) \/ Execute(w) \/ Flush(w) \/ Commit(w) \/ Crash(w)
      PROVE  IInv'
  <2>1. CASE Crash(w)
    BY <2>1, EndStep DEF Crash
  <2> QED
    BY <1>2, <2>1, BeginStep, LockStep, ExecuteStep, FlushStep, CommitStep
<1>3. CASE SwitchAccount
  BY <1>3, QuietStep DEF SwitchAccount, IInv, Typed
<1> QED
  BY <1>1, <1>2, <1>3, MidnightStep DEF Next

(* The inductive invariant holds of every behaviour: the tables fit one     *)
(* another, and a row accepted under the organization lock keeps fitting    *)
(* them, and keeps satisfying every guard that reads only them, until it is *)
(* committed or its transaction ends.                                       *)
THEOREM BillingInvariant == Spec => []IInv
<1>1. Init => IInv
  BY InitInvariant
<1>2. IInv /\ [Next]_vars => IInv'
  BY StepInvariant
<1> QED
  BY <1>1, <1>2, PTL DEF Spec

-----------------------------------------------------------------------------
(* What follows *)

(* Amounts fit their columns, dates have come, and a transaction that ended *)
(* left no row behind.                                                      *)
THEOREM TypeCorrect == Spec => []TypeOK
<1>1. IInv => TypeOK
  <2> SUFFICES ASSUME IInv
               PROVE  TypeOK
    OBVIOUS
  <2>1. \A r \in rows : r.command \in Commands /\ {r.net, r.tax} \subseteq 0..MaxMinor /\ r.on \in 1..today
    BY DEF IInv, Typed, Rows
  <2>2. NoRow.command.op = "none"
    BY DEF NoRow, NoCommand
  <2>3. \A w \in Workers : worker[w] \in Sessions /\ SessionOK(worker[w])
    BY DEF IInv, Typed
  <2>4. \A w \in Workers : worker[w].row = NoRow <=> ~ Writing(worker[w])
    <3> TAKE w \in Workers
    <3>1. Writing(worker[w]) => worker[w].row.command \in Commands
      BY <2>3 DEF SessionOK, Rows
    <3>2. Writing(worker[w]) => worker[w].row.command.op # "none"
      BY <3>1, CommandsAssumption
    <3> QED
      BY <2>2, <2>3, <3>2 DEF SessionOK
  <2> QED
    BY <2>1, <2>3, <2>4 DEF TypeOK, IInv, Typed, Sessions, Phases, SessionOK, Writing
<1> QED
  BY <1>1, BillingInvariant, PTL

(* The triggers refuse nothing the application accepted, but a charge whose *)
(* day began after its transaction did, or one of whose accounts has been   *)
(* switched off since approve_charge read it.                               *)
THEOREM GuardsAlwaysAgree == Spec => []GuardsAgree
<1>1. IInv => GuardsAgree
  <2> SUFFICES ASSUME IInv, NEW w \in Workers, worker[w].phase = "accepted",
                      ~ DatabaseAccepts(worker[w].row, worker[w].began)
               PROVE  LET row == worker[w].row
                          began == worker[w].began
                      IN /\ row.command.op = "charge"
                         /\ Find("charge", row.command.request) = {} /\ GuardSource(row)
                         /\ row.command.date <= row.on
                         /\ row.command.accounts \subseteq worker[w].read
                         /\ ~ GuardDay(row, began) \/ ~ GuardMapping(row)
    BY DEF GuardsAgree
  <2>1. /\ LastingGuards(worker[w].row, worker[w].began) /\ Fits(worker[w].row)
        /\ worker[w].row.command.op = "charge" => worker[w].row.command.accounts \subseteq worker[w].read
    BY DEF IInv, SessionOK, Writing
  <2>2. worker[w].row.command.op = "charge" /\ ~ GuardCharge(worker[w].row, worker[w].began)
    BY <2>1 DEF LastingGuards, DatabaseAccepts
  <2> QED
    BY <2>1, <2>2 DEF LastingGuards, GuardCharge, Fits
<1> QED
  BY <1>1, BillingInvariant, PTL

(* A charge stays under the profile in force on its booking date.           *)
THEOREM ProfilesStay == Spec => []ChargesKeepProfile
<1>1. IInv => ChargesKeepProfile
  BY DEF IInv, TablesFit
<1> QED
  BY <1>1, BillingInvariant, PTL

(* Tables that fit one another have the amounts they should have.           *)
LEMMA FittingAmounts ==
  ASSUME rows \subseteq Rows, TablesFit
  PROVE  AmountsAgree
<1>1. \A d \in Table("draft") : d.net = draftTotalCents(d.command.lines)
  <2> TAKE d \in Table("draft")
  <2>1. d.command \in Commands /\ d.command.op = "draft" /\ d.net = Net(d)
    BY DEF Rows, Table, TablesFit, DraftsAddUp
  <2> QED
    BY <2>1, DraftAmounts DEF Net
<1>2. \A a \in Table("assessment") : \E d \in Find("draft", a.command.draft) : d.net = a.net
  BY DEF TablesFit, AssessmentsFit
<1>3. \A d \in Table("draft") : Cardinality(ChargesOf(d.command.request)) <= 1
  <2> TAKE d \in Table("draft")
  <2> DEFINE C == ChargesOf(d.command.request)
  <2>1. \A q, r \in C : q = r
    BY DEF ChargesOf, TablesFit, ChargedOnce
  <2>2. C = {} \/ \E r : C = {r}
    BY <2>1
  <2>3. CASE C = {}
    <3>1. Cardinality(C) = 0
      BY <2>3, FS_EmptySet
    <3> QED
      BY <3>1
  <2>4. CASE \E r : C = {r}
    <3>1. Cardinality(C) = 1
      BY <2>4, FS_Singleton
    <3> QED
      BY <3>1
  <2> QED
    BY <2>2, <2>3, <2>4
<1> QED
  BY <1>1, <1>2, <1>3 DEF AmountsAgree

(* The three computations of a draft's amount agree and one draft is        *)
(* charged at most once.                                                    *)
THEOREM AmountsAlwaysAgree == Spec => []AmountsAgree
<1>1. IInv => AmountsAgree
  BY FittingAmounts DEF IInv, Typed
<1> QED
  BY <1>1, BillingInvariant, PTL

(* A command on record is answered with its row or not at all.              *)
THEOREM ReplaysAnswered == Spec => ReplaysAnswerOriginal
<1>1. IInv /\ [Next]_vars
        => [\A w \in Workers :
              worker[w].phase = "holding" /\ Same(worker[w].command)
                => worker'[w].phase = "holding" \/ worker'[w].answer \in {"ok", "none"}]_vars
  <2> SUFFICES ASSUME IInv, Next, NEW w \in Workers,
                      worker[w].phase = "holding", Same(worker[w].command),
                      worker'[w].phase # "holding"
               PROVE  worker'[w].answer \in {"ok", "none"}
    OBVIOUS
  <2>1. worker \in [Workers -> Sessions]
    BY DEF IInv, Typed
  <2>2. OnRecord(worker[w].command)
    BY DEF Same, OnRecord, Find, Table
  <2>3. \A answer : Idle(answer).answer = answer
    BY DEF Idle
  <2>4. PICK v \in Workers :
          Begin(v) \/ LockOrganization(v) \/ Execute(v) \/ Flush(v) \/ Commit(v) \/ Crash(v)
    BY DEF Next, Midnight, SwitchAccount
  <2>5. v = w
    <3>1. \E s : worker' = [worker EXCEPT ![v] = s]
      BY <2>4 DEF Begin, LockOrganization, Execute, Replay, FirstTime, LedgerRefuses, End, Flush,
                  Commit, Crash
    <3> QED
      BY <2>1, <3>1
  <2>6. Execute(w) \/ Crash(w)
    BY <2>4, <2>5 DEF Begin, LockOrganization, Flush, Commit
  <2>7. worker' = [worker EXCEPT ![w] = Idle("ok")] \/ worker' = [worker EXCEPT ![w] = Idle("none")]
    BY <2>2, <2>6 DEF Execute, Replay, FirstTime, LedgerRefuses, End, Crash
  <2> HIDE DEF Idle
  <2> QED
    BY <2>1, <2>3, <2>7
<1> QED
  BY <1>1, BillingInvariant, PTL DEF Spec, ReplaysAnswerOriginal

-----------------------------------------------------------------------------
(* The promise: what a worker is about to commit, BillingPromise admits *)

Joinable == \A w \in Workers : Writing(worker[w]) => Promise!Admissible(worker[w].row)

LEMMA PromisedTables ==
  /\ \A op : Promise!Table(op) = Table(op)
  /\ \A op, request : Promise!Find(op, request) = Find(op, request)
BY DEF Promise!Table, Table, Promise!Find, Find

(* A registration in force is the declaration the promise asks for.         *)
LEMMA UnderRegistration ==
  ASSUME NEW r, NEW p \in RegisteredOn(r.command.date), p.command.request = r.profile
  PROVE  Promise!UnderProfile(r)
<1>1. p \in Promise!Table("profile") /\ Profiles = Promise!Table("profile")
  BY PromisedTables DEF RegisteredOn, ProfileOn, Profiles
<1> QED
  BY <1>1 DEF RegisteredOn, ProfileOn, Promise!UnderProfile

LEMMA AdmissibleDraft ==
  ASSUME NEW c \in Commands, c.op = "draft", AcceptsDraft(c), NEW row \in RowsOf(c)
  PROVE  Promise!Draft(row)
<1>1. row = Row(c, Sum(LineTotals(c.lines)), 0, 0)
  BY DEF RowsOf
<1>2. row.command = c /\ row.net = Sum(LineTotals(c.lines))
  BY <1>1 DEF Row
<1> QED
  BY <1>2, DraftAmounts DEF AcceptsDraft, Promise!Draft

LEMMA AdmissibleProfile ==
  ASSUME NEW c \in Commands, c.op = "profile", AcceptsProfile(c), Typed, NEW row \in RowsOf(c)
  PROVE  Promise!Profile(row)
<1>1. row = Row(c, 0, 0, 0)
  BY DEF RowsOf
<1>2. row.command = c /\ row.on = today
  BY <1>1 DEF Row
<1>3. today <= c.from
  BY CommandsAssumption DEF AcceptsProfile, Typed
<1> QED
  BY <1>2, <1>3, PromisedTables DEF AcceptsProfile, Profiles, Promise!Profile

LEMMA AdmissibleAssessment ==
  ASSUME Typed, TablesFit, NEW c \in Commands, c.op = "assessment", AcceptsAssessment(c),
         NEW row \in RowsOf(c)
  PROVE  Promise!Assessment(row)
<1>1. PICK d \in Find("draft", c.draft), p \in ProfileOn(c.date) :
        row = Row(c, Net(d), standard_vat(Net(d)), p.command.request)
  BY DEF RowsOf
<1>2. /\ row.command = c /\ row.net = Net(d) /\ row.tax = standard_vat(Net(d))
      /\ row.profile = p.command.request
  BY <1>1 DEF Row
<1>3. d \in Table("draft") /\ d \in Rows /\ \A e \in Find("draft", c.draft) : e = d
  BY Finding DEF TablesFit
<1>4. d.net = Net(d) /\ Net(d) \in Nat
  BY <1>3 DEF TablesFit, DraftsAddUp, Rows
<1>5. Net(d) > 0 /\ Net(d) + standard_vat(Net(d)) <= MaxMinor
  BY <1>3 DEF AcceptsAssessment, Gross
<1>6. standard_vat(Net(d)) = SqlStandardVat(Net(d))
  BY <1>4, TaxesAgree
<1>7. p \in RegisteredOn(row.command.date)
  BY <1>2, OneProfile DEF AcceptsAssessment, RegisteredOn, TablesFit
<1>8. Promise!UnderProfile(row)
  BY <1>2, <1>7, UnderRegistration
<1>9. \E e \in Promise!Find("draft", c.draft) : row.net = e.net
  BY <1>2, <1>4, PromisedTables
<1> QED
  BY <1>2, <1>5, <1>6, <1>8, <1>9 DEF Promise!Assessment

(* A draft with no charge to an assessment of it is not charged.            *)
LEMMA NotCharged ==
  ASSUME NEW draft, ChargesOf(draft) = {}
  PROVE  ~ Promise!Charged(draft)
BY PromisedTables DEF ChargesOf, Promise!Charged

LEMMA AdmissibleCharge ==
  ASSUME Typed, TablesFit, NEW c \in Commands, c.op = "charge", AcceptsCharge(c),
         NEW row \in RowsOf(c)
  PROVE  Promise!Charge(row)
<1>1. PICK a \in Find("assessment", c.assessment) : row = Row(c, a.net, a.tax, a.profile)
  BY DEF RowsOf
<1>2. /\ row.command = c /\ row.on = today
      /\ row.net = a.net /\ row.tax = a.tax /\ row.profile = a.profile
  BY <1>1 DEF Row
<1>3. \A b \in Find("assessment", c.assessment) : b = a
  BY Finding DEF TablesFit
<1>4. /\ c.date = a.command.date /\ c.date <= today /\ ChargesOf(a.command.draft) = {}
      /\ Find("customer", c.customer) # {}
  BY <1>3 DEF AcceptsCharge
<1>5. PICK p \in RegisteredOn(c.date) : p.command.request = a.profile
  BY <1>3 DEF AcceptsCharge
<1>6. Promise!UnderProfile(row)
  BY <1>2, <1>5, UnderRegistration
<1>7. ~ Promise!Charged(a.command.draft)
  BY <1>4, NotCharged
<1>8. a \in Promise!Find("assessment", c.assessment) /\ Promise!Find("customer", c.customer) # {}
  BY <1>4, PromisedTables
<1> QED
  BY <1>2, <1>4, <1>6, <1>7, <1>8 DEF Promise!Charge

(* The row of a command that is accepted for the first time is admissible.  *)
LEMMA AcceptedIsAdmissible ==
  ASSUME Typed, TablesFit, NEW c \in Commands, ~ OnRecord(c), Accepts(c), NEW row \in RowsOf(c)
  PROVE  Promise!Admissible(row)
<1>1. row.command = c /\ \A q \in rows : q.on <= row.on
  BY DEF RowsOf, Row, Typed
<1>2. Promise!Find(c.op, c.request) = {}
  BY PromisedTables DEF OnRecord
<1>3. \/ c.op = "customer"
      \/ c.op = "draft" /\ Promise!Draft(row)
      \/ c.op = "profile" /\ Promise!Profile(row)
      \/ c.op = "assessment" /\ Promise!Assessment(row)
      \/ c.op = "charge" /\ Promise!Charge(row)
  BY AdmissibleDraft, AdmissibleProfile, AdmissibleAssessment, AdmissibleCharge DEF Accepts
<1> QED
  BY <1>1, <1>2, <1>3 DEF Promise!Admissible

(* Admissible as long as the tables do not change.                          *)
LEMMA StaysAdmissible ==
  ASSUME rows' = rows, NEW row, Promise!Admissible(row)
  PROVE  Promise!Admissible(row)'
<1>1. /\ \A op : Promise!Table(op)' = Promise!Table(op)
      /\ \A op, request : Promise!Find(op, request)' = Promise!Find(op, request)
  BY DEF Promise!Table, Promise!Find
<1>2. Promise!UnderProfile(row)' <=> Promise!UnderProfile(row)
  BY <1>1 DEF Promise!UnderProfile
<1>3. \A draft : Promise!Charged(draft)' <=> Promise!Charged(draft)
  BY <1>1 DEF Promise!Charged
<1>4. /\ Promise!Draft(row)' <=> Promise!Draft(row)
      /\ Promise!Profile(row)' <=> Promise!Profile(row)
  BY <1>1 DEF Promise!Draft, Promise!Profile
<1>5. Promise!Assessment(row)' <=> Promise!Assessment(row)
  BY <1>1, <1>2 DEF Promise!Assessment
<1>6. Promise!Charge(row)' <=> Promise!Charge(row)
  BY <1>1, <1>2, <1>3 DEF Promise!Charge
<1> QED
  BY <1>1, <1>4, <1>5, <1>6 DEF Promise!Admissible

(* A step that changes no table, and lets a worker write only an admissible *)
(* row.                                                                     *)
LEMMA JoinableStays ==
  ASSUME Joinable, rows' = rows,
         \A v \in Workers : worker'[v] # worker[v] /\ Writing(worker'[v])
                              => Promise!Admissible(worker'[v].row)
  PROVE  Joinable'
<1> SUFFICES ASSUME NEW v \in Workers, Writing(worker[v])'
             PROVE  Promise!Admissible(worker[v].row)'
  BY DEF Joinable
<1>1. PICK row : row = worker'[v].row
  OBVIOUS
<1>2. Promise!Admissible(row)
  BY <1>1 DEF Joinable, Writing
<1>3. Promise!Admissible(row)'
  BY <1>2, StaysAdmissible
<1> QED
  BY <1>1, <1>3 DEF Promise!Admissible, Promise!Draft, Promise!Profile, Promise!Assessment,
                    Promise!Charge, Promise!UnderProfile

(* What the steps of one worker do to its transaction.                      *)
LEMMA OthersWait ==
  ASSUME IInv, NEW w \in Workers,
         Begin(w) \/ LockOrganization(w) \/ Execute(w) \/ Flush(w) \/ Commit(w) \/ Crash(w)
  PROVE  \A v \in Workers : v # w => worker'[v] = worker[v]
<1>1. CASE Execute(w)
  BY <1>1 DEF IInv, Typed, Execute, Replay, FirstTime, LedgerRefuses, End
<1>2. CASE Flush(w)
  BY <1>2 DEF IInv, Typed, Flush, End
<1> QED
  BY <1>1, <1>2 DEF IInv, Typed, Begin, LockOrganization, Commit, Crash, End

LEMMA EndsWriting ==
  ASSUME IInv, NEW w \in Workers, NEW answer, End(w, answer)
  PROVE  ~ Writing(worker'[w])
BY DEF IInv, Typed, End, Idle, Writing

LEMMA ExecuteJoins ==
  ASSUME IInv, Joinable, NEW w \in Workers, Execute(w), Writing(worker'[w])
  PROVE  Promise!Admissible(worker'[w].row)
<1> DEFINE c == worker[w].command
<1>1. c \in Commands /\ worker[w] \in Sessions
  BY DEF IInv, Typed, SessionOK, Execute
<1>2. FirstTime(w) /\ Accepts(c)
  BY EndsWriting DEF Execute, Replay, FirstTime, LedgerRefuses
<1>3. PICK row \in RowsOf(c) :
        worker' = [worker EXCEPT ![w].phase = "accepted", ![w].row = row, ![w].read = Reads(c)]
  BY <1>2 DEF FirstTime
<1>4. worker'[w].row = row
  BY <1>1, <1>3 DEF IInv, Typed, Sessions
<1>5. Promise!Admissible(row)
  BY <1>1, <1>2, AcceptedIsAdmissible DEF IInv, FirstTime
<1> QED
  BY <1>4, <1>5

LEMMA FlushJoins ==
  ASSUME IInv, Joinable, NEW w \in Workers, Flush(w), Writing(worker'[w])
  PROVE  Promise!Admissible(worker'[w].row)
<1>1. worker' = [worker EXCEPT ![w].phase = "flushed"] /\ worker[w] \in Sessions
  BY EndsWriting DEF Flush, IInv, Typed
<1>2. worker'[w].row = worker[w].row /\ Writing(worker[w])
  BY <1>1 DEF IInv, Typed, Sessions, Flush, Writing
<1> QED
  BY <1>2 DEF Joinable

LEMMA JoinableKept ==
  ASSUME IInv, Joinable, [Next]_vars
  PROVE  Joinable'
<1>1. ASSUME NEW w \in Workers,
             Begin(w) \/ LockOrganization(w) \/ Execute(w) \/ Flush(w) \/ Crash(w)
      PROVE  Joinable'
  <2>1. rows' = rows
    BY <1>1 DEF Begin, LockOrganization, Execute, Flush, Crash
  <2>2. CASE Execute(w)
    BY <1>1, <2>1, <2>2, OthersWait, ExecuteJoins, JoinableStays
  <2>3. CASE Flush(w)
    BY <1>1, <2>1, <2>3, OthersWait, FlushJoins, JoinableStays
  <2>4. CASE Begin(w) \/ LockOrganization(w) \/ Crash(w)
    <3>1. ~ Writing(worker'[w])
      BY <2>4, EndsWriting DEF Begin, LockOrganization, Crash, IInv, Typed, Sessions, Writing
    <3> QED
      BY <1>1, <2>1, <3>1, OthersWait, JoinableStays
  <2> QED
    BY <1>1, <2>2, <2>3, <2>4
<1>2. ASSUME NEW w \in Workers, Commit(w)
      PROVE  Joinable'
  <2>1. \A v \in Workers : v # w => worker'[v] = worker[v] /\ ~ Writing(worker[v])
    BY <1>2, OthersWait, Alone DEF Commit, Holds, Writing
  <2>2. ~ Writing(worker'[w])
    BY <1>2, EndsWriting DEF Commit
  <2> QED
    BY <2>1, <2>2 DEF Joinable, Writing
<1>3. CASE Midnight \/ SwitchAccount \/ UNCHANGED vars
  <2>1. rows' = rows /\ worker' = worker
    BY <1>3 DEF Midnight, SwitchAccount, vars
  <2> QED
    BY <2>1, JoinableStays
<1> QED
  BY <1>1, <1>2, <1>3 DEF Next

(* The workers, whatever their number and however they interleave, fail and *)
(* outlast midnight, implement BillingPromise: the tables grow by one row   *)
(* at a time, and each row is admissible in the tables it joins.            *)
THEOREM BillingKeepsPromise == Spec => KeepsPromise
<1>1. Init => Promise!Init /\ Joinable
  BY DEF Init, Promise!Init, Joinable, Writing, Idle
<1>2. IInv /\ Joinable /\ [Next]_vars => Joinable'
  BY JoinableKept
<1>3. IInv /\ Joinable /\ [Next]_vars => [Promise!Next]_rows
  <2> SUFFICES ASSUME IInv, Joinable, [Next]_vars, rows' # rows
               PROVE  Promise!Next
    OBVIOUS
  <2>1. PICK w \in Workers : Commit(w)
    BY DEF Next, vars, Begin, LockOrganization, Execute, Flush, Crash, Midnight,
           SwitchAccount
  <2>2. PICK row : row = worker[w].row
    OBVIOUS
  <2>3. Promise!Admissible(row) /\ rows' = rows \cup {row}
    BY <2>1, <2>2 DEF Commit, Joinable, Writing
  <2> QED
    BY <2>3 DEF Promise!Next, Promise!Join
<1> QED
  BY <1>1, <1>2, <1>3, BillingInvariant, PTL DEF Spec, KeepsPromise, Promise!Spec

(* What the promise admits fits the tables. *)
LEMMA AdmissibleFits ==
  ASSUME rows \subseteq Rows, NEW row \in Rows, Promise!Admissible(row)
  PROVE  Fits(row)
<1>1. Find(row.command.op, row.command.request) = {} /\ \A r \in rows : r.on <= row.on
  BY PromisedTables DEF Promise!Admissible
<1>2. row.command \in Commands
  BY DEF Rows
<1>3. ASSUME row.command.op = "draft"
      PROVE  row.net = Net(row)
  BY <1>2, <1>3, DraftAmounts DEF Promise!Admissible, Promise!Draft, Net
<1>4. ASSUME row.command.op = "profile"
      PROVE  row.on <= row.command.from /\ \A p \in Profiles : p.command.from < row.command.from
  BY <1>4, PromisedTables DEF Promise!Admissible, Promise!Profile, Profiles
<1>5. ASSUME row.command.op = "assessment"
      PROVE  \E d \in Find("draft", row.command.draft) : d.net = row.net /\ d.net > 0
  BY <1>5, PromisedTables DEF Promise!Admissible, Promise!Assessment
<1>6. ASSUME row.command.op = "charge"
      PROVE  /\ row.command.date <= row.on
             /\ \E p \in RegisteredOn(row.command.date) : p.command.request = row.profile
             /\ \E a \in Find("assessment", row.command.assessment) : ChargesOf(a.command.draft) = {}
  <2>1. Promise!Charge(row) /\ Promise!UnderProfile(row)
    BY <1>6 DEF Promise!Admissible, Promise!Charge
  <2>2. \E p \in RegisteredOn(row.command.date) : p.command.request = row.profile
    BY <2>1, PromisedTables DEF Promise!UnderProfile, RegisteredOn, ProfileOn, Profiles
  <2>3. PICK a \in Find("assessment", row.command.assessment) : ~ Promise!Charged(a.command.draft)
    BY <2>1, PromisedTables DEF Promise!Charge
  <2>4. ChargesOf(a.command.draft) = {}
    BY <2>3, PromisedTables DEF ChargesOf, Promise!Charged
  <2> QED
    BY <2>1, <2>2, <2>3, <2>4 DEF Promise!Charge
<1> QED
  BY <1>1, <1>3, <1>4, <1>5, <1>6 DEF Fits

(* Whatever keeps the promise, with well-typed rows, keeps the amounts of   *)
(* drafts, assessments and charges in agreement and every charge under its  *)
(* profile: the application and the triggers only have to keep it.          *)
THEOREM PromiseKeepsTables ==
  KeepsPromise /\ [](rows \subseteq Rows) => [](AmountsAgree /\ ChargesKeepProfile)
<1>1. Promise!Init => TablesFit
  BY DEF Promise!Init, TablesFit, OneRow, DraftsAddUp, ProfilesInOrder, AssessmentsFit,
         ChargesAreBooked, ChargedOnce, ChargesKeepProfile, Profiles, Table
<1>2. TablesFit /\ rows \subseteq Rows /\ (rows \subseteq Rows)' /\ [Promise!Next]_rows => TablesFit'
  <2> SUFFICES ASSUME TablesFit, rows \subseteq Rows, (rows \subseteq Rows)', [Promise!Next]_rows
               PROVE  TablesFit'
    OBVIOUS
  <2>1. CASE UNCHANGED rows
    BY <2>1, SameFit
  <2>2. ASSUME NEW row \in rows', Promise!Join(row)
        PROVE  TablesFit'
    <3>1. row \in Rows /\ Promise!Admissible(row) /\ rows' = rows \cup {row}
      BY <2>2 DEF Promise!Join, Rows
    <3> QED
      BY <3>1, AdmissibleFits, CommitTables
  <2> QED
    BY <2>1, <2>2 DEF Promise!Next
<1>3. TablesFit /\ rows \subseteq Rows => AmountsAgree /\ ChargesKeepProfile
  BY FittingAmounts DEF TablesFit
<1> QED
  BY <1>1, <1>2, <1>3, PTL DEF KeepsPromise, Promise!Spec

-----------------------------------------------------------------------------
(* The page that sends the drafts, module DraftPage, which trusts the       *)
(* server to keep one draft per request id.                                 *)

CallRecords == [draft : Nat \ {0}, stage : {"posting", "reading", "ended"},
                request : {"sent", "answered", "gone"}]

Posts(n) == calls[n].stage = "posting"

(* Every run has sent a draft the page has made, and is answered about one  *)
(* the server has.                                                          *)
PageTyped ==
  /\ made \in Nat /\ pending \in 0..made
  /\ calls \in Seq(CallRecords)
  /\ \A n \in Runs : /\ calls[n].draft \in Drafts
                     /\ calls[n].request = "answered" => calls[n].draft \in recorded

(* Unless a draft was sent twice at a time, one run at most posts, and it   *)
(* posts the draft the page holds in doubt.                                 *)
OnePosts ==
  /\ \A n \in Runs : Posts(n) => calls[n].draft = pending
  /\ \A m, n \in Runs : Posts(m) /\ Posts(n) => m = n

PageInv ==
  doubled \/ (PageTyped /\ OnePosts /\ DoubtKeptUnlessDoubled)

LEMMA PageLoaded == PageInit => PageInv
BY DEF PageInit, None, Runs, Drafts, DoubtKeptUnlessDoubled,
       DoubtKeepsIdentity, PageInv, PageTyped, OnePosts, Posts

(* A run leaves a stage, or its request an answer behind.                   *)
LEMMA RunMoved ==
  ASSUME PageTyped, NEW n \in Runs, NEW c \in CallRecords,
         c.draft = calls[n].draft, calls' = [calls EXCEPT ![n] = c]
  PROVE  /\ calls' \in Seq(CallRecords)
         /\ Runs' = Runs
         /\ calls'[n] = c
         /\ \A m \in Runs : m # n => calls'[m] = calls[m]
BY DEF PageTyped, Runs

(* The runs of a page that is left have ended.                              *)
LEMMA RunsEnded ==
  ASSUME PageTyped, calls' = [n \in Runs |-> [calls[n] EXCEPT !.stage = "ended"]]
  PROVE  /\ calls' \in Seq(CallRecords)
         /\ Runs' = Runs
         /\ \A n \in Runs : /\ calls'[n].stage = "ended"
                            /\ calls'[n].draft = calls[n].draft
                            /\ calls'[n].request = calls[n].request
<1>1. Len(calls) \in Nat
  BY DEF PageTyped
<1>2. ASSUME NEW n \in Runs
      PROVE  /\ [calls[n] EXCEPT !.stage = "ended"] \in CallRecords
             /\ calls'[n] = [calls[n] EXCEPT !.stage = "ended"]
             /\ calls[n] \in CallRecords
  <2>1. calls[n] \in CallRecords
    BY DEF PageTyped, Runs
  <2>2. [calls[n] EXCEPT !.stage = "ended"] \in CallRecords
    BY <2>1 DEF CallRecords
  <2> QED
    BY <2>1, <2>2
<1>3. calls' \in [1..Len(calls) -> CallRecords]
  BY <1>2 DEF Runs
<1>4. calls' \in Seq(CallRecords) /\ Len(calls') = Len(calls)
  BY <1>1, <1>3
<1> QED
  BY <1>2, <1>4 DEF Runs, CallRecords

(* A draft is sent, a new one or the one in doubt.                          *)
LEMMA SubmitStep ==
  ASSUME PageTyped, OnePosts, DoubtKeptUnlessDoubled, ~ doubled, Submit
  PROVE  PageInv'
<1> DEFINE N == Len(calls) + 1
           c == [draft |-> pending', stage |-> "posting", request |-> "sent"]
<1>1. PICK d \in Nat \ {0} :
        /\ Send(d)
        /\ \/ d = pending /\ made' = made
           \/ pending = 0 /\ d = made + 1 /\ made' = made + 1
  BY DEF Submit, None, PageTyped
<1>2. /\ calls' = Append(calls, c) /\ pending' = d /\ saved' = saved /\ saved = 0
      /\ doubled' = (Posting(d) # {})
      /\ UNCHANGED <<recorded, acked, forgotten>>
  BY <1>1 DEF Submit, Send, None
<1>3. SUFFICES ASSUME Posting(d) = {} PROVE (PageTyped /\ OnePosts /\ DoubtKeptUnlessDoubled)'
  BY <1>2 DEF PageInv
<1>4. /\ c \in CallRecords /\ c.draft = d /\ c.stage = "posting" /\ c.request = "sent"
  BY <1>2 DEF CallRecords
<1> HIDE DEF c
<1>5. /\ calls \in Seq(CallRecords) /\ Len(calls) \in Nat
      /\ calls' \in Seq(CallRecords) /\ Runs' = Runs \cup {N}
      /\ N \notin Runs
      /\ calls'[N] = c /\ \A n \in Runs : calls'[n] = calls[n]
  BY <1>2, <1>4 DEF PageTyped, Runs
<1> HIDE DEF N
<1>6. \A n \in Runs : ~ Posts(n)
  <2>1. pending = 0 => \A n \in Runs : ~ Posts(n)
    BY DEF OnePosts, PageTyped, Drafts
  <2> QED
    BY <1>1, <1>3, <2>1 DEF OnePosts, Posting, Posts
<1>7. \A n \in Runs' : Posts(n)' => n = N
  BY <1>5, <1>6 DEF Posts
<1>8. PageTyped'
  <2>1. made' \in Nat /\ d \in 1..made' /\ \A k \in 1..made : k \in 1..made'
    BY <1>1 DEF PageTyped
  <2>2. \A n \in Runs : calls'[n].draft \in 1..made
                      /\ (calls'[n].request = "answered" => calls'[n].draft \in recorded)
    BY <1>5 DEF PageTyped, Drafts
  <2>3. calls'[N].draft \in 1..made' /\ calls'[N].request # "answered"
    BY <1>4, <1>5, <2>1
  <2>4. \A n \in Runs' : calls'[n].draft \in 1..made'
                       /\ (calls'[n].request = "answered" => calls'[n].draft \in recorded)
    BY <1>5, <2>1, <2>2, <2>3
  <2>5. pending' \in 0..made'
    BY <1>2, <2>1
  <2> QED
    BY <1>2, <1>5, <2>1, <2>4, <2>5 DEF PageTyped, Drafts
<1>9. OnePosts'
  BY <1>2, <1>4, <1>5, <1>7 DEF OnePosts
<1>10. DoubtKeptUnlessDoubled'
  BY <1>1, <1>2 DEF DoubtKeptUnlessDoubled, DoubtKeepsIdentity, Drafts, None, PageTyped
<1> QED
  BY <1>8, <1>9, <1>10

(* A run moves on, and what it was answered is shown.                       *)
LEMMA RunStep ==
  ASSUME PageTyped, OnePosts, DoubtKeptUnlessDoubled, ~ doubled, NEW n \in Runs,
         Record(n) \/ Drop(n) \/ Saved(n) \/ Failed(n) \/ Read(n)
  PROVE  PageInv'
<1>1. calls[n] \in CallRecords /\ calls[n].draft \in Drafts
  BY DEF PageTyped, Runs
<1>2. PICK c \in CallRecords :
        /\ calls' = [calls EXCEPT ![n] = c]
        /\ c.draft = calls[n].draft
        /\ c.stage = calls[n].stage \/ c.stage # "posting"
        /\ c.request = "answered" => calls[n].request = "answered" \/ calls[n].draft \in recorded'
        /\ Saved(n) => c.stage # "posting"
  <2>1. CASE Record(n)
    <3> DEFINE c == [calls[n] EXCEPT !.request = "answered"]
    <3>1. c \in CallRecords /\ c.draft = calls[n].draft /\ c.stage = calls[n].stage
          /\ c.request = "answered"
      BY <1>1 DEF CallRecords
    <3>2. calls' = [calls EXCEPT ![n] = c] /\ recorded' = recorded \cup {calls[n].draft}
      BY <2>1 DEF Record
    <3> HIDE DEF c
    <3> QED
      BY <2>1, <3>1, <3>2 DEF Record, Saved
  <2>2. CASE Drop(n)
    <3> DEFINE c == [calls[n] EXCEPT !.request = "gone"]
    <3>1. c \in CallRecords /\ c.draft = calls[n].draft /\ c.stage = calls[n].stage
          /\ c.request = "gone"
      BY <1>1 DEF CallRecords
    <3>2. calls' = [calls EXCEPT ![n] = c]
      BY <2>2 DEF Drop
    <3> HIDE DEF c
    <3> QED
      BY <2>2, <3>1, <3>2 DEF Drop, Saved
  <2>3. CASE Saved(n)
    <3> DEFINE c == [calls[n] EXCEPT !.stage = "reading"]
    <3>1. c \in CallRecords /\ c.draft = calls[n].draft /\ c.stage = "reading"
          /\ c.request = calls[n].request
      BY <1>1 DEF CallRecords
    <3>2. calls' = [calls EXCEPT ![n] = c]
      BY <2>3 DEF Saved
    <3> HIDE DEF c
    <3> QED
      BY <2>3, <3>1, <3>2 DEF Saved
  <2>4. CASE Failed(n) \/ Read(n)
    <3> DEFINE c == [calls[n] EXCEPT !.stage = "ended"]
    <3>1. c \in CallRecords /\ c.draft = calls[n].draft /\ c.stage = "ended"
          /\ c.request = calls[n].request
      BY <1>1 DEF CallRecords
    <3>2. calls' = [calls EXCEPT ![n] = c]
      BY <2>4 DEF Failed, Read
    <3> HIDE DEF c
    <3> QED
      BY <3>1, <3>2
  <2> QED
    BY <2>1, <2>2, <2>3, <2>4
<1>3. /\ calls' \in Seq(CallRecords) /\ Runs' = Runs /\ calls'[n] = c
      /\ \A m \in Runs : m # n => calls'[m] = calls[m]
  BY <1>2, RunMoved
<1>4. /\ UNCHANGED <<made, forgotten, doubled>> /\ recorded \subseteq recorded'
  BY DEF Record, Drop, Saved, Failed, Read
<1>5. CASE Saved(n)
  <2>1. /\ Posts(n) /\ c.stage # "posting" /\ calls[n].request = "answered"
        /\ saved' = calls[n].draft /\ acked' = acked \cup {calls[n].draft}
        /\ pending' = 0 /\ recorded' = recorded
    BY <1>2, <1>5 DEF Saved, None, Posts
  <2>2. calls[n].draft = pending /\ calls[n].draft \in recorded
    BY <2>1 DEF OnePosts, PageTyped
  <2>3. \A m \in Runs' : ~ Posts(m)'
    BY <1>3, <2>1 DEF OnePosts, Posts
  <2>4. PageTyped'
    BY <1>1, <1>2, <1>3, <1>4, <2>1 DEF PageTyped, Drafts
  <2>5. OnePosts'
    BY <2>3 DEF OnePosts
  <2>6. DoubtKeptUnlessDoubled'
    BY <1>4, <2>1, <2>2 DEF DoubtKeptUnlessDoubled, DoubtKeepsIdentity, Drafts, None
  <2> QED
    BY <2>4, <2>5, <2>6 DEF PageInv
<1>6. CASE ~ Saved(n)
  <2>1. UNCHANGED <<pending, saved, acked>>
    BY <1>6 DEF Record, Drop, Failed, Read
  <2>2. PageTyped'
    BY <1>1, <1>2, <1>3, <1>4, <2>1 DEF PageTyped, Drafts
  <2>3. \A m \in Runs' : Posts(m)' => Posts(m) /\ calls'[m].draft = calls[m].draft
    BY <1>2, <1>3 DEF Posts
  <2>4. OnePosts'
    BY <1>3, <2>1, <2>3 DEF OnePosts
  <2>5. DoubtKeptUnlessDoubled'
    BY <1>4, <2>1 DEF DoubtKeptUnlessDoubled, DoubtKeepsIdentity, Drafts
  <2> QED
    BY <2>2, <2>4, <2>5 DEF PageInv
<1> QED
  BY <1>5, <1>6

LEMMA PageKept == PageInv /\ [PageNext]_pageVars => PageInv'
<1> SUFFICES ASSUME PageInv, [PageNext]_pageVars PROVE PageInv'
  OBVIOUS
<1>1. CASE UNCHANGED pageVars
  BY <1>1 DEF pageVars, PageInv, PageTyped, OnePosts, Posts, Runs, Drafts,
              DoubtKeptUnlessDoubled, DoubtKeepsIdentity
<1>2. CASE PageNext /\ doubled
  <2>1. doubled'
    BY <1>2 DEF PageNext, Submit, Send, Reset, Reload, Record, Drop,
                Saved, Failed, Read
  <2> QED
    BY <2>1 DEF PageInv
<1>3. CASE PageNext /\ ~ doubled
  <2>1. PageTyped /\ OnePosts /\ DoubtKeptUnlessDoubled
    BY <1>3 DEF PageInv
  <2>2. CASE Submit
    BY <1>3, <2>1, <2>2, SubmitStep
  <2>3. CASE Reset
    <3>1. pending = 0
      BY <1>3, <2>1, <2>3 DEF Reset, DoubtKeptUnlessDoubled, None
    <3> QED
      BY <2>1, <2>3, <3>1 DEF Reset, None, PageInv, PageTyped, OnePosts, Posts, Runs,
           Drafts, DoubtKeptUnlessDoubled, DoubtKeepsIdentity
  <2>4. CASE Reload
    <3>1. /\ calls' \in Seq(CallRecords) /\ Runs' = Runs
          /\ \A n \in Runs : /\ calls'[n].stage = "ended"
                             /\ calls'[n].draft = calls[n].draft
                             /\ calls'[n].request = calls[n].request
      BY <2>1, <2>4, RunsEnded DEF Reload
    <3>2. /\ pending' = 0 /\ saved' = 0 /\ forgotten' = forgotten \cup (Drafts \ acked)
          /\ UNCHANGED <<made, recorded, acked>>
      BY <2>4 DEF Reload, None
    <3>3. PageTyped'
      BY <2>1, <3>1, <3>2 DEF PageTyped, Drafts
    <3>4. OnePosts'
      BY <3>1 DEF OnePosts, Posts
    <3>5. DoubtKeptUnlessDoubled'
      BY <3>2 DEF DoubtKeptUnlessDoubled, DoubtKeepsIdentity, Drafts, None
    <3> QED
      BY <3>3, <3>4, <3>5 DEF PageInv
  <2>5. CASE \E n \in Runs : Record(n) \/ Drop(n) \/ Saved(n) \/ Failed(n)
                           \/ Read(n)
    BY <1>3, <2>1, <2>5, RunStep
  <2> QED
    BY <1>3, <2>2, <2>3, <2>4, <2>5 DEF PageNext
<1> QED
  BY <1>1, <1>2, <1>3

(* As long as no draft was sent twice at a time, the page gives up no draft *)
(* in doubt unless it is left, locks its form either for a doubt or for a   *)
(* saved draft, and shows as saved only what the server recorded.           *)
THEOREM PageKeepsDoubt == PageSpec => []DoubtKeptUnlessDoubled
<1>1. PageInv => DoubtKeptUnlessDoubled
  BY DEF PageInv, DoubtKeptUnlessDoubled
<1> QED
  BY <1>1, PageLoaded, PageKept, PTL DEF PageSpec

=============================================================================
