------------------------------ MODULE Billing -------------------------------
(***************************************************************************)
(* The billing and customer domains of the backend, for one organization:  *)
(* customers, service drafts, tax profiles, tax assessments and the        *)
(* approval of service charges, each a command with a permanent request    *)
(* id, run by worker threads under the organization row lock while the     *)
(* calendar advances and an administrator switches accounts off and on.    *)
(* The triggers and checks of migrations 0006 to 0010 are predicates on    *)
(* what a worker flushes.                                                  *)
(*                                                                         *)
(* A row holds the command it came from and what the server computed; its  *)
(* place is its table and request id, by which other commands name it.     *)
(* The organization's currency is SAR throughout, permissions are those of *)
(* the caller, and the journal a charge posts is the business of Ledger;   *)
(* of the accounts a charge names only their use is kept, their types are  *)
(* those the charge asks for.                                              *)
(***************************************************************************)
EXTENDS Money, Sequences, FiniteSets, SequencesExt

CONSTANTS
  Workers,
  Commands,
  Accounts,     \* the accounts of the ledger a charge can name
  MaxMinor,     \* the largest amount NUMERIC(18,2) holds
  MaxDay        \* bound: the days that pass

ASSUME BillingAssumption == MaxMinor \in Nat /\ MaxDay \in Nat \ {0}

VARIABLES
  today,        \* the day in the organization's timezone, on every clock
  rows,         \* the committed rows of the five tables
  worker,       \* worker -> its transaction and its last answer
  usable        \* the accounts that are active and postable

vars == <<today, rows, worker, usable>>

NoCommand == [op |-> "none", request |-> 0]
NoRow == [command |-> NoCommand, on |-> 0, net |-> 0, tax |-> 0, profile |-> 0]
Idle(answer) == [phase |-> "idle", command |-> NoCommand, began |-> 0, row |-> NoRow,
                 read |-> {}, answer |-> answer]

Init ==
  /\ today = 1
  /\ rows = {}
  /\ worker = [w \in Workers |-> Idle("none")]
  /\ usable = Accounts

-----------------------------------------------------------------------------
(* What a transaction reads. *)

Table(op) == {r \in rows : r.command.op = op}
Find(op, request) == {r \in Table(op) : r.command.request = request}

Profiles == Table("profile")

(* A variant that overlooks the day itself, for the mutant runs.            *)
ProfileBefore(day) ==
  {p \in Profiles : /\ p.command.from < day
                    /\ \A q \in Profiles : q.command.from < day
                                             => q.command.from <= p.command.from}

(* profile_on: the latest declaration effective on the day.                 *)
ProfileOn(day) ==
  {p \in Profiles : /\ p.command.from <= day
                    /\ \A q \in Profiles : q.command.from <= day
                                             => q.command.from <= p.command.from}

RegisteredOn(day) == {p \in ProfileOn(day) : p.command.status = "REGISTERED"}

Sum(amounts) == FoldLeft(LAMBDA a, b : a + b, 0, amounts)

(* The stored line totals, and the total of the page's own preview.         *)
LineTotals(lines) == [n \in DOMAIN lines |-> line_amount(lines[n][1], lines[n][2])]
draftTotalCents(lines) == Sum([n \in DOMAIN lines |-> draftLineCents(lines[n][1], lines[n][2])])

Net(draft) == Sum(LineTotals(draft.command.lines))

(* What the schemas let through.  That a sum of amounts is an amount needs  *)
(* induction on the lines; it is assumed here of each command.              *)
ASSUME CommandsAssumption ==
  \A c \in Commands :
    /\ c.op \in {"customer", "draft", "profile", "assessment", "charge"}
    /\ c.op = "draft" => /\ c.lines \in Seq(Nat \X Nat) /\ Len(c.lines) \in 1..100
                         /\ Sum(LineTotals(c.lines)) \in Nat
    /\ c.op = "profile" => c.from \in Nat
    /\ c.op \in {"assessment", "charge"} => c.date \in Nat
    /\ c.op = "charge" => c.accounts \subseteq Accounts

-----------------------------------------------------------------------------
(* What the application accepts; a command it does not accept is refused    *)
(* with ConflictError or NotFoundError.                                     *)

AcceptsDraft(c) ==
  /\ \A n \in DOMAIN c.lines : LineTotals(c.lines)[n] <= MaxMinor
  /\ Sum(LineTotals(c.lines)) <= MaxMinor

AcceptsProfile(c) ==
  /\ c.from >= today
  /\ \A p \in Profiles : p.command.from < c.from

Gross(net) == net + standard_vat(net)

AcceptsAssessment(c) ==
  /\ RegisteredOn(c.date) # {}
  /\ \E d \in Find("draft", c.draft) : Net(d) > 0 /\ Gross(Net(d)) <= MaxMinor

ChargesOf(draft) == {r \in Table("charge") :
                       \E a \in Find("assessment", r.command.assessment) : a.command.draft = draft}

(* A variant that trusts the assessment's profile, for the mutant runs.      *)
AcceptsChargeUnchecked(c) ==
  /\ Find("customer", c.customer) # {}
  /\ \E a \in Find("assessment", c.assessment) :
       c.date = a.command.date /\ c.date <= today /\ ChargesOf(a.command.draft) = {}
  /\ c.accounts \subseteq usable

(* approve_charge checks everything the assessment was made from again, and *)
(* reads the accounts, whose rows it does not lock.                         *)
AcceptsCharge(c) ==
  /\ Find("customer", c.customer) # {}
  /\ c.date <= today
  /\ \E a \in Find("assessment", c.assessment) :
       /\ c.date = a.command.date
       /\ ChargesOf(a.command.draft) = {}
       /\ \E p \in RegisteredOn(c.date) : p.command.request = a.profile
  /\ c.accounts \subseteq usable

Accepts(c) ==
  \/ c.op = "customer"
  \/ c.op = "draft" /\ AcceptsDraft(c)
  \/ c.op = "profile" /\ AcceptsProfile(c)
  \/ c.op = "assessment" /\ AcceptsAssessment(c)
  \/ c.op = "charge" /\ AcceptsCharge(c)

(* The accounts of a charge that can be posted to when approve_charge reads *)
(* them; its session never reads them again.                                *)
Reads(c) == IF c.op = "charge" THEN c.accounts \cap usable ELSE {}

(* The row an accepted command inserts.                                     *)
Row(c, net, tax, profile) ==
  [command |-> c, on |-> today, net |-> net, tax |-> tax, profile |-> profile]

RowsOf(c) ==
  CASE c.op = "draft" -> {Row(c, Sum(LineTotals(c.lines)), 0, 0)}
    [] c.op = "assessment" ->
         {Row(c, Net(d), standard_vat(Net(d)), p.command.request) :
            d \in Find("draft", c.draft), p \in ProfileOn(c.date)}
    [] c.op = "charge" -> {Row(c, a.net, a.tax, a.profile) : a \in Find("assessment", c.assessment)}
    [] OTHER -> {Row(c, 0, 0, 0)}

-----------------------------------------------------------------------------
(* What the database accepts of a row.  CURRENT_TIMESTAMP is the time the   *)
(* transaction began, not the time of the statement.                        *)

LinesExact(c) == \A n \in DOMAIN c.lines :
                   LineTotals(c.lines)[n] = SqlLineTotal(c.lines[n][1], c.lines[n][2])

GuardDraft(row) ==
  /\ Len(row.command.lines) \in 1..100
  /\ LinesExact(row.command)
  /\ row.net \in 0..MaxMinor

GuardProfile(row, began) ==
  /\ row.command.from >= began
  /\ \A p \in Profiles : p.command.from < row.command.from

GuardAssessment(row) ==
  /\ row.net > 0 /\ row.net + row.tax <= MaxMinor
  /\ row.tax = SqlStandardVat(row.net)
  /\ \E d \in Find("draft", row.command.draft) : d.net = row.net
  /\ \E p \in RegisteredOn(row.command.date) : p.command.request = row.profile

(* guard_service_charge: the day has begun, the source and the profile are  *)
(* the assessment's, the accounts can be posted to.                         *)
GuardDay(row, began) == row.command.date <= began

GuardSource(row) ==
  \E a \in Find("assessment", row.command.assessment) :
    /\ a.command.date = row.command.date
    /\ ChargesOf(a.command.draft) = {}
    /\ \E d \in Find("draft", a.command.draft) : d.net = a.net /\ d.net > 0
    /\ \E p \in RegisteredOn(row.command.date) : p.command.request = a.profile

GuardMapping(row) == row.command.accounts \subseteq usable

GuardCharge(row, began) == GuardDay(row, began) /\ GuardSource(row) /\ GuardMapping(row)

DatabaseAccepts(row, began) ==
  /\ Find(row.command.op, row.command.request) = {}
  /\ row.command.op = "draft" => GuardDraft(row)
  /\ row.command.op = "profile" => GuardProfile(row, began)
  /\ row.command.op = "assessment" => GuardAssessment(row)
  /\ row.command.op = "charge" => GuardCharge(row, began)

-----------------------------------------------------------------------------
(* A worker's transaction. *)

Begin(w) ==
  /\ worker[w].phase = "idle"
  /\ \E c \in Commands :
       worker' = [worker EXCEPT ![w] = [phase |-> "waiting", command |-> c, began |-> today,
                                        row |-> NoRow, read |-> {}, answer |-> "none"]]
  /\ UNCHANGED <<today, rows, usable>>

Holds(w) == worker[w].phase \in {"holding", "accepted", "flushed"}

LockOrganization(w) ==
  /\ worker[w].phase = "waiting"
  /\ \A v \in Workers : ~ Holds(v)
  /\ worker' = [worker EXCEPT ![w].phase = "holding"]
  /\ UNCHANGED <<today, rows, usable>>

End(w, answer) == worker' = [worker EXCEPT ![w] = Idle(answer)]

OnRecord(c) == Find(c.op, c.request) # {}
Same(c) == \E r \in rows : r.command = c

(* A variant that looks for the request last, for the mutant runs.          *)
ReplayChecked(w) ==
  LET c == worker[w].command
  IN OnRecord(c) /\ End(w, IF Same(c) /\ Accepts(c) THEN "ok" ELSE "refused")

(* A request id that is on record answers its row again, or conflicts when  *)
(* the content is another; this comes before every other check.             *)
Replay(w) ==
  LET c == worker[w].command
  IN OnRecord(c) /\ End(w, IF Same(c) THEN "ok" ELSE "refused")

FirstTime(w) ==
  LET c == worker[w].command
  IN /\ ~ OnRecord(c)
     /\ IF Accepts(c)
          THEN \E row \in RowsOf(c) :
                 worker' = [worker EXCEPT ![w].phase = "accepted", ![w].row = row,
                                          ![w].read = Reads(c)]
          ELSE End(w, "refused")

(* A charge may also be refused by the ledger: an unusable account, a       *)
(* closed period, the opening cutover, a request id of a journal entry.     *)
LedgerRefuses(w) ==
  /\ worker[w].command.op = "charge" /\ ~ OnRecord(worker[w].command)
  /\ End(w, "refused")

(* The command itself, under the lock.                                      *)
Execute(w) ==
  /\ worker[w].phase = "holding"
  /\ Replay(w) \/ FirstTime(w) \/ LedgerRefuses(w)
  /\ UNCHANGED <<today, rows, usable>>

(* The rows are written; the triggers lock the organization, and unique     *)
(* indexes wait for each other, whether or not the application did.         *)
Flush(w) ==
  /\ worker[w].phase = "accepted"
  /\ \A v \in Workers : worker[v].phase # "flushed"
  /\ IF DatabaseAccepts(worker[w].row, worker[w].began)
       THEN worker' = [worker EXCEPT ![w].phase = "flushed"]
       ELSE End(w, "broken")
  /\ UNCHANGED <<today, rows, usable>>

Commit(w) ==
  /\ worker[w].phase = "flushed"
  /\ rows' = rows \cup {worker[w].row}
  /\ End(w, "ok")
  /\ UNCHANGED <<today, usable>>

(* The worker dies or loses its connection; nothing of it remains.          *)
Crash(w) ==
  /\ worker[w].phase # "idle"
  /\ End(w, "none")
  /\ UNCHANGED <<today, rows, usable>>

Midnight ==
  /\ today < MaxDay
  /\ today' = today + 1
  /\ UNCHANGED <<rows, worker, usable>>

(* An administrator's update of an account, which waits for no command: the *)
(* organization row does not cover it.                                      *)
SwitchAccount ==
  /\ \E a \in Accounts : usable' \in {usable \ {a}, usable \cup {a}}
  /\ UNCHANGED <<today, rows, worker>>

Next ==
  \/ \E w \in Workers :
       Begin(w) \/ LockOrganization(w) \/ Execute(w) \/ Flush(w) \/ Commit(w) \/ Crash(w)
  \/ Midnight
  \/ SwitchAccount

Spec == Init /\ [][Next]_vars

-----------------------------------------------------------------------------
(* Properties *)

(* Rows are commands with amounts that fit their columns, and a transaction *)
(* that ended leaves nothing in its session.                                *)
TypeOK ==
  /\ today \in 1..MaxDay
  /\ \A r \in rows : /\ r.command \in Commands
                     /\ {r.net, r.tax} \subseteq 0..MaxMinor
                     /\ r.on \in 1..today
  /\ \A w \in Workers :
       /\ worker[w].phase \in {"idle", "waiting", "holding", "accepted", "flushed"}
       /\ worker[w].answer \in {"none", "ok", "refused", "broken"}
       /\ worker[w].began \in 0..today
       /\ worker[w].row = NoRow <=> worker[w].phase \notin {"accepted", "flushed"}
       /\ worker[w].read \subseteq Accounts
  /\ usable \subseteq Accounts

(* What the application accepted the database accepts, whatever the other   *)
(* workers did meanwhile.  A charge alone can still be refused, and for two *)
(* reasons only: its day began while its transaction was under way, or one  *)
(* of its accounts, all usable as the application read them, was switched   *)
(* off since.                                                               *)
GuardsAgree ==
  \A w \in Workers :
    LET row == worker[w].row
        began == worker[w].began
    IN worker[w].phase = "accepted" =>
         \/ DatabaseAccepts(row, began)
         \/ /\ row.command.op = "charge"
            /\ Find("charge", row.command.request) = {} /\ GuardSource(row)
            /\ row.command.date <= row.on /\ row.command.accounts \subseteq worker[w].read
            /\ ~ GuardDay(row, began) \/ ~ GuardMapping(row)

(* Every charge was made, and stays, under the registered profile that was  *)
(* in force on its booking date; a later declaration takes effect later,    *)
(* except on the very day the charge was approved.                          *)
ChargesKeepProfile ==
  \A r \in Table("charge") :
    \E p \in Profiles :
      /\ p.command.request = r.profile
      /\ p.command.status = "REGISTERED" /\ p.command.from <= r.command.date
      /\ \A q \in Profiles :
           p.command.from < q.command.from =>
             \/ r.command.date < q.command.from
             \/ q.command.from = r.command.date /\ q.on = r.command.date /\ r.on = r.command.date

(* The page's preview, the stored totals and the assessed amounts of a      *)
(* draft come to the same cents, and one draft is charged once.             *)
AmountsAgree ==
  /\ \A d \in Table("draft") : d.net = draftTotalCents(d.command.lines)
  /\ \A a \in Table("assessment") :
       \E d \in Find("draft", a.command.draft) : d.net = a.net
  /\ \A d \in Table("draft") : Cardinality(ChargesOf(d.command.request)) <= 1

(* A command that was committed is answered with its row for ever, although *)
(* its date has passed or the profile has changed.                          *)
ReplaysAnswerOriginal ==
  [][\A w \in Workers :
       worker[w].phase = "holding" /\ Same(worker[w].command)
         => worker'[w].phase = "holding" \/ worker'[w].answer \in {"ok", "none"}]_vars

(* The workers implement tables that grow by one admissible row at a time,  *)
(* with the amounts the page previewed and the tax the database expects.    *)
Promise == INSTANCE BillingPromise WITH Total <- draftTotalCents, Tax <- SqlStandardVat
KeepsPromise == Promise!Spec
=============================================================================
