------------------------------- MODULE Ledger -------------------------------
(***************************************************************************)
(* The accounting domain of one organization: server workers that post     *)
(* journals, reverse them, post the initial opening balance, approve       *)
(* service charges, and create and close accounting periods.               *)
(*                                                                         *)
(* A request runs in one database transaction at READ COMMITTED.  It is    *)
(* authorized from what it reads first (the context, the branch, the entry *)
(* to reverse), then waits for the organization row (SELECT ... FOR        *)
(* UPDATE), then runs its handler on the committed tables, then commits.   *)
(* The tables below are what is committed; rows[w] is what worker w has    *)
(* flushed and not yet committed.                                          *)
(*                                                                         *)
(* A row id is the entry's position in the journal.  The request digest    *)
(* (SHA-256 of the normalized command) is the command itself.              *)
(***************************************************************************)
EXTENDS Naturals, FiniteSets, Sequences

CONSTANTS
  Workers,          \* server threads, each running one transaction at a time
  Requests,         \* request UUIDs
  Drafts,           \* service drafts a charge may name
  Branches,         \* branch ids a command may name
  Dates,            \* booking dates
  Accounts,         \* account ids a command may name
  Payloads,         \* lists of journal lines that pass the schema
  Commands,         \* the commands clients send
  InitialAccounts,  \* status of each account at the start
  InitialBranches,  \* status of each branch at the start
  InitialGrants,    \* <<permission, scope>> pairs of the caller at the start
  Revocable,        \* bound: the grants that may be taken away
  Volatile,         \* bound: the accounts that may be deactivated
  Currency,         \* the organization's currency
  NoBranch,         \* branch_id is NULL
  NoWorker,         \* nobody holds the organization row
  NoCommand         \* an idle worker

VARIABLES
  journal,        \* committed POSTED entries
  periods,        \* status of each date range: "NONE", "OPEN" or "CLOSED"
  batches,        \* committed opening_balance_batches rows
  charges,        \* committed service_charges rows
  accountStatus,  \* "ABSENT", "SUMMARY", "ACTIVE" or "INACTIVE"
  branchStatus,   \* "ABSENT", "ACTIVE" or "INACTIVE"
  grants,         \* the caller's current <<permission, scope>> pairs
  orgLock,        \* the worker that holds the organization row, or NoWorker
  stage,          \* where each worker is in its transaction
  cmd,            \* the command each worker serves
  ctx,            \* the permissions loaded into the request's Context
  rows,           \* rows flushed and not committed
  answer          \* what the worker answers

tables == <<journal, periods, batches, charges>>
settings == <<accountStatus, branchStatus, grants>>
vars == <<tables, settings, orgLock, stage, cmd, ctx, rows, answer>>

-----------------------------------------------------------------------------
(* Types *)

Permissions == {"post", "reverse", "opening", "periods", "approve"}
Scopes == Branches \cup {NoBranch}
Ranges == {r \in Dates \X Dates : r[1] <= r[2]}   \* AccountingPeriodIn.positive_range

PostCommand == [op : {"post"}, request : Requests, branch : Scopes, date : Dates, lines : Payloads]
ReverseCommand == [op : {"reverse"}, request : Requests, date : Dates, entry : Nat \ {0}]
OpeningCommand == [op : {"opening"}, request : Requests, date : Dates, lines : Payloads]
ChargeCommand == [op : {"charge"}, request : Requests, draft : Drafts, date : Dates, lines : Payloads,
                  accounts : SUBSET Accounts]   \* receivable, revenue and tax; the lines may omit tax
PeriodCommand == [op : {"create_period", "close_period"}, range : Ranges]

Line == [account : Accounts, debit : Nat, credit : Nat]
Entry == [request : Requests, digest : Commands, branch : Scopes, date : Dates,
          lines : Seq(Line), reversalOf : Nat]

AccountsOf(lines) == {lines[n].account : n \in DOMAIN lines}

(* The schema's sum, and what it sums: one side of the lines. *)
Total(amounts) ==
  LET total[n \in 0..Len(amounts)] == IF n = 0 THEN 0 ELSE total[n - 1] + amounts[n]
  IN total[Len(amounts)]

SideTotal(lines, side) == Total([n \in DOMAIN lines |-> lines[n][side]])

(* LineIn.one_side and JournalIn.balanced. *)
JournalIn(lines) ==
  /\ Len(lines) >= 2
  /\ \A n \in DOMAIN lines : (lines[n].debit > 0) # (lines[n].credit > 0)
  /\ SideTotal(lines, "debit") = SideTotal(lines, "credit")

ASSUME NamesAssumption ==
  /\ NoBranch \notin Branches
  /\ NoWorker \notin Workers
  /\ NoCommand \notin Commands
  /\ Dates \subseteq Nat
  /\ InitialAccounts \in [Accounts -> {"ABSENT", "SUMMARY", "ACTIVE", "INACTIVE"}]
  /\ InitialBranches \in [Branches -> {"ABSENT", "ACTIVE", "INACTIVE"}]
  /\ InitialGrants \subseteq Permissions \X Scopes
  /\ Volatile \subseteq Accounts

ASSUME PayloadsAssumption ==
  /\ Payloads \subseteq Seq(Line)
  /\ \A lines \in Payloads : JournalIn(lines)

ASSUME CommandsAssumption ==
  Commands \subseteq PostCommand \cup ReverseCommand \cup OpeningCommand
                     \cup ChargeCommand \cup PeriodCommand

ASSUME MappingsAssumption ==
  \A c \in Commands : c.op = "charge" => AccountsOf(c.lines) \subseteq c.accounts

NoRows == [entry |-> <<>>, opening |-> FALSE, charge |-> {}, period |-> <<>>]
EntryRows(e, opening) == [entry |-> <<e>>, opening |-> opening, charge |-> {}, period |-> <<>>]
PeriodRows(range, status) ==
  [entry |-> <<>>, opening |-> FALSE, charge |-> {}, period |-> <<range, status>>]
NoAnswer == [status |-> "none", entry |-> 0]

-----------------------------------------------------------------------------
Init ==
  /\ journal = <<>>
  /\ periods = [r \in Ranges |-> "NONE"]
  /\ batches = {}
  /\ charges = {}
  /\ accountStatus = InitialAccounts
  /\ branchStatus = InitialBranches
  /\ grants = InitialGrants
  /\ orgLock = NoWorker
  /\ stage = [w \in Workers |-> "idle"]
  /\ cmd = [w \in Workers |-> NoCommand]
  /\ ctx = [w \in Workers |-> {}]
  /\ rows = [w \in Workers |-> NoRows]
  /\ answer = [w \in Workers |-> NoAnswer]

-----------------------------------------------------------------------------
(* Before the lock: authorization from the request's own context *)

(* Context.permits: a global grant, or a grant on the branch. *)
Permits(held, permission, scope) ==
  <<permission, NoBranch>> \in held \/ <<permission, scope>> \in held

(* authorize and scoped_branch, as the error they raise or "none". *)
Authorize(held, permission, scope, mustBeActive) ==
  IF scope # NoBranch /\ branchStatus[scope] = "ABSENT" THEN "not_found"
  ELSE IF ~Permits(held, permission, scope) THEN "denied"
  ELSE IF mustBeActive /\ scope # NoBranch /\ branchStatus[scope] # "ACTIVE" THEN "conflict"
  ELSE "none"

RequireAll(held, permissions) ==
  IF \A p \in permissions : Permits(held, p, NoBranch) THEN "none" ELSE "denied"

(* The context is loaded, then the pre-lock checks raise `error` or the     *)
(* request goes on to wait for the organization row.                        *)
Begin(w, c, error) ==
  /\ stage[w] = "idle"
  /\ cmd' = [cmd EXCEPT ![w] = c]
  /\ ctx' = [ctx EXCEPT ![w] = grants]
  /\ \/ /\ error = "none"
        /\ stage' = [stage EXCEPT ![w] = "waiting"]
        /\ UNCHANGED answer
     \/ /\ error # "none"
        /\ stage' = [stage EXCEPT ![w] = "done"]
        /\ answer' = [answer EXCEPT ![w] = [status |-> error, entry |-> 0]]
  /\ UNCHANGED <<tables, settings, orgLock, rows>>

BeginPost(w) == \E c \in Commands :
  /\ c.op = "post"
  /\ Begin(w, c, Authorize(grants, "post", c.branch, TRUE))

(* scoped_entry, then the posting permission on the entry's branch. *)
ReverseError(c) ==
  IF c.entry \notin DOMAIN journal THEN "not_found"
  ELSE LET branch == journal[c.entry].branch
           first == Authorize(grants, "reverse", branch, FALSE)
       IN IF first # "none" THEN first ELSE Authorize(grants, "post", branch, FALSE)

BeginReverse(w) == \E c \in Commands :
  /\ c.op = "reverse"
  /\ Begin(w, c, ReverseError(c))

BeginOpening(w) == \E c \in Commands :
  /\ c.op = "opening"
  /\ Begin(w, c, RequireAll(grants, {"opening", "post"}))

BeginCharge(w) == \E c \in Commands :
  /\ c.op = "charge"
  /\ Begin(w, c, RequireAll(grants, {"approve", "post"}))

BeginPeriod(w) == \E c \in Commands :
  /\ c.op \in {"create_period", "close_period"}
  /\ Begin(w, c, RequireAll(grants, {"periods"}))

(* SELECT ... FOR UPDATE: the worker waits until no transaction holds the row. *)
LockOrganizationSkipped(w) ==
  /\ stage[w] = "waiting"
  /\ orgLock' = w
  /\ stage' = [stage EXCEPT ![w] = "locked"]
  /\ UNCHANGED <<tables, settings, cmd, ctx, rows, answer>>

LockOrganization(w) ==
  /\ stage[w] = "waiting"
  /\ orgLock = NoWorker
  /\ orgLock' = w
  /\ stage' = [stage EXCEPT ![w] = "locked"]
  /\ UNCHANGED <<tables, settings, cmd, ctx, rows, answer>>

-----------------------------------------------------------------------------
(* Under the lock: how a handler ends *)

(* An exception: the session closes, its transaction rolls back. *)
Refuse(w, error) ==
  /\ orgLock' = NoWorker
  /\ stage' = [stage EXCEPT ![w] = "done"]
  /\ answer' = [answer EXCEPT ![w] = [status |-> error, entry |-> 0]]
  /\ rows' = [rows EXCEPT ![w] = NoRows]
  /\ UNCHANGED <<tables, settings, cmd, ctx>>

(* The rows are flushed inside the transaction; `found` is the entry an     *)
(* earlier submission already committed, or 0.                              *)
Flush(w, flushed, found) ==
  /\ stage' = [stage EXCEPT ![w] = "written"]
  /\ rows' = [rows EXCEPT ![w] = flushed]
  /\ answer' = [answer EXCEPT ![w] = [status |-> "ok", entry |-> found]]
  /\ UNCHANGED <<tables, settings, orgLock, cmd, ctx>>

NothingRecorded(c) == {}
Recorded(c) == {n \in DOMAIN journal : journal[n].request = c.request}
ChargeOf(c) == {row \in charges : row.request = c.request}
Reversed(n) == \E i \in DOMAIN journal : journal[i].reversalOf = n
Opens(n) == \E batch \in batches : batch.journal = n
Charged(n) == \E row \in charges : row.journal = n

(* existing_request once a row was found: its branch is authorized again    *)
(* before its digest is compared; an opening replay also needs its batch.   *)
ReplayErrorIgnoresDigest(w, n) ==
  IF Authorize(ctx[w], "post", journal[n].branch, FALSE) # "none"
    THEN Authorize(ctx[w], "post", journal[n].branch, FALSE)
  ELSE "none"

ReplayError(w, n) ==
  IF Authorize(ctx[w], "post", journal[n].branch, FALSE) # "none"
    THEN Authorize(ctx[w], "post", journal[n].branch, FALSE)
  ELSE IF journal[n].digest # cmd[w] \/ (cmd[w].op = "opening" /\ ~Opens(n))
    THEN "conflict"
  ELSE "none"

Replay(w) == \E n \in Recorded(cmd[w]) :
  \/ /\ ReplayError(w, n) = "none"
     /\ Flush(w, NoRows, n)
  \/ /\ ReplayError(w, n) # "none"
     /\ Refuse(w, ReplayError(w, n))

-----------------------------------------------------------------------------
(* write_entry *)

AccountsUsable(e) == \A a \in AccountsOf(e.lines) :
  /\ accountStatus[a] # "SUMMARY"
  /\ e.reversalOf = 0 => accountStatus[a] = "ACTIVE"

PeriodNeverChecked(date) == FALSE

InClosedPeriod(date) == \E r \in Ranges :
  periods[r] = "CLOSED" /\ r[1] <= date /\ date <= r[2]

AfterCutover(date) == \A batch \in batches : date > batch.date

WriteError(e) ==
  IF \E a \in AccountsOf(e.lines) : accountStatus[a] = "ABSENT" THEN "not_found"
  ELSE IF /\ AccountsUsable(e)
          /\ ~InClosedPeriod(e.date)
          /\ AfterCutover(e.date)
          /\ Currency = "SAR"
    THEN "none"
  ELSE "conflict"

WriteEntry(w, e, opening) ==
  \/ /\ WriteError(e) = "none"
     /\ Flush(w, EntryRows(e, opening), 0)
  \/ /\ WriteError(e) # "none"
     /\ Refuse(w, WriteError(e))

EntryFor(c, branch, lines, reversalOf) ==
  [request |-> c.request, digest |-> c, branch |-> branch, date |-> c.date,
   lines |-> lines, reversalOf |-> reversalOf]

-----------------------------------------------------------------------------
(* The handlers *)

Serving(w, op) == stage[w] = "locked" /\ cmd[w].op = op

(* The write is tried before the replay: a plausible reordering. *)
PostJournalChecksFirst(w) ==
  /\ Serving(w, "post")
  /\ LET e == EntryFor(cmd[w], cmd[w].branch, cmd[w].lines, 0)
     IN \/ WriteError(e) # "none" /\ Refuse(w, WriteError(e))
        \/ WriteError(e) = "none" /\ Replay(w)
        \/ Recorded(cmd[w]) = {} /\ WriteError(e) = "none" /\ WriteEntry(w, e, FALSE)

PostJournal(w) ==
  /\ Serving(w, "post")
  /\ \/ Replay(w)
     \/ /\ Recorded(cmd[w]) = {}
        /\ WriteEntry(w, EntryFor(cmd[w], cmd[w].branch, cmd[w].lines, 0), FALSE)

Swap(lines) ==
  [n \in DOMAIN lines |->
     [account |-> lines[n].account, debit |-> lines[n].credit, credit |-> lines[n].debit]]

ReversibleTwice(n) == journal[n].reversalOf = 0 /\ ~Opens(n) /\ ~Charged(n)
Reversible(n) ==
  /\ ~Opens(n)
  /\ ~Charged(n)
  /\ journal[n].reversalOf = 0
  /\ ~Reversed(n)

ReverseJournal(w) ==
  /\ Serving(w, "reverse")
  /\ LET original == journal[cmd[w].entry]
     IN \/ Replay(w)
        \/ /\ Recorded(cmd[w]) = {}
           /\ \/ ~Reversible(cmd[w].entry) /\ Refuse(w, "conflict")
              \/ /\ Reversible(cmd[w].entry)
                 /\ WriteEntry(w, EntryFor(cmd[w], original.branch, Swap(original.lines),
                                           cmd[w].entry), FALSE)

HistoryIgnored(date) == {}
PostedBy(date) == {n \in DOMAIN journal : journal[n].date <= date}

PostInitialOpening(w) ==
  /\ Serving(w, "opening")
  /\ \/ Replay(w)
     \/ /\ Recorded(cmd[w]) = {}
        /\ \/ (batches # {} \/ PostedBy(cmd[w].date) # {}) /\ Refuse(w, "conflict")
           \/ /\ batches = {}
              /\ PostedBy(cmd[w].date) = {}
              /\ WriteEntry(w, EntryFor(cmd[w], NoBranch, cmd[w].lines, 0), TRUE)

DraftChargedForgotten(draft) == FALSE
DraftCharged(draft) == \E row \in charges : row.draft = draft

(* The three accounts are read without a lock, before write_entry.          *)
MappingExists(c) == \A a \in c.accounts : accountStatus[a] # "ABSENT"
MappingUsable(c) == \A a \in c.accounts : accountStatus[a] = "ACTIVE"

(* The subledger's own replay comes first, then the UUID namespace it       *)
(* shares with the journal, then the source and account checks, any of      *)
(* which may refuse.  The journal entry is flushed; its charge is now due.  *)
ApproveCharge(w) ==
  /\ Serving(w, "charge")
  /\ \/ \E old \in ChargeOf(cmd[w]) :
          \/ old.digest = cmd[w] /\ Flush(w, NoRows, old.journal)
          \/ old.digest # cmd[w] /\ Refuse(w, "conflict")
     \/ /\ ChargeOf(cmd[w]) = {}
        /\ \/ \E error \in {"not_found", "conflict"} : Refuse(w, error)
           \/ /\ Recorded(cmd[w]) = {}
              /\ ~DraftCharged(cmd[w].draft)
              /\ MappingUsable(cmd[w])
              /\ WriteEntry(w, EntryFor(cmd[w], NoBranch, cmd[w].lines, 0), FALSE)

ChargeDue(w) ==
  /\ stage[w] = "written" /\ cmd[w].op = "charge"
  /\ rows[w].entry # <<>> /\ rows[w].charge = {}

ChargeRow(c) == [request |-> c.request, digest |-> c, draft |-> c.draft]

(* guard_service_charge reads the three accounts again, at the insert.      *)
MappingTriggerAccepts(c) == \A a \in c.accounts : accountStatus[a] = "ACTIVE"

(* The charge is inserted.  The trigger may raise, for the accounts or for  *)
(* the source (Billing): an error nobody handles, and the entry goes too.   *)
InsertCharge(w) ==
  /\ ChargeDue(w)
  /\ \/ /\ MappingTriggerAccepts(cmd[w])
        /\ rows' = [rows EXCEPT ![w].charge = {ChargeRow(cmd[w])}]
        /\ UNCHANGED <<tables, settings, orgLock, stage, cmd, ctx, answer>>
     \/ Refuse(w, "failed")

Overlap(r, s) == r[1] <= s[2] /\ s[1] <= r[2]
PeriodsOverlapping(r) == {s \in Ranges : periods[s] # "NONE" /\ Overlap(r, s)}

CreatePeriod(w) ==
  /\ Serving(w, "create_period")
  /\ \/ PeriodsOverlapping(cmd[w].range) # {} /\ Refuse(w, "conflict")
     \/ /\ PeriodsOverlapping(cmd[w].range) = {}
        /\ Flush(w, PeriodRows(cmd[w].range, "OPEN"), 0)

ClosePeriod(w) ==
  /\ Serving(w, "close_period")
  /\ \/ periods[cmd[w].range] = "NONE" /\ Refuse(w, "not_found")
     \/ periods[cmd[w].range] = "CLOSED" /\ Refuse(w, "conflict")
     \/ /\ periods[cmd[w].range] = "OPEN"
        /\ Flush(w, PeriodRows(cmd[w].range, "CLOSED"), 0)

Handle(w) ==
  \/ PostJournal(w) \/ ReverseJournal(w) \/ PostInitialOpening(w)
  \/ ApproveCharge(w) \/ CreatePeriod(w) \/ ClosePeriod(w)

-----------------------------------------------------------------------------
(* After the handler *)

CommittedPeriods(row) ==
  IF row = <<>> THEN periods ELSE [periods EXCEPT ![row[1]] = row[2]]

Commit(w) ==
  /\ stage[w] = "written" /\ ~ChargeDue(w)
  /\ LET n == Len(journal) + 1
         new == rows[w].entry
     IN /\ journal' = journal \o new
        /\ batches' = IF rows[w].opening
                        THEN batches \cup {[journal |-> n, date |-> new[1].date]} ELSE batches
        /\ charges' = charges \cup
             {[request |-> row.request, digest |-> row.digest, draft |-> row.draft,
               journal |-> n] : row \in rows[w].charge}
        /\ answer' = IF new = <<>> THEN answer ELSE [answer EXCEPT ![w].entry = n]
  /\ periods' = CommittedPeriods(rows[w].period)
  /\ rows' = [rows EXCEPT ![w] = NoRows]
  /\ orgLock' = NoWorker
  /\ stage' = [stage EXCEPT ![w] = "done"]
  /\ UNCHANGED <<settings, cmd, ctx>>

Reset(w) ==
  /\ stage' = [stage EXCEPT ![w] = "idle"]
  /\ cmd' = [cmd EXCEPT ![w] = NoCommand]
  /\ ctx' = [ctx EXCEPT ![w] = {}]
  /\ rows' = [rows EXCEPT ![w] = NoRows]
  /\ answer' = [answer EXCEPT ![w] = NoAnswer]
  /\ UNCHANGED <<tables, settings>>

(* The response leaves the server; whether it arrives is the client's       *)
(* problem, who may send the same command again.                            *)
Respond(w) ==
  /\ stage[w] = "done"
  /\ Reset(w)
  /\ UNCHANGED orgLock

(* The worker or its connection dies before the commit: the database rolls  *)
(* the transaction back and frees the row.                                  *)
CrashLeavesRow(w) ==
  /\ stage[w] \in {"waiting", "locked", "written"}
  /\ Reset(w)
  /\ UNCHANGED orgLock

Crash(w) ==
  /\ stage[w] \in {"waiting", "locked", "written"}
  /\ Reset(w)
  /\ orgLock' = IF orgLock = w THEN NoWorker ELSE orgLock

-----------------------------------------------------------------------------
(* What changes around the ledger.  The branch and membership endpoints add *)
(* an audit row whose foreign key needs the organization row, so they wait  *)
(* for whoever holds it; an administrator's SQL on an account does not.     *)

(* SUSPENDED is refused like INACTIVE; the model has one of the two.        *)
AnyStatus == {"ACTIVE", "INACTIVE", "ARCHIVED"}
BranchStatuses == {"ACTIVE", "INACTIVE"}

UpdateBranch(b) ==
  /\ orgLock = NoWorker
  /\ branchStatus[b] # "ABSENT"
  /\ \E status \in BranchStatuses : branchStatus' = [branchStatus EXCEPT ![b] = status]
  /\ UNCHANGED <<tables, accountStatus, grants, orgLock, stage, cmd, ctx, rows, answer>>

RevokeGrant ==
  /\ orgLock = NoWorker
  /\ \E grant \in grants \cap Revocable : grants' = grants \ {grant}
  /\ UNCHANGED <<tables, accountStatus, branchStatus, orgLock, stage, cmd, ctx, rows, answer>>

DeactivateAccount(a) ==
  /\ accountStatus[a] = "ACTIVE"
  /\ accountStatus' = [accountStatus EXCEPT ![a] = "INACTIVE"]
  /\ UNCHANGED <<tables, branchStatus, grants, orgLock, stage, cmd, ctx, rows, answer>>

-----------------------------------------------------------------------------
Serve(w) ==
  \/ BeginPost(w) \/ BeginReverse(w) \/ BeginOpening(w) \/ BeginCharge(w) \/ BeginPeriod(w)
  \/ LockOrganization(w) \/ Handle(w) \/ InsertCharge(w) \/ Commit(w) \/ Respond(w) \/ Crash(w)

Around ==
  \/ \E b \in Branches : UpdateBranch(b)
  \/ \E a \in Volatile : DeactivateAccount(a)
  \/ RevokeGrant

Next == (\E w \in Workers : Serve(w)) \/ Around

Spec == Init /\ [][Next]_vars

(* A worker that holds the row runs on; PostgreSQL queues row waiters, so a *)
(* waiter whose turn keeps coming is granted the row.                       *)
Fairness == \A w \in Workers :
  /\ WF_vars(Handle(w))
  /\ WF_vars(InsertCharge(w))
  /\ WF_vars(Commit(w))
  /\ SF_vars(LockOrganization(w))

FairSpec == Spec /\ Fairness

-----------------------------------------------------------------------------
(* What the database would say (migrations 0002 to 0005 and 0010) *)

UniqueKeysAccept(e) ==
  /\ \A n \in DOMAIN journal : journal[n].request # e.request
  /\ e.reversalOf # 0 => ~Reversed(e.reversalOf)

BalanceTriggerAccepts(e) == JournalIn(e.lines)

PostableTriggerAccepts(e) ==
  \A a \in AccountsOf(e.lines) : accountStatus[a] \notin {"ABSENT", "SUMMARY"}

ClosedPeriodTriggerAccepts(e) ==
  \A r \in Ranges : periods[r] = "CLOSED" => e.date \notin r[1]..r[2]

CutoverTriggerAccepts(e) ==
  \A batch \in batches : e.reversalOf # batch.journal /\ e.date > batch.date

ChargeReversalTriggerAccepts(e) == \A row \in charges : e.reversalOf # row.journal

ChargeReconciles(row, e) ==
  /\ e.branch = NoBranch /\ e.reversalOf = 0
  /\ e.date = row.digest.date /\ e.request = row.request /\ e.digest = row.digest
  /\ e.lines = row.digest.lines
  /\ ~Reversed(Len(journal) + 1)

BatchTriggerAccepts(e) ==
  /\ batches = {}
  /\ e.branch = NoBranch
  /\ \A n \in DOMAIN journal : journal[n].date > e.date

PeriodTriggerAccepts(range, status) ==
  IF status = "CLOSED" THEN periods[range] = "OPEN"
  ELSE \A s \in Ranges : periods[s] # "NONE" => ~Overlap(range, s)

ChargeKeysAccept(row) ==
  \A old \in charges : old.draft # row.draft /\ old.request # row.request

EntryAccepted(e) ==
  /\ UniqueKeysAccept(e) /\ BalanceTriggerAccepts(e) /\ PostableTriggerAccepts(e)
  /\ ClosedPeriodTriggerAccepts(e) /\ CutoverTriggerAccepts(e) /\ ChargeReversalTriggerAccepts(e)

(* The charge a worker is about to insert, or none.                         *)
DueCharge(w) == IF ChargeDue(w) THEN {ChargeRow(cmd[w])} ELSE {}

(* Everything the database checks of a transaction but the three accounts.  *)
DatabaseAccepts(w) ==
  /\ rows[w].entry # <<>> => EntryAccepted(rows[w].entry[1])
  /\ rows[w].opening => BatchTriggerAccepts(rows[w].entry[1])
  /\ \A row \in DueCharge(w) : ChargeKeysAccept(row) /\ ChargeReconciles(row, rows[w].entry[1])
  /\ rows[w].period # <<>> => PeriodTriggerAccepts(rows[w].period[1], rows[w].period[2])

-----------------------------------------------------------------------------
(* Properties *)

TablesType ==
  /\ journal \in Seq(Entry)
  /\ periods \in [Ranges -> {"NONE", "OPEN", "CLOSED"}]
  /\ batches \subseteq [journal : DOMAIN journal, date : Dates]
  /\ charges \subseteq [request : Requests, digest : Commands, draft : Drafts, journal : DOMAIN journal]

SettingsType ==
  /\ accountStatus \in [Accounts -> {"ABSENT", "SUMMARY", "ACTIVE", "INACTIVE"}]
  /\ branchStatus \in [Branches -> {"ABSENT", "ACTIVE", "INACTIVE"}]
  /\ grants \subseteq Permissions \X Scopes

RowsType ==
  [entry : Seq(Entry), opening : BOOLEAN,
   charge : SUBSET [request : Requests, digest : Commands, draft : Drafts],
   period : {<<>>} \cup (Ranges \X {"OPEN", "CLOSED"})]

WorkersType ==
  /\ orgLock \in Workers \cup {NoWorker}
  /\ stage \in [Workers -> {"idle", "waiting", "locked", "written", "done"}]
  /\ cmd \in [Workers -> Commands \cup {NoCommand}]
  /\ ctx \in [Workers -> SUBSET (Permissions \X Scopes)]
  /\ rows \in [Workers -> RowsType]
  /\ answer \in [Workers ->
       [status : {"none", "ok", "denied", "not_found", "conflict", "failed"}, entry : Nat]]

(* The type invariant of the tables, their surroundings and the workers.    *)
TypeOK == TablesType /\ SettingsType /\ WorkersType

(* However often and by however many workers a request UUID is submitted,   *)
(* as whatever operation, at most one entry is ever posted for it           *)
(* (existing_request under the organization lock).                          *)
OneEntryPerRequest ==
  \A i, j \in DOMAIN journal : journal[i].request = journal[j].request => i = j

(* A success names the entry of the command it answers: a UUID reused with  *)
(* another payload or operation never adopts somebody else's entry.         *)
AnswersNameTheirCommand == \A w \in Workers :
  stage[w] = "done" /\ answer[w].status = "ok" /\ cmd[w].op \notin {"create_period", "close_period"}
    => /\ answer[w].entry \in DOMAIN journal
       /\ journal[answer[w].entry].digest = cmd[w]

AccountTotal(lines, account, side) ==
  Total([n \in DOMAIN lines |-> IF lines[n].account = account THEN lines[n][side] ELSE 0])

(* A reversal books on the credit side of every account what its original   *)
(* booked on the debit side, and the other way round; nothing is reversed   *)
(* twice, and neither a reversal, an opening nor a charge is reversed at    *)
(* all (reverse_journal).                                                   *)
ReversalsAreFinal == \A i \in DOMAIN journal : LET n == journal[i].reversalOf IN n # 0 =>
  /\ n \in 1..(i - 1)
  /\ journal[n].reversalOf = 0 /\ ~Opens(n) /\ ~Charged(n)
  /\ \A j \in DOMAIN journal : journal[j].reversalOf = n => j = i
  /\ journal[n].branch = journal[i].branch
  /\ \A a \in Accounts :
       /\ AccountTotal(journal[i].lines, a, "credit") = AccountTotal(journal[n].lines, a, "debit")
       /\ AccountTotal(journal[i].lines, a, "debit") = AccountTotal(journal[n].lines, a, "credit")

(* One opening at most, and nothing is ever dated on or before it, whichever*)
(* of the two was posted first.                                             *)
CutoverIsolatesHistory ==
  /\ \A b1, b2 \in batches : b1 = b2
  /\ \A batch \in batches : \A n \in DOMAIN journal :
       IF n = batch.journal THEN journal[n].date = batch.date /\ journal[n].branch = NoBranch
       ELSE journal[n].date > batch.date

(* A charge row and its journal entry exist together or not at all, and a   *)
(* draft is charged once (approve_charge).                                  *)
ChargesMatchJournal ==
  /\ \A row \in charges : journal[row.journal].digest = row.digest
  /\ \A n \in DOMAIN journal : journal[n].digest.op = "charge" => Charged(n)
  /\ \A r1, r2 \in charges : r1.draft = r2.draft => r1 = r2

(* The triggers and unique keys are a second line of defence: nothing the   *)
(* application writes is refused by them, so no request ends in the         *)
(* unhandled error they raise, but for one case: a charge one of whose      *)
(* accounts, postable as approve_charge found it, was deactivated before    *)
(* the charge was inserted.                                                 *)
GuardsFireOnlyOnDeactivation == \A w \in Workers : stage[w] = "written" =>
  /\ DatabaseAccepts(w)
  /\ ChargeDue(w) /\ ~MappingTriggerAccepts(cmd[w]) =>
       \A a \in cmd[w].accounts : accountStatus[a] \in {"ACTIVE", "INACTIVE"}

EntriesIn(r) == {<<n, journal[n]>> : n \in {i \in DOMAIN journal : journal[i].date \in r[1]..r[2]}}

(* Once a period is closed its entries are fixed for good, also against the *)
(* posts and reversals that were under way when it closed (ADR 0014).       *)
ClosedPeriodsAreFrozen == [][\A r \in Ranges : periods[r] = "CLOSED" =>
  EntriesIn(r)' = EntriesIn(r) /\ periods'[r] = "CLOSED"]_vars

(* A command that is already in the journal is answered with its entry once *)
(* it holds the row, whatever was closed, deactivated or opened since       *)
(* (ADR 0014, decision 5); only a missing permission stops it.              *)
ReplaysAnswerOriginal == [][\A w \in Workers : \A n \in DOMAIN journal :
  stage[w] = "locked" /\ stage'[w] \in {"written", "done"} /\ journal[n].digest = cmd[w]
    => answer'[w].status = "denied" \/ answer'[w] = [status |-> "ok", entry |-> n]]_vars

(* A request that waits for the organization row is answered, or dies with  *)
(* its worker: nobody waits forever behind another transaction.             *)
WaitersFinish == \A w \in Workers : stage[w] = "waiting" ~> stage[w] \in {"idle", "done"}

(* The workers together behave as the one-command-at-a-time ledger.         *)
Promise == INSTANCE LedgerPromise
KeepsPromise == Promise!Spec

(* ADR 0010: "Same identity/content returns the original journal".  Stated  *)
(* as it reads: a conflict is never the answer to a command whose entry is  *)
(* already in the journal.                                                  *)
SameCommandNeverConflicts == [][\A w \in Workers :
  stage[w] # "done" /\ stage'[w] = "done" /\ answer'[w].status = "conflict"
    => \A n \in DOMAIN journal : journal[n].digest # cmd'[w]]_vars

(* ADR 0010: "new postings need an active branch".  Stated of the moment    *)
(* the posting is committed.                                                *)
NewPostingsNeedActiveBranch == [][\A n \in DOMAIN journal' \ DOMAIN journal :
  journal'[n].digest.op = "post" /\ journal'[n].branch # NoBranch
    => branchStatus[journal'[n].branch] = "ACTIVE"]_vars

=============================================================================
