---------------------------- MODULE LedgerProofs ----------------------------
(***************************************************************************)
(* Theorems of the ledger for every set of workers, requests, dates and    *)
(* commands.                                                               *)
(***************************************************************************)
EXTENDS Ledger, SequenceTheorems, TLAPS

Errors == {"denied", "not_found", "conflict", "failed"}

(* The organization row is held by exactly the worker between its lock and  *)
(* the end of its transaction; a busy worker has its command, and the entry *)
(* a reversal was authorized on stays in the journal.                       *)
WorkersOK == \A w \in Workers :
  /\ stage[w] # "idle" => cmd[w] \in Commands
  /\ stage[w] \in {"locked", "written"} <=> orgLock = w
  /\ stage[w] \in {"waiting", "locked"} /\ cmd[w].op = "reverse"
       => cmd[w].entry \in DOMAIN journal

(* Rows that may still be committed to the tables j(ournal), p(eriods),     *)
(* b(atches) and c(harges) as they are.                                     *)
SwappedLines(e, f) ==
  /\ e.branch = f.branch
  /\ Len(e.lines) = Len(f.lines)
  /\ \A n \in DOMAIN e.lines :
       /\ e.lines[n].account = f.lines[n].account
       /\ e.lines[n].debit = f.lines[n].credit
       /\ e.lines[n].credit = f.lines[n].debit

ReversalFits(j, b, c, e) ==
  /\ e.reversalOf \in DOMAIN j
  /\ j[e.reversalOf].reversalOf = 0
  /\ SwappedLines(j[e.reversalOf], e)
  /\ \A n \in DOMAIN j : j[n].reversalOf # e.reversalOf
  /\ \A row \in b \cup c : row.journal # e.reversalOf

EntryFits(j, p, b, c, e) ==
  /\ \A n \in DOMAIN j : j[n].request # e.request
  /\ \A r \in Ranges : p[r] = "CLOSED" => e.date < r[1] \/ e.date > r[2]
  /\ \A batch \in b : e.date > batch.date
  /\ e.reversalOf # 0 => ReversalFits(j, b, c, e)

OpeningFits(j, b, e) ==
  /\ b = {}
  /\ e.branch = NoBranch
  /\ e.reversalOf = 0
  /\ \A n \in DOMAIN j : j[n].date > e.date

ChargeFits(c, new) == \E row \in new :
  /\ new = {row}
  /\ \A old \in c : old.draft # row.draft

PeriodFits(p, r, status) ==
  IF status = "CLOSED" THEN p[r] = "OPEN"
  ELSE \A s \in Ranges : p[s] # "NONE" => ~Overlap(r, s)

Fits(j, p, b, c, r) ==
  /\ r.entry # <<>> => /\ Len(r.entry) = 1 /\ r.period = <<>>
                       /\ EntryFits(j, p, b, c, r.entry[1])
  /\ r.opening => r.entry # <<>> /\ r.charge = {} /\ OpeningFits(j, b, r.entry[1])
  /\ r.charge # {} => r.entry # <<>> /\ r.entry[1].reversalOf = 0 /\ ChargeFits(c, r.charge)
  /\ r.period # <<>> => PeriodFits(p, r.period[1], r.period[2])

(* The entry of a charge, with the charge or before it. *)
ChargeableFits(c, command, r) == command.op = "charge" /\ r.entry # <<>> =>
  /\ ~r.opening
  /\ r.entry[1].reversalOf = 0
  /\ \A old \in c : old.draft # command.draft

RowsFit == \A w \in Workers :
  IF stage[w] = "written"
    THEN /\ Fits(journal, periods, batches, charges, rows[w])
         /\ ChargeableFits(charges, cmd[w], rows[w])
  ELSE rows[w] = NoRows

PeriodsNeverOverlap == \A r, s \in Ranges :
  periods[r] # "NONE" /\ periods[s] # "NONE" /\ r # s => ~Overlap(r, s)

IInv ==
  /\ TypeOK
  /\ WorkersOK
  /\ RowsFit
  /\ OneEntryPerRequest
  /\ CutoverIsolatesHistory
  /\ PeriodsNeverOverlap

-----------------------------------------------------------------------------
(* A command's shape is fixed by its operation. *)
LEMMA CommandShapes ==
  ASSUME NEW c \in Commands
  PROVE  /\ c.op \in {"post", "reverse", "opening", "charge", "create_period", "close_period"}
         /\ c.op = "post" => c \in PostCommand
         /\ c.op = "reverse" => c \in ReverseCommand
         /\ c.op = "opening" => c \in OpeningCommand
         /\ c.op = "charge" => c \in ChargeCommand
         /\ c.op \in {"create_period", "close_period"} => c \in PeriodCommand
  BY CommandsAssumption DEF PostCommand, ReverseCommand, OpeningCommand, ChargeCommand, PeriodCommand

LEMMA NoRowsType ==
  /\ NoRows \in RowsType /\ Fits(journal, periods, batches, charges, NoRows)
  /\ \A command : ChargeableFits(charges, command, NoRows)
  BY DEF NoRows, RowsType, Fits, ChargeableFits

(* The initial state. *)
LEMMA InitIInv == Init => IInv
<1> SUFFICES ASSUME Init PROVE IInv
  OBVIOUS
<1> USE NamesAssumption DEF Init
<1>1. TypeOK
  BY NoRowsType DEF TypeOK, TablesType, SettingsType, WorkersType, NoAnswer
<1>2. WorkersOK
  BY DEF WorkersOK
<1>3. RowsFit
  BY DEF RowsFit
<1>4. OneEntryPerRequest /\ CutoverIsolatesHistory /\ PeriodsNeverOverlap
  BY DEF OneEntryPerRequest, CutoverIsolatesHistory, PeriodsNeverOverlap
<1> QED
  BY <1>1, <1>2, <1>3, <1>4 DEF IInv

(* Loading the context and the pre-lock checks touch one worker only. *)
LEMMA BeginStep ==
  ASSUME IInv, NEW w \in Workers, NEW c \in Commands, NEW error \in Errors \cup {"none"},
         Begin(w, c, error),
         error = "none" /\ c.op = "reverse" => c.entry \in DOMAIN journal
  PROVE  IInv'
<1> USE DEF IInv, Begin, tables, settings
<1>1. TypeOK'
  <2>1. TablesType' /\ SettingsType'
    BY DEF TypeOK, TablesType, SettingsType
  <2>2. ctx' \in [Workers -> SUBSET (Permissions \X Scopes)]
    BY DEF TypeOK, WorkersType, SettingsType
  <2>3. WorkersType'
    <3>1. stage' \in [Workers -> {"idle", "waiting", "locked", "written", "done"}]
      BY DEF TypeOK, WorkersType
    <3>2. answer' \in [Workers ->
            [status : {"none", "ok", "denied", "not_found", "conflict", "failed"}, entry : Nat]]
      BY DEF TypeOK, WorkersType, Errors
    <3> QED
      BY <2>2, <3>1, <3>2 DEF TypeOK, WorkersType
  <2> QED
    BY <2>1, <2>3 DEF TypeOK
<1>2. WorkersOK'
  BY NamesAssumption DEF WorkersOK, TypeOK, WorkersType
<1>3. RowsFit'
  BY DEF RowsFit, TypeOK, WorkersType
<1>4. OneEntryPerRequest' /\ CutoverIsolatesHistory' /\ PeriodsNeverOverlap'
  BY DEF OneEntryPerRequest, CutoverIsolatesHistory, PeriodsNeverOverlap
<1> QED
  BY <1>1, <1>2, <1>3, <1>4

LEMMA LockStep ==
  ASSUME IInv, NEW w \in Workers, LockOrganization(w)
  PROVE  IInv'
<1> USE DEF IInv, LockOrganization, tables, settings
<1>1. TypeOK'
  <2>1. TablesType' /\ SettingsType'
    BY DEF TypeOK, TablesType, SettingsType
  <2>2. WorkersType'
    BY DEF TypeOK, WorkersType
  <2> QED
    BY <2>1, <2>2 DEF TypeOK
<1>2. WorkersOK'
  BY NamesAssumption DEF WorkersOK, TypeOK, WorkersType
<1>3. RowsFit'
  BY DEF RowsFit, TypeOK, WorkersType
<1>4. OneEntryPerRequest' /\ CutoverIsolatesHistory' /\ PeriodsNeverOverlap'
  BY DEF OneEntryPerRequest, CutoverIsolatesHistory, PeriodsNeverOverlap
<1> QED
  BY <1>1, <1>2, <1>3, <1>4

LEMMA RefuseStep ==
  ASSUME IInv, NEW w \in Workers, NEW error \in Errors, Refuse(w, error),
         stage[w] \in {"locked", "written"}
  PROVE  IInv'
<1> USE DEF IInv, Refuse, tables, settings
<1>1. TypeOK'
  <2>1. TablesType' /\ SettingsType'
    BY DEF TypeOK, TablesType, SettingsType
  <2>2. WorkersType'
    BY NoRowsType DEF TypeOK, WorkersType, SettingsType, Errors
  <2> QED
    BY <2>1, <2>2 DEF TypeOK
<1>2. WorkersOK'
  BY NamesAssumption DEF WorkersOK, TypeOK, WorkersType
<1>3. RowsFit'
  BY DEF RowsFit, TypeOK, WorkersType
<1>4. OneEntryPerRequest' /\ CutoverIsolatesHistory' /\ PeriodsNeverOverlap'
  BY DEF OneEntryPerRequest, CutoverIsolatesHistory, PeriodsNeverOverlap
<1> QED
  BY <1>1, <1>2, <1>3, <1>4

LEMMA FlushStep ==
  ASSUME IInv, NEW w \in Workers, stage[w] = "locked",
         NEW r \in RowsType, Fits(journal, periods, batches, charges, r),
         ChargeableFits(charges, cmd[w], r), NEW n \in Nat, Flush(w, r, n)
  PROVE  IInv'
<1> USE DEF IInv, Flush, tables, settings
<1>1. TypeOK'
  <2>1. TablesType' /\ SettingsType'
    BY DEF TypeOK, TablesType, SettingsType
  <2>2. WorkersType'
    BY DEF TypeOK, WorkersType
  <2> QED
    BY <2>1, <2>2 DEF TypeOK
<1>2. WorkersOK'
  BY NamesAssumption DEF WorkersOK, TypeOK, WorkersType
<1>3. RowsFit'
  BY DEF RowsFit, TypeOK, WorkersType
<1>4. OneEntryPerRequest' /\ CutoverIsolatesHistory' /\ PeriodsNeverOverlap'
  BY DEF OneEntryPerRequest, CutoverIsolatesHistory, PeriodsNeverOverlap
<1> QED
  BY <1>1, <1>2, <1>3, <1>4

-----------------------------------------------------------------------------
(* What the handlers flush. *)

LEMMA AuthorizeResult ==
  ASSUME NEW held, NEW permission, NEW scope, NEW active \in BOOLEAN
  PROVE  Authorize(held, permission, scope, active) \in Errors \cup {"none"}
  BY DEF Authorize, Errors

LEMMA RequireAllResult ==
  ASSUME NEW held, NEW permissions
  PROVE  RequireAll(held, permissions) \in Errors \cup {"none"}
  BY DEF RequireAll, Errors

LEMMA WriteErrorResult ==
  ASSUME NEW e
  PROVE  WriteError(e) \in Errors \cup {"none"}
  BY DEF WriteError, Errors

(* Swapping the sides of a list of lines gives a list of lines. *)
LEMMA SwapType ==
  ASSUME NEW lines \in Seq(Line)
  PROVE  /\ Swap(lines) \in Seq(Line)
         /\ Len(Swap(lines)) = Len(lines)
         /\ \A n \in DOMAIN Swap(lines) :
              /\ Swap(lines)[n].account = lines[n].account
              /\ Swap(lines)[n].debit = lines[n].credit
              /\ Swap(lines)[n].credit = lines[n].debit
<1>1. DOMAIN lines = 1..Len(lines) /\ Len(lines) \in Nat
  OBVIOUS
<1>2. \A n \in 1..Len(lines) : lines[n] \in Line
  OBVIOUS
<1>3. Swap(lines) \in [1..Len(lines) -> Line]
  BY <1>1, <1>2 DEF Swap, Line
<1>4. Swap(lines) \in Seq(Line) /\ Len(Swap(lines)) = Len(lines)
  BY <1>1, <1>3, LenProperties
<1>5. \A n \in DOMAIN Swap(lines) :
        Swap(lines)[n] = [account |-> lines[n].account,
                          debit |-> lines[n].credit, credit |-> lines[n].debit]
  BY DEF Swap
<1> QED
  BY <1>4, <1>5

(* An entry that write_entry lets through, for a request not yet recorded,  *)
(* fits the committed tables. *)
LEMMA WrittenEntryFits ==
  ASSUME IInv, NEW e \in Entry, WriteError(e) = "none",
         \A n \in DOMAIN journal : journal[n].request # e.request,
         e.reversalOf # 0 => ReversalFits(journal, batches, charges, e)
  PROVE  EntryFits(journal, periods, batches, charges, e)
<1>1. ~InClosedPeriod(e.date) /\ AfterCutover(e.date)
  BY DEF WriteError
<1>2. e.date \in Nat /\ \A r \in Ranges : r[1] \in Nat /\ r[2] \in Nat
  BY NamesAssumption DEF Entry, Ranges
<1> QED
  BY <1>1, <1>2 DEF EntryFits, InClosedPeriod, AfterCutover

(* Both ends of write_entry, for an entry of a request not yet recorded.    *)
LEMMA WriteEntryStep ==
  ASSUME IInv, NEW w \in Workers, stage[w] = "locked", NEW e \in Entry,
         \A n \in DOMAIN journal : journal[n].request # e.request,
         e.reversalOf # 0 => ReversalFits(journal, batches, charges, e),
         NEW opening \in BOOLEAN, opening => OpeningFits(journal, batches, e),
         cmd[w].op = "charge" =>
           ~opening /\ e.reversalOf = 0 /\ \A old \in charges : old.draft # cmd[w].draft,
         WriteEntry(w, e, opening)
  PROVE  IInv'
<1> DEFINE r == EntryRows(e, opening)
<1>1. CASE WriteError(e) = "none" /\ Flush(w, r, 0)
  <2>1. <<e>> \in Seq(Entry)
    OBVIOUS
  <2>2. r \in RowsType
    BY <2>1 DEF RowsType, EntryRows
  <2>3. EntryFits(journal, periods, batches, charges, e)
    BY <1>1, WrittenEntryFits
  <2>4. /\ r.entry = <<e>> /\ r.entry[1] = e /\ Len(r.entry) = 1 /\ r.entry # <<>>
        /\ r.opening = opening /\ r.charge = {} /\ r.period = <<>>
    BY DEF EntryRows
  <2>5. Fits(journal, periods, batches, charges, r) /\ ChargeableFits(charges, cmd[w], r)
    BY <2>3, <2>4 DEF Fits, ChargeableFits
  <2> QED
    BY <1>1, <2>2, <2>5, FlushStep
<1>2. CASE WriteError(e) # "none" /\ Refuse(w, WriteError(e))
  BY <1>2, WriteErrorResult, RefuseStep
<1> QED
  BY <1>1, <1>2 DEF WriteEntry

LEMMA ReplayStep ==
  ASSUME IInv, NEW w \in Workers, stage[w] = "locked", Replay(w)
  PROVE  IInv'
<1>1. PICK n \in Recorded(cmd[w]) :
        \/ ReplayError(w, n) = "none" /\ Flush(w, NoRows, n)
        \/ ReplayError(w, n) # "none" /\ Refuse(w, ReplayError(w, n))
  BY DEF Replay
<1>2. n \in Nat
  BY DEF Recorded, IInv, TypeOK, TablesType
<1>3. ReplayError(w, n) \in Errors \cup {"none"}
  BY AuthorizeResult DEF ReplayError, Errors
<1> QED
  BY <1>1, <1>2, <1>3, NoRowsType, FlushStep, RefuseStep

-----------------------------------------------------------------------------
(* One lemma per handler. *)

LEMMA ServingShape ==
  ASSUME IInv, NEW w \in Workers, NEW op, Serving(w, op)
  PROVE  /\ stage[w] = "locked"
         /\ cmd[w] \in Commands /\ cmd[w].op = op
         /\ op = "post" => cmd[w] \in PostCommand
         /\ op = "reverse" => cmd[w] \in ReverseCommand /\ cmd[w].entry \in DOMAIN journal
         /\ op = "opening" => cmd[w] \in OpeningCommand
         /\ op = "charge" => cmd[w] \in ChargeCommand
         /\ op \in {"create_period", "close_period"} => cmd[w] \in PeriodCommand
<1>1. stage[w] = "locked" /\ cmd[w] \in Commands /\ cmd[w].op = op
  BY DEF Serving, IInv, WorkersOK
<1>2. op = "reverse" => cmd[w].entry \in DOMAIN journal
  BY <1>1 DEF IInv, WorkersOK
<1> QED
  BY <1>1, <1>2, CommandShapes

LEMMA UnrecordedRequest ==
  ASSUME NEW c, Recorded(c) = {}
  PROVE  \A n \in DOMAIN journal : journal[n].request # c.request
  BY DEF Recorded

LEMMA PostStep ==
  ASSUME IInv, NEW w \in Workers, PostJournal(w)
  PROVE  IInv'
<1> DEFINE c == cmd[w]
           e == EntryFor(c, c.branch, c.lines, 0)
<1>1. stage[w] = "locked" /\ c \in Commands /\ c \in PostCommand /\ c.op # "charge"
  BY ServingShape DEF PostJournal
<1>2. CASE Replay(w)
  BY <1>1, <1>2, ReplayStep
<1>3. CASE Recorded(c) = {} /\ WriteEntry(w, e, FALSE)
  <2>1. e \in Entry /\ e.request = c.request /\ e.reversalOf = 0
    BY <1>1, PayloadsAssumption DEF EntryFor, Entry, PostCommand
  <2>2. \A n \in DOMAIN journal : journal[n].request # e.request
    BY <1>3, <2>1, UnrecordedRequest
  <2> QED
    BY <1>1, <1>3, <2>1, <2>2, WriteEntryStep
<1> QED
  BY <1>2, <1>3 DEF PostJournal

LEMMA ReverseStep ==
  ASSUME IInv, NEW w \in Workers, ReverseJournal(w)
  PROVE  IInv'
<1> DEFINE c == cmd[w]
           original == journal[c.entry]
           e == EntryFor(c, original.branch, Swap(original.lines), c.entry)
<1>1. /\ stage[w] = "locked" /\ c \in Commands /\ c \in ReverseCommand /\ c.op # "charge"
      /\ c.entry \in DOMAIN journal
  BY ServingShape DEF ReverseJournal
<1>2. CASE Replay(w)
  BY <1>1, <1>2, ReplayStep
<1>3. CASE Refuse(w, "conflict")
  BY <1>1, <1>3, RefuseStep DEF Errors
<1>4. CASE Recorded(c) = {} /\ Reversible(c.entry) /\ WriteEntry(w, e, FALSE)
  <2>1. original \in Entry
    BY <1>1 DEF IInv, TypeOK, TablesType
  <2>2. Swap(original.lines) \in Seq(Line) /\ original.branch \in Scopes
    BY <2>1, SwapType DEF Entry
  <2>3. e \in Entry /\ e.request = c.request
    BY <1>1, <2>2 DEF EntryFor, Entry, ReverseCommand
  <2>4. \A n \in DOMAIN journal : journal[n].request # e.request
    BY <1>4, <2>3, UnrecordedRequest
  <2>5. SwappedLines(original, e)
    <3>1. original.lines \in Seq(Line) /\ DOMAIN original.lines = 1..Len(original.lines)
      BY <2>1 DEF Entry
    <3>2. e.lines = Swap(original.lines) /\ e.branch = original.branch
      BY DEF EntryFor
    <3>3. DOMAIN Swap(original.lines) = DOMAIN original.lines
      BY DEF Swap
    <3> HIDE DEF original, e
    <3> QED
      BY <3>1, <3>2, <3>3, SwapType DEF SwappedLines
  <2>6. ReversalFits(journal, batches, charges, e)
    BY <1>1, <1>4, <2>5 DEF ReversalFits, EntryFor, Reversible, Reversed, Opens, Charged
  <2> QED
    BY <1>1, <1>4, <2>3, <2>4, <2>6, WriteEntryStep
<1> QED
  BY <1>2, <1>3, <1>4 DEF ReverseJournal

LEMMA OpeningStep ==
  ASSUME IInv, NEW w \in Workers, PostInitialOpening(w)
  PROVE  IInv'
<1> DEFINE c == cmd[w]
           e == EntryFor(c, NoBranch, c.lines, 0)
<1>1. stage[w] = "locked" /\ c \in Commands /\ c \in OpeningCommand /\ c.op # "charge"
  BY ServingShape DEF PostInitialOpening
<1>2. CASE Replay(w)
  BY <1>1, <1>2, ReplayStep
<1>3. CASE Refuse(w, "conflict")
  BY <1>1, <1>3, RefuseStep DEF Errors
<1>4. CASE /\ Recorded(c) = {} /\ batches = {} /\ PostedBy(c.date) = {}
           /\ WriteEntry(w, e, TRUE)
  <2>1. /\ e \in Entry /\ e.request = c.request /\ e.date = c.date /\ e.branch = NoBranch
        /\ e.reversalOf = 0
    BY <1>1, PayloadsAssumption DEF EntryFor, Entry, OpeningCommand, Scopes
  <2>2. \A n \in DOMAIN journal : journal[n].request # e.request
    BY <1>4, <2>1, UnrecordedRequest
  <2>3. \A n \in DOMAIN journal : journal[n].date > e.date
    <3>1. c.date \in Nat
      BY <1>1, NamesAssumption DEF OpeningCommand
    <3>2. \A n \in DOMAIN journal : journal[n] \in Entry
      BY DEF IInv, TypeOK, TablesType
    <3>3. \A n \in DOMAIN journal : journal[n].date \in Nat
      BY <3>2, NamesAssumption DEF Entry
    <3> QED
      BY <1>4, <2>1, <3>1, <3>3 DEF PostedBy
  <2>4. OpeningFits(journal, batches, e)
    BY <1>4, <2>1, <2>3 DEF OpeningFits
  <2> QED
    BY <1>1, <1>4, <2>1, <2>2, <2>4, WriteEntryStep
<1> QED
  BY <1>2, <1>3, <1>4 DEF PostInitialOpening

LEMMA ChargeStep ==
  ASSUME IInv, NEW w \in Workers, ApproveCharge(w)
  PROVE  IInv'
<1> DEFINE c == cmd[w]
           e == EntryFor(c, NoBranch, c.lines, 0)
<1>1. stage[w] = "locked" /\ c \in Commands /\ c \in ChargeCommand
  BY ServingShape DEF ApproveCharge
<1>2. CASE \E old \in ChargeOf(c) : Flush(w, NoRows, old.journal)
  <2>1. \A old \in charges : old.journal \in Nat
    BY DEF IInv, TypeOK, TablesType
  <2> QED
    BY <1>1, <1>2, <2>1, NoRowsType, FlushStep DEF ChargeOf
<1>3. CASE \E error \in {"not_found", "conflict"} : Refuse(w, error)
  BY <1>1, <1>3, RefuseStep DEF Errors
<1>4. CASE Recorded(c) = {} /\ ~DraftCharged(c.draft) /\ WriteEntry(w, e, FALSE)
  <2>1. e \in Entry /\ e.request = c.request /\ e.reversalOf = 0
    BY <1>1, PayloadsAssumption DEF EntryFor, Entry, ChargeCommand, Scopes
  <2>2. \A n \in DOMAIN journal : journal[n].request # e.request
    BY <1>4, <2>1, UnrecordedRequest
  <2>3. \A old \in charges : old.draft # c.draft
    BY <1>4 DEF DraftCharged
  <2> QED
    BY <1>1, <1>4, <2>1, <2>2, <2>3, WriteEntryStep
<1> QED
  BY <1>2, <1>3, <1>4 DEF ApproveCharge

(* The charge joins its entry, or both are rolled back. *)
LEMMA InsertChargeStep ==
  ASSUME IInv, NEW w \in Workers, InsertCharge(w)
  PROVE  IInv'
<1> DEFINE c == cmd[w]
           r == rows[w]
           new == [r EXCEPT !.charge = {ChargeRow(c)}]
<1>1. /\ stage[w] = "written" /\ c.op = "charge" /\ r.entry # <<>> /\ r.charge = {}
      /\ c \in Commands /\ c \in ChargeCommand /\ r \in RowsType
      /\ Fits(journal, periods, batches, charges, r) /\ ChargeableFits(charges, c, r)
  BY CommandShapes DEF InsertCharge, ChargeDue, IInv, WorkersOK, RowsFit, TypeOK, WorkersType
<1>2. CASE Refuse(w, "failed")
  BY <1>1, <1>2, RefuseStep DEF Errors
<1>3. CASE /\ rows' = [rows EXCEPT ![w].charge = {ChargeRow(c)}]
           /\ UNCHANGED <<tables, settings, orgLock, stage, cmd, ctx, answer>>
  <2>1. rows \in [Workers -> RowsType] /\ rows' = [rows EXCEPT ![w] = new]
    BY <1>3 DEF IInv, TypeOK, WorkersType
  <2>2. ChargeRow(c) \in [request : Requests, digest : Commands, draft : Drafts]
    BY <1>1 DEF ChargeRow, ChargeCommand
  <2>3. /\ new \in RowsType /\ new.charge = {ChargeRow(c)}
        /\ new.entry = r.entry /\ new.opening = r.opening /\ new.period = r.period
    BY <1>1, <2>2 DEF RowsType
  <2>4. ChargeFits(charges, {ChargeRow(c)})
    BY <1>1 DEF ChargeFits, ChargeRow, ChargeableFits
  <2> HIDE DEF new
  <2>5. Fits(journal, periods, batches, charges, new) /\ ChargeableFits(charges, c, new)
    BY <1>1, <2>3, <2>4 DEF Fits, ChargeableFits
  <2>6. UNCHANGED <<journal, periods, batches, charges, accountStatus, branchStatus, grants>>
    BY <1>3 DEF tables, settings
  <2>7. TypeOK'
    <3>1. rows' \in [Workers -> RowsType]
      BY <2>1, <2>3
    <3> QED
      BY <1>3, <2>6, <3>1 DEF IInv, TypeOK, TablesType, SettingsType, WorkersType
  <2>8. WorkersOK'
    BY <1>3, <2>6 DEF IInv, WorkersOK
  <2>9. RowsFit'
    <3> SUFFICES ASSUME NEW v \in Workers
                 PROVE  IF stage[v] = "written"
                          THEN /\ Fits(journal, periods, batches, charges, rows'[v])
                               /\ ChargeableFits(charges, cmd[v], rows'[v])
                        ELSE rows'[v] = NoRows
      BY <1>3, <2>6 DEF RowsFit
    <3>1. CASE v = w
      BY <1>1, <2>1, <2>5, <3>1
    <3>2. CASE v # w
      BY <2>1, <3>2 DEF IInv, RowsFit
    <3> QED
      BY <3>1, <3>2
  <2>10. OneEntryPerRequest' /\ CutoverIsolatesHistory' /\ PeriodsNeverOverlap'
    BY <2>6 DEF IInv, OneEntryPerRequest, CutoverIsolatesHistory, PeriodsNeverOverlap
  <2> QED
    BY <2>7, <2>8, <2>9, <2>10 DEF IInv
<1> QED
  BY <1>2, <1>3 DEF InsertCharge

LEMMA PeriodStep ==
  ASSUME IInv, NEW w \in Workers, CreatePeriod(w) \/ ClosePeriod(w)
  PROVE  IInv'
<1> DEFINE c == cmd[w]
<1>1. stage[w] = "locked" /\ c \in Commands /\ c.range \in Ranges
  BY ServingShape DEF CreatePeriod, ClosePeriod, PeriodCommand
<1>2. CASE \E error \in {"not_found", "conflict"} : Refuse(w, error)
  BY <1>1, <1>2, RefuseStep DEF Errors
<1>3. ASSUME NEW status \in {"OPEN", "CLOSED"}, PeriodFits(periods, c.range, status),
             Flush(w, PeriodRows(c.range, status), 0)
      PROVE  IInv'
  <2> DEFINE r == PeriodRows(c.range, status)
  <2>1. r \in RowsType
    BY <1>1 DEF RowsType, PeriodRows
  <2>2. Fits(journal, periods, batches, charges, r) /\ ChargeableFits(charges, c, r)
    BY <1>1, <1>3 DEF Fits, ChargeableFits, PeriodRows
  <2> QED
    BY <1>1, <1>3, <2>1, <2>2, FlushStep
<1>4. CASE CreatePeriod(w)
  <2>1. PeriodsOverlapping(c.range) = {} => PeriodFits(periods, c.range, "OPEN")
    BY <1>1 DEF PeriodsOverlapping, PeriodFits, Overlap
  <2> QED
    BY <1>2, <1>3, <1>4, <2>1 DEF CreatePeriod
<1>5. CASE ClosePeriod(w)
  BY <1>2, <1>3, <1>5 DEF ClosePeriod, PeriodFits
<1> QED
  BY <1>4, <1>5

-----------------------------------------------------------------------------
(* The commit, the end of a transaction and the settings around it. *)

(* What the journal looks like when its new entries are committed. *)
LEMMA CommittedJournal ==
  ASSUME IInv, NEW w \in Workers, Commit(w)
  PROVE  /\ rows[w] \in RowsType /\ Fits(journal, periods, batches, charges, rows[w]) /\ stage[w] = "written" /\ orgLock = w
         /\ Len(journal) \in Nat
         /\ journal' \in Seq(Entry)
         /\ \A n \in DOMAIN journal : n \in DOMAIN journal' /\ journal'[n] = journal[n]
         /\ rows[w].entry = <<>> => journal' = journal
         /\ rows[w].entry # <<>> =>
              /\ rows[w].entry[1] \in Entry
              /\ journal' = Append(journal, rows[w].entry[1])
              /\ Len(journal') = Len(journal) + 1
              /\ DOMAIN journal' = DOMAIN journal \cup {Len(journal) + 1}
              /\ Len(journal) + 1 \notin DOMAIN journal
              /\ journal'[Len(journal) + 1] = rows[w].entry[1]
<1> DEFINE new == rows[w].entry
<1>1. stage[w] = "written" /\ Fits(journal, periods, batches, charges, rows[w]) /\ rows[w] \in RowsType /\ orgLock = w
  BY DEF Commit, IInv, RowsFit, TypeOK, WorkersType, WorkersOK
<1>2. journal \in Seq(Entry) /\ new \in Seq(Entry) /\ journal' = journal \o new
  BY <1>1 DEF IInv, TypeOK, TablesType, RowsType, Commit
<1>3. new = <<>> \/ Len(new) = 1
  BY <1>1 DEF Fits
<1>4. CASE new = <<>>
  BY <1>1, <1>2, <1>4
<1>5. CASE Len(new) = 1
  <2>1. new[1] \in Entry /\ new # <<>>
    <3>1. new \in Seq(Entry) /\ Len(new) = 1
      BY <1>2, <1>5
    <3> HIDE DEF new
    <3> QED
      BY <3>1, ElementOfSeq, EmptySeq
  <2>2. Len(journal) \in Nat /\ DOMAIN journal = 1..Len(journal)
    BY <1>2
  <2>3. journal' \in Seq(Entry) /\ Len(journal') = Len(journal) + 1
    <3>1. /\ journal \o new \in Seq(Entry)
          /\ Len(journal \o new) = Len(journal) + Len(new)
      <4> HIDE DEF new
      <4> QED
        BY <1>2, ConcatProperties
    <3> QED
      BY <1>2, <1>5, <3>1
  <2>4. DOMAIN journal' = 1..(Len(journal) + 1)
    BY <2>2, <2>3
  <2>5. \A n \in 1..Len(journal) : journal'[n] = journal[n]
    BY <1>2, <1>5
  <2>6. journal'[Len(journal) + 1] = new[1]
    BY <1>2, <1>5
  <2>7. journal' = Append(journal, new[1])
    <3>1. new = <<new[1]>>
      BY <1>2, <1>5
    <3> HIDE DEF new
    <3> QED
      BY <1>2, <2>1, <3>1, AppendIsConcat
  <2>8. DOMAIN journal' = DOMAIN journal \cup {Len(journal) + 1} /\ Len(journal) + 1 \notin DOMAIN journal
    BY <2>2, <2>4
  <2> HIDE DEF new
  <2>9. new # <<>> => /\ new[1] \in Entry
                      /\ journal' = Append(journal, new[1])
                      /\ Len(journal') = Len(journal) + 1
                      /\ journal'[Len(journal) + 1] = new[1]
    BY <2>1, <2>3, <2>6, <2>7, Zenon
  <2> QED
    BY <1>1, <2>1, <2>2, <2>3, <2>5, <2>8, <2>9, Zenon DEF new
<1> QED
  BY <1>3, <1>4, <1>5

LEMMA CommitTypes ==
  ASSUME IInv, NEW w \in Workers, Commit(w)
  PROVE  TypeOK'
<1> DEFINE r == rows[w]
           N == Len(journal) + 1
<1>1. r \in RowsType /\ Fits(journal, periods, batches, charges, r) /\ N \in Nat
  BY CommittedJournal
<1>2. r.opening => N \in DOMAIN journal' /\ r.entry[1].date \in Dates
  BY <1>1, CommittedJournal DEF Fits, Entry
<1>3. batches' \subseteq [journal : DOMAIN journal', date : Dates]
  <2>1. batches \subseteq [journal : DOMAIN journal', date : Dates]
    BY CommittedJournal DEF IInv, TypeOK, TablesType
  <2> QED
    BY <1>2, <2>1 DEF Commit
<1>4. r.charge # {} => N \in DOMAIN journal'
  BY <1>1, CommittedJournal DEF Fits
<1>5. charges' \subseteq
        [request : Requests, digest : Commands, draft : Drafts, journal : DOMAIN journal']
  <2>1. charges \subseteq
          [request : Requests, digest : Commands, draft : Drafts, journal : DOMAIN journal']
    BY CommittedJournal DEF IInv, TypeOK, TablesType
  <2>2. \A row \in r.charge : row \in [request : Requests, digest : Commands, draft : Drafts]
    BY <1>1 DEF RowsType
  <2> QED
    BY <1>4, <2>1, <2>2 DEF Commit
<1>6. periods' \in [Ranges -> {"NONE", "OPEN", "CLOSED"}]
  BY <1>1 DEF Commit, CommittedPeriods, RowsType, IInv, TypeOK, TablesType
<1>7. TablesType'
  BY <1>3, <1>5, <1>6, CommittedJournal DEF TablesType
<1>8. SettingsType'
  BY DEF Commit, settings, IInv, TypeOK, SettingsType
<1>9. WorkersType'
  <2>1. answer' \in [Workers ->
          [status : {"none", "ok", "denied", "not_found", "conflict", "failed"}, entry : Nat]]
    BY <1>1 DEF Commit, IInv, TypeOK, WorkersType
  <2> QED
    BY <2>1, NoRowsType DEF Commit, IInv, TypeOK, WorkersType
<1> QED
  BY <1>7, <1>8, <1>9 DEF TypeOK

LEMMA CommitStep ==
  ASSUME IInv, NEW w \in Workers, Commit(w)
  PROVE  IInv'
<1> DEFINE r == rows[w]
           N == Len(journal) + 1
           e == r.entry[1]
<1>1. r \in RowsType /\ Fits(journal, periods, batches, charges, r) /\ orgLock = w
  BY CommittedJournal
<1>2. \A n \in DOMAIN journal : n \in DOMAIN journal' /\ journal'[n] = journal[n]
  BY CommittedJournal
<1>3. WorkersOK'
  BY <1>1, <1>2, NamesAssumption DEF IInv, WorkersOK, TypeOK, WorkersType, Commit
<1>4. RowsFit'
  BY <1>1 DEF IInv, WorkersOK, RowsFit, TypeOK, WorkersType, Commit
<1>5. OneEntryPerRequest'
  <2>1. CASE r.entry = <<>>
    BY <2>1, CommittedJournal DEF IInv, OneEntryPerRequest
  <2>2. CASE r.entry # <<>>
    <3>1. \A n \in DOMAIN journal : journal[n].request # e.request
      BY <1>1, <2>2 DEF Fits, EntryFits
    <3> QED
      BY <2>2, <3>1, CommittedJournal DEF IInv, OneEntryPerRequest
  <2> QED
    BY <2>1, <2>2
<1>6. CutoverIsolatesHistory'
  <2>0. \A batch \in batches : batch.journal \in DOMAIN journal
    BY DEF IInv, TypeOK, TablesType
  <2>1. CASE r.entry = <<>>
    <3>1. journal' = journal /\ batches' = batches
      BY <1>1, <2>1, CommittedJournal DEF Commit, Fits
    <3> QED
      BY <3>1 DEF IInv, CutoverIsolatesHistory
  <2>2. CASE r.entry # <<>> /\ ~r.opening
    <3>1. batches' = batches /\ \A batch \in batches : e.date > batch.date
      BY <1>1, <2>2 DEF Commit, Fits, EntryFits
    <3> QED
      BY <2>0, <2>2, <3>1, CommittedJournal DEF IInv, CutoverIsolatesHistory
  <2>3. CASE r.entry # <<>> /\ r.opening
    <3>1. r.entry = <<e>>
      BY <1>1, <2>3 DEF Fits, RowsType
    <3>2. batches' = {[journal |-> N, date |-> e.date]}
      BY <1>1, <2>3 DEF Commit, Fits, OpeningFits
    <3>3. e.branch = NoBranch /\ \A n \in DOMAIN journal : journal[n].date > e.date
      BY <1>1, <2>3 DEF Fits, OpeningFits
    <3> QED
      BY <2>3, <3>2, <3>3, CommittedJournal DEF CutoverIsolatesHistory
  <2> QED
    BY <2>1, <2>2, <2>3
<1>7. PeriodsNeverOverlap'
  <2>1. CASE r.period = <<>>
    BY <2>1 DEF IInv, PeriodsNeverOverlap, Commit, CommittedPeriods
  <2>2. CASE r.period # <<>>
    <3>1. r.period[1] \in Ranges /\ r.period[2] \in {"OPEN", "CLOSED"}
      BY <1>1, <2>2 DEF RowsType
    <3>2. periods' = [periods EXCEPT ![r.period[1]] = r.period[2]]
      BY <2>2 DEF Commit, CommittedPeriods
    <3>3. PeriodFits(periods, r.period[1], r.period[2])
      BY <1>1, <2>2 DEF Fits
    <3>4. periods \in [Ranges -> {"NONE", "OPEN", "CLOSED"}]
      BY DEF IInv, TypeOK, TablesType
    <3>5. \A s \in Ranges : periods[s] # "NONE" /\ s # r.period[1]
            => ~Overlap(r.period[1], s) /\ ~Overlap(s, r.period[1])
      <4>1. CASE r.period[2] = "CLOSED"
        BY <3>1, <3>3, <4>1 DEF PeriodFits, IInv, PeriodsNeverOverlap
      <4>2. CASE r.period[2] = "OPEN"
        BY <3>1, <3>3, <4>2 DEF PeriodFits, Overlap
      <4> QED
        BY <3>1, <4>1, <4>2
    <3> QED
      BY <3>1, <3>2, <3>4, <3>5 DEF IInv, PeriodsNeverOverlap
  <2> QED
    BY <2>1, <2>2
<1> QED
  BY <1>3, <1>4, <1>5, <1>6, <1>7, CommitTypes DEF IInv

(* A response or a crash: the worker is idle, with nothing flushed, and the *)
(* row is free if it was the holder. *)
LEMMA EndStep ==
  ASSUME IInv, NEW w \in Workers, Respond(w) \/ Crash(w)
  PROVE  IInv'
<1> USE DEF Respond, Crash, Reset, tables, settings, IInv
<1>1. TypeOK'
  <2>1. TablesType' /\ SettingsType'
    BY DEF TypeOK, TablesType, SettingsType
  <2>2. WorkersType'
    <3>1. orgLock' \in Workers \cup {NoWorker}
      BY DEF TypeOK, WorkersType
    <3>2. stage' \in [Workers -> {"idle", "waiting", "locked", "written", "done"}]
      BY DEF TypeOK, WorkersType
    <3>3. answer' \in [Workers ->
            [status : {"none", "ok", "denied", "not_found", "conflict", "failed"}, entry : Nat]]
      BY DEF TypeOK, WorkersType, NoAnswer
    <3>4. rows' \in [Workers -> RowsType]
      BY NoRowsType DEF TypeOK, WorkersType
    <3>6. cmd' \in [Workers -> Commands \cup {NoCommand}]
      BY DEF TypeOK, WorkersType
    <3>5. ctx' \in [Workers -> SUBSET (Permissions \X Scopes)]
      BY DEF TypeOK, WorkersType
    <3> QED
      BY <3>1, <3>2, <3>3, <3>4, <3>5, <3>6 DEF WorkersType
  <2> QED
    BY <2>1, <2>2 DEF TypeOK
<1>2. WorkersOK'
  BY NamesAssumption DEF WorkersOK, TypeOK, WorkersType
<1>3. RowsFit'
  BY DEF RowsFit, TypeOK, WorkersType
<1>4. OneEntryPerRequest' /\ CutoverIsolatesHistory' /\ PeriodsNeverOverlap'
  BY DEF OneEntryPerRequest, CutoverIsolatesHistory, PeriodsNeverOverlap
<1> QED
  BY <1>1, <1>2, <1>3, <1>4

LEMMA AroundStep ==
  ASSUME IInv, Around
  PROVE  IInv'
<1>1. UNCHANGED <<tables, orgLock, stage, cmd, ctx, rows, answer>>
  BY DEF Around, UpdateBranch, DeactivateAccount, RevokeGrant
<1>2. SettingsType'
  <2>1. SettingsType
    BY DEF IInv, TypeOK
  <2>2. CASE \E b \in Branches : UpdateBranch(b)
    BY <2>1, <2>2 DEF UpdateBranch, BranchStatuses, SettingsType
  <2>3. CASE \E a \in Volatile : DeactivateAccount(a)
    BY <2>1, <2>3, NamesAssumption DEF DeactivateAccount, SettingsType
  <2>4. CASE RevokeGrant
    BY <2>1, <2>4 DEF RevokeGrant, SettingsType
  <2> QED
    BY <2>2, <2>3, <2>4 DEF Around
<1>3. TypeOK'
  BY <1>1, <1>2 DEF IInv, TypeOK, TablesType, WorkersType, tables
<1>4. WorkersOK' /\ RowsFit'
  BY <1>1 DEF IInv, WorkersOK, RowsFit, tables
<1>5. OneEntryPerRequest' /\ CutoverIsolatesHistory' /\ PeriodsNeverOverlap'
  BY <1>1 DEF IInv, OneEntryPerRequest, CutoverIsolatesHistory, PeriodsNeverOverlap, tables
<1> QED
  BY <1>3, <1>4, <1>5 DEF IInv

(* The loading of the context, operation by operation. *)
LEMMA BeginAnyStep ==
  ASSUME IInv, NEW w \in Workers,
         BeginPost(w) \/ BeginReverse(w) \/ BeginOpening(w) \/ BeginCharge(w) \/ BeginPeriod(w)
  PROVE  IInv'
<1>1. CASE BeginPost(w)
  BY <1>1, BeginStep, AuthorizeResult DEF BeginPost
<1>2. CASE BeginReverse(w)
  <2>1. PICK c \in Commands : c.op = "reverse" /\ Begin(w, c, ReverseError(c))
    BY <1>2 DEF BeginReverse
  <2>2. ReverseError(c) \in Errors \cup {"none"}
    BY AuthorizeResult DEF ReverseError, Errors
  <2>3. ReverseError(c) = "none" => c.entry \in DOMAIN journal
    BY DEF ReverseError
  <2> QED
    BY <2>1, <2>2, <2>3, BeginStep
<1>3. CASE BeginOpening(w)
  BY <1>3, BeginStep, RequireAllResult DEF BeginOpening
<1>4. CASE BeginCharge(w)
  BY <1>4, BeginStep, RequireAllResult DEF BeginCharge
<1>5. CASE BeginPeriod(w)
  BY <1>5, BeginStep, RequireAllResult DEF BeginPeriod
<1> QED
  BY <1>1, <1>2, <1>3, <1>4, <1>5

LEMMA StutterStep ==
  ASSUME IInv, UNCHANGED vars
  PROVE  IInv'
  BY DEF vars, tables, settings, IInv, TypeOK, TablesType, SettingsType, WorkersType, WorkersOK,
         RowsFit, OneEntryPerRequest,
         CutoverIsolatesHistory, PeriodsNeverOverlap

LEMMA NextIInv == IInv /\ [Next]_vars => IInv'
<1> SUFFICES ASSUME IInv, [Next]_vars PROVE IInv'
  OBVIOUS
<1>1. ASSUME NEW w \in Workers, Serve(w) PROVE IInv'
  <2>1. CASE Handle(w)
    BY <2>1, PostStep, ReverseStep, OpeningStep, ChargeStep, PeriodStep DEF Handle
  <2> QED
    BY <1>1, <2>1, BeginAnyStep, LockStep, InsertChargeStep, CommitStep, EndStep DEF Serve
<1>2. CASE Around
  BY <1>2, AroundStep
<1>3. CASE UNCHANGED vars
  BY <1>3, StutterStep
<1> QED
  BY <1>1, <1>2, <1>3 DEF Next

(* The inductive invariant. *)
THEOREM LedgerInvariant == Spec => []IInv
  BY InitIInv, NextIInv, PTL DEF Spec

-----------------------------------------------------------------------------
(* What follows from the invariant. *)

(* Type correctness of the tables, the settings and the workers. *)
THEOREM TypeCorrect == Spec => []TypeOK
<1>1. IInv => TypeOK
  BY DEF IInv
<1> QED
  BY <1>1, LedgerInvariant, PTL

(* However many workers submit one request UUID, at most one entry carries  *)
(* it (existing_request and the unique key behind it). *)
THEOREM RequestsAreIdempotent == Spec => []OneEntryPerRequest
<1>1. IInv => OneEntryPerRequest
  BY DEF IInv
<1> QED
  BY <1>1, LedgerInvariant, PTL

(* One opening at most, and nothing dated on or before its date. *)
THEOREM OpeningIsolatesHistory == Spec => []CutoverIsolatesHistory
<1>1. IInv => CutoverIsolatesHistory
  BY DEF IInv
<1> QED
  BY <1>1, LedgerInvariant, PTL

(* Only a commit writes the tables. *)
LEMMA OnlyCommitsWrite ==
  ASSUME [Next]_vars
  PROVE  UNCHANGED tables \/ \E w \in Workers : Commit(w)
<1>1. ASSUME NEW w \in Workers, Serve(w)
      PROVE  UNCHANGED tables \/ Commit(w)
  <2>1. CASE Handle(w)
    BY <2>1 DEF Handle, PostJournal, ReverseJournal, PostInitialOpening, ApproveCharge,
         CreatePeriod, ClosePeriod, Replay, WriteEntry, Refuse, Flush
  <2> QED
    BY <1>1, <2>1 DEF Serve, BeginPost, BeginReverse, BeginOpening, BeginCharge, BeginPeriod,
         Begin, LockOrganization, InsertCharge, Refuse, Respond, Crash, Reset
<1>2. CASE Around
  BY <1>2 DEF Around, UpdateBranch, DeactivateAccount, RevokeGrant
<1>3. CASE UNCHANGED vars
  BY <1>3 DEF vars
<1> QED
  BY <1>1, <1>2, <1>3 DEF Next

LEMMA CommitFreezes ==
  ASSUME IInv, NEW w \in Workers, Commit(w), NEW r \in Ranges, periods[r] = "CLOSED"
  PROVE  EntriesIn(r)' = EntriesIn(r) /\ periods'[r] = "CLOSED"
<1> DEFINE new == rows[w]
<1>1. Fits(journal, periods, batches, charges, new) /\ new \in RowsType
  BY CommittedJournal
<1>2. periods'[r] = "CLOSED"
  <2>1. CASE new.period = <<>>
    BY <2>1 DEF Commit, CommittedPeriods
  <2>2. CASE new.period # <<>>
    <3>1. new.period[1] \in Ranges /\ new.period[2] \in {"OPEN", "CLOSED"}
      BY <1>1, <2>2 DEF RowsType
    <3>2. PeriodFits(periods, new.period[1], new.period[2])
      BY <1>1, <2>2 DEF Fits
    <3>3. periods' = [periods EXCEPT ![new.period[1]] = new.period[2]]
      BY <2>2 DEF Commit, CommittedPeriods
    <3>4. r[1] \in Nat /\ r[2] \in Nat /\ r[1] <= r[2]
      BY NamesAssumption DEF Ranges
    <3>5. new.period[2] = "OPEN" => new.period[1] # r
      BY <3>2, <3>4 DEF PeriodFits, Overlap
    <3> QED
      BY <3>1, <3>3, <3>5 DEF IInv, TypeOK, TablesType
  <2> QED
    BY <2>1, <2>2
<1>3. EntriesIn(r)' = EntriesIn(r)
  <2> DEFINE ids == {i \in DOMAIN journal : journal[i].date \in r[1]..r[2]}
  <2>1. {i \in DOMAIN journal' : journal'[i].date \in r[1]..r[2]} = ids
    <3>1. CASE new.entry = <<>>
      BY <3>1, CommittedJournal
    <3>2. CASE new.entry # <<>>
      <4>1. new.entry[1].date < r[1] \/ new.entry[1].date > r[2]
        BY <1>1, <3>2 DEF Fits, EntryFits
      <4>2. new.entry[1].date \in Nat /\ r[1] \in Nat /\ r[2] \in Nat
        BY <3>2, CommittedJournal, NamesAssumption DEF Entry, Ranges
      <4>3. new.entry[1].date \notin r[1]..r[2]
        BY <4>1, <4>2
      <4> QED
        BY <3>2, <4>3, CommittedJournal
    <3> QED
      BY <3>1, <3>2
  <2>2. \A i \in ids : journal'[i] = journal[i]
    BY CommittedJournal
  <2> HIDE DEF ids
  <2>3. EntriesIn(r)' = {<<n, journal'[n]>> : n \in ids}
    BY <2>1 DEF EntriesIn
  <2>4. EntriesIn(r) = {<<n, journal[n]>> : n \in ids}
    BY DEF EntriesIn, ids
  <2> QED
    BY <2>2, <2>3, <2>4
<1> QED
  BY <1>2, <1>3

(* The entries of a closed period are fixed for good, and it stays closed.  *)
THEOREM ClosedIsFinal == Spec => ClosedPeriodsAreFrozen
<1> DEFINE Frozen == \A r \in Ranges : periods[r] = "CLOSED" =>
             EntriesIn(r)' = EntriesIn(r) /\ periods'[r] = "CLOSED"
<1>1. IInv /\ [Next]_vars => [Frozen]_vars
  <2> SUFFICES ASSUME IInv, [Next]_vars PROVE Frozen
    OBVIOUS
  <2>1. CASE UNCHANGED tables
    BY <2>1 DEF tables, EntriesIn
  <2>2. CASE \E w \in Workers : Commit(w)
    BY <2>2, CommitFreezes
  <2> QED
    BY <2>1, <2>2, OnlyCommitsWrite
<1> QED
  BY <1>1, LedgerInvariant, PTL DEF Spec, ClosedPeriodsAreFrozen

-----------------------------------------------------------------------------
(* The workers together behave as the abstract ledger. *)

LEMMA CommitKeepsPromise ==
  ASSUME IInv, NEW w \in Workers, Commit(w)
  PROVE  Promise!Next \/ UNCHANGED Promise!ledger
<1> DEFINE r == rows[w]
           N == Len(journal) + 1
           e == r.entry[1]
<1>1. r \in RowsType /\ Fits(journal, periods, batches, charges, r)
  BY CommittedJournal
<1>2. Promise!Ranges = Ranges
  BY DEF Promise!Ranges, Ranges
<1>3. CASE r.entry = <<>>
  <2>1. ~r.opening /\ r.charge = {}
    BY <1>1, <1>3 DEF Fits, RowsType
  <2>2. journal' = journal /\ batches' = batches /\ charges' = charges
    BY <1>3, <2>1, CommittedJournal DEF Commit
  <2>3. CASE r.period = <<>>
    BY <2>2, <2>3 DEF Commit, CommittedPeriods, Promise!ledger
  <2>4. CASE r.period # <<>>
    <3>1. r.period[1] \in Ranges /\ r.period[2] \in {"OPEN", "CLOSED"}
      BY <1>1, <2>4 DEF RowsType
    <3>2. PeriodFits(periods, r.period[1], r.period[2])
      BY <1>1, <2>4 DEF Fits
    <3>3. periods' = [periods EXCEPT ![r.period[1]] = r.period[2]]
      BY <2>4 DEF Commit, CommittedPeriods
    <3>4. CASE r.period[2] = "CLOSED"
      BY <1>2, <2>2, <3>1, <3>2, <3>3, <3>4 DEF PeriodFits, Promise!ClosePeriod, Promise!Next
    <3>5. CASE r.period[2] = "OPEN"
      <4>1. \A s \in Ranges : s[1] \in Nat /\ s[2] \in Nat
        BY NamesAssumption DEF Ranges
      <4>2. \A s \in Ranges : periods[s] # "NONE" =>
              r.period[1][2] < s[1] \/ s[2] < r.period[1][1]
        BY <3>1, <3>2, <3>5, <4>1 DEF PeriodFits, Overlap
      <4> QED
        BY <1>2, <2>2, <3>1, <3>3, <3>5, <4>2 DEF Promise!CreatePeriod, Promise!Next
    <3> QED
      BY <3>1, <3>4, <3>5
  <2> QED
    BY <2>3, <2>4
<1>4. CASE r.entry # <<>>
  <2>1. /\ journal' = Append(journal, e) /\ Len(journal') = N
        /\ journal'[N] = e /\ journal' # <<>> /\ N \in Nat
    BY <1>4, CommittedJournal
  <2>2. periods' = periods
    BY <1>1, <1>4 DEF Fits, Commit, CommittedPeriods
  <2>3. EntryFits(journal, periods, batches, charges, e)
    BY <1>1, <1>4 DEF Fits
  <2>4. Promise!Admissible(e)
    BY <1>2, <2>3 DEF EntryFits, Promise!Admissible
  <2>5. e.reversalOf = 0 \/ Promise!ReversesWhole(e)
    BY <2>3 DEF EntryFits, ReversalFits, SwappedLines, Promise!ReversesWhole, Promise!Cancels
  <2>6. CASE r.opening
    <3>1. r.entry = <<e>> /\ r.charge = {} /\ OpeningFits(journal, batches, e)
      BY <1>1, <1>4, <2>6 DEF Fits, RowsType
    <3>2. batches' = {[journal |-> N, date |-> e.date]} /\ charges' = charges
      BY <2>6, <3>1 DEF Commit, OpeningFits
    <3> QED
      BY <2>1, <2>2, <2>4, <3>1, <3>2 DEF OpeningFits, Promise!Record, Promise!Next
  <2>7. CASE ~r.opening /\ r.charge = {}
    <3>1. batches' = batches /\ charges' = charges
      BY <2>7 DEF Commit
    <3> QED
      BY <2>1, <2>2, <2>4, <2>5, <3>1 DEF Promise!Record, Promise!Next
  <2>8. CASE ~r.opening /\ r.charge # {}
    <3>1. e.reversalOf = 0 /\ ChargeFits(charges, r.charge)
      BY <1>1, <2>8 DEF Fits
    <3>2. PICK row \in r.charge : r.charge = {row} /\ \A old \in charges : old.draft # row.draft
      BY <3>1 DEF ChargeFits
    <3> DEFINE new == [request |-> row.request, digest |-> row.digest, draft |-> row.draft,
                       journal |-> N]
    <3>3. batches' = batches /\ charges' = charges \cup {new}
      BY <2>8, <3>2 DEF Commit
    <3>4. new.journal = N /\ \A old \in charges : old.draft # new.draft
      BY <3>2
    <3> HIDE DEF new
    <3> QED
      BY <2>1, <2>2, <2>4, <3>1, <3>3, <3>4 DEF Promise!Record, Promise!Next
  <2> QED
    BY <2>6, <2>7, <2>8 DEF RowsType
<1> QED
  BY <1>3, <1>4

(* Every behaviour of the workers, their transactions, crashes and retries  *)
(* is a behaviour of the one-command-at-a-time ledger of LedgerPromise.     *)
THEOREM LedgerImplementsPromise == Spec => KeepsPromise
<1>1. Init => Promise!Init
  BY DEF Init, Promise!Init, Ranges, Promise!Ranges
<1>2. IInv /\ [Next]_vars => [Promise!Next]_(Promise!ledger)
  <2> SUFFICES ASSUME IInv, [Next]_vars PROVE Promise!Next \/ UNCHANGED Promise!ledger
    OBVIOUS
  <2>1. CASE UNCHANGED tables
    BY <2>1 DEF tables, Promise!ledger
  <2>2. CASE \E w \in Workers : Commit(w)
    BY <2>2, CommitKeepsPromise
  <2> QED
    BY <2>1, <2>2, OnlyCommitsWrite
<1> QED
  BY <1>1, <1>2, LedgerInvariant, PTL DEF Spec, KeepsPromise, Promise!Spec

-----------------------------------------------------------------------------
(* What the promise is worth: its law of requests, reversals, openings and  *)
(* closed periods follows without a word about workers                      *)

ReversedOnce == \A i \in DOMAIN journal : LET n == journal[i].reversalOf IN n # 0 =>
  /\ n \in 1..(i - 1)
  /\ journal[n].reversalOf = 0 /\ ~Opens(n) /\ ~Charged(n)
  /\ \A j \in DOMAIN journal : journal[j].reversalOf = n => j = i

HistoryAfterOpening ==
  /\ \A b1, b2 \in batches : b1 = b2
  /\ \A batch \in batches : \A n \in DOMAIN journal \ {batch.journal} : journal[n].date > batch.date

ChargedOnce == \A r1, r2 \in charges : r1.draft = r2.draft => r1 = r2

PromiseInv == OneEntryPerRequest /\ ReversedOnce /\ HistoryAfterOpening /\ ChargedOnce

LEMMA RecordedEntry ==
  ASSUME TablesType, TablesType', Promise!Record,
         NEW e, e = journal'[Len(journal')]
  PROVE  /\ Len(journal) \in Nat /\ Len(journal') = Len(journal) + 1
         /\ e \in Entry /\ journal'[Len(journal) + 1] = e
         /\ DOMAIN journal = 1..Len(journal) /\ DOMAIN journal' = 1..(Len(journal) + 1)
         /\ \A i \in DOMAIN journal : journal'[i] = journal[i]
         /\ Promise!Admissible(e) /\ periods' = periods
<1>1. journal \in Seq(Entry) /\ journal' \in Seq(Entry) /\ journal' # <<>>
  BY DEF TablesType, Promise!Record
<1>2. Len(journal') \in DOMAIN journal' /\ e \in Entry
  BY <1>1
<1>3. journal' = Append(journal, e) /\ Promise!Admissible(e) /\ periods' = periods
  BY DEF Promise!Record
<1> QED
  BY <1>1, <1>2, <1>3

LEMMA RecordKept ==
  ASSUME TablesType, TablesType', PromiseInv, Promise!Record
  PROVE  PromiseInv'
<1> DEFINE N == Len(journal) + 1
           e == journal'[Len(journal')]
<1>1. /\ Len(journal) \in Nat /\ Len(journal') = N
      /\ e \in Entry /\ journal'[N] = e
      /\ DOMAIN journal = 1..Len(journal) /\ DOMAIN journal' = 1..N
      /\ \A i \in DOMAIN journal : journal'[i] = journal[i]
      /\ Promise!Admissible(e)
  BY RecordedEntry
<1>2. \/ batches' = batches /\ charges' = charges /\ (e.reversalOf = 0 \/ Promise!ReversesWhole(e))
      \/ /\ batches = {} /\ batches' = {[journal |-> N, date |-> e.date]}
         /\ \A i \in DOMAIN journal : journal[i].date > e.date
         /\ e.reversalOf = 0 /\ charges' = charges
      \/ /\ \E row \in charges' : /\ row.journal = N
                                  /\ \A old \in charges : old.draft # row.draft
                                  /\ charges' = charges \cup {row}
         /\ e.reversalOf = 0 /\ batches' = batches
  BY <1>1 DEF Promise!Record
<1> HIDE DEF e
<1>3. N \in Nat /\ N \notin DOMAIN journal /\ DOMAIN journal' = DOMAIN journal \cup {N}
  BY <1>1
<1>4. OneEntryPerRequest'
  BY <1>1, <1>3 DEF PromiseInv, OneEntryPerRequest, Promise!Admissible
<1>5. \A row \in batches \cup charges : row.journal \in DOMAIN journal
  BY DEF TablesType
<1>6. \A row \in (batches' \cup charges') \ (batches \cup charges) : row.journal = N
  BY <1>2
<1>7. e.reversalOf # 0 => Promise!ReversesWhole(e) /\ batches' = batches /\ charges' = charges
  BY <1>2
<1>8. ReversedOnce'
  <2> SUFFICES ASSUME NEW i \in DOMAIN journal', NEW n, n = journal'[i].reversalOf, n # 0
               PROVE  /\ n \in 1..(i - 1)
                      /\ journal'[n].reversalOf = 0
                      /\ \A row \in batches' \cup charges' : row.journal # n
                      /\ \A j \in DOMAIN journal' : journal'[j].reversalOf = n => j = i
    BY DEF ReversedOnce, Opens, Charged
  <2>1. CASE i \in DOMAIN journal
    <3>1. /\ n = journal[i].reversalOf /\ n \in 1..(i - 1) /\ i \in 1..Len(journal)
          /\ journal[n].reversalOf = 0
          /\ \A row \in batches \cup charges : row.journal # n
          /\ \A j \in DOMAIN journal : journal[j].reversalOf = n => j = i
      BY <1>1, <2>1 DEF PromiseInv, ReversedOnce, Opens, Charged
    <3>2. n \in DOMAIN journal /\ n # N
      BY <1>1, <3>1
    <3>3. e.reversalOf # n
      BY <1>7, <2>1, <3>1 DEF Promise!ReversesWhole
    <3>4. \A row \in batches' \cup charges' : row.journal # n
      BY <1>6, <3>1, <3>2
    <3> QED
      BY <1>1, <1>3, <3>1, <3>2, <3>3, <3>4
  <2>2. CASE i = N
    <3>1. n = e.reversalOf /\ Promise!ReversesWhole(e) /\ batches' = batches /\ charges' = charges
      BY <1>1, <1>7, <2>2
    <3>2. /\ n \in DOMAIN journal /\ journal[n].reversalOf = 0
          /\ \A j \in DOMAIN journal : journal[j].reversalOf # n
          /\ \A row \in batches \cup charges : row.journal # n
      BY <3>1 DEF Promise!ReversesWhole
    <3>3. n \in 1..(i - 1)
      BY <1>1, <2>2, <3>2
    <3> QED
      BY <1>1, <1>3, <2>2, <3>1, <3>2, <3>3
  <2> QED
    BY <1>3, <2>1, <2>2
<1>9. HistoryAfterOpening'
  <2>1. CASE batches' = batches
    <3>1. \A batch \in batches : e.date > batch.date
      BY <1>1 DEF Promise!Admissible
    <3> QED
      BY <1>1, <1>3, <2>1, <3>1 DEF PromiseInv, HistoryAfterOpening
  <2>2. CASE batches' = {[journal |-> N, date |-> e.date]} /\ \A i \in DOMAIN journal : journal[i].date > e.date
    BY <1>1, <1>3, <2>2 DEF HistoryAfterOpening
  <2> QED
    BY <1>2, <2>1, <2>2
<1>10. ChargedOnce'
  BY <1>2 DEF PromiseInv, ChargedOnce
<1> QED
  BY <1>4, <1>8, <1>9, <1>10 DEF PromiseInv

LEMMA RecordFreezes ==
  ASSUME TablesType, TablesType', Promise!Record, NEW r \in Ranges, periods[r] = "CLOSED"
  PROVE  EntriesIn(r)' = EntriesIn(r) /\ periods'[r] = "CLOSED"
<1> DEFINE N == Len(journal) + 1
           e == journal'[Len(journal')]
           ids == {i \in DOMAIN journal : journal[i].date \in r[1]..r[2]}
<1>0. /\ Len(journal) \in Nat /\ e \in Entry /\ journal'[N] = e
      /\ DOMAIN journal = 1..Len(journal) /\ DOMAIN journal' = 1..N
      /\ \A i \in DOMAIN journal : journal'[i] = journal[i]
      /\ Promise!Admissible(e) /\ periods' = periods
  BY RecordedEntry
<1> HIDE DEF e
<1>1. /\ e \in Entry /\ journal'[N] = e /\ N \notin DOMAIN journal
      /\ DOMAIN journal' = DOMAIN journal \cup {N}
      /\ \A i \in DOMAIN journal : journal'[i] = journal[i]
      /\ Promise!Admissible(e) /\ periods' = periods
  BY <1>0
<1>2. e.date < r[1] \/ e.date > r[2]
  BY <1>1 DEF Promise!Admissible, Promise!Ranges, Ranges
<1>3. e.date \in Nat /\ r[1] \in Nat /\ r[2] \in Nat
  BY <1>1, NamesAssumption DEF Entry, Ranges
<1>4. e.date \notin r[1]..r[2]
  BY <1>2, <1>3
<1>5. {i \in DOMAIN journal' : journal'[i].date \in r[1]..r[2]} = ids
  BY <1>1, <1>4
<1> HIDE DEF ids
<1>6. EntriesIn(r)' = {<<n, journal'[n]>> : n \in ids}
  BY <1>5 DEF EntriesIn
<1>7. EntriesIn(r) = {<<n, journal[n]>> : n \in ids}
  BY DEF EntriesIn, ids
<1>8. \A i \in ids : journal'[i] = journal[i]
  BY <1>1 DEF ids
<1> QED
  BY <1>1, <1>6, <1>7, <1>8

(* Whatever keeps the promise, with well-typed tables, posts one entry per  *)
(* request, reverses an entry once and never an opening or a charge, leaves *)
(* no history on or before its one opening, charges a draft once, and       *)
(* freezes the entries of a closed period: the transactions of service.py   *)
(* only have to keep the promise.                                           *)
THEOREM PromiseKeepsLedger ==
  KeepsPromise /\ []TablesType =>
    /\ [](OneEntryPerRequest /\ ReversedOnce /\ HistoryAfterOpening /\ ChargedOnce)
    /\ ClosedPeriodsAreFrozen
<1> DEFINE Frozen == \A r \in Ranges : periods[r] = "CLOSED" =>
             EntriesIn(r)' = EntriesIn(r) /\ periods'[r] = "CLOSED"
<1>1. Promise!Init => PromiseInv
  BY DEF Promise!Init, PromiseInv, OneEntryPerRequest, ReversedOnce, HistoryAfterOpening, ChargedOnce
<1>2. PromiseInv /\ TablesType /\ TablesType' /\ [Promise!Next]_(Promise!ledger) => PromiseInv'
  <2> SUFFICES ASSUME PromiseInv, TablesType, TablesType', [Promise!Next]_(Promise!ledger)
               PROVE  PromiseInv'
    OBVIOUS
  <2>1. CASE journal' = journal /\ batches' = batches /\ charges' = charges
    BY <2>1 DEF PromiseInv, OneEntryPerRequest, ReversedOnce, HistoryAfterOpening, ChargedOnce,
                Opens, Charged
  <2> QED
    BY <2>1, RecordKept
       DEF Promise!Next, Promise!ledger, Promise!CreatePeriod, Promise!ClosePeriod
<1>3. TablesType /\ TablesType' /\ [Promise!Next]_(Promise!ledger) => [Frozen]_vars
  <2> SUFFICES ASSUME TablesType, TablesType', [Promise!Next]_(Promise!ledger),
                      NEW r \in Ranges, periods[r] = "CLOSED"
               PROVE  EntriesIn(r)' = EntriesIn(r) /\ periods'[r] = "CLOSED"
    OBVIOUS
  <2>1. r[1] \in Nat /\ r[2] \in Nat /\ r[1] <= r[2]
    BY NamesAssumption DEF Ranges
  <2>2. ASSUME journal' = journal PROVE EntriesIn(r)' = EntriesIn(r)
    BY <2>2 DEF EntriesIn
  <2>3. CASE UNCHANGED Promise!ledger
    BY <2>2, <2>3 DEF Promise!ledger
  <2>4. ASSUME NEW s \in Promise!Ranges, Promise!CreatePeriod(s)
        PROVE  EntriesIn(r)' = EntriesIn(r) /\ periods'[r] = "CLOSED"
    <3>1. s # r
      BY <2>1, <2>4 DEF Promise!CreatePeriod, Promise!Ranges, Ranges
    <3> QED
      BY <2>2, <2>4, <3>1 DEF Promise!CreatePeriod, TablesType
  <2>5. ASSUME NEW s \in Promise!Ranges, Promise!ClosePeriod(s)
        PROVE  EntriesIn(r)' = EntriesIn(r) /\ periods'[r] = "CLOSED"
    BY <2>2, <2>5 DEF Promise!ClosePeriod, TablesType
  <2>6. CASE Promise!Record
    BY <2>6, RecordFreezes
  <2> QED
    BY <2>3, <2>4, <2>5, <2>6 DEF Promise!Next
<1>4. PromiseInv => OneEntryPerRequest /\ ReversedOnce /\ HistoryAfterOpening /\ ChargedOnce
  BY DEF PromiseInv
<1> QED
  BY <1>1, <1>2, <1>3, <1>4, PTL DEF KeepsPromise, Promise!Spec, ClosedPeriodsAreFrozen

-----------------------------------------------------------------------------
(* Every entry is the effect of the command it names. *)

PeriodOperations == {"create_period", "close_period"}

(* An entry has the request of its command, and with it the batch of an     *)
(* opening; its branch exists, so that a replay can be authorized on it.    *)
Present(branch) == branch # NoBranch => branchStatus[branch] # "ABSENT"

EntriesBelong == \A n \in DOMAIN journal :
  /\ journal[n].digest.op \notin PeriodOperations
  /\ journal[n].request = journal[n].digest.request
  /\ journal[n].digest.op = "opening" => Opens(n)
  /\ Present(journal[n].branch)

ChargesBelong == \A row \in charges : row.request = row.digest.request

(* What a worker has flushed for command c, or the entry n it has found.    *)
Belongs(c, r, n) ==
  IF r.entry # <<>>
    THEN /\ c.op \notin PeriodOperations
         /\ r.entry[1].digest = c /\ r.entry[1].request = c.request
         /\ Present(r.entry[1].branch)
         /\ c.op = "opening" => r.opening
         /\ r.charge # {} => c.op = "charge" /\ r.charge = {ChargeRow(c)}
  ELSE c.op \in PeriodOperations \/ (n \in DOMAIN journal /\ journal[n].digest = c)

WrittenOK(w) == stage[w] = "written" => Belongs(cmd[w], rows[w], answer[w].entry)

AskedOK(w) == stage[w] \in {"waiting", "locked"} /\ cmd[w].op = "post" => Present(cmd[w].branch)

AnswerOK(w) ==
  stage[w] = "done" /\ answer[w].status = "ok" /\ cmd[w].op \notin PeriodOperations
    => answer[w].entry \in DOMAIN journal /\ journal[answer[w].entry].digest = cmd[w]

DInv ==
  /\ EntriesBelong /\ ChargesBelong /\ ChargesMatchJournal
  /\ \A w \in Workers : WrittenOK(w) /\ AskedOK(w) /\ AnswerOK(w)

(* The branches of the journal stay, and the tables do not change but by a  *)
(* commit: only the worker that moves has to be looked at.                  *)
BranchesStay == \A b \in Branches : branchStatus[b] # "ABSENT" => branchStatus'[b] # "ABSENT"

LEMMA OthersBelong ==
  ASSUME IInv, DInv, BranchesStay, UNCHANGED tables, NEW v \in Workers,
         stage'[v] = stage[v], cmd'[v] = cmd[v], rows'[v] = rows[v], answer'[v] = answer[v]
  PROVE  WrittenOK(v)' /\ AskedOK(v)' /\ AnswerOK(v)'
<1>1. UNCHANGED journal
  BY DEF tables
<1>2. WrittenOK(v)'
  <2> SUFFICES ASSUME stage[v] = "written" PROVE Belongs(cmd[v], rows[v], answer[v].entry)'
    BY DEF WrittenOK
  <2>1. Belongs(cmd[v], rows[v], answer[v].entry)
    BY DEF DInv, WrittenOK
  <2>2. rows[v].entry # <<>> => rows[v].entry[1] \in Entry
    <3>1. rows[v].entry \in Seq(Entry) /\ (rows[v].entry # <<>> => Len(rows[v].entry) = 1)
      BY DEF IInv, TypeOK, WorkersType, RowsType, RowsFit, Fits
    <3> QED
      BY <3>1, ElementOfSeq
  <2>3. rows[v].entry # <<>> => Present(rows[v].entry[1].branch)'
    <3>1. rows[v].entry # <<>> => rows[v].entry[1].branch \in Scopes /\ Present(rows[v].entry[1].branch)
      BY <2>1, <2>2 DEF Belongs, Entry
    <3> QED
      BY <3>1 DEF BranchesStay, Present, Scopes
  <2> QED
    BY <1>1, <2>1, <2>3 DEF Belongs
<1>3. AskedOK(v)'
  <2> SUFFICES ASSUME stage[v] \in {"waiting", "locked"}, cmd[v].op = "post"
               PROVE  Present(cmd[v].branch)'
    BY DEF AskedOK
  <2>1. cmd[v] \in PostCommand /\ Present(cmd[v].branch)
    BY CommandShapes DEF DInv, AskedOK, IInv, WorkersOK
  <2>2. cmd[v].branch \in Scopes
    BY <2>1 DEF PostCommand
  <2> QED
    BY <2>1, <2>2 DEF BranchesStay, Present, Scopes
<1>4. AnswerOK(v)'
  BY <1>1 DEF DInv, AnswerOK
<1> QED
  BY <1>2, <1>3, <1>4

LEMMA TablesBelong ==
  ASSUME IInv, DInv, BranchesStay, UNCHANGED tables
  PROVE  EntriesBelong' /\ ChargesBelong' /\ ChargesMatchJournal'
<1>1. UNCHANGED <<journal, batches, charges>>
  BY DEF tables
<1>2. \A n \in DOMAIN journal : journal[n].branch \in Scopes
  <2>1. \A n \in DOMAIN journal : journal[n] \in Entry
    BY DEF IInv, TypeOK, TablesType
  <2> QED
    BY <2>1 DEF Entry
<1>3. EntriesBelong'
  <2> SUFFICES ASSUME NEW n \in DOMAIN journal
               PROVE  /\ journal[n].digest.op \notin PeriodOperations
                      /\ journal[n].request = journal[n].digest.request
                      /\ journal[n].digest.op = "opening" => Opens(n)'
                      /\ Present(journal[n].branch)'
    BY <1>1 DEF EntriesBelong
  <2>1. Present(journal[n].branch)'
    <3>1. Present(journal[n].branch) /\ journal[n].branch \in Scopes
      BY <1>2 DEF DInv, EntriesBelong
    <3> QED
      BY <1>1, <3>1 DEF BranchesStay, Present, Scopes
  <2>2. Opens(n)' <=> Opens(n)
    BY <1>1 DEF Opens
  <2> QED
    BY <2>1, <2>2 DEF DInv, EntriesBelong
<1>4. ChargesBelong' /\ ChargesMatchJournal'
  BY <1>1 DEF DInv, ChargesBelong, ChargesMatchJournal, Charged
<1> QED
  BY <1>3, <1>4

(* A step of one worker before its commit. *)
LEMMA OneWorkerBelongs ==
  ASSUME IInv, DInv, NEW w \in Workers, UNCHANGED <<tables, settings>>,
         \A v \in Workers \ {w} : /\ stage'[v] = stage[v] /\ cmd'[v] = cmd[v]
                                  /\ rows'[v] = rows[v] /\ answer'[v] = answer[v],
         WrittenOK(w)', AskedOK(w)', AnswerOK(w)'
  PROVE  DInv'
<1>1. BranchesStay /\ UNCHANGED tables
  BY DEF BranchesStay, settings
<1> QED
  BY <1>1, OthersBelong, TablesBelong DEF DInv

LEMMA BeginBelongs ==
  ASSUME IInv, DInv, NEW w \in Workers, NEW c \in Commands, NEW error \in Errors \cup {"none"},
         Begin(w, c, error), error = "none" /\ c.op = "post" => Present(c.branch)
  PROVE  DInv'
<1>1. UNCHANGED <<tables, settings>> /\ UNCHANGED rows
      /\ stage' = [stage EXCEPT ![w] = IF error = "none" THEN "waiting" ELSE "done"]
      /\ cmd' = [cmd EXCEPT ![w] = c]
      /\ answer' = IF error = "none" THEN answer
                   ELSE [answer EXCEPT ![w] = [status |-> error, entry |-> 0]]
  BY DEF Begin
<1>2. /\ stage \in [Workers -> {"idle", "waiting", "locked", "written", "done"}]
      /\ cmd \in [Workers -> Commands \cup {NoCommand}]
      /\ answer \in [Workers ->
           [status : {"none", "ok", "denied", "not_found", "conflict", "failed"}, entry : Nat]]
  BY DEF IInv, TypeOK, WorkersType
<1>3. WrittenOK(w)'
  BY <1>1, <1>2 DEF WrittenOK
<1>4. AskedOK(w)'
  BY <1>1, <1>2 DEF AskedOK, Present, settings
<1>5. AnswerOK(w)'
  BY <1>1, <1>2 DEF AnswerOK, Errors
<1>6. \A v \in Workers \ {w} : /\ stage'[v] = stage[v] /\ cmd'[v] = cmd[v]
                               /\ rows'[v] = rows[v] /\ answer'[v] = answer[v]
  BY <1>1, <1>2
<1> QED
  BY <1>1, <1>3, <1>4, <1>5, <1>6, OneWorkerBelongs

LEMMA BeginAnyBelongs ==
  ASSUME IInv, DInv, NEW w \in Workers,
         BeginPost(w) \/ BeginReverse(w) \/ BeginOpening(w) \/ BeginCharge(w) \/ BeginPeriod(w)
  PROVE  DInv'
<1>1. CASE BeginPost(w)
  <2>1. PICK c \in Commands : c.op = "post" /\ Begin(w, c, Authorize(grants, "post", c.branch, TRUE))
    BY <1>1 DEF BeginPost
  <2>2. Authorize(grants, "post", c.branch, TRUE) = "none" => Present(c.branch)
    BY DEF Authorize, Present
  <2> QED
    BY <2>1, <2>2, BeginBelongs, AuthorizeResult
<1>2. CASE BeginReverse(w)
  <2>1. PICK c \in Commands : c.op = "reverse" /\ Begin(w, c, ReverseError(c))
    BY <1>2 DEF BeginReverse
  <2>2. ReverseError(c) \in Errors \cup {"none"}
    BY AuthorizeResult DEF ReverseError, Errors
  <2> QED
    BY <2>1, <2>2, BeginBelongs
<1>3. CASE BeginOpening(w)
  BY <1>3, BeginBelongs, RequireAllResult DEF BeginOpening
<1>4. CASE BeginCharge(w)
  BY <1>4, BeginBelongs, RequireAllResult DEF BeginCharge
<1>5. CASE BeginPeriod(w)
  BY <1>5, BeginBelongs, RequireAllResult DEF BeginPeriod
<1> QED
  BY <1>1, <1>2, <1>3, <1>4, <1>5

LEMMA LockBelongs ==
  ASSUME IInv, DInv, NEW w \in Workers, LockOrganization(w)
  PROVE  DInv'
<1>1. /\ UNCHANGED <<tables, settings>> /\ UNCHANGED <<cmd, rows, answer>>
      /\ stage[w] = "waiting" /\ stage' = [stage EXCEPT ![w] = "locked"]
      /\ stage \in [Workers -> {"idle", "waiting", "locked", "written", "done"}]
  BY DEF LockOrganization, IInv, TypeOK, WorkersType
<1>2. WrittenOK(w)' /\ AnswerOK(w)'
  BY <1>1 DEF WrittenOK, AnswerOK
<1>3. AskedOK(w)'
  BY <1>1 DEF DInv, AskedOK, Present, settings
<1>4. \A v \in Workers \ {w} : stage'[v] = stage[v]
  BY <1>1
<1> QED
  BY <1>1, <1>2, <1>3, <1>4, OneWorkerBelongs

LEMMA RefuseBelongs ==
  ASSUME IInv, DInv, NEW w \in Workers, NEW error \in Errors, Refuse(w, error)
  PROVE  DInv'
<1>1. /\ UNCHANGED <<tables, settings>> /\ UNCHANGED cmd
      /\ rows' = [rows EXCEPT ![w] = NoRows] /\ rows \in [Workers -> RowsType]
      /\ stage' = [stage EXCEPT ![w] = "done"]
      /\ answer' = [answer EXCEPT ![w] = [status |-> error, entry |-> 0]]
      /\ stage \in [Workers -> {"idle", "waiting", "locked", "written", "done"}]
      /\ answer \in [Workers ->
           [status : {"none", "ok", "denied", "not_found", "conflict", "failed"}, entry : Nat]]
  BY DEF Refuse, IInv, TypeOK, WorkersType
<1>2. WrittenOK(w)' /\ AskedOK(w)'
  BY <1>1 DEF WrittenOK, AskedOK
<1>3. AnswerOK(w)'
  BY <1>1 DEF AnswerOK, Errors
<1>4. \A v \in Workers \ {w} : stage'[v] = stage[v] /\ rows'[v] = rows[v] /\ answer'[v] = answer[v]
  BY <1>1
<1> QED
  BY <1>1, <1>2, <1>3, <1>4, OneWorkerBelongs

LEMMA FlushBelongs ==
  ASSUME IInv, DInv, NEW w \in Workers, NEW r, NEW n, Flush(w, r, n), Belongs(cmd[w], r, n)
  PROVE  DInv'
<1>1. /\ UNCHANGED <<tables, settings>> /\ UNCHANGED cmd
      /\ stage' = [stage EXCEPT ![w] = "written"] /\ rows' = [rows EXCEPT ![w] = r]
      /\ answer' = [answer EXCEPT ![w] = [status |-> "ok", entry |-> n]]
      /\ stage \in [Workers -> {"idle", "waiting", "locked", "written", "done"}]
      /\ answer \in [Workers ->
           [status : {"none", "ok", "denied", "not_found", "conflict", "failed"}, entry : Nat]]
      /\ rows \in [Workers -> RowsType]
  BY DEF Flush, IInv, TypeOK, WorkersType
<1>2. stage'[w] = "written" /\ rows'[w] = r /\ answer'[w].entry = n /\ UNCHANGED <<journal, branchStatus>>
  BY <1>1 DEF tables, settings
<1>3. WrittenOK(w)'
  BY <1>1, <1>2 DEF WrittenOK, Belongs, Present
<1>4. AskedOK(w)' /\ AnswerOK(w)'
  BY <1>2 DEF AskedOK, AnswerOK
<1>5. \A v \in Workers \ {w} : stage'[v] = stage[v] /\ rows'[v] = rows[v] /\ answer'[v] = answer[v]
  BY <1>1
<1> QED
  BY <1>1, <1>3, <1>4, <1>5, OneWorkerBelongs

LEMMA ReplayBelongs ==
  ASSUME IInv, DInv, NEW w \in Workers, Replay(w)
  PROVE  DInv'
<1>1. PICK n \in Recorded(cmd[w]) :
        \/ ReplayError(w, n) = "none" /\ Flush(w, NoRows, n)
        \/ ReplayError(w, n) # "none" /\ Refuse(w, ReplayError(w, n))
  BY DEF Replay
<1>2. ReplayError(w, n) \in Errors \cup {"none"}
  BY AuthorizeResult DEF ReplayError, Errors
<1>3. ReplayError(w, n) = "none" => Belongs(cmd[w], NoRows, n)
  BY DEF ReplayError, Belongs, NoRows, Recorded
<1> QED
  BY <1>1, <1>2, <1>3, FlushBelongs, RefuseBelongs

(* write_entry writes the entry of the worker's command. *)
LEMMA WriteBelongs ==
  ASSUME IInv, DInv, NEW w \in Workers, NEW branch, NEW lines, NEW reversed, NEW opening,
         WriteEntry(w, EntryFor(cmd[w], branch, lines, reversed), opening),
         cmd[w].op \notin PeriodOperations, Present(branch), cmd[w].op = "opening" => opening
  PROVE  DInv'
<1> DEFINE e == EntryFor(cmd[w], branch, lines, reversed)
<1>1. CASE WriteError(e) = "none" /\ Flush(w, EntryRows(e, opening), 0)
  <2>1. e.digest = cmd[w] /\ e.request = cmd[w].request /\ e.branch = branch
    BY DEF EntryFor
  <2>2. /\ EntryRows(e, opening).entry # <<>>
        /\ EntryRows(e, opening).entry[1] = e
        /\ EntryRows(e, opening).opening = opening
        /\ EntryRows(e, opening).charge = {}
    BY DEF EntryRows
  <2>3. Belongs(cmd[w], EntryRows(e, opening), 0)
    BY <2>1, <2>2 DEF Belongs
  <2> HIDE DEF e
  <2> QED
    BY <1>1, <2>3, FlushBelongs
<1>2. CASE WriteError(e) # "none" /\ Refuse(w, WriteError(e))
  BY <1>2, WriteErrorResult, RefuseBelongs
<1> QED
  BY <1>1, <1>2 DEF WriteEntry

LEMMA InsertChargeBelongs ==
  ASSUME IInv, DInv, NEW w \in Workers, InsertCharge(w)
  PROVE  DInv'
<1> DEFINE c == cmd[w]
<1>1. stage[w] = "written" /\ c.op = "charge" /\ rows[w].entry # <<>>
      /\ Belongs(c, rows[w], answer[w].entry)
  BY DEF InsertCharge, ChargeDue, DInv, WrittenOK
<1>2. CASE Refuse(w, "failed")
  BY <1>2, RefuseBelongs DEF Errors
<1>3. CASE /\ rows' = [rows EXCEPT ![w].charge = {ChargeRow(c)}]
           /\ UNCHANGED <<tables, settings, orgLock, stage, cmd, ctx, answer>>
  <2>1. rows \in [Workers -> RowsType]
    BY DEF IInv, TypeOK, WorkersType
  <2>2. rows'[w].charge = {ChargeRow(c)} /\ rows'[w].entry = rows[w].entry
        /\ rows'[w].opening = rows[w].opening
    BY <1>3, <2>1 DEF RowsType
  <2>3. WrittenOK(w)' /\ AskedOK(w)' /\ AnswerOK(w)'
    BY <1>1, <1>3, <2>2 DEF WrittenOK, AskedOK, AnswerOK, Belongs, Present, ChargeRow, settings
  <2>4. \A v \in Workers \ {w} : /\ stage'[v] = stage[v] /\ cmd'[v] = cmd[v]
                                 /\ rows'[v] = rows[v] /\ answer'[v] = answer[v]
    BY <1>3, <2>1
  <2> QED
    BY <1>3, <2>3, <2>4, OneWorkerBelongs
<1> QED
  BY <1>2, <1>3 DEF InsertCharge

LEMMA HandleBelongs ==
  ASSUME IInv, DInv, NEW w \in Workers, Handle(w)
  PROVE  DInv'
<1> DEFINE c == cmd[w]
<1>1. CASE PostJournal(w)
  <2>1. Serving(w, "post") /\ c.op = "post" /\ Present(c.branch)
    BY <1>1 DEF PostJournal, Serving, DInv, AskedOK
  <2>2. CASE Replay(w)
    BY <2>2, ReplayBelongs
  <2>3. CASE WriteEntry(w, EntryFor(c, c.branch, c.lines, 0), FALSE)
    BY <2>1, <2>3, WriteBelongs DEF PeriodOperations
  <2> QED
    BY <1>1, <2>2, <2>3 DEF PostJournal
<1>2. CASE ReverseJournal(w)
  <2> DEFINE original == journal[c.entry]
  <2>1. Serving(w, "reverse") /\ c.op = "reverse"
    BY <1>2 DEF ReverseJournal, Serving
  <2>2. Present(original.branch)
    BY <2>1, ServingShape DEF DInv, EntriesBelong
  <2>3. CASE Replay(w)
    BY <2>3, ReplayBelongs
  <2>4. CASE Refuse(w, "conflict")
    BY <2>4, RefuseBelongs DEF Errors
  <2>5. CASE WriteEntry(w, EntryFor(c, original.branch, Swap(original.lines), c.entry), FALSE)
    BY <2>1, <2>2, <2>5, WriteBelongs DEF PeriodOperations
  <2> QED
    BY <1>2, <2>3, <2>4, <2>5 DEF ReverseJournal
<1>3. CASE PostInitialOpening(w)
  <2>1. c.op = "opening" /\ Present(NoBranch)
    BY <1>3 DEF PostInitialOpening, Serving, Present
  <2>2. CASE Replay(w)
    BY <2>2, ReplayBelongs
  <2>3. CASE Refuse(w, "conflict")
    BY <2>3, RefuseBelongs DEF Errors
  <2>4. CASE WriteEntry(w, EntryFor(c, NoBranch, c.lines, 0), TRUE)
    BY <2>1, <2>4, WriteBelongs DEF PeriodOperations
  <2> QED
    BY <1>3, <2>2, <2>3, <2>4 DEF PostInitialOpening
<1>4. CASE ApproveCharge(w)
  <2>1. c.op = "charge" /\ Present(NoBranch)
    BY <1>4 DEF ApproveCharge, Serving, Present
  <2>2. ASSUME NEW old \in ChargeOf(c), old.digest = c, Flush(w, NoRows, old.journal) PROVE DInv'
    <3>1. old.journal \in DOMAIN journal /\ journal[old.journal].digest = c
      BY <2>2 DEF ChargeOf, DInv, ChargesMatchJournal, IInv, TypeOK, TablesType
    <3>2. Belongs(c, NoRows, old.journal)
      BY <3>1 DEF Belongs, NoRows
    <3> QED
      BY <2>2, <3>2, FlushBelongs
  <2>3. CASE \E error \in {"not_found", "conflict"} : Refuse(w, error)
    BY <2>3, RefuseBelongs DEF Errors
  <2>4. CASE WriteEntry(w, EntryFor(c, NoBranch, c.lines, 0), FALSE)
    BY <2>1, <2>4, WriteBelongs DEF PeriodOperations
  <2> QED
    BY <1>4, <2>2, <2>3, <2>4 DEF ApproveCharge
<1>5. CASE CreatePeriod(w) \/ ClosePeriod(w)
  <2>1. c.op \in PeriodOperations
    BY <1>5 DEF CreatePeriod, ClosePeriod, Serving, PeriodOperations
  <2>2. \A status : Belongs(c, PeriodRows(c.range, status), 0)
    BY <2>1 DEF Belongs, PeriodRows
  <2>3. CASE \E error \in {"not_found", "conflict"} : Refuse(w, error)
    BY <2>3, RefuseBelongs DEF Errors
  <2>4. CASE \E status \in {"OPEN", "CLOSED"} : Flush(w, PeriodRows(c.range, status), 0)
    BY <2>2, <2>4, FlushBelongs
  <2> QED
    BY <1>5, <2>3, <2>4 DEF CreatePeriod, ClosePeriod
<1> QED
  BY <1>1, <1>2, <1>3, <1>4, <1>5 DEF Handle

LEMMA CommitBelongs ==
  ASSUME IInv, DInv, NEW w \in Workers, Commit(w)
  PROVE  DInv'
<1> DEFINE r == rows[w]
           N == Len(journal) + 1
           e == r.entry[1]
           c == cmd[w]
<1>1. /\ stage[w] = "written" /\ orgLock = w /\ r \in RowsType
      /\ Fits(journal, periods, batches, charges, r) /\ Belongs(c, r, answer[w].entry)
      /\ \A n \in DOMAIN journal : n \in DOMAIN journal' /\ journal'[n] = journal[n]
  BY CommittedJournal DEF DInv, WrittenOK
<1>2. /\ stage' = [stage EXCEPT ![w] = "done"] /\ rows' = [rows EXCEPT ![w] = NoRows]
      /\ UNCHANGED settings /\ UNCHANGED <<cmd, branchStatus>>
      /\ answer' = IF r.entry = <<>> THEN answer ELSE [answer EXCEPT ![w].entry = N]
  BY DEF Commit, settings
<1>b. batches' = IF r.opening THEN batches \cup {[journal |-> N, date |-> e.date]} ELSE batches
  BY DEF Commit
<1>c. charges' = charges \cup {[request |-> row.request, digest |-> row.digest,
                               draft |-> row.draft, journal |-> N] : row \in r.charge}
  BY DEF Commit
<1>3. /\ stage \in [Workers -> {"idle", "waiting", "locked", "written", "done"}]
      /\ cmd \in [Workers -> Commands \cup {NoCommand}]
      /\ answer \in [Workers ->
           [status : {"none", "ok", "denied", "not_found", "conflict", "failed"}, entry : Nat]]
      /\ rows \in [Workers -> RowsType]
  BY DEF IInv, TypeOK, WorkersType
<1> DEFINE row == [request |-> c.request, digest |-> c, draft |-> c.draft, journal |-> N]
<1>4. \/ journal' = journal /\ batches' = batches /\ charges' = charges /\ r.entry = <<>>
      \/ /\ r.entry # <<>> /\ DOMAIN journal' = DOMAIN journal \cup {N} /\ N \notin DOMAIN journal
         /\ journal'[N] = e /\ e.digest = c /\ e.request = c.request
         /\ c.op \notin PeriodOperations /\ Present(e.branch)
         /\ c.op = "opening" => \E batch \in batches' : batch.journal = N
         /\ charges' = IF c.op = "charge" THEN charges \cup {row} ELSE charges
         /\ c.op = "charge" => \A old \in charges : old.draft # c.draft
  <2>1. CASE r.entry = <<>>
    <3>1. r.charge = {} /\ r.opening = FALSE
      BY <1>1, <2>1 DEF Fits, RowsType
    <3> QED
      BY <1>b, <1>c, <2>1, <3>1, CommittedJournal
  <2>2. CASE r.entry # <<>>
    <3>1. /\ DOMAIN journal' = DOMAIN journal \cup {N} /\ N \notin DOMAIN journal /\ journal'[N] = e
      BY <2>2, CommittedJournal
    <3>2. /\ c.op \notin PeriodOperations /\ e.digest = c /\ e.request = c.request
          /\ Present(e.branch) /\ (c.op = "opening" => r.opening)
          /\ r.charge = IF c.op = "charge" THEN {ChargeRow(c)} ELSE {}
      BY <1>1, <2>2 DEF Belongs, Commit, ChargeDue
    <3>3. c.op = "opening" => \E batch \in batches' : batch.journal = N
      <4> SUFFICES ASSUME r.opening PROVE \E batch \in batches' : batch.journal = N
        BY <3>2
      <4> DEFINE opened == [journal |-> N, date |-> e.date]
      <4>1. opened.journal = N /\ batches' = batches \cup {opened}
        BY <1>b
      <4> HIDE DEF opened, N
      <4> QED
        BY <4>1
    <3>4. charges' = IF c.op = "charge" THEN charges \cup {row} ELSE charges
      <4>1. CASE c.op = "charge"
        BY <1>c, <3>2, <4>1 DEF ChargeRow
      <4>2. CASE c.op # "charge"
        BY <1>c, <3>2, <4>2
      <4> QED
        BY <4>1, <4>2
    <3>5. c.op = "charge" => \A old \in charges : old.draft # c.draft
      <4>1. r.charge # {} => ChargeFits(charges, r.charge)
        BY <1>1 DEF Fits
      <4> QED
        BY <3>2, <4>1 DEF ChargeFits, ChargeRow
    <3> QED
      BY <2>2, <3>1, <3>2, <3>3, <3>4, <3>5
  <2> QED
    BY <2>1, <2>2
<1>5. row.journal = N /\ row.digest = c /\ row.request = c.request /\ row.draft = c.draft
  OBVIOUS
<1> HIDE DEF row, N
<1>6. EntriesBelong'
  <2> SUFFICES ASSUME NEW n \in DOMAIN journal'
               PROVE  /\ journal'[n].digest.op \notin PeriodOperations
                      /\ journal'[n].request = journal'[n].digest.request
                      /\ journal'[n].digest.op = "opening" => Opens(n)'
                      /\ Present(journal[n].branch)'
    BY DEF EntriesBelong
  <2>1. CASE n \in DOMAIN journal
    <3>1. Opens(n) => Opens(n)'
      BY <1>b DEF Opens
    <3>2. journal'[n] = journal[n]
      BY <1>1, <2>1
    <3>3. /\ journal[n].digest.op \notin PeriodOperations
          /\ journal[n].request = journal[n].digest.request
          /\ journal[n].digest.op = "opening" => Opens(n)
          /\ Present(journal[n].branch)
      BY <2>1 DEF DInv, EntriesBelong
    <3>4. Present(journal[n].branch)'
      BY <1>2, <3>2, <3>3 DEF Present
    <3> QED
      BY <3>1, <3>2, <3>3, <3>4
  <2>2. CASE r.entry # <<>> /\ n = N
    <3>1. c.op = "opening" => Opens(n)'
      BY <1>4, <2>2 DEF Opens
    <3>2. journal'[n] = e /\ e.digest = c /\ e.request = c.request /\ c.op \notin PeriodOperations
      BY <1>4, <2>2
    <3>3. Present(journal[n].branch)'
      BY <1>2, <1>4, <2>2, <3>2 DEF Present
    <3> QED
      BY <3>1, <3>2, <3>3
  <2>3. n \in DOMAIN journal \/ (r.entry # <<>> /\ n = N)
    BY <1>4
  <2> QED
    BY <2>1, <2>2, <2>3
<1>7. ChargesBelong' /\ ChargesMatchJournal'
  <2>1. \A old \in charges : old.journal \in DOMAIN journal
    BY DEF IInv, TypeOK, TablesType
  <2>2. ChargesBelong /\ ChargesMatchJournal
    BY DEF DInv
  <2>3. CASE r.entry = <<>>
    BY <1>4, <2>2, <2>3 DEF ChargesBelong, ChargesMatchJournal, Charged
  <2>4. CASE r.entry # <<>>
    <3>1. \A new \in charges' : new \in charges \/ (new = row /\ c.op = "charge")
      BY <1>4, <2>4
    <3>2. \A new \in charges' : journal'[new.journal].digest = new.digest /\ new.request = new.digest.request
      BY <1>1, <1>4, <1>5, <2>1, <2>2, <2>4, <3>1 DEF ChargesBelong, ChargesMatchJournal
    <3>3. charges \subseteq charges' /\ (c.op = "charge" => row \in charges')
      BY <1>4, <2>4
    <3>4. \A n \in DOMAIN journal' : journal'[n].digest.op = "charge" =>
            \E new \in charges' : new.journal = n
      BY <1>1, <1>4, <1>5, <2>2, <2>4, <3>3 DEF ChargesMatchJournal, Charged
    <3>5. \A r1, r2 \in charges' : r1.draft = r2.draft => r1 = r2
      BY <1>4, <1>5, <2>2, <2>4, <3>1 DEF ChargesMatchJournal
    <3> QED
      BY <3>2, <3>4, <3>5 DEF ChargesBelong, ChargesMatchJournal, Charged
  <2> QED
    BY <2>3, <2>4
<1>8. WrittenOK(w)' /\ AskedOK(w)' /\ AnswerOK(w)'
  <2>1. stage'[w] = "done"
    BY <1>2, <1>3
  <2>2. AnswerOK(w)'
    <3>1. CASE r.entry = <<>>
      BY <1>1, <1>2, <1>4, <3>1 DEF AnswerOK, Belongs
    <3>2. CASE r.entry # <<>>
      <4>1. answer'[w].entry = N /\ N \in DOMAIN journal' /\ journal'[N].digest = c
        BY <1>2, <1>3, <1>4, <3>2
      <4> QED
        BY <1>2, <4>1 DEF AnswerOK
    <3> QED
      BY <3>1, <3>2
  <2> QED
    BY <2>1, <2>2 DEF WrittenOK, AskedOK
<1>9. ASSUME NEW v \in Workers, v # w PROVE WrittenOK(v)' /\ AskedOK(v)' /\ AnswerOK(v)'
  <2>1. stage'[v] = stage[v] /\ rows'[v] = rows[v] /\ answer'[v] = answer[v] /\ cmd'[v] = cmd[v]
    BY <1>2, <1>3, <1>9
  <2>2. stage[v] # "written"
    BY <1>1, <1>9 DEF IInv, WorkersOK
  <2>3. AskedOK(v)'
    BY <1>2, <2>1 DEF DInv, AskedOK, Present
  <2>4. AnswerOK(v)'
    BY <1>1, <2>1 DEF DInv, AnswerOK
  <2> QED
    BY <2>1, <2>2, <2>3, <2>4 DEF WrittenOK
<1> QED
  BY <1>6, <1>7, <1>8, <1>9 DEF DInv

LEMMA EndBelongs ==
  ASSUME IInv, DInv, NEW w \in Workers, Respond(w) \/ Crash(w)
  PROVE  DInv'
<1>1. /\ UNCHANGED <<tables, settings>>
      /\ stage' = [stage EXCEPT ![w] = "idle"] /\ cmd' = [cmd EXCEPT ![w] = NoCommand]
      /\ rows' = [rows EXCEPT ![w] = NoRows] /\ answer' = [answer EXCEPT ![w] = NoAnswer]
      /\ stage \in [Workers -> {"idle", "waiting", "locked", "written", "done"}]
      /\ cmd \in [Workers -> Commands \cup {NoCommand}]
      /\ answer \in [Workers ->
           [status : {"none", "ok", "denied", "not_found", "conflict", "failed"}, entry : Nat]]
      /\ rows \in [Workers -> RowsType]
  BY DEF Respond, Crash, Reset, IInv, TypeOK, WorkersType
<1>2. WrittenOK(w)' /\ AskedOK(w)' /\ AnswerOK(w)'
  BY <1>1 DEF WrittenOK, AskedOK, AnswerOK
<1>3. \A v \in Workers \ {w} : /\ stage'[v] = stage[v] /\ cmd'[v] = cmd[v]
                               /\ rows'[v] = rows[v] /\ answer'[v] = answer[v]
  BY <1>1
<1> QED
  BY <1>1, <1>2, <1>3, OneWorkerBelongs

LEMMA AroundBelongs ==
  ASSUME IInv, DInv, Around
  PROVE  DInv'
<1>1. UNCHANGED tables /\ UNCHANGED <<orgLock, stage, cmd, rows, answer>>
  BY DEF Around, UpdateBranch, DeactivateAccount, RevokeGrant
<1>2. BranchesStay
  <2>1. CASE \E b \in Branches : UpdateBranch(b)
    BY <2>1 DEF UpdateBranch, BranchStatuses, BranchesStay, IInv, TypeOK, SettingsType
  <2>2. CASE UNCHANGED branchStatus
    BY <2>2 DEF BranchesStay
  <2> QED
    BY <2>1, <2>2 DEF Around, DeactivateAccount, RevokeGrant
<1> QED
  BY <1>1, <1>2, OthersBelong, TablesBelong DEF DInv

LEMMA NextBelongs ==
  ASSUME IInv, DInv, [Next]_vars
  PROVE  DInv'
<1>1. ASSUME NEW w \in Workers, Serve(w) PROVE DInv'
  BY <1>1, BeginAnyBelongs, LockBelongs, HandleBelongs, InsertChargeBelongs, CommitBelongs, EndBelongs
     DEF Serve
<1>2. CASE Around
  BY <1>2, AroundBelongs
<1>3. CASE UNCHANGED vars
  <2>1. BranchesStay /\ UNCHANGED tables /\ UNCHANGED <<stage, cmd, rows, answer>>
    BY <1>3 DEF BranchesStay, vars, settings
  <2> QED
    BY <2>1, OthersBelong, TablesBelong DEF DInv
<1> QED
  BY <1>1, <1>2, <1>3 DEF Next

(* Every entry has the request, batch or charge of the command it names,    *)
(* and what a worker has flushed is of the command it serves.               *)
THEOREM EntriesNameCommands == Spec => []DInv
<1>1. Init => DInv
  BY DEF Init, DInv, EntriesBelong, ChargesBelong, ChargesMatchJournal, WrittenOK, AskedOK, AnswerOK
<1>2. IInv /\ DInv /\ [Next]_vars => DInv'
  BY NextBelongs
<1> QED
  BY <1>1, <1>2, LedgerInvariant, PTL DEF Spec

(* A success names the entry of the command it answers: a request reused    *)
(* with another command never adopts somebody else's entry.                 *)
THEOREM AnswersAreTrue == Spec => []AnswersNameTheirCommand
<1>1. DInv => AnswersNameTheirCommand
  BY DEF DInv, AnswerOK, AnswersNameTheirCommand, PeriodOperations
<1> QED
  BY <1>1, EntriesNameCommands, PTL

(* A charge and its journal entry exist together, and a draft is charged    *)
(* once.                                                                    *)
THEOREM ChargesHaveEntries == Spec => []ChargesMatchJournal
<1>1. DInv => ChargesMatchJournal
  BY DEF DInv
<1> QED
  BY <1>1, EntriesNameCommands, PTL

(* The entry of a command is the only one of its request, and nothing but a *)
(* missing permission stops its replay.                                     *)
LEMMA ReplayFindsEntry ==
  ASSUME IInv, DInv, NEW w \in Workers, NEW n \in DOMAIN journal,
         stage[w] = "locked", journal[n].digest = cmd[w]
  PROVE  /\ Recorded(cmd[w]) = {n}
         /\ ReplayError(w, n) \in {"none", "denied"}
         /\ cmd[w].op \notin PeriodOperations
<1>1. journal[n].request = cmd[w].request /\ cmd[w].op \notin PeriodOperations
  BY DEF DInv, EntriesBelong
<1>2. Recorded(cmd[w]) = {n}
  BY <1>1 DEF Recorded, IInv, OneEntryPerRequest
<1>3. cmd[w].op = "opening" => Opens(n)
  BY DEF DInv, EntriesBelong
<1>4. Authorize(ctx[w], "post", journal[n].branch, FALSE) \in {"none", "denied"}
  BY DEF DInv, EntriesBelong, Present, Authorize
<1> QED
  BY <1>1, <1>2, <1>3, <1>4 DEF ReplayError

LEMMA FlushAnswers ==
  ASSUME IInv, NEW w \in Workers, NEW r, NEW n, Flush(w, r, n)
  PROVE  answer'[w] = [status |-> "ok", entry |-> n]
  BY DEF Flush, IInv, TypeOK, WorkersType

LEMMA RefuseAnswers ==
  ASSUME IInv, NEW w \in Workers, NEW error, Refuse(w, error)
  PROVE  answer'[w].status = error
  BY DEF Refuse, IInv, TypeOK, WorkersType

LEMMA ReplayAnswers ==
  ASSUME IInv, DInv, NEW w \in Workers, NEW n \in DOMAIN journal,
         stage[w] = "locked", journal[n].digest = cmd[w], Replay(w)
  PROVE  answer'[w].status = "denied" \/ answer'[w] = [status |-> "ok", entry |-> n]
<1>1. \/ ReplayError(w, n) = "none" /\ Flush(w, NoRows, n)
      \/ ReplayError(w, n) # "none" /\ Refuse(w, ReplayError(w, n))
  BY ReplayFindsEntry DEF Replay
<1>2. ReplayError(w, n) \in {"none", "denied"}
  BY ReplayFindsEntry
<1> QED
  BY <1>1, <1>2, FlushAnswers, RefuseAnswers

(* The charge of an entry carries the entry's request, and a charge of that *)
(* request belongs to that entry.                                           *)
LEMMA ChargeReplays ==
  ASSUME IInv, DInv, NEW w \in Workers, NEW n \in DOMAIN journal,
         ApproveCharge(w), journal[n].digest = cmd[w]
  PROVE  answer'[w] = [status |-> "ok", entry |-> n]
<1>1. stage[w] = "locked" /\ cmd[w].op = "charge"
  BY DEF ApproveCharge, Serving
<1>2. Recorded(cmd[w]) = {n}
  BY <1>1, ReplayFindsEntry
<1>3. \A old \in charges :
        /\ old.journal \in DOMAIN journal
        /\ journal[old.journal].digest = old.digest
        /\ journal[old.journal].request = old.request
  <2>1. \A old \in charges : old.journal \in DOMAIN journal
    BY DEF IInv, TypeOK, TablesType
  <2> QED
    BY <2>1 DEF DInv, ChargesBelong, ChargesMatchJournal, EntriesBelong
<1>4. \A old \in ChargeOf(cmd[w]) : old.journal = n /\ old.digest = cmd[w]
  BY <1>2, <1>3 DEF ChargeOf, Recorded
<1>5. ChargeOf(cmd[w]) # {}
  <2>1. PICK old \in charges : old.journal = n
    BY <1>1 DEF DInv, ChargesMatchJournal, Charged
  <2>2. old.request = cmd[w].request
    BY <1>3, <2>1 DEF DInv, EntriesBelong
  <2> QED
    BY <2>2 DEF ChargeOf
<1>6. PICK old \in ChargeOf(cmd[w]) :
        \/ old.digest = cmd[w] /\ Flush(w, NoRows, old.journal)
        \/ old.digest # cmd[w] /\ Refuse(w, "conflict")
  BY <1>5 DEF ApproveCharge
<1> QED
  BY <1>4, <1>6, FlushAnswers

LEMMA HandleReplays ==
  ASSUME IInv, DInv, NEW w \in Workers, NEW n \in DOMAIN journal,
         Handle(w), journal[n].digest = cmd[w]
  PROVE  answer'[w].status = "denied" \/ answer'[w] = [status |-> "ok", entry |-> n]
<1>1. CASE PostJournal(w) \/ ReverseJournal(w) \/ PostInitialOpening(w)
  <2>1. stage[w] = "locked"
    BY <1>1 DEF PostJournal, ReverseJournal, PostInitialOpening, Serving
  <2>2. Recorded(cmd[w]) # {}
    BY <2>1, ReplayFindsEntry
  <2>3. Replay(w)
    BY <1>1, <2>2 DEF PostJournal, ReverseJournal, PostInitialOpening
  <2> QED
    BY <2>1, <2>3, ReplayAnswers
<1>2. CASE ApproveCharge(w)
  BY <1>2, ChargeReplays
<1>3. CASE CreatePeriod(w) \/ ClosePeriod(w)
  <2>1. stage[w] = "locked" /\ cmd[w].op \in PeriodOperations
    BY <1>3 DEF CreatePeriod, ClosePeriod, Serving, PeriodOperations
  <2> QED
    BY <2>1, ReplayFindsEntry
<1> QED
  BY <1>1, <1>2, <1>3 DEF Handle

(* Nothing but its own handler takes a worker out of the row's custody with *)
(* an answer.                                                               *)
LEMMA OnlyHandlersAnswer ==
  ASSUME IInv, Next, NEW w \in Workers, stage[w] = "locked", stage'[w] \in {"written", "done"}
  PROVE  Handle(w)
<1>1. stage \in [Workers -> {"idle", "waiting", "locked", "written", "done"}]
  BY DEF IInv, TypeOK, WorkersType
<1>2. CASE Around
  BY <1>2 DEF Around, UpdateBranch, DeactivateAccount, RevokeGrant
<1>3. ASSUME NEW v \in Workers, Serve(v) PROVE Handle(w)
  <2>1. CASE Handle(v)
    <3>1. stage' = [stage EXCEPT ![v] = "written"] \/ stage' = [stage EXCEPT ![v] = "done"]
      BY <2>1 DEF Handle, PostJournal, ReverseJournal, PostInitialOpening, ApproveCharge,
                  CreatePeriod, ClosePeriod, Replay, WriteEntry, Flush, Refuse
    <3> QED
      BY <1>1, <2>1, <3>1
  <2>2. CASE Commit(v) \/ InsertCharge(v)
    BY <1>1, <2>2 DEF Commit, InsertCharge, ChargeDue, Refuse
  <2>3. CASE LockOrganization(v)
    BY <1>1, <2>3 DEF LockOrganization
  <2>4. CASE Respond(v) \/ Crash(v)
    BY <1>1, <2>4 DEF Respond, Crash, Reset
  <2>5. CASE BeginPost(v) \/ BeginReverse(v) \/ BeginOpening(v) \/ BeginCharge(v) \/ BeginPeriod(v)
    <3>1. stage[v] = "idle" /\ \E s : stage' = [stage EXCEPT ![v] = s]
      BY <2>5 DEF BeginPost, BeginReverse, BeginOpening, BeginCharge, BeginPeriod, Begin
    <3> QED
      BY <1>1, <3>1
  <2> QED
    BY <1>3, <2>1, <2>2, <2>3, <2>4, <2>5 DEF Serve
<1> QED
  BY <1>2, <1>3 DEF Next

(* A command that is in the journal is answered with its entry, whatever    *)
(* was closed, deactivated, opened or charged since.                        *)
THEOREM ReplaysAnswered == Spec => ReplaysAnswerOriginal
<1> DEFINE Answered == \A w \in Workers : \A n \in DOMAIN journal :
             stage[w] = "locked" /\ stage'[w] \in {"written", "done"} /\ journal[n].digest = cmd[w]
               => answer'[w].status = "denied" \/ answer'[w] = [status |-> "ok", entry |-> n]
<1>1. IInv /\ DInv /\ [Next]_vars => [Answered]_vars
  <2> SUFFICES ASSUME IInv, DInv, Next PROVE Answered
    OBVIOUS
  <2> QED
    BY OnlyHandlersAnswer, HandleReplays
<1> QED
  BY <1>1, LedgerInvariant, EntriesNameCommands, PTL DEF Spec, ReplaysAnswerOriginal

-----------------------------------------------------------------------------
(* Reversals. *)

(* The totals of swapped lines are the totals of the other side: the sum is *)
(* taken of the same list of amounts.                                       *)
LEMMA SwappedTotals ==
  ASSUME NEW e \in Entry, NEW f \in Entry, SwappedLines(f, e), NEW a
  PROVE  /\ AccountTotal(e.lines, a, "credit") = AccountTotal(f.lines, a, "debit")
         /\ AccountTotal(e.lines, a, "debit") = AccountTotal(f.lines, a, "credit")
<1> DEFINE amounts(g, side) ==
             [n \in DOMAIN g.lines |-> IF g.lines[n].account = a THEN g.lines[n][side] ELSE 0]
<1>1. DOMAIN e.lines = DOMAIN f.lines
  BY DEF SwappedLines, Entry
<1>2. amounts(e, "credit") = amounts(f, "debit") /\ amounts(e, "debit") = amounts(f, "credit")
  BY <1>1 DEF SwappedLines
<1> QED
  BY <1>2 DEF AccountTotal

(* Swapped lines balance when the lines do. *)
LEMMA SwappedBalance ==
  ASSUME NEW e \in Entry, NEW f \in Entry, SwappedLines(f, e), JournalIn(f.lines)
  PROVE  JournalIn(e.lines)
<1>1. DOMAIN e.lines = DOMAIN f.lines /\ Len(e.lines) = Len(f.lines)
  BY DEF SwappedLines, Entry
<1>2. \A n \in DOMAIN e.lines :
        /\ e.lines[n]["debit"] = f.lines[n]["credit"]
        /\ e.lines[n]["credit"] = f.lines[n]["debit"]
  BY <1>1 DEF SwappedLines
<1>3. SideTotal(e.lines, "debit") = SideTotal(f.lines, "credit")
  BY <1>1, <1>2 DEF SideTotal
<1>4. SideTotal(e.lines, "credit") = SideTotal(f.lines, "debit")
  BY <1>1, <1>2 DEF SideTotal
<1>5. \A n \in DOMAIN e.lines : (e.lines[n].debit > 0) # (e.lines[n].credit > 0)
  BY <1>1, <1>2 DEF JournalIn
<1> QED
  BY <1>1, <1>3, <1>4, <1>5 DEF JournalIn

ReversalsHold == \A i \in DOMAIN journal : \A n \in Nat \ {0} : journal[i].reversalOf = n =>
  /\ n \in 1..(i - 1)
  /\ journal[n].reversalOf = 0 /\ ~Opens(n) /\ ~Charged(n)
  /\ \A j \in DOMAIN journal : journal[j].reversalOf = n => j = i
  /\ SwappedLines(journal[n], journal[i])

LEMMA CommitReverses ==
  ASSUME IInv, ReversalsHold, NEW w \in Workers, Commit(w)
  PROVE  ReversalsHold'
<1> DEFINE r == rows[w]
           N == Len(journal) + 1
           e == r.entry[1]
<1>1. /\ r \in RowsType /\ Fits(journal, periods, batches, charges, r) /\ Len(journal) \in Nat
      /\ \A n \in DOMAIN journal : n \in DOMAIN journal' /\ journal'[n] = journal[n]
  BY CommittedJournal
<1>2. DOMAIN journal = 1..Len(journal)
  BY DEF IInv, TypeOK, TablesType
<1>3. CASE r.entry = <<>>
  <2>1. journal' = journal /\ batches' = batches /\ charges' = charges
    BY <1>1, <1>3, CommittedJournal DEF Commit, Fits, RowsType
  <2> QED
    BY <2>1 DEF ReversalsHold, Opens, Charged
<1>4. CASE r.entry # <<>>
  <2>1. /\ DOMAIN journal' = DOMAIN journal \cup {N} /\ N \notin DOMAIN journal
        /\ journal'[N] = e /\ e \in Entry
    BY <1>4, CommittedJournal
  <2>2. \A n \in DOMAIN journal : ~Opens(n) /\ ~Charged(n) => ~Opens(n)' /\ ~Charged(n)'
    BY <2>1 DEF Commit, Opens, Charged
  <2>3. e.reversalOf # 0 => ReversalFits(journal, batches, charges, e)
    BY <1>1, <1>4 DEF Fits, EntryFits
  <2> SUFFICES ASSUME NEW i \in DOMAIN journal', NEW n \in Nat \ {0}, journal'[i].reversalOf = n
               PROVE  /\ n \in 1..(i - 1)
                      /\ journal'[n].reversalOf = 0 /\ ~Opens(n)' /\ ~Charged(n)'
                      /\ \A j \in DOMAIN journal' : journal'[j].reversalOf = n => j = i
                      /\ SwappedLines(journal'[n], journal'[i])
    BY DEF ReversalsHold
  <2>4. CASE i \in DOMAIN journal
    <3>1. /\ n \in 1..(i - 1) /\ journal[n].reversalOf = 0 /\ ~Opens(n) /\ ~Charged(n)
          /\ \A j \in DOMAIN journal : journal[j].reversalOf = n => j = i
          /\ SwappedLines(journal[n], journal[i])
      BY <1>1, <2>4 DEF ReversalsHold
    <3>2. n \in DOMAIN journal
      BY <1>1, <1>2, <2>4, <3>1
    <3>3. e.reversalOf # n
      BY <1>1, <2>3, <2>4 DEF ReversalFits
    <3> HIDE DEF e, N
    <3> QED
      BY <1>1, <2>1, <2>2, <2>4, <3>1, <3>2, <3>3
  <2>5. CASE i = N
    <3>1. e.reversalOf = n /\ ReversalFits(journal, batches, charges, e)
      BY <2>1, <2>3, <2>5
    <3>2. /\ n \in DOMAIN journal /\ journal[n].reversalOf = 0 /\ SwappedLines(journal[n], e)
          /\ \A j \in DOMAIN journal : journal[j].reversalOf # n
          /\ ~Opens(n) /\ ~Charged(n)
      BY <3>1 DEF ReversalFits, Opens, Charged
    <3>3. n \in 1..(i - 1)
      BY <1>1, <1>2, <2>5, <3>2
    <3> HIDE DEF e, N
    <3> QED
      BY <1>1, <2>1, <2>2, <2>5, <3>2, <3>3
  <2> QED
    BY <2>1, <2>4, <2>5
<1> QED
  BY <1>3, <1>4

LEMMA ReversalsStay == IInv /\ ReversalsHold /\ [Next]_vars => ReversalsHold'
<1> SUFFICES ASSUME IInv, ReversalsHold, [Next]_vars PROVE ReversalsHold'
  OBVIOUS
<1>1. CASE UNCHANGED tables
  BY <1>1 DEF tables, ReversalsHold, Opens, Charged
<1> QED
  BY <1>1, CommitReverses, OnlyCommitsWrite

(* Reversals, line by line. *)
THEOREM ReversalsLaw == Spec => []ReversalsHold
<1>1. Init => ReversalsHold
  BY DEF Init, ReversalsHold
<1> QED
  BY <1>1, ReversalsStay, LedgerInvariant, PTL DEF Spec

(* A reversal takes back its original account by account, once and for all. *)
THEOREM ReversalsFinal == Spec => []ReversalsAreFinal
<1>1. IInv /\ ReversalsHold => ReversalsAreFinal
  <2> SUFFICES ASSUME IInv, ReversalsHold, NEW i \in DOMAIN journal, journal[i].reversalOf # 0
               PROVE  LET n == journal[i].reversalOf
                      IN /\ n \in 1..(i - 1)
                         /\ journal[n].reversalOf = 0 /\ ~Opens(n) /\ ~Charged(n)
                         /\ \A j \in DOMAIN journal : journal[j].reversalOf = n => j = i
                         /\ journal[n].branch = journal[i].branch
                         /\ \A a \in Accounts :
                              /\ AccountTotal(journal[i].lines, a, "credit")
                                   = AccountTotal(journal[n].lines, a, "debit")
                              /\ AccountTotal(journal[i].lines, a, "debit")
                                   = AccountTotal(journal[n].lines, a, "credit")
    BY DEF ReversalsAreFinal
  <2> DEFINE n == journal[i].reversalOf
  <2>1. journal \in Seq(Entry) /\ DOMAIN journal = 1..Len(journal) /\ Len(journal) \in Nat
    BY DEF IInv, TypeOK, TablesType
  <2>2. journal[i] \in Entry
    BY <2>1
  <2>3. n \in Nat \ {0}
    BY <2>2 DEF Entry
  <2>4. /\ n \in 1..(i - 1)
        /\ journal[n].reversalOf = 0 /\ ~Opens(n) /\ ~Charged(n)
        /\ \A j \in DOMAIN journal : journal[j].reversalOf = n => j = i
        /\ SwappedLines(journal[n], journal[i])
    BY <2>3 DEF ReversalsHold
  <2>5. journal[n] \in Entry
    BY <2>1, <2>4
  <2>6. journal[n].branch = journal[i].branch
    BY <2>4 DEF SwappedLines
  <2> HIDE DEF n
  <2>7. \A a \in Accounts :
         /\ AccountTotal(journal[i].lines, a, "credit") = AccountTotal(journal[n].lines, a, "debit")
         /\ AccountTotal(journal[i].lines, a, "debit") = AccountTotal(journal[n].lines, a, "credit")
    BY <2>2, <2>4, <2>5, SwappedTotals
  <2> QED
    BY <2>4, <2>6, <2>7 DEF n
<1> QED
  BY <1>1, LedgerInvariant, ReversalsLaw, PTL

-----------------------------------------------------------------------------
(* The database agrees with the application. *)

(* What is left of the check of the accounts once it is made.               *)
MappingPostable(c) == \A a \in c.accounts : accountStatus[a] \notin {"ABSENT", "SUMMARY"}

(* What the rows flushed for command c must be, beyond fitting the tables,  *)
(* for the triggers to let them pass.                                       *)
Passes(c, r) == r.entry # <<>> =>
  /\ JournalIn(r.entry[1].lines)
  /\ PostableTriggerAccepts(r.entry[1])
  /\ c.op = "charge" =>
       /\ r.entry[1].branch = NoBranch
       /\ r.entry[1].date = c.date /\ r.entry[1].lines = c.lines
       /\ MappingPostable(c)

Passing(w) == stage[w] = "written" => Passes(cmd[w], rows[w])

BooksBalance == \A n \in DOMAIN journal : JournalIn(journal[n].lines)

GInv == BooksBalance /\ \A w \in Workers : Passing(w)

(* An account once postable stays so: it may only be deactivated. *)
AccountsStay == \A a \in Accounts :
  accountStatus[a] \notin {"ABSENT", "SUMMARY"} => accountStatus'[a] \notin {"ABSENT", "SUMMARY"}

LEMMA EntryAccounts ==
  ASSUME NEW e \in Entry
  PROVE  AccountsOf(e.lines) \subseteq Accounts
<1>1. e.lines \in Seq(Line)
  BY DEF Entry
<1>2. \A n \in DOMAIN e.lines : e.lines[n] \in Line
  BY <1>1
<1>3. \A n \in DOMAIN e.lines : e.lines[n].account \in Accounts
  BY <1>2 DEF Line
<1> QED
  BY <1>3 DEF AccountsOf

LEMMA OthersPass ==
  ASSUME IInv, GInv, AccountsStay, NEW v \in Workers,
         stage'[v] = stage[v], cmd'[v] = cmd[v], rows'[v] = rows[v]
  PROVE  Passing(v)'
<1> SUFFICES ASSUME stage[v] = "written", rows[v].entry # <<>>
             PROVE  /\ JournalIn(rows[v].entry[1].lines)
                    /\ PostableTriggerAccepts(rows[v].entry[1])'
                    /\ cmd[v].op = "charge" =>
                         /\ rows[v].entry[1].branch = NoBranch
                         /\ rows[v].entry[1].date = cmd[v].date
                         /\ rows[v].entry[1].lines = cmd[v].lines
                         /\ MappingPostable(cmd[v])'
  BY DEF Passing, Passes
<1>1. Passes(cmd[v], rows[v])
  BY DEF GInv, Passing
<1>2. rows[v].entry[1] \in Entry
  <2>1. rows[v].entry \in Seq(Entry) /\ Len(rows[v].entry) = 1
    BY DEF IInv, TypeOK, WorkersType, RowsType, RowsFit, Fits
  <2> QED
    BY <2>1, ElementOfSeq
<1>3. AccountsOf(rows[v].entry[1].lines) \subseteq Accounts
  BY <1>2, EntryAccounts
<1>4. PostableTriggerAccepts(rows[v].entry[1])'
  BY <1>1, <1>3 DEF Passes, PostableTriggerAccepts, AccountsStay, AccountsOf
<1>5. cmd[v].op = "charge" => MappingPostable(cmd[v])'
  <2>1. cmd[v].op = "charge" => cmd[v].accounts \subseteq Accounts
    BY CommandShapes DEF IInv, WorkersOK, ChargeCommand
  <2> QED
    BY <1>1, <2>1 DEF Passes, MappingPostable, AccountsStay
<1> QED
  BY <1>1, <1>4, <1>5 DEF Passes

(* A step of one worker before its commit. *)
LEMMA OneWorkerPasses ==
  ASSUME IInv, GInv, NEW w \in Workers, UNCHANGED <<tables, settings>>,
         \A v \in Workers \ {w} : stage'[v] = stage[v] /\ cmd'[v] = cmd[v] /\ rows'[v] = rows[v],
         Passing(w)'
  PROVE  GInv'
<1>1. AccountsStay
  BY DEF AccountsStay, settings
<1>2. BooksBalance'
  BY DEF GInv, BooksBalance, tables
<1>3. \A v \in Workers : Passing(v)'
  BY <1>1, OthersPass
<1> QED
  BY <1>2, <1>3 DEF GInv

(* A step that leaves the worker with nothing flushed. *)
LEMMA UnwrittenPasses ==
  ASSUME IInv, GInv, NEW w \in Workers, UNCHANGED <<tables, settings>>,
         NEW s, s # "written", stage' = [stage EXCEPT ![w] = s],
         \A v \in Workers \ {w} : cmd'[v] = cmd[v] /\ rows'[v] = rows[v]
  PROVE  GInv'
<1>1. stage \in [Workers -> {"idle", "waiting", "locked", "written", "done"}]
  BY DEF IInv, TypeOK, WorkersType
<1>2. Passing(w)'
  BY <1>1 DEF Passing
<1> QED
  BY <1>1, <1>2, OneWorkerPasses

LEMMA FlushPasses ==
  ASSUME IInv, GInv, NEW w \in Workers, NEW r, NEW n, Flush(w, r, n), Passes(cmd[w], r)
  PROVE  GInv'
<1>1. /\ UNCHANGED <<tables, settings>> /\ UNCHANGED cmd
      /\ stage' = [stage EXCEPT ![w] = "written"] /\ rows' = [rows EXCEPT ![w] = r]
      /\ stage \in [Workers -> {"idle", "waiting", "locked", "written", "done"}]
      /\ rows \in [Workers -> RowsType]
  BY DEF Flush, IInv, TypeOK, WorkersType
<1>2. rows'[w] = r /\ UNCHANGED accountStatus
  BY <1>1 DEF settings
<1>3. Passing(w)'
  BY <1>1, <1>2 DEF Passing, Passes, PostableTriggerAccepts, MappingPostable
<1>4. \A v \in Workers \ {w} : stage'[v] = stage[v] /\ rows'[v] = rows[v]
  BY <1>1
<1> QED
  BY <1>1, <1>3, <1>4, OneWorkerPasses

LEMMA RefusePasses ==
  ASSUME IInv, GInv, NEW w \in Workers, NEW error, Refuse(w, error)
  PROVE  GInv'
<1>1. rows \in [Workers -> RowsType]
  BY DEF IInv, TypeOK, WorkersType
<1>2. \A v \in Workers \ {w} : cmd'[v] = cmd[v] /\ rows'[v] = rows[v]
  BY <1>1 DEF Refuse
<1> QED
  BY <1>2, UnwrittenPasses DEF Refuse

LEMMA WritePasses ==
  ASSUME IInv, GInv, NEW w \in Workers, NEW e, NEW opening,
         WriteEntry(w, e, opening), JournalIn(e.lines),
         cmd[w].op = "charge" => /\ e.branch = NoBranch /\ e.date = cmd[w].date
                                 /\ e.lines = cmd[w].lines /\ MappingPostable(cmd[w])
  PROVE  GInv'
<1>1. CASE WriteError(e) = "none" /\ Flush(w, EntryRows(e, opening), 0)
  <2>1. PostableTriggerAccepts(e)
    BY <1>1 DEF WriteError, AccountsUsable, PostableTriggerAccepts
  <2>2. EntryRows(e, opening).entry[1] = e
    BY DEF EntryRows
  <2>3. Passes(cmd[w], EntryRows(e, opening))
    BY <2>1, <2>2 DEF Passes
  <2> QED
    BY <1>1, <2>3, FlushPasses
<1>2. CASE Refuse(w, WriteError(e))
  BY <1>2, RefusePasses
<1> QED
  BY <1>1, <1>2 DEF WriteEntry

LEMMA EmptyPasses ==
  ASSUME NEW c
  PROVE  Passes(c, NoRows) /\ \A range, status : Passes(c, PeriodRows(range, status))
  BY DEF Passes, NoRows, PeriodRows

LEMMA HandlePasses ==
  ASSUME IInv, GInv, NEW w \in Workers, Handle(w)
  PROVE  GInv'
<1> DEFINE c == cmd[w]
<1>1. CASE Replay(w)
  BY <1>1, EmptyPasses, FlushPasses, RefusePasses DEF Replay
<1>2. CASE \E error : Refuse(w, error)
  BY <1>2, RefusePasses
<1>3. ASSUME NEW branch, NEW opening, c.lines \in Payloads,
             WriteEntry(w, EntryFor(c, branch, c.lines, 0), opening),
             c.op = "charge" => branch = NoBranch /\ MappingPostable(c)
      PROVE  GInv'
  <2> DEFINE e == EntryFor(c, branch, c.lines, 0)
  <2>1. e.lines = c.lines /\ e.branch = branch /\ e.date = c.date
    BY DEF EntryFor
  <2>2. JournalIn(e.lines)
    BY <1>3, <2>1, PayloadsAssumption
  <2> HIDE DEF e
  <2> QED
    BY <1>3, <2>1, <2>2, WritePasses DEF e
<1>4. CASE PostJournal(w)
  <2>1. c.lines \in Payloads /\ c.op # "charge"
    BY <1>4, ServingShape DEF PostJournal, PostCommand
  <2> QED
    BY <1>1, <1>3, <1>4, <2>1 DEF PostJournal
<1>5. CASE ReverseJournal(w)
  <2> DEFINE original == journal[c.entry]
             e == EntryFor(c, original.branch, Swap(original.lines), c.entry)
  <2>1. c.entry \in DOMAIN journal /\ c \in ReverseCommand /\ c \in Commands /\ c.op # "charge"
    BY <1>5, ServingShape DEF ReverseJournal, ReverseCommand
  <2>2. original \in Entry /\ JournalIn(original.lines)
    BY <2>1 DEF IInv, TypeOK, TablesType, GInv, BooksBalance
  <2>3. e.lines = Swap(original.lines) /\ e.branch = original.branch
    BY DEF EntryFor
  <2>4. e \in Entry
    <3>1. Swap(original.lines) \in Seq(Line) /\ original.branch \in Scopes
      BY <2>2, SwapType DEF Entry
    <3> QED
      BY <2>1, <3>1 DEF EntryFor, Entry, ReverseCommand
  <2>5. SwappedLines(original, e)
    <3>1. original.lines \in Seq(Line) /\ DOMAIN original.lines = 1..Len(original.lines)
      BY <2>2 DEF Entry
    <3>2. DOMAIN Swap(original.lines) = DOMAIN original.lines
      BY DEF Swap
    <3> HIDE DEF original, e
    <3> QED
      BY <2>3, <3>1, <3>2, SwapType DEF SwappedLines
  <2>6. JournalIn(e.lines)
    <3> HIDE DEF original, e
    <3> QED
      BY <2>2, <2>4, <2>5, SwappedBalance
  <2>7. CASE WriteEntry(w, e, FALSE)
    BY <2>1, <2>6, <2>7, WritePasses
  <2> QED
    BY <1>1, <1>2, <1>5, <2>7 DEF ReverseJournal
<1>6. CASE PostInitialOpening(w)
  <2>1. c.lines \in Payloads /\ c.op # "charge"
    BY <1>6, ServingShape DEF PostInitialOpening, OpeningCommand
  <2> QED
    BY <1>1, <1>2, <1>3, <1>6, <2>1 DEF PostInitialOpening
<1>7. CASE ApproveCharge(w)
  <2>1. c.lines \in Payloads
    BY <1>7, ServingShape DEF ApproveCharge, ChargeCommand
  <2>2. CASE \E old \in ChargeOf(c) : Flush(w, NoRows, old.journal)
    BY <2>2, EmptyPasses, FlushPasses
  <2>3. MappingUsable(c) => MappingPostable(c)
    BY DEF MappingUsable, MappingPostable
  <2> QED
    BY <1>2, <1>3, <1>7, <2>1, <2>2, <2>3 DEF ApproveCharge
<1>8. CASE CreatePeriod(w) \/ ClosePeriod(w)
  BY <1>2, <1>8, EmptyPasses, FlushPasses DEF CreatePeriod, ClosePeriod
<1> QED
  BY <1>4, <1>5, <1>6, <1>7, <1>8 DEF Handle

LEMMA InsertChargePasses ==
  ASSUME IInv, GInv, NEW w \in Workers, InsertCharge(w)
  PROVE  GInv'
<1> DEFINE c == cmd[w]
<1>1. CASE Refuse(w, "failed")
  BY <1>1, RefusePasses
<1>2. CASE /\ rows' = [rows EXCEPT ![w].charge = {ChargeRow(c)}]
           /\ UNCHANGED <<tables, settings, orgLock, stage, cmd, ctx, answer>>
  <2>1. rows \in [Workers -> RowsType]
    BY DEF IInv, TypeOK, WorkersType
  <2>2. rows'[w].entry = rows[w].entry
    BY <1>2, <2>1 DEF RowsType
  <2>3. Passing(w)'
    BY <1>2, <2>2 DEF GInv, Passing, Passes, PostableTriggerAccepts, MappingPostable, settings
  <2>4. \A v \in Workers \ {w} : stage'[v] = stage[v] /\ cmd'[v] = cmd[v] /\ rows'[v] = rows[v]
    BY <1>2, <2>1
  <2> QED
    BY <1>2, <2>3, <2>4, OneWorkerPasses
<1> QED
  BY <1>1, <1>2 DEF InsertCharge

LEMMA CommitPasses ==
  ASSUME IInv, GInv, NEW w \in Workers, Commit(w)
  PROVE  GInv'
<1>1. /\ stage[w] = "written" /\ orgLock = w
      /\ \A n \in DOMAIN journal : n \in DOMAIN journal' /\ journal'[n] = journal[n]
  BY CommittedJournal
<1>2. /\ stage' = [stage EXCEPT ![w] = "done"] /\ rows' = [rows EXCEPT ![w] = NoRows]
      /\ UNCHANGED settings /\ UNCHANGED cmd
  BY DEF Commit
<1>3. /\ stage \in [Workers -> {"idle", "waiting", "locked", "written", "done"}]
      /\ rows \in [Workers -> RowsType]
  BY DEF IInv, TypeOK, WorkersType
<1>4. BooksBalance'
  <2>1. CASE rows[w].entry = <<>>
    BY <2>1, CommittedJournal DEF GInv, BooksBalance
  <2>2. CASE rows[w].entry # <<>>
    <3>1. JournalIn(rows[w].entry[1].lines)
      BY <1>1, <2>2 DEF GInv, Passing, Passes
    <3> QED
      BY <1>1, <2>2, <3>1, CommittedJournal DEF GInv, BooksBalance
  <2> QED
    BY <2>1, <2>2
<1>5. ASSUME NEW v \in Workers PROVE Passing(v)'
  <2>1. AccountsStay
    BY <1>2 DEF AccountsStay, settings
  <2>2. CASE v = w
    BY <1>2, <1>3, <2>2 DEF Passing
  <2>3. CASE v # w
    BY <1>2, <1>3, <2>1, <2>3, OthersPass
  <2> QED
    BY <2>2, <2>3
<1> QED
  BY <1>4, <1>5 DEF GInv

LEMMA NextPasses == IInv /\ GInv /\ [Next]_vars => GInv'
<1> SUFFICES ASSUME IInv, GInv, [Next]_vars PROVE GInv'
  OBVIOUS
<1>1. ASSUME NEW w \in Workers,
             BeginPost(w) \/ BeginReverse(w) \/ BeginOpening(w) \/ BeginCharge(w) \/ BeginPeriod(w)
      PROVE  GInv'
  <2>1. PICK c, error : Begin(w, c, error)
    BY <1>1 DEF BeginPost, BeginReverse, BeginOpening, BeginCharge, BeginPeriod
  <2>2. cmd \in [Workers -> Commands \cup {NoCommand}]
    BY DEF IInv, TypeOK, WorkersType
  <2>3. /\ UNCHANGED <<tables, settings>> /\ UNCHANGED rows
        /\ cmd' = [cmd EXCEPT ![w] = c]
        /\ \E s \in {"waiting", "done"} : stage' = [stage EXCEPT ![w] = s]
    BY <2>1 DEF Begin
  <2>4. \A v \in Workers \ {w} : cmd'[v] = cmd[v] /\ rows'[v] = rows[v]
    BY <2>2, <2>3
  <2> QED
    BY <2>3, <2>4, UnwrittenPasses
<1>2. ASSUME NEW w \in Workers, LockOrganization(w) PROVE GInv'
  BY <1>2, UnwrittenPasses DEF LockOrganization
<1>3. ASSUME NEW w \in Workers, Respond(w) \/ Crash(w) PROVE GInv'
  <2>1. /\ UNCHANGED <<tables, settings>> /\ stage' = [stage EXCEPT ![w] = "idle"]
        /\ cmd' = [cmd EXCEPT ![w] = NoCommand] /\ rows' = [rows EXCEPT ![w] = NoRows]
        /\ cmd \in [Workers -> Commands \cup {NoCommand}] /\ rows \in [Workers -> RowsType]
    BY <1>3 DEF Respond, Crash, Reset, IInv, TypeOK, WorkersType
  <2>2. \A v \in Workers \ {w} : cmd'[v] = cmd[v] /\ rows'[v] = rows[v]
    BY <2>1
  <2> QED
    BY <2>1, <2>2, UnwrittenPasses
<1>4. ASSUME NEW w \in Workers, Serve(w) PROVE GInv'
  BY <1>1, <1>2, <1>3, <1>4, HandlePasses, InsertChargePasses, CommitPasses DEF Serve
<1>5. CASE Around \/ UNCHANGED vars
  <2>1. UNCHANGED <<tables, stage, cmd, rows>>
    BY <1>5 DEF Around, UpdateBranch, DeactivateAccount, RevokeGrant, vars
  <2>2. AccountsStay
    <3>1. CASE \E a \in Volatile : DeactivateAccount(a)
      BY <3>1 DEF DeactivateAccount, AccountsStay, IInv, TypeOK, SettingsType
    <3>2. CASE UNCHANGED accountStatus
      BY <3>2 DEF AccountsStay
    <3> QED
      BY <1>5, <3>1, <3>2 DEF Around, UpdateBranch, RevokeGrant, vars, settings
  <2>3. BooksBalance'
    BY <2>1 DEF GInv, BooksBalance, tables
  <2> QED
    BY <2>1, <2>2, <2>3, OthersPass DEF GInv
<1> QED
  BY <1>4, <1>5 DEF Next

(* The books balance, and so does what is about to be committed to them.    *)
THEOREM BooksAlwaysBalance == Spec => []GInv
<1>1. Init => GInv
  BY DEF Init, GInv, BooksBalance, Passing
<1> QED
  BY <1>1, NextPasses, LedgerInvariant, PTL DEF Spec

(* The unique keys and triggers on an entry, its batch and its charge.      *)
LEMMA EntryPassesGuards ==
  ASSUME IInv, DInv, ReversalsHold, GInv, NEW w \in Workers, stage[w] = "written",
         rows[w].entry # <<>>
  PROVE  /\ EntryAccepted(rows[w].entry[1])
         /\ rows[w].opening => BatchTriggerAccepts(rows[w].entry[1])
         /\ \A row \in DueCharge(w) :
              ChargeKeysAccept(row) /\ ChargeReconciles(row, rows[w].entry[1])
<1> DEFINE r == rows[w]
           e == r.entry[1]
           c == cmd[w]
<1>1. /\ Fits(journal, periods, batches, charges, r) /\ ChargeableFits(charges, c, r) /\ Passes(c, r)
      /\ Belongs(c, r, answer[w].entry)
  BY DEF IInv, RowsFit, GInv, Passing, DInv, WrittenOK
<1>2. EntryFits(journal, periods, batches, charges, e)
  BY <1>1 DEF Fits
<1>3. e \in Entry
  <2>1. r.entry \in Seq(Entry) /\ Len(r.entry) = 1
    BY <1>1 DEF IInv, TypeOK, WorkersType, RowsType, Fits
  <2> HIDE DEF r
  <2> QED
    BY <2>1, ElementOfSeq
<1>4. /\ DOMAIN journal = 1..Len(journal) /\ Len(journal) \in Nat
      /\ \A n \in DOMAIN journal : journal[n] \in Entry
      /\ \A batch \in batches : batch.journal \in DOMAIN journal
      /\ \A old \in charges : old.journal \in DOMAIN journal
  BY DEF IInv, TypeOK, TablesType
<1> HIDE DEF e
<1>5. UniqueKeysAccept(e)
  BY <1>2 DEF EntryFits, ReversalFits, UniqueKeysAccept, Reversed
<1>6. BalanceTriggerAccepts(e) /\ PostableTriggerAccepts(e)
  BY <1>1 DEF Passes, BalanceTriggerAccepts, e
<1>7. ClosedPeriodTriggerAccepts(e)
  <2>1. e.date \in Nat /\ \A s \in Ranges : s[1] \in Nat /\ s[2] \in Nat
    BY <1>3, NamesAssumption DEF Entry, Ranges
  <2> QED
    BY <1>2, <2>1 DEF EntryFits, ClosedPeriodTriggerAccepts
<1>8. CutoverTriggerAccepts(e) /\ ChargeReversalTriggerAccepts(e)
  BY <1>2, <1>4 DEF EntryFits, ReversalFits, CutoverTriggerAccepts, ChargeReversalTriggerAccepts
<1>9. r.opening => BatchTriggerAccepts(e)
  BY <1>1 DEF Fits, OpeningFits, BatchTriggerAccepts, e
<1>10. ASSUME NEW row \in DueCharge(w) PROVE ChargeKeysAccept(row) /\ ChargeReconciles(row, e)
  <2>0. c.op = "charge" /\ row = ChargeRow(c)
    BY <1>10 DEF DueCharge, ChargeDue
  <2>1. /\ row.request = c.request /\ row.digest = c /\ row.draft = c.draft
        /\ e.digest = c /\ e.request = c.request
    BY <1>1, <2>0 DEF Belongs, ChargeRow, e
  <2>2. e.branch = NoBranch /\ e.date = c.date /\ e.lines = c.lines /\ e.reversalOf = 0
    BY <1>1, <2>0 DEF Passes, ChargeableFits, e
  <2>3. \A old \in charges : old.draft # row.draft
    BY <1>1, <2>0 DEF ChargeableFits, ChargeRow
  <2>4. \A old \in charges : old.request # row.request
    <3>1. \A old \in charges : journal[old.journal].request = old.request
      BY <1>4 DEF DInv, ChargesBelong, ChargesMatchJournal, EntriesBelong
    <3> QED
      BY <1>2, <1>4, <2>1, <3>1 DEF EntryFits
  <2>5. ~Reversed(Len(journal) + 1)
    <3> SUFFICES ASSUME NEW i \in DOMAIN journal, journal[i].reversalOf = Len(journal) + 1
                 PROVE  FALSE
      BY DEF Reversed
    <3>1. Len(journal) + 1 \in Nat \ {0}
      BY <1>4
    <3>2. Len(journal) + 1 \in 1..(i - 1)
      BY <3>1 DEF ReversalsHold
    <3> QED
      BY <1>4, <3>2
  <2> QED
    BY <2>1, <2>2, <2>3, <2>4, <2>5 DEF ChargeKeysAccept, ChargeReconciles
<1> QED
  BY <1>5, <1>6, <1>7, <1>8, <1>9, <1>10 DEF EntryAccepted, e

(* Nothing a worker writes is refused by a unique key or a trigger, but for *)
(* a charge whose account was deactivated since its approval read it.       *)
THEOREM GuardsFireRarely == Spec => []GuardsFireOnlyOnDeactivation
<1>1. IInv /\ DInv /\ ReversalsHold /\ GInv => GuardsFireOnlyOnDeactivation
  <2> SUFFICES ASSUME IInv, DInv, ReversalsHold, GInv, NEW w \in Workers, stage[w] = "written"
               PROVE  /\ DatabaseAccepts(w)
                      /\ ChargeDue(w) =>
                           \A a \in cmd[w].accounts : accountStatus[a] \in {"ACTIVE", "INACTIVE"}
    BY DEF GuardsFireOnlyOnDeactivation
  <2>1. Fits(journal, periods, batches, charges, rows[w])
    BY DEF IInv, RowsFit
  <2>2. rows[w].period # <<>> => PeriodTriggerAccepts(rows[w].period[1], rows[w].period[2])
    <3> SUFFICES ASSUME rows[w].period # <<>>
                 PROVE  PeriodTriggerAccepts(rows[w].period[1], rows[w].period[2])
      OBVIOUS
    <3>1. PeriodFits(periods, rows[w].period[1], rows[w].period[2])
      BY <2>1 DEF Fits
    <3> QED
      BY <3>1 DEF PeriodFits, PeriodTriggerAccepts
  <2>3. DatabaseAccepts(w)
    <3>1. CASE rows[w].entry # <<>>
      BY <2>2, <3>1, EntryPassesGuards DEF DatabaseAccepts
    <3>2. CASE rows[w].entry = <<>>
      BY <2>1, <2>2, <3>2 DEF Fits, DueCharge, ChargeDue, DatabaseAccepts
    <3> QED
      BY <3>1, <3>2
  <2>4. ASSUME ChargeDue(w), NEW a \in cmd[w].accounts
        PROVE  accountStatus[a] \in {"ACTIVE", "INACTIVE"}
    <3>1. cmd[w].op = "charge" /\ rows[w].entry # <<>>
      BY <2>4 DEF ChargeDue
    <3>2. a \in Accounts
      BY <2>4, <3>1, CommandShapes DEF IInv, WorkersOK, ChargeCommand
    <3>3. accountStatus[a] \notin {"ABSENT", "SUMMARY"}
      BY <2>4, <3>1 DEF GInv, Passing, Passes, MappingPostable
    <3> QED
      BY <3>2, <3>3 DEF IInv, TypeOK, SettingsType
  <2> QED
    BY <2>3, <2>4
<1> QED
  BY <1>1, LedgerInvariant, EntriesNameCommands, ReversalsLaw, BooksAlwaysBalance, PTL

=============================================================================
