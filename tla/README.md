# TLA+ verification of smart-merchant

This directory keeps the TLA+ specifications of the program in `src/`, the TLC
configurations that check them on small instances, and the proofs the TLA+ proof
system checks for every instance. `PROJECT.json` maps each definition to the lines
it translates.

## 1. The system and its components

Smart Merchant is an accounting back office: a FastAPI service over PostgreSQL
(`backend/app`), a Next.js web client with a session gateway (`apps/web`), a
Flutter owner app (`apps/owner`) and a static POS shell (`apps/pos`).

| Component | State it keeps | Operations | What makes it correct |
|---|---|---|---|
| General ledger (`domains/accounting`) | journal entries and lines, periods, the opening batch | post, reverse, open, create and close a period | one entry per request id; closed periods are frozen; one reversal per entry; the opening isolates history; a waiting command finishes |
| Chart of accounts (`create_account`, migration 0003) | accounts and their parents | create an account | codes are unique; the accounts are a forest of one type with the postable ones at the leaves |
| Database guards (`migrations/versions`) | triggers, unique keys | refuse an unbalanced, late or overlapping write | the application never runs into them |
| Service charges (`domains/billing/charges.py`) | charges | approve | charge and journal exist together; a draft is charged once |
| Billing sources (`domains/billing`) | service drafts, tax profiles, assessments | create each of them, preview an obligation | replay by request id; an assessment uses the profile of its date |
| Money arithmetic (`tax_calculation.py`, `service.py`, web `journal-command.ts`) | none | cents, line amounts, VAT | the roundings agree and never lose a cent |
| Customers (`domains/customers`) | customers | create | replay by request id |
| Authorization (`core/permissions.py`) | none, reads memberships and roles | load the context, permit, scope a branch | a branch grant never acts on the organization |
| Organizations, branches, users, roles, terminals (`api/routes.py`) | those tables | bootstrap, create, update, invite, disable, assign, remove | an organization always has an active owner |
| Sessions (`core/security.py`, `api/routes.py`) | refresh tokens, the limiter in Redis | log in, refresh, log out | a token is used once; a logout ends the family |
| Web session gateway (`apps/web/lib/bff.ts`, `session.ts`, `api.ts`) | cookies | forward, refresh on 401 | one refresh at a time; the organization of the cookie |
| Web journal client (`apps/web/lib/journal-command.ts`) | one pending command per scope in local storage | confirm, send, reconcile, resend, forget | a command is never sent under a second id while the first may be posted |
| Web drafts page (`service-draft-workspace.tsx`) | one draft and its request id, in memory | submit, send again, new form | a draft whose outcome is unknown keeps its identity |
| Owner app session (`apps/owner/lib/session.dart`) | tokens and organization in secure storage | restore, log in, refresh, choose, log out | a late answer never overwrites a newer state |

They interact through calls (the clients over HTTP, at any time and any number of
times), through shared tables, and through one lock: the organization row, taken
`FOR UPDATE` by every accounting command, which makes commands of one
organization run one after the other. The hard behaviours are what happens
before that lock is held (stale reads), when a transaction or a worker dies,
when an answer is lost and the same command comes again, when the same
request id is used for something else, when several tabs or queued operations
renew one session, and when the day changes inside a transaction.

Not part of the running system, and not modelled: the governance tools, the event
and worker stubs, logging, configuration and presentation. `PROJECT.json` lists
each component with its status.

## 2. Modules

| Module | What it is |
|---|---|
| `Ledger` | the accounting commands of one organization: workers, transactions, the row lock, the tables |
| `LedgerPromise` | what the ledger promises: one whole admissible command at a time, no workers and no locks |
| `LedgerProofs` | the theorems about `Ledger` |
| `MCLedger` | the small organizations TLC explores |
| `Membership` | invitations, disabling, role assignments and removals of one organization, with the row locks of each |
| `MembershipPromise` | what it promises: memberships and roles that change one at a time, no transactions |
| `MembershipProofs` | the theorems about `Membership` |
| `MCMembership` | a founder, a second user and their commands |
| `JournalCommands` | the web client's journal commands: tabs, storage slots, Web Locks, cookies, the proxy |
| `JournalPromise` | what it promises: one command in doubt per scope, no tabs, requests or answers |
| `JournalProofs` | the theorems about `JournalCommands` |
| `MCJournalCommands` | two tabs and two scopes |
| `RefreshTokens` | the refresh tokens of the backend: requests, row locks, rotation, revocation; extended by the two clients |
| `RefreshFamilies` | what the tokens promise: families with one exchangeable token, no requests and no locks |
| `RefreshProofs` | the lemmas about `RefreshTokens`, for any client |
| `WebSession` | the cookies, tabs, Web Lock and session routes of the web client, over `RefreshTokens` |
| `WebProofs` | the theorems about `WebSession`; extends `RefreshProofs` |
| `MCWebSession` | two tabs |
| `OwnerSession` | the owner app's queue, storage and intents, over `RefreshTokens` |
| `OwnerProofs` | the theorems about `OwnerSession`; extends `RefreshProofs` |
| `MCOwnerSession` | one phone |
| `Money` | the amounts of draft lines and of the tax, in Python, SQL and TypeScript |
| `Billing` | customers, drafts, tax profiles, assessments and charges of one organization, over `Money` |
| `BillingPromise` | what it promises: tables that grow by one admissible row at a time, no workers and no triggers |
| `BillingProofs` | the theorems about `Billing`, `Money` and `DraftPage` |
| `MCBilling` | two days and the commands that collide |
| `DraftPage` | the runs of `submit` on the web drafts page |
| `MCDraftPage` | the page for TLC |
| `ChartOfAccounts` | `create_account` under its share lock, trigger and unique index |
| `ChartPromise` | what it promises: accounts that join one at a time, no workers, locks or trigger |
| `ChartProofs` | the theorems about `ChartOfAccounts` |
| `MCChart` | three codes and two types |

### `Ledger`

A worker serves one command in one database transaction at READ COMMITTED.
`stage[w]` is where it is:

    idle -Begin*-> waiting -LockOrganization-> locked -Handle-> written -Commit-> done -Respond-> idle
             \-> done (refused)                     \-> done (refused)

- `Begin` loads the grants into the request's context (`context`) and runs the
  checks the code makes before the lock: `authorize` with the branch status,
  `scoped_entry`, `ctx.require`. A refusal is answered at once. These values are not
  read again, which is the point of keeping them in `ctx`.
- `LockOrganization` is `SELECT ... FOR UPDATE` on the organization row.
- `Handle` is one action per endpoint: `PostJournal`, `ReverseJournal`,
  `PostInitialOpening`, `ApproveCharge`, `CreatePeriod`, `ClosePeriod`. Each makes
  the code's checks in the code's order on the committed tables: the replay
  lookup, the operation's own checks, `WriteEntry`. A handler is one atomic step
  because everything it reads and writes is written only under the row it holds,
  except the accounts, whose deactivation may fall before or after the step.
  `approve_charge` is two: `ApproveCharge` flushes the journal entry, `InsertCharge`
  the charge, and between them an account the command named may be deactivated. The
  trigger reads the accounts again (`MappingTriggerAccepts`) and then raises, which
  nobody handles: the request fails and the entry is rolled back with it.
- `Commit` makes the flushed rows visible and frees the row. `Crash` is the death of
  the worker or its connection anywhere before, `Respond` the end of the request.
  A lost answer needs no action: the client just sends the command again, and
  commands can be sent any number of times.
- `UpdateBranch` and `RevokeGrant` are the administration endpoints. Both insert an
  audit row whose foreign key takes a share lock on the organization row, so they
  wait while a worker holds it. `DeactivateAccount` is the only action for code
  outside the repository: no endpoint changes `is_active`, an administrator does.

Abstractions: an entry's id is its position in the journal; the request digest is
the command (SHA-256 is taken to be injective on the normalized payload); audit
rows, descriptions and timestamps are left out, and so is the DRAFT status of an
entry, which no other transaction sees. The source checks of a charge
(assessment, draft, customer, profile, dates, accounts) are a choice between
refusing and going on, but the state of the accounts is read; what a charge books is
its command's lines. The
permissions a charge needs are one, `approve`, plus `post`.

`EntryAccepted`, `BatchTriggerAccepts`, `ChargeKeysAccept`, `ChargeReconciles` and
`PeriodTriggerAccepts` say what the migrations' keys and triggers let through; they
are never guards of an action, so that `GuardsFireOnlyOnDeactivation` can say that the
application does not rely on them. `MappingTriggerAccepts` is a guard of `InsertCharge`,
because there the application does rely on it.

### Runs of the ledger

| Run | Properties | Instance |
|---|---|---|
| `ledger_entries` | `TypeOK`, `OneEntryPerRequest`, `AnswersNameTheirCommand`, `ReversalsAreFinal`, `CutoverIsolatesHistory`, `ChargesMatchJournal`, `WaitersFinish` | two workers, eight commands on three request ids; 217,242 states |
| `ledger_calendar` | `GuardsFireOnlyOnDeactivation`, `ClosedPeriodsAreFrozen`, `ReplaysAnswerOriginal`, `KeepsPromise` | two workers, nine commands, two of them charges, overlapping periods; 1,203,906 states |
| `replay_on_inactive_branch` | `SameCommandNeverConflicts`, violated | one branch |
| `stale_branch_check` | `NewPostingsNeedActiveBranch`, violated | one branch |

Bounds. Two workers are enough for every race of two transactions, and the row
lock lets only one of several waiters on. Two dates give before, on and after a
cutover and periods that are equal, nested or disjoint from a date. The command
sets are chosen to collide: the same request id as a post, a reversal, an opening
and a charge; the same id with other content; one entry reversed under two ids;
two openings; one draft charged twice; a post on a summary account. The journal
needs no bound: a request id is posted once. `Revocable` and `Volatile` name the
grants and accounts that may be taken away, the ones the commands use; an account
is deactivated in `ledger_calendar`, and `ledger_entries` refuses lines on a summary
account instead. The workers are symmetric in `ledger_calendar`; `ledger_entries`
checks liveness and uses no symmetry.

Fairness (`FairSpec`). A worker that holds the row executes its handler and its
commit unless it crashes (weak fairness). PostgreSQL queues the waiters of a row, so
a waiter for whom the row is free again and again gets it (strong fairness of
`LockOrganization`). Nothing is assumed of clients, administrators or crashes.

### Two statements of ADR 0010 the code departs from

- `SameCommandNeverConflicts`: "Same identity/content returns the original
  journal". `post_journal` refuses an inactive branch before it looks for the
  request, so a retry after the deactivation gets a 409.
- `NewPostingsNeedActiveBranch`: "new postings need an active branch". The status
  is read before the wait for the row and not after, so a deactivation that commits
  meanwhile is missed.

`ReplaysAnswerOriginal` states the part of the first that does hold: once the
worker has the row, a recorded command is answered with its entry.

### `Membership`

`invite_user`, `disable_user`, `assign_role` and `remove_role` of `api/routes.py`, one
transaction per worker, for one organization.

    invite  idle -BeginInvite-> checked -InsertMembership-> written -Commit-> idle
    assign  idle -BeginAssign-> checked -InsertAssignment-> sharing -ShareOrganization-> written -Commit-> idle
    disable idle -BeginDisable-> waiting -LockOrganization-> locked -DisableUser-> written -Commit-> idle
    remove  idle -BeginRemove-> waiting -LockOrganization-> locked -RemoveRole-> written -Commit-> idle

- `Begin*` makes the checks before the first lock: the caller is an active member
  with the permission, a role is assigned only by someone who holds all it grants,
  and `OWNER` only globally and by an owner. `held` keeps the permissions of the
  request's context, which `remove_role` uses after it has waited.
- `disable_user` and `remove_role` take the organization row `FOR UPDATE`, count the
  owners, and take the membership row last. The inserts take the same rows
  `FOR KEY SHARE` through their foreign keys; an assignment takes the membership
  first and the organization last. `Deadlocked` is the cycle this makes, `BreakDeadlock`
  the transaction PostgreSQL aborts.
- An insert waits for an uncommitted row with the same key and fails on a committed
  one (`Duplicates`, `AlreadyMember`). `Abort` is any rollback, `Crash` one at any time.

A request that is refused before its first lock changes nothing and is left out.

Run `membership`: two workers, two users, twelve commands with which either
member may promote, disable or demote the other and themselves; at most four
assignments (`MaxAssignments`), one more than both users need to own the
organization with a branch role beside. No symmetry. Properties: `AlwaysAnOwner`,
`UniqueAssignments`, `SuspensionIsFinal`, `KeepsPromise`, `RequestsEnd`.

`MembershipPromise` (ADR 0005) has the same tables and four atomic changes. Each is
judged in the tables it changes: a member is disabled and an assignment removed only
while an active owner is left besides, an assignment is new in its scope and of a
member. `KeepsPromise` says that a commit is one of these changes, whatever the
transaction had read before it waited.

Fairness: a thread goes on with a transaction whose rows it has, and the deadlock
detector runs (weak). A row or an insert's key that is released again and again is
granted to each waiter in turn (strong). Nothing makes a caller ask.

### `JournalCommands`

`JournalCommands` of `journal-command.ts`, `api`, `sessionRequest` and the context
check of the proxy, for the tabs of one browser, which share its cookies and its
local storage.

- `session` is the cookies: a context number and the user and organization it stands
  for. `page[t]` is the session a tab was loaded with; `Bound` is `assertContext`.
- `slot[s]` is the stored command of a scope, `home[i]` the scope command `i` was
  confirmed for. `Confirm` stores a new command before anything is sent, `Resend` and
  `Reconcile` take the stored one. A tab whose `stage` is not "idle" holds the Web
  Lock of its scope; the lock is requested with `ifAvailable`, so nobody waits for it.
- `Send`, `Receive`, `Renew` and `GiveUp` are the life of one request in the page: one
  resend after a 401 that was renewed, a timeout at any time. `Acknowledge` and
  `Forget` clear the slot, `Keep` is every other end. A storage that refuses to clear
  is a `Keep`.
- `Forward` is the proxy: the browser attaches the cookies it has by now, and the
  request goes on only if the context the page was bound to is still theirs.
- `Post` and `Refuse` are the ledger at its promise (`LedgerPromise`): it posts an id
  once, answers a repetition with the first entry, and may refuse any of them. A
  committed request may still be answered with a failure or a mangled body, `Lose`
  drops a request or its answer, and a request nobody waits for may be served later.
- `Reload` binds a tab to the current session, `Switch` is a login, a logout or the
  choice of an organization, in any tab.

Left out: how amounts are normalized, and the form. A payload is its request id,
since a stored command is never changed.

`JournalPromise` (ADR 0012) has no tabs, cookies, requests or answers. A scope has at most
one command in doubt; it is posted from its slot only, and leaves the slot
acknowledged if it was posted, or else never to be posted: a discarded command is in
no slot, and no command comes back to one. `KeepsPromise` says that every step of the
tabs, the proxy and the ledger is a step of it or changes nothing it sees, so it also
covers the requests that arrive after their tab has gone.

Run `journal_commands`: `UncertainIsKept`, `AcknowledgedIsPosted`,
`PostedWhereConfirmed`, `KeepsPromise` and `OperationsEnd` with two tabs, two scopes, two commands
(`MaxCommands`) and one change of session (`MaxSessions`): enough for a tab to be left
behind, for a command to be posted under another cookie if it could, and for a
second command to overtake the first. The theorems cover any number of each. No
symmetry, because the run checks liveness.

Fairness: a page runs its own code and its timers (weak fairness of `Operate`).
Nothing is assumed of the network, the proxy, the ledger or the user.

### `RefreshTokens` and `RefreshFamilies`

`login`, `refresh` and `logout` of `api/routes.py` with `core/security.py`. The rows of
`refresh_sessions` are the sequence `tokens`; the tokens that descend from one login
are a family. A request is `sent`, `Take` locks the row of its token and reads it,
`Commit` revokes it and issues the successor of a refresh; a used token is answered
at once, a refresh with 401 and a logout like any other. `Fail` is every way a
request can end without an effect: the limiter, Redis, the database, the death of
the worker. `Abandon` leaves a request behind whose client has given up: the server
still serves it, whenever it arrives.

`disturbed` and `left` are history variables for the properties. A family is
disturbed when an answer that could have carried its next token was lost, its token
expired, or a logout failed; ADR 0008 and 0009 say that then the user signs in again.

`FamiliesPromise` is the refinement of `RefreshFamilies` (ADR 0006): a login opens a
family, one token at a time can be exchanged, and a family that ended never has a
token again. `users.status` never changes in this program, so the branch of `refresh` for an
inactive user is not reached and not modelled.

### `WebSession`

A client is one call or operation of a tab. `stage[c]` is what it waits for:

    idle -Called-> rejected -Acquire-> probing -Probed-> renewing -Renewed-> retrying -Retried-> idle
    idle -StartLogin-> login -Acquire-> entering -LoggedIn-> idle
    idle -Start-> logout | organization -Acquire-> leaving | choosing -> idle

- The second half of each path is under the Web Lock (`Locked`), which all tabs share.
  `Acquire` compares the context again, except for a login.
- `cookies` are the context and the token that `sm_access` and `sm_refresh` came with;
  `opened` records which family's account each context named. `observed` and `expected`
  are `observedContext` and the bound context of a call.
- `Probed` asks `auth/me` first, because another tab may have renewed the cookies.
- `LoggedOut` clears the cookies on the answer or after the deadline, `GiveUp` is any
  deadline or broken connection, `Reload` closes or reloads a page, whose locks the
  browser releases.

Run `web_session`: two tabs with a call each, three tokens, two contexts, one
abandoned request at a time; 386,422 states. Two clients make every race of two
operations, three tokens a login with two rotations or two logins with one, and the
abandoned request is the one a deadline left at the server.

| Property | Says |
|---|---|
| `NoNeedlessSignOut` | a renewal is rejected only in a disturbed family: concurrent tabs never sign one another out (ADR 0007) |
| `LogoutEndsFamily` | nothing of a family is live after its logout, unless it was disturbed |
| `ContextNamesAccount` | the context cookie names the account of the token cookies |
| `FamiliesPromise` | the refinement above |
| `CallsEnd` | every call ends and the Web Lock is given back |

Fairness: a page runs its own code and timers (weak fairness of `Proceed`, which
includes the deadline); the browser grants a Web Lock in the order of the requests
(strong fairness of `Acquire`). Nothing of the network or the servers.

### `OwnerSession`

The queue `_serial` and the two keys of the secure storage. `queue` holds the
operations with the outcome of the comparison of `_epoch` (an operation is `current`
until a later login or logout); its head runs through `stage`. `Intend` hides the
session at once and makes what is queued obsolete; `Skips` drops an obsolete operation
except a logout, but one that already waits for its answer still saves it (`MaySave`),
as ADR 0009 asks. `Granted` writes the access token and `Saved` the refresh token,
and `SaveFails` and `Restart` may come between them. `torn` remembers that, or a
`deleteAll` that threw.

Run `owner_session`: one phone, three tokens, two queued operations, one abandoned
request; 772,027 states. Properties: `PairIsWhole`, `IntentHides`, `NoNeedlessSignOut`,
`LogoutClears`. Fairness: the isolate runs its queue and timers.

### `Money` and `Billing`

`Money` has each rounding as its own code computes it: `Decimal.quantize` with
ROUND_HALF_UP, `round(numeric)` of the migrations' checks, the page's BigInt
arithmetic. Quantities are thousandths and amounts cents; the decimal strings and
NUMERIC columns hold exactly these.

`Billing` runs the commands of customers, drafts, tax profiles, assessments and
charges under the organization lock:

    idle -Begin-> waiting -LockOrganization-> holding -Execute-> accepted -Flush-> flushed -Commit-> idle

`Execute` replays a request id that is on record or makes the application's checks
(`Accepts*`); `Flush` asks the triggers and checks of migrations 0006 to 0010
(`Guard*`), which are never guards of the application's steps; what they refuse ends in an
unhandled error, the answer "broken". `Midnight` advances the calendar at any time; the triggers
compare with CURRENT_TIMESTAMP, the time the transaction began, the application with
its clock when it gets there. `SwitchAccount` is an administrator's update of an account,
which no lock of a command keeps out: a charge reads its accounts at `Execute`, the trigger
again at `Flush` (`GuardMapping`). `read` keeps those that could be posted to at `Execute`.

| Property | Says |
|---|---|
| `GuardsAgree` | the database refuses nothing the application accepted, but a charge, and that for two reasons only: its day began after its transaction did, or one of its accounts was switched off since it was read |
| `ChargesKeepProfile` | a charge stays under the registered profile in force on its booking date (ADR 0020 to 0022) |
| `AmountsAgree` | preview, stored totals and assessed amounts agree; a draft is charged once |
| `ReplaysAnswerOriginal` | a command on record is answered with its row, although its date has passed or the profile changed |
| `KeepsPromise` | the refinement of `BillingPromise` |

`BillingPromise` (ADR 0016 to 0022) has the rows alone. One joins at a time, and is
admissible in the tables it joins: a day not before that of any row there; a request
id that is new in its table; a draft
with the total the page previewed; a profile later than all others and not of a past
day; an assessment of its draft's amount, with the tax the database expects, under the
registration in force on its date; a charge as it was assessed, to a customer, on a
day that has come, of a draft that has none yet, under a registration in force on its
booking date. What the worker checked before the flush must thus still be true when it
commits. `Total` and `Tax` are parameters of it, for which `Billing` puts the page's own
`draftTotalCents` and the database's `SqlStandardVat`.

The exceptions of `GuardsAgree` are real behaviours of the code: such a charge ends in
an unhandled database error and leaves nothing. Sent again, the first succeeds, the
second is refused with a conflict.

Run `billing`: two workers, two days, ten commands with `MaxMinor` 12 so that the
rounding boundaries and the column's limit are met; one account, which both charges
name; workers symmetric; 802,028 states.

### `DraftPage`

The runs of `submit` on the drafts page, several of which may be open: the page offers
a new form while the list is read again. Run `draft_page` (three drafts, five runs of
`submit`, 48,127 states): `DoubtKeptUnlessDoubled` and `SavingEnds`. Run `draft_doubt` checks
the comment of the page itself, `DoubtKeepsIdentity`, and finds it violated: the end
of an older run releases the button of a newer one, so that a draft is sent twice at
a time, and its second answer drops the identity of the draft after it, which is
still in doubt (`service-draft-workspace.tsx:114`). Fairness: every request of the page
has a deadline (weak fairness of each run's own code).

### `ChartOfAccounts`

`create_account` of each worker: `ReadParent` takes the parent FOR SHARE, `Insert` meets
the structure trigger (`Guard`, which reads the parent again) and the unique index, and
waits for an uncommitted rival with the same code; `Commit`, `Crash`. No endpoint changes
the status of an account: `Deactivate` and `Activate` are an administrator's SQL, which
waits for share locks.

Run `chart_of_accounts`: two workers, three codes, two types, four requests
(`MaxRequests`): a group, a group below it, a leaf and a rival; 496,907 states.
Workers, codes and types are symmetric. Properties: `ChartIsAForest`,
`BornUnderActiveGroup` and `KeepsPromise`. `ChartPromise` (ADR 0013) adds an account in one
step under an older group as that is by then, and changes nothing but the status. The requests are bounded, so the run ends and its
configuration disables deadlock checking; no other configuration does.

## 3. Proofs

The proofs meet the abstract specifications from both sides: `Spec => KeepsPromise` says
that the code keeps its promise, and the theorems `PromiseKeeps...` say what a promise is
worth by itself, whatever keeps it: they reason about the atomic changes alone, without
workers, requests or locks. `PromiseKeepsLedger` and `PromiseKeepsTables` take the types of
the tables as a hypothesis, which `TypeCorrect` discharges.

### `LedgerProofs`

`LedgerProofs` holds for every set of workers, requests, dates, accounts and
commands, under the assumptions of `Ledger` (names are distinct, dates are numbers,
payloads passed the schema, commands have the schemas' shapes).

The table properties are not inductive: a flushed row is committed later, and the
tables must still admit it then. `IInv` adds

- `WorkersOK`: `orgLock = w` exactly while `w` is between its lock and the end of
  its transaction, so one worker at most has rows to commit;
- `RowsFit`: what a worker has flushed still fits the committed tables (`Fits`: a
  new request id, a date outside every closed period and after the cutover, an
  entry that is still unreversed, a draft that is still uncharged, a range that still
  overlaps nothing). A handler establishes it; it survives because the tables change
  only at a commit, and only the holder commits;
- `PeriodsNeverOverlap`.

Each action has a lemma of its own (`BeginStep`, `LockStep`, `FlushStep`,
`RefuseStep`, one per handler, `CommitStep`, `EndStep`, `AroundStep`), and
`NextIInv` puts them together.

| Theorem | Statement |
|---|---|
| `LedgerInvariant` | `Spec => []IInv` |
| `TypeCorrect` | `Spec => []TypeOK` |
| `RequestsAreIdempotent` | `Spec => []OneEntryPerRequest` |
| `OpeningIsolatesHistory` | `Spec => []CutoverIsolatesHistory` |
| `ClosedIsFinal` | `Spec => ClosedPeriodsAreFrozen` |
| `LedgerImplementsPromise` | `Spec => KeepsPromise` |
| `EntriesNameCommands` | `Spec => []DInv` |
| `AnswersAreTrue` | `Spec => []AnswersNameTheirCommand` |
| `ChargesHaveEntries` | `Spec => []ChargesMatchJournal` |
| `ReplaysAnswered` | `Spec => ReplaysAnswerOriginal` |
| `ReversalsLaw`, `ReversalsFinal` | `Spec => []ReversalsHold`, `Spec => []ReversalsAreFinal` |
| `BooksAlwaysBalance` | `Spec => []GInv` |
| `GuardsFireRarely` | `Spec => []GuardsFireOnlyOnDeactivation` |
| `PromiseKeepsLedger` | `KeepsPromise /\ []TablesType` implies `OneEntryPerRequest`, `ReversedOnce`, `HistoryAfterOpening`, `ChargedOnce` and `ClosedPeriodsAreFrozen` |

Three further invariants stand on `IInv`:

- `DInv` ties every row to the command its digest names: an entry carries its
  command's request, an opening has its batch, a charge its entry, a flushed row is of the
  command its worker serves (`Belongs`). With `OneEntryPerRequest` a replay finds exactly its
  own entry, so the answers and the replays follow. It also keeps the branch of an
  entry in existence (`Present`), without which a replay could be answered "not found";
- `ReversalsHold` states reversals line by line; the account totals follow without
  induction, because the swapped side sums the very same list of amounts
  (`SwappedTotals`);
- `GInv` has what the triggers ask of a flushed entry beyond fitting the tables: its
  lines balance, its accounts are still postable (an account may only be
  deactivated meanwhile), a charge's entry has the charge's date and no branch.

### `MembershipProofs`

For any users, roles, grants, commands and workers, under `MembershipAssumption`.
That an owner remains is not inductive: the count is taken before the commit. `IInv`
adds

- `Exclusion`: `orgLock` names the worker between its lock and its commit, and no
  insert that shares the row is uncommitted meanwhile;
- `OwnerRemains`: an active owner is left without the user or the row a worker is
  about to commit. It follows from the count being above one when it is read
  (`OwnerCounted`), and survives because ownerships and statuses shrink only under the
  row;
- `NoTwins` and `OneMembership`: uncommitted inserts have keys of their own;
- `Staged`, and the finiteness of `assignments`, for the count.

The refinement needs one more invariant: `MembersOnly` says that roles are held, and are
about to be held, by users who have a membership. The membership was read when the
assignment began and not locked before the insert; it is still there because no
transaction deletes one.

| Theorem | Statement |
|---|---|
| `MembershipInvariant` | `Spec => []IInv` |
| `NeverOrphaned` | `Spec => []AlwaysAnOwner` |
| `NoDoubleAssignment` | `Spec => []UniqueAssignments` |
| `SuspendedForGood` | `Spec => SuspensionIsFinal` |
| `RolesAreOfMembers` | `Spec => []MembersOnly` |
| `MembershipKeepsPromise` | `Spec => KeepsPromise` |
| `PromiseKeepsOwner` | `KeepsPromise` implies `AlwaysAnOwner`, `UniqueAssignments` and `SuspensionIsFinal` |
| `TypeCorrect` | `Spec => []TypeOK` |

### `JournalProofs`

For any tabs, scopes and bounds, under `JournalCommandsAssumption`. `UncertainIsKept` is
not inductive: a rejection clears the slot, which is right only if nothing else can
still post the command. `IInv` adds

- `Holders`: one tab at most works on a slot, and the slot is not empty;
- `Requested`: a request carries a command of the scope it was sent from, and a tab
  waits for one request at most, for the command in its slot;
- `Fresh`: a command being sent for the first time is in no other tab's request, and
  not in the journal when its answer is a rejection or a 401;
- `Truthful`: an answer with the entry is about an entry that exists.

`IInv` also carries the refinement: `Fresh` makes a rejection a discard (`ForgetIsDiscard`),
`Truthful` a verified answer an acknowledgement (`AcknowledgeIsAcknowledge`), and a
request the ledger posts is for the command in its slot or for one that is posted
already (`PostIsPost`).

| Theorem | Statement |
|---|---|
| `JournalInvariant` | `Spec => []IInv` |
| `DoubtIsKept` | `Spec => []UncertainIsKept` |
| `SuccessIsTrue` | `Spec => []AcknowledgedIsPosted` |
| `PostedAtHome` | `Spec => []PostedWhereConfirmed` |
| `JournalKeepsPromise` | `Spec => KeepsPromise` |
| `PromiseKeepsDoubt` | `KeepsPromise` implies `AcknowledgedIsPosted`, `PostedWhereConfirmed`, and that a posted command is acknowledged or still in its slot |
| `TypeCorrect` | `Spec => []TypeOK` |

### `RefreshProofs` and `WebProofs`

`RefreshProofs` is about the server with any client: one token of a family at most is
live (`OneLive`), a locked row is usable and held once (`Locks`), and every change of the
table opens a family, exchanges its token or ends it (`Changes`), which is a step of
`RefreshFamilies` (`PromiseStep`). Both clients' theorems use these lemmas. Its theorem
`PromiseKeepsFamilies` says what `FamiliesPromise` implies by itself: one usable token in a
family at most, and none again in a family that has ended.

`WebProofs` holds for any tabs, calls, tokens and contexts. That a tab is never signed
out needlessly is not inductive: it must be known that nobody else uses the token of
the cookies. `IInv` adds

- `Exclusive` and `Bound`: one client has the Web Lock, and it still has the session it
  was bound to;
- `Requested` and `Awaited`: a request at the server belongs to that client and is about
  the cookies' token, or belongs to nobody and its family is disturbed;
- `Answered`: what an answer means (`Meaning`): a renewal is rejected only in a disturbed
  family, a logout that was answered left its family without a live token;
- `CookieLive`: the cookies' token is live, disturbed, or just used by the lock's holder.

| Theorem | Statement |
|---|---|
| `WebInvariant` | `Spec => []IInv` |
| `TypeCorrect` | `Spec => []TypeOK` |
| `ServerKeepsFamilies` | `Spec => FamiliesPromise` |
| `TabsStaySignedIn` | `Spec => []NoNeedlessSignOut` |
| `LoggedOutForGood` | `Spec => []LogoutEndsFamily` |
| `CallsKeepAccount` | `Spec => []ContextNamesAccount` |

### `OwnerProofs`

For any queue, tokens and bounds, under `OwnerAssumption` and `TokensAssumption`. The queue
is to the app what the Web Lock is to the tabs, and none of the properties is
inductive: that no late answer shows the session again needs to know which
operations are obsolete, and that the stored token is good needs to know whose
request could have used it. `IInv` adds

- `QueueOK`: what stands before the last login or logout is obsolete, and that one is the
  user's intent; `StageOK`, the stages of each operation;
- `AfterLogout`: a logout is still pending, or the storage is empty and nothing runs;
- `Requested`, `Awaited`, `OneAnswer`, `Meant`: the one request of the app is the running
  operation's, about the stored token, and its answer means what `Meaning` says;
- `Saving` and `StoredLive`: between its writes a pair is good and of the stored token's
  family; the stored token is live, disturbed, or just used by the running operation.

The steps of the server keep it because they are `Harmless` to every family that is
not disturbed, except the transaction of the running operation (`AwaitedCommit`). The
steps of the app come in kinds with a lemma each: they ask (`AskStep`), erase or
leave the storage (`QuietStep`), forget their requests (`ForgetStep`), end the operation
(`FinishIntents`) or stay in it (`WaitIntents`).

| Theorem | Statement |
|---|---|
| `OwnerInvariant` | `Spec => []IInv` |
| `TypeCorrect` | `Spec => []TypeOK` |
| `PairStaysWhole` | `Spec => []PairIsWhole` |
| `IntentsWin` | `Spec => []IntentHides` |
| `PhoneStaysSignedIn` | `Spec => []NoNeedlessSignOut` |
| `LogoutIsFinal` | `Spec => []LogoutEndsFamily` |
| `ServerKeepsFamilies` | `Spec => FamiliesPromise` |

### `BillingProofs`

For any workers, commands, days and column limit, under `BillingAssumption` and
`CommandsAssumption`. The latter says that the line totals of a draft add up to a natural
number: that a fold of naturals is one needs induction over the lines, which is
beyond the prover; TLC evaluates it for the commands of the run. That the three
computations of a total agree needs no induction: their line amounts are the same
sequence.

The properties of the tables are not inductive: what was accepted is committed
later. `IInv` adds `Exclusive` (one worker at most is past the lock), `TablesFit` and, for
every worker, `SessionOK`: the row it is about to commit still `Fits` the tables, and
satisfies the `LastingGuards`, all that the triggers check but the day and the accounts of a
charge. Both survive because the tables change at a commit only, and only the holder of
the lock commits; the clock and the accounts have no such lock.

The refinement rests on `Joinable`: the row a worker is about to commit is one
`BillingPromise` admits. An accepted command establishes it (`AcceptedIsAdmissible`), which
is where the amounts meet, `LineAmountsAgree` for the total and `TaxesAgree` for the tax; it
stays because the tables do (`StaysAdmissible`), and `Commit` is `Join`.

The last section is about `DraftPage`, for any number of drafts and runs. `PageInv` says that
unless a draft was sent twice at a time, every run has sent a draft the page has made
and is answered about one the server has (`PageTyped`), one run at most posts, and it
posts the draft in doubt (`OnePosts`), besides `DoubtKeptUnlessDoubled`.

| Theorem | Statement |
|---|---|
| `LineAmountsAgree` | for all quantities and prices, `line_amount`, `SqlLineTotal` and `draftLineCents` are equal |
| `TaxesAgree` | for all amounts, `standard_vat` and `SqlStandardVat` are equal |
| `TaxIsNearest` | the tax is within half a cent of 15 per cent |
| `BillingInvariant` | `Spec => []IInv` |
| `TypeCorrect` | `Spec => []TypeOK` |
| `GuardsAlwaysAgree` | `Spec => []GuardsAgree` |
| `ProfilesStay` | `Spec => []ChargesKeepProfile` |
| `AmountsAlwaysAgree` | `Spec => []AmountsAgree` |
| `ReplaysAnswered` | `Spec => ReplaysAnswerOriginal` |
| `BillingKeepsPromise` | `Spec => KeepsPromise` |
| `PromiseKeepsTables` | `KeepsPromise /\ [](rows \subseteq Rows)` implies `AmountsAgree` and `ChargesKeepProfile` |
| `PageKeepsDoubt` | `PageSpec => []DoubtKeptUnlessDoubled` |

### `ChartProofs`

For any workers, codes, types and requests, under `ChartAssumption`. `IInv` adds `Drawn`
(ids are drawn once) and `WorkerOK`: while a transaction shares its parent, the parent
is an active group of its type, and of two uncommitted rows with one code only one
is inserted.

| Theorem | Statement |
|---|---|
| `ChartInvariant` | `Spec => []IInv` |
| `TypeCorrect` | `Spec => []TypeOK` |
| `ChartStaysAForest` | `Spec => []ChartIsAForest` |
| `TriggerAgrees` | `Spec => []TriggerNeverFires` |
| `GroupsAreActive` | `Spec => BornUnderActiveGroup` |
| `ChartKeepsPromise` | `Spec => KeepsPromise` |
| `PromiseKeepsForest` | `KeepsPromise` implies `ChartIsAForest` and `BornUnderActiveGroup` |

### Only model-checked

- Liveness, which is beyond the prover: `WaitersFinish`, `RequestsEnd`, `OperationsEnd`,
  `CallsEnd`, `LogoutClears`, `SavingEnds`.

Every safety property of the passing runs, invariants, action properties and
refinements, is a theorem. The other way round, `TypeOK` is a theorem of `Ledger`,
`Membership`, `JournalCommands`, `WebSession`, `OwnerSession`, `Billing` and `ChartOfAccounts`;
only `ledger_entries` also checks it. `DraftPage` and the tokens have theirs inside their
inductive invariants (`PageTyped`, `ServerTypeOK`).

## 4. Plan

Done, in this order because a lost or doubled entry is the worst this program can
do: `Ledger` with `LedgerPromise` and `LedgerProofs`; `Membership`, the other place where a
check and its effect are apart; `JournalCommands`, the client on the far side of the
ledger's promise; the sessions (`RefreshTokens`, `WebSession`, `OwnerSession`); `Money`, `Billing`
and `DraftPage`; `ChartOfAccounts`; then the promises of `Membership`, `JournalCommands`, `Billing`
and `ChartOfAccounts` with their refinements. Every safety property of the passing runs is a
theorem.

| Next | What it adds | Theorems |
|---|---|---|
| `Ledger` with `Billing` | a charge that flushes its journal and its row in one transaction, with one request namespace | a charge and its journal exist together, with the amounts of the assessment |
| the limiter | the counter in Redis with its window and the crash between its two calls | none |

## 5. Not modelled

- The limiter's counter in Redis. A refused request is a failure like any other;
  the crash between INCR and EXPIRE (`api/routes.py:104`) is listed as a hazard without a
  property.
- `Ledger` and `Billing` are not composed: `Billing` leaves the journal of a charge to a
  nondeterministic refusal, `Ledger` the sources of a charge likewise.
- Reads, lists and the obligation preview, which change no state.
- The creation of organizations, branches and terminals and the update of an
  organization's name: single inserts and updates without a check that could go stale. What the
  ledger reads of a branch, its status, is in `Ledger`.
- `users.status`, the currency and the timezone of an organization, which no endpoint
  changes; the password check; the signature of access tokens.
- How `journal-command.ts` normalizes amounts; forms, fields and presentation.
- A refused draft (409, 403) keeps the drafts page locked to it until it is loaded
  again: the model does the same, no document promises anything else.
- The table of idempotency keys, whose functions have no caller; workers and events,
  which are empty interfaces; middleware, logging, configuration; audit rows, which
  are part of their command's transaction; the POS shell, which is static; the
  governance tools, which are not part of the running system.
