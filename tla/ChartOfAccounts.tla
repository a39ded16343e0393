--------------------------- MODULE ChartOfAccounts ---------------------------
(***************************************************************************)
(* create_account for one organization: each worker reads and share-locks  *)
(* the parent, inserts the account under the structure trigger and the     *)
(* unique index, and commits, while the status of accounts is changed      *)
(* outside the program.                                                    *)
(*                                                                         *)
(* An account is known by the number its request drew as id.  A caller who *)
(* lacks accounting.accounts.manage changes nothing and is left out, and   *)
(* so is the name of an account.                                           *)
(***************************************************************************)
EXTENDS Naturals

CONSTANTS
  Workers,
  Codes,
  Kinds,        \* the account types
  NoParent,
  NoAccount,
  MaxRequests   \* bound: the requests that are made

ASSUME ChartAssumption ==
  /\ MaxRequests \in Nat
  /\ NoParent \notin Nat
  /\ NoAccount \notin [id : Nat, code : Codes, kind : Kinds, parent : Nat \cup {NoParent},
                       postable : BOOLEAN]

VARIABLES
  accounts,     \* the committed rows, without their status
  active,       \* the ids whose is_active is true
  stage,        \* worker -> where its transaction is
  account,      \* worker -> the account it was asked to create
  answer,       \* worker -> how its last request ended
  drawn         \* how many ids have been drawn

vars == <<accounts, active, stage, account, answer, drawn>>

Init ==
  /\ accounts = {}
  /\ active = {}
  /\ stage = [w \in Workers |-> "idle"]
  /\ account = [w \in Workers |-> NoAccount]
  /\ answer = [w \in Workers |-> "none"]
  /\ drawn = 0

-----------------------------------------------------------------------------
(* A parent is a committed account of this organization. *)
Rows(id) == {a \in accounts : a.id = id}

Accepts(a) ==
  a.parent # NoParent =>
    \E p \in Rows(a.parent) : ~ p.postable /\ p.id \in active /\ p.kind = a.kind

(* guard_account_structure, which reads the parent again.                   *)
Guard(a) ==
  a.parent # NoParent =>
    /\ Rows(a.parent) # {}
    /\ \A p \in Rows(a.parent) : p.kind = a.kind /\ ~ p.postable /\ p.id \in active

-----------------------------------------------------------------------------
Begin(w) ==
  /\ stage[w] = "idle"
  /\ drawn < MaxRequests
  /\ \E code \in Codes, kind \in Kinds, postable \in BOOLEAN,
        parent \in {a.id : a \in accounts} \cup {NoParent} :
       account' = [account EXCEPT ![w] = [id |-> drawn + 1, code |-> code, kind |-> kind,
                                          parent |-> parent, postable |-> postable]]
  /\ stage' = [stage EXCEPT ![w] = "reading"]
  /\ answer' = [answer EXCEPT ![w] = "none"]
  /\ drawn' = drawn + 1
  /\ UNCHANGED <<accounts, active>>

End(w, result) ==
  /\ stage' = [stage EXCEPT ![w] = "idle"]
  /\ account' = [account EXCEPT ![w] = NoAccount]
  /\ answer' = [answer EXCEPT ![w] = result]

(* The parent is read FOR SHARE, which holds its status until the           *)
(* transaction ends.                                                        *)
ReadParent(w) ==
  /\ stage[w] = "reading"
  /\ IF Accepts(account[w])
       THEN stage' = [stage EXCEPT ![w] = "sharing"] /\ UNCHANGED <<account, answer>>
       ELSE End(w, "conflict")
  /\ UNCHANGED <<accounts, active, drawn>>

Taken(w) == \E a \in accounts : a.code = account[w].code

(* A variant without the unique index, for the mutant runs.                 *)
NoRival(v, w) == FALSE

(* uq_accounts_org_code *)
Rival(v, w) == stage[v] = "inserted" /\ account[v].code = account[w].code

(* The insert waits for an uncommitted account with its code.               *)
Insert(w) ==
  /\ stage[w] = "sharing"
  /\ \A v \in Workers : ~ Rival(v, w)
  /\ IF ~ Guard(account[w]) THEN End(w, "failed")
     ELSE IF Taken(w) THEN End(w, "conflict")
     ELSE stage' = [stage EXCEPT ![w] = "inserted"] /\ UNCHANGED <<account, answer>>
  /\ UNCHANGED <<accounts, active, drawn>>

Commit(w) ==
  /\ stage[w] = "inserted"
  /\ accounts' = accounts \cup {account[w]}
  /\ active' = active \cup {account[w].id}
  /\ End(w, "created")
  /\ UNCHANGED drawn

Crash(w) ==
  /\ stage[w] # "idle"
  /\ End(w, "none")
  /\ UNCHANGED <<accounts, active, drawn>>

-----------------------------------------------------------------------------
(* No endpoint changes the status of an account; an administrator's SQL     *)
(* does, and waits for the share locks on the row.                          *)

(* A variant with a lock that is released too early, for the mutant runs.   *)
SharedBeforeInsert(id) == \E w \in Workers : stage[w] = "sharing" /\ account[w].parent = id

Shared(id) ==
  \E w \in Workers : stage[w] \in {"sharing", "inserted"} /\ account[w].parent = id

Deactivate ==
  /\ \E id \in active : ~ Shared(id) /\ active' = active \ {id}
  /\ UNCHANGED <<accounts, stage, account, answer, drawn>>

Activate ==
  /\ \E a \in accounts : a.id \notin active /\ ~ Shared(a.id) /\ active' = active \cup {a.id}
  /\ UNCHANGED <<accounts, stage, account, answer, drawn>>

Next ==
  \/ \E w \in Workers : Begin(w) \/ ReadParent(w) \/ Insert(w) \/ Commit(w) \/ Crash(w)
  \/ Deactivate
  \/ Activate

Spec == Init /\ [][Next]_vars

-----------------------------------------------------------------------------
(* Properties *)

Accounts == [id : 1..MaxRequests, code : Codes, kind : Kinds,
             parent : 1..MaxRequests \cup {NoParent}, postable : BOOLEAN]

(* An account is held exactly by a transaction that is under way.           *)
TypeOK ==
  /\ accounts \in SUBSET Accounts
  /\ active \subseteq {a.id : a \in accounts}
  /\ stage \in [Workers -> {"idle", "reading", "sharing", "inserted"}]
  /\ account \in [Workers -> Accounts \cup {NoAccount}]
  /\ \A w \in Workers : account[w] = NoAccount <=> stage[w] = "idle"
  /\ answer \in [Workers -> {"none", "created", "conflict", "failed"}]
  /\ drawn \in 0..MaxRequests

(* Two accounts never share a code, and an account hangs under a group of   *)
(* its own type that is older than itself: the chart is a forest with the   *)
(* postable accounts at its leaves.                                         *)
ChartIsAForest ==
  /\ \A a, b \in accounts : a.code = b.code => a = b
  /\ \A a \in accounts :
       a.parent # NoParent =>
         \E p \in accounts : p.id = a.parent /\ p.id < a.id /\ p.kind = a.kind /\ ~ p.postable

(* The structure trigger never refuses what create_account has checked,     *)
(* which would be an error no handler turns into a conflict.                *)
TriggerNeverFires == \A w \in Workers : answer[w] # "failed"

(* An account appears only while its parent is active, however long its     *)
(* transaction took and whatever an administrator did meanwhile.            *)
BornUnderActiveGroup ==
  [][\A a \in accounts' \ accounts : a.parent # NoParent => a.parent \in active']_vars

(* The workers, the locks and the trigger implement a chart that grows by   *)
(* one admissible account at a time.                                        *)
Promise == INSTANCE ChartPromise
KeepsPromise == Promise!Spec

=============================================================================
