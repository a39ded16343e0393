----------------------------- MODULE ChartProofs -----------------------------
(***************************************************************************)
(* The chart of accounts for any workers, codes, types and number of       *)
(* requests.  The inductive invariant says what a transaction may rely on  *)
(* while it shares its parent, and that no two uncommitted accounts have   *)
(* one code.                                                               *)
(***************************************************************************)
EXTENDS ChartOfAccounts, TLAPS

-----------------------------------------------------------------------------
(* The invariant *)

Pending == {"reading", "sharing", "inserted"}

Drawn ==
  /\ \A a \in accounts : a.id <= drawn
  /\ \A w \in Workers : stage[w] # "idle" => account[w].id <= drawn
  /\ \A v, w \in Workers : stage[v] # "idle" /\ stage[w] # "idle" /\ account[v].id = account[w].id
                             => v = w
  /\ \A w \in Workers : stage[w] # "idle" => Rows(account[w].id) = {}
  /\ \A a, b \in accounts : a.id = b.id => a = b

(* A group of the account's type, older than it. *)
Group(a, p) == p.id = a.parent /\ p.id < a.id /\ p.kind = a.kind /\ ~ p.postable

Under(a) == a.parent # NoParent => \E p \in accounts : Group(a, p) /\ p.id \in active

WorkerOK(w) ==
  /\ stage[w] # "idle" /\ account[w].parent # NoParent => account[w].parent < account[w].id
  /\ stage[w] \in {"sharing", "inserted"} => Under(account[w])
  /\ stage[w] = "inserted" => ~ Taken(w) /\ \A v \in Workers : Rival(v, w) => v = w

IInv ==
  /\ TypeOK
  /\ Drawn
  /\ \A w \in Workers : WorkerOK(w)
  /\ ChartIsAForest
  /\ TriggerNeverFires

-----------------------------------------------------------------------------
(* The steps *)

LEMMA InitInvariant ==
  ASSUME Init
  PROVE  IInv
<1>1. TypeOK
  BY ChartAssumption DEF Init, TypeOK
<1>2. Drawn /\ ChartIsAForest /\ TriggerNeverFires /\ \A w \in Workers : WorkerOK(w)
  BY DEF Init, Drawn, ChartIsAForest, TriggerNeverFires, WorkerOK
<1> QED
  BY <1>1, <1>2 DEF IInv

LEMMA Account ==
  ASSUME TypeOK, NEW w \in Workers, stage[w] # "idle"
  PROVE  account[w] \in Accounts
BY DEF TypeOK

LEMMA AccountIsNone ==
  NoAccount \notin Accounts
BY ChartAssumption DEF Accounts

(* A transaction that ends without its account.                             *)
LEMMA EndStep ==
  ASSUME IInv, NEW w \in Workers, NEW result \in {"none", "created", "conflict"}, End(w, result),
         UNCHANGED <<accounts, active, drawn>>
  PROVE  IInv'
<1>1. stage'[w] = "idle" /\ account'[w] = NoAccount /\ answer'[w] = result
  BY DEF IInv, TypeOK, End
<1>2. \A v \in Workers : v # w => stage'[v] = stage[v] /\ account'[v] = account[v]
                                                       /\ answer'[v] = answer[v]
  BY DEF IInv, TypeOK, End
<1>3. TypeOK'
  BY <1>1, <1>2 DEF IInv, TypeOK, End, Accounts
<1>4. Drawn'
  BY <1>1, <1>2 DEF IInv, Drawn, Rows
<1>5. \A v \in Workers : WorkerOK(v)'
  BY <1>1, <1>2 DEF IInv, WorkerOK, Under, Group, Taken, Rival
<1>6. ChartIsAForest' /\ TriggerNeverFires'
  BY <1>1, <1>2 DEF IInv, ChartIsAForest, TriggerNeverFires
<1> QED
  BY <1>3, <1>4, <1>5, <1>6 DEF IInv

(* A transaction that goes on to a later stage.                             *)
LEMMA AdvanceStep ==
  ASSUME IInv, NEW w \in Workers, stage[w] # "idle",
         NEW next \in {"sharing", "inserted"}, stage' = [stage EXCEPT ![w] = next],
         UNCHANGED <<accounts, active, account, answer, drawn>>,
         Under(account[w]),
         next = "inserted" => ~ Taken(w) /\ \A v \in Workers : ~ Rival(v, w)
  PROVE  IInv'
<1>1. stage'[w] = next /\ \A v \in Workers : v # w => stage'[v] = stage[v]
  BY DEF IInv, TypeOK
<1>2. TypeOK'
  BY <1>1 DEF IInv, TypeOK, Accounts
<1>3. Drawn'
  BY <1>1 DEF IInv, Drawn, Rows
<1>4. \A v \in Workers : WorkerOK(v)'
  BY <1>1 DEF IInv, WorkerOK, Under, Group, Taken, Rival
<1>5. ChartIsAForest' /\ TriggerNeverFires'
  BY DEF IInv, ChartIsAForest, TriggerNeverFires
<1> QED
  BY <1>2, <1>3, <1>4, <1>5 DEF IInv

LEMMA BeginStep ==
  ASSUME IInv, NEW w \in Workers, Begin(w)
  PROVE  IInv'
<1>1. PICK code \in Codes, kind \in Kinds, postable \in BOOLEAN,
           parent \in {a.id : a \in accounts} \cup {NoParent} :
        account' = [account EXCEPT ![w] = [id |-> drawn + 1, code |-> code, kind |-> kind,
                                           parent |-> parent, postable |-> postable]]
  BY DEF Begin
<1> DEFINE a == [id |-> drawn + 1, code |-> code, kind |-> kind, parent |-> parent,
                 postable |-> postable]
<1>2. drawn \in Nat /\ drawn + 1 \in 1..MaxRequests /\ drawn' = drawn + 1
  BY ChartAssumption DEF IInv, TypeOK, Begin
<1>3. \A b \in accounts : b.id \in 1..MaxRequests /\ b.id <= drawn
  BY DEF IInv, TypeOK, Drawn, Accounts
<1>4. parent # NoParent => parent \in 1..MaxRequests /\ parent <= drawn
  BY <1>3
<1>5. a \in Accounts /\ a.id = drawn + 1 /\ a.parent = parent
  BY <1>2, <1>4 DEF Accounts
<1>6. account'[w] = a /\ stage'[w] = "reading" /\ answer'[w] = "none"
  BY <1>1 DEF IInv, TypeOK, Begin
<1>7. \A v \in Workers : v # w => stage'[v] = stage[v] /\ account'[v] = account[v]
                                                       /\ answer'[v] = answer[v]
  BY <1>1 DEF IInv, TypeOK, Begin
<1> HIDE DEF a
<1>8. TypeOK'
  <2>1. account' \in [Workers -> Accounts \cup {NoAccount}]
    BY <1>1, <1>5 DEF IInv, TypeOK, a
  <2>2. stage' \in [Workers -> {"idle", "reading", "sharing", "inserted"}]
        /\ answer' \in [Workers -> {"none", "created", "conflict", "failed"}]
    BY DEF IInv, TypeOK, Begin
  <2>3. \A v \in Workers : account'[v] = NoAccount <=> stage'[v] = "idle"
    BY <1>5, <1>6, <1>7, AccountIsNone DEF IInv, TypeOK
  <2>4. drawn' \in 0..MaxRequests /\ accounts' = accounts /\ active' = active
    BY <1>2 DEF Begin, IInv, TypeOK
  <2> QED
    BY <2>1, <2>2, <2>3, <2>4 DEF IInv, TypeOK, Accounts
<1>9. \A v \in Workers : stage[v] # "idle" => account[v].id \in 1..MaxRequests /\ account[v].id <= drawn
  BY Account DEF IInv, Drawn, Accounts
<1>10. accounts' = accounts /\ active' = active
  BY DEF Begin
<1>11. Drawn'
  <2>1. \A b \in accounts' : b.id <= drawn'
    BY <1>2, <1>3, <1>10
  <2>2. \A v \in Workers : stage'[v] # "idle" => account'[v].id <= drawn'
    BY <1>2, <1>5, <1>6, <1>7, <1>9
  <2>3. \A u, v \in Workers :
          stage'[u] # "idle" /\ stage'[v] # "idle" /\ account'[u].id = account'[v].id => u = v
    BY <1>2, <1>5, <1>6, <1>7, <1>9 DEF IInv, Drawn
  <2>4. \A v \in Workers : stage'[v] # "idle" => Rows(account[v].id)' = {}
    BY <1>2, <1>3, <1>5, <1>6, <1>7, <1>10 DEF IInv, Drawn, Rows
  <2> QED
    BY <1>10, <2>1, <2>2, <2>3, <2>4 DEF IInv, Drawn
<1>12. \A v \in Workers : WorkerOK(v)'
  <2> TAKE v \in Workers
  <2>1. CASE v = w
    BY <1>2, <1>4, <1>5, <1>6, <2>1 DEF WorkerOK
  <2>2. CASE v # w
    BY <1>6, <1>7, <1>10, <2>2 DEF IInv, WorkerOK, Under, Group, Taken, Rival
  <2> QED
    BY <2>1, <2>2
<1>13. ChartIsAForest' /\ TriggerNeverFires'
  BY <1>6, <1>7, <1>10 DEF IInv, ChartIsAForest, TriggerNeverFires
<1> QED
  BY <1>8, <1>11, <1>12, <1>13 DEF IInv

LEMMA ReadStep ==
  ASSUME IInv, NEW w \in Workers, ReadParent(w)
  PROVE  IInv'
<1>1. CASE Accepts(account[w])
  <2>1. Under(account[w])
    BY <1>1 DEF Accepts, Under, Group, Rows, IInv, WorkerOK, ReadParent
  <2> QED
    BY <1>1, <2>1, AdvanceStep DEF ReadParent
<1>2. CASE ~ Accepts(account[w])
  BY <1>2, EndStep DEF ReadParent
<1> QED
  BY <1>1, <1>2

(* The trigger agrees with what create_account read.                        *)
LEMMA InsertStep ==
  ASSUME IInv, NEW w \in Workers, Insert(w)
  PROVE  IInv'
<1>1. Under(account[w])
  BY DEF IInv, WorkerOK, Insert
<1>2. Guard(account[w])
  BY <1>1 DEF Guard, Under, Group, Rows, IInv, Drawn
<1>3. CASE Taken(w)
  BY <1>2, <1>3, EndStep DEF Insert
<1>4. CASE ~ Taken(w)
  BY <1>1, <1>2, <1>4, AdvanceStep DEF Insert
<1> QED
  BY <1>3, <1>4

LEMMA CommitStep ==
  ASSUME IInv, NEW w \in Workers, Commit(w)
  PROVE  IInv'
<1>1. PICK a : a = account[w]
  OBVIOUS
<1>2. /\ a \in Accounts /\ accounts' = accounts \cup {a} /\ active' = active \cup {a.id}
      /\ drawn' = drawn /\ stage[w] = "inserted"
  BY <1>1, Account DEF Commit, IInv
<1>3. stage'[w] = "idle" /\ account'[w] = NoAccount /\ answer'[w] = "created"
  BY DEF IInv, TypeOK, Commit, End
<1>4. \A v \in Workers : v # w => stage'[v] = stage[v] /\ account'[v] = account[v]
                                                       /\ answer'[v] = answer[v]
  BY DEF IInv, TypeOK, Commit, End
<1>5. /\ Rows(a.id) = {} /\ a.id <= drawn /\ Under(a)
      /\ \A b \in accounts : b.code # a.code
  BY <1>1, <1>2 DEF IInv, Drawn, WorkerOK, Taken
<1>6. TypeOK'
  <2>1. active' \subseteq {b.id : b \in accounts'} /\ accounts' \in SUBSET Accounts
    BY <1>2 DEF IInv, TypeOK
  <2>2. account' \in [Workers -> Accounts \cup {NoAccount}]
        /\ stage' \in [Workers -> {"idle", "reading", "sharing", "inserted"}]
        /\ answer' \in [Workers -> {"none", "created", "conflict", "failed"}]
    BY DEF IInv, TypeOK, Commit, End
  <2> QED
    BY <1>2, <1>3, <1>4, <2>1, <2>2 DEF IInv, TypeOK, Accounts
<1>7. Drawn'
  <2>1. \A v \in Workers : stage'[v] # "idle" => v # w /\ account[v].id # a.id
    BY <1>1, <1>2, <1>3, <1>4 DEF IInv, Drawn
  <2>2. \A v \in Workers : stage'[v] # "idle" => Rows(account[v].id)' = {}
    BY <1>2, <1>4, <2>1 DEF IInv, Drawn, Rows
  <2>3. \A b, c \in accounts' : b.id = c.id => b = c
    BY <1>2, <1>5 DEF IInv, Drawn, Rows
  <2> QED
    BY <1>2, <1>3, <1>4, <1>5, <2>2, <2>3 DEF IInv, Drawn
<1>8. \A v \in Workers : WorkerOK(v)'
  <2> TAKE v \in Workers
  <2>1. CASE v = w
    BY <1>3, <2>1 DEF WorkerOK
  <2>2. CASE v # w
    <3>1. WorkerOK(v) /\ stage'[v] = stage[v] /\ account'[v] = account[v]
      BY <1>4, <2>2 DEF IInv
    <3>2. stage[v] \in {"sharing", "inserted"} => Under(account[v])'
      BY <1>2, <3>1 DEF WorkerOK, Under, Group
    <3>3. stage[v] = "inserted" => account[v].code # a.code
      BY <1>1, <1>2, <2>2 DEF IInv, WorkerOK, Rival
    <3>4. stage[v] = "inserted" => ~ Taken(v)'
      BY <1>2, <3>1, <3>3 DEF WorkerOK, Taken
    <3>5. \A u \in Workers : Rival(u, v)' => Rival(u, v)
      BY <1>3, <1>4, <2>2 DEF Rival
    <3> QED
      BY <3>1, <3>2, <3>4, <3>5 DEF WorkerOK
  <2> QED
    BY <2>1, <2>2
<1>9. ChartIsAForest'
  BY <1>2, <1>5 DEF IInv, ChartIsAForest, Under, Group
<1>10. TriggerNeverFires'
  BY <1>3, <1>4 DEF IInv, TriggerNeverFires
<1> QED
  BY <1>6, <1>7, <1>8, <1>9, <1>10 DEF IInv

(* An administrator waits for whoever shares the account.                   *)
LEMMA StatusStep ==
  ASSUME IInv, Deactivate \/ Activate
  PROVE  IInv'
<1>1. UNCHANGED <<accounts, stage, account, answer, drawn>>
  BY DEF Deactivate, Activate
<1>2. TypeOK'
  BY <1>1 DEF Deactivate, Activate, IInv, TypeOK, Accounts
<1>3. Drawn' /\ ChartIsAForest' /\ TriggerNeverFires'
  BY <1>1 DEF IInv, Drawn, Rows, ChartIsAForest, TriggerNeverFires
<1>4. \A w \in Workers : stage[w] \in {"sharing", "inserted"} => Under(account[w])'
  BY <1>1 DEF Deactivate, Activate, Shared, IInv, WorkerOK, Under, Group
<1>5. \A w \in Workers : WorkerOK(w)'
  BY <1>1, <1>4 DEF IInv, WorkerOK, Taken, Rival
<1> QED
  BY <1>2, <1>3, <1>5 DEF IInv

LEMMA StepInvariant ==
  ASSUME IInv, [Next]_vars
  PROVE  IInv'
<1>1. CASE UNCHANGED vars
  BY <1>1 DEF vars, IInv, TypeOK, Accounts, Drawn, Rows, WorkerOK, Under, Group, Taken, Rival,
              ChartIsAForest, TriggerNeverFires
<1>2. ASSUME NEW w \in Workers, Crash(w)
      PROVE  IInv'
  BY <1>2, EndStep DEF Crash
<1> QED
  BY <1>1, <1>2, BeginStep, ReadStep, InsertStep, CommitStep, StatusStep DEF Next

(* The inductive invariant holds of every behaviour.                        *)
THEOREM ChartInvariant == Spec => []IInv
<1>1. Init => IInv
  BY InitInvariant
<1>2. IInv /\ [Next]_vars => IInv'
  BY StepInvariant
<1> QED
  BY <1>1, <1>2, PTL DEF Spec

-----------------------------------------------------------------------------
(* What follows *)

(* An account is held exactly by a transaction that is under way.           *)
THEOREM TypeCorrect == Spec => []TypeOK
<1>1. IInv => TypeOK
  BY DEF IInv
<1> QED
  BY <1>1, ChartInvariant, PTL

(* The chart is a forest of accounts of one type with distinct codes.       *)
THEOREM ChartStaysAForest == Spec => []ChartIsAForest
<1>1. IInv => ChartIsAForest
  BY DEF IInv
<1> QED
  BY <1>1, ChartInvariant, PTL

(* The structure trigger never refuses what create_account accepted.        *)
THEOREM TriggerAgrees == Spec => []TriggerNeverFires
<1>1. IInv => TriggerNeverFires
  BY DEF IInv
<1> QED
  BY <1>1, ChartInvariant, PTL

(* An account appears under an active parent only.                          *)
THEOREM GroupsAreActive == Spec => BornUnderActiveGroup
<1>1. IInv /\ [Next]_vars
        => [\A a \in accounts' \ accounts : a.parent # NoParent => a.parent \in active']_vars
  <2> SUFFICES ASSUME IInv, Next, NEW a \in accounts', a \notin accounts, a.parent # NoParent
               PROVE  a.parent \in active'
    OBVIOUS
  <2>1. PICK w \in Workers : Commit(w)
    BY DEF Next, Begin, ReadParent, Insert, Crash, Deactivate, Activate
  <2>2. a = account[w] /\ active \subseteq active'
    BY <2>1 DEF Commit
  <2>3. Under(account[w])
    BY <2>1 DEF IInv, WorkerOK, Commit
  <2> QED
    BY <2>2, <2>3 DEF Under, Group
<1> QED
  BY <1>1, ChartInvariant, PTL DEF Spec, BornUnderActiveGroup

(* An account that is committed may join the chart as it is.                *)
LEMMA CommitIsCreate ==
  ASSUME IInv, NEW w \in Workers, Commit(w)
  PROVE  account[w] \in accounts' /\ Promise!Create(account[w])
<1>1. /\ stage[w] = "inserted" /\ accounts' = accounts \cup {account[w]}
      /\ active' = active \cup {account[w].id}
  BY DEF Commit
<1>2. \A b \in accounts : b.id # account[w].id /\ b.code # account[w].code
  BY <1>1 DEF IInv, Drawn, Rows, WorkerOK, Taken
<1>3. Under(account[w])
  BY <1>1 DEF IInv, WorkerOK
<1> QED
  BY <1>1, <1>2, <1>3 DEF Under, Group, Promise!Create, Promise!MayContain

(* Workers, share locks, index and trigger implement a chart that grows by  *)
(* one admissible account at a time and changes in nothing but status.      *)
THEOREM ChartKeepsPromise == Spec => KeepsPromise
<1>1. Init => Promise!Init
  BY DEF Init, Promise!Init
<1>2. IInv /\ [Next]_vars => [Promise!Next]_(Promise!chart)
  <2> SUFFICES ASSUME IInv, [Next]_vars
               PROVE  Promise!Next \/ UNCHANGED Promise!chart
    OBVIOUS
  <2>1. ASSUME NEW w \in Workers, Commit(w)
        PROVE  Promise!Next
    BY <2>1, CommitIsCreate DEF Promise!Next
  <2>2. CASE Deactivate
    <3>1. PICK id \in active : active' = active \ {id} /\ accounts' = accounts
      BY <2>2 DEF Deactivate
    <3>2. PICK a \in accounts : a.id = id
      BY <3>1 DEF IInv, TypeOK
    <3> QED
      BY <3>1, <3>2 DEF Promise!Deactivate, Promise!Next
  <2>3. CASE Activate
    BY <2>3 DEF Activate, Promise!Activate, Promise!Next
  <2>4. CASE UNCHANGED <<accounts, active>>
    BY <2>4 DEF Promise!chart
  <2> QED
    BY <2>1, <2>2, <2>3, <2>4 DEF Next, Begin, ReadParent, Insert, Crash, vars
<1> QED
  BY <1>1, <1>2, ChartInvariant, PTL DEF Spec, KeepsPromise, Promise!Spec

(* Whatever keeps the promise keeps the chart a forest with distinct codes, *)
(* and bears no account under an inactive group.                            *)
THEOREM PromiseKeepsForest ==
  KeepsPromise => []ChartIsAForest /\ BornUnderActiveGroup
<1> DEFINE Born == \A a \in accounts' \ accounts : a.parent # NoParent => a.parent \in active'
<1>1. Promise!Init => ChartIsAForest
  BY DEF Promise!Init, ChartIsAForest
<1>2. ChartIsAForest /\ [Promise!Next]_(Promise!chart) => ChartIsAForest' /\ [Born]_vars
  <2> SUFFICES ASSUME ChartIsAForest, [Promise!Next]_(Promise!chart)
               PROVE  ChartIsAForest' /\ Born
    OBVIOUS
  <2>1. CASE accounts' = accounts
    BY <2>1 DEF ChartIsAForest
  <2>2. ASSUME NEW a, Promise!Create(a)
        PROVE  ChartIsAForest' /\ Born
    <3>1. /\ \A b \in accounts : b.code # a.code
          /\ accounts' = accounts \cup {a} /\ active \subseteq active'
          /\ a.parent # NoParent => \E p \in accounts : Promise!MayContain(p, a)
      BY <2>2 DEF Promise!Create
    <3>2. \A b, c \in accounts' : b.code = c.code => b = c
      BY <3>1 DEF ChartIsAForest
    <3>3. \A b \in accounts' : b.parent # NoParent =>
            \E p \in accounts' : p.id = b.parent /\ p.id < b.id /\ p.kind = b.kind /\ ~ p.postable
      BY <3>1 DEF ChartIsAForest, Promise!MayContain
    <3>4. Born
      BY <3>1 DEF Promise!MayContain
    <3> QED
      BY <3>2, <3>3, <3>4 DEF ChartIsAForest
  <2> QED
    BY <2>1, <2>2 DEF Promise!Next, Promise!chart, Promise!Activate, Promise!Deactivate
<1> QED
  BY <1>1, <1>2, PTL DEF KeepsPromise, Promise!Spec, BornUnderActiveGroup


=============================================================================
