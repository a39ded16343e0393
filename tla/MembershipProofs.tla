-------------------------- MODULE MembershipProofs --------------------------
(***************************************************************************)
(* Membership keeps its safety properties for any users, roles, commands   *)
(* and number of workers.  The inductive invariant says who holds the      *)
(* organization row, that nothing which shares it is written meanwhile,    *)
(* and what a worker knows of the rows it is about to commit.              *)
(***************************************************************************)
EXTENDS Membership, FiniteSetTheorems, TLAPS

(* The worker that holds the organization row, and nobody else, is between  *)
(* LockOrganization and its commit.                                         *)
Holding(w) == \/ stage[w] = "locked"
              \/ stage[w] = "written" /\ cmd[w].op \in {"disable", "remove"}

Sharing(w) == stage[w] = "written" /\ cmd[w].op \in {"invite", "assign"}

Exclusion ==
  /\ \A w \in Workers : Holding(w) <=> orgLock = w
  /\ orgLock # NoWorker => \A w \in Workers : ~Sharing(w)

(* A stage belongs to the operations that pass through it.                  *)
Staged == \A w \in Workers :
  /\ stage[w] = "checked" => cmd[w].op \in {"invite", "assign"}
  /\ stage[w] = "sharing" => cmd[w].op = "assign"
  /\ stage[w] \in {"waiting", "locked"} => cmd[w].op \in {"disable", "remove"}

(* Assignments inserted and not committed: no two of one key, none of a     *)
(* committed one's.                                                         *)
Inserted(w) == stage[w] \in {"sharing", "written"} /\ cmd[w].op = "assign"

SameKey(c, d) == c.user = d.user /\ c.role = d.role /\ c.branch = d.branch

NoTwins ==
  /\ \A w \in Workers : Inserted(w) => ~Duplicates(cmd[w])
  /\ \A w, x \in Workers :
       Inserted(w) /\ Inserted(x) /\ SameKey(cmd[w], cmd[x]) => w = x

(* Memberships inserted and not committed: one per user, who had none.      *)
Joining(w) == stage[w] = "written" /\ cmd[w].op = "invite"

OneMembership ==
  /\ \A w \in Workers : Joining(w) => status[cmd[w].user] = "ABSENT"
  /\ \A w, x \in Workers :
       Joining(w) /\ Joining(x) /\ cmd[w].user = cmd[x].user => w = x

(* An owner remains without the user a worker is about to suspend, or       *)
(* without the row it is about to delete.                                   *)
ActiveOwner(a) == a \in Ownerships /\ status[a.user] = "ACTIVE"

OwnerRemains == \A w \in Workers :
  /\ stage[w] = "written" /\ cmd[w].op = "disable" =>
       \E a \in assignments : ActiveOwner(a) /\ a.user # cmd[w].user
  /\ stage[w] = "written" /\ cmd[w].op = "remove" =>
       \E a \in assignments : ActiveOwner(a) /\ a.id # cmd[w].id

IInv ==
  /\ TypeOK
  /\ IsFiniteSet(assignments)
  /\ Exclusion
  /\ Staged
  /\ NoTwins
  /\ OneMembership
  /\ OwnerRemains
  /\ UniqueAssignments
  /\ AlwaysAnOwner

-----------------------------------------------------------------------------
(* Counting *)

(* A count above one finds an element besides any given one. *)
LEMMA AnotherElement ==
  ASSUME NEW S, IsFiniteSet(S), NEW x, Cardinality(S) > 1
  PROVE  \E y \in S : y # x
<1>1. SUFFICES ASSUME \A y \in S : y = x PROVE FALSE
  OBVIOUS
<1>2. S \subseteq {x}
  BY <1>1
<1>3. IsFiniteSet({x}) /\ Cardinality({x}) = 1
  BY FS_Singleton
<1>4. Cardinality(S) <= Cardinality({x})
  BY <1>2, <1>3, FS_Subset
<1>5. Cardinality(S) \in Nat
  BY FS_CardinalityType
<1> QED
  BY <1>3, <1>4, <1>5

(* owner_count is a number, and above one it counts another row than any    *)
(* given one.                                                               *)
LEMMA OwnerCounted ==
  ASSUME IsFiniteSet(assignments)
  PROVE  /\ OwnerCount \in Nat
         /\ \A x : OwnerCount > 1 => \E a \in assignments : ActiveOwner(a) /\ a # x
<1> DEFINE S == {a \in Ownerships : status[a.user] = "ACTIVE"}
<1>1. S \subseteq assignments
  BY DEF Ownerships
<1>2. IsFiniteSet(S)
  BY <1>1, FS_Subset
<1>3. OwnerCount = Cardinality(S)
  BY DEF OwnerCount
<1>4. OwnerCount \in Nat
  BY <1>2, <1>3, FS_CardinalityType
<1>5. ASSUME NEW x, OwnerCount > 1
      PROVE  \E a \in assignments : ActiveOwner(a) /\ a # x
  <2> HIDE DEF S
  <2>1. PICK y \in S : y # x
    BY <1>2, <1>3, <1>5, AnotherElement
  <2> USE DEF S
  <2> QED
    BY <2>1, <1>1 DEF ActiveOwner
<1> QED
  BY <1>4, <1>5

-----------------------------------------------------------------------------
(* Steps that change no row of a table *)

(* A worker that takes a stage without committing leaves the tables alone;  *)
(* what remains to be shown is about that worker.                           *)
LEMMA TablesKept ==
  ASSUME IInv, UNCHANGED <<status, assignments, assigned>>
  PROVE  /\ IsFiniteSet(assignments)'
         /\ UniqueAssignments'
         /\ AlwaysAnOwner'
         /\ \A c : Duplicates(c)' <=> Duplicates(c)
         /\ \A a : ActiveOwner(a)' <=> ActiveOwner(a)
  BY DEF IInv, UniqueAssignments, AlwaysAnOwner, Duplicates, ActiveOwner, Ownerships

(* Begin of any operation. *)
LEMMA BeginStep ==
  ASSUME IInv, NEW w \in Workers, NEW c \in Commands, NEW permission, NEW next,
         Begin(w, c, permission, next),
         \/ next = "checked" /\ c.op \in {"invite", "assign"}
         \/ next = "waiting" /\ c.op \in {"disable", "remove"}
  PROVE  IInv'
<1> USE MembershipAssumption
<1>1. UNCHANGED <<status, assignments, assigned, orgLock>>
  BY DEF Begin
<1>2. /\ stage \in [Workers -> {"idle", "checked", "sharing", "waiting", "locked", "written"}]
      /\ cmd \in [Workers -> Commands \cup {NoCommand}]
      /\ stage[w] = "idle"
      /\ stage' = [stage EXCEPT ![w] = next]
      /\ cmd' = [cmd EXCEPT ![w] = c]
  BY DEF IInv, TypeOK, Begin
<1>3. \A x \in Workers \ {w} : stage'[x] = stage[x] /\ cmd'[x] = cmd[x]
  BY <1>2
<1>4. stage'[w] = next /\ cmd'[w] = c
  BY <1>2
<1>5. TypeOK'
  <2>1. OrgPermissions(c.caller) \in SUBSET Permissions
    BY DEF IInv, TypeOK, OrgPermissions, Granted, Assignment
  <2>2. held' \in [Workers -> SUBSET Permissions]
    BY <2>1 DEF IInv, TypeOK, Begin
  <2> QED
    BY <1>1, <1>2, <2>2 DEF IInv, TypeOK
<1>6. Exclusion'
  BY <1>1, <1>2, <1>3, <1>4 DEF IInv, Exclusion, Holding, Sharing
<1>7. Staged'
  BY <1>3, <1>4 DEF IInv, Staged
<1>8. NoTwins'
  BY <1>1, <1>3, <1>4, TablesKept DEF IInv, NoTwins, Inserted, SameKey
<1>9. OneMembership'
  BY <1>1, <1>3, <1>4 DEF IInv, OneMembership, Joining
<1>10. OwnerRemains'
  BY <1>1, <1>3, <1>4, TablesKept DEF IInv, OwnerRemains
<1> QED
  BY <1>1, <1>5, <1>6, <1>7, <1>8, <1>9, <1>10, TablesKept DEF IInv

(* A transaction that ends without a commit. *)
LEMMA AbortStep ==
  ASSUME IInv, NEW w \in Workers, Abort(w)
  PROVE  IInv'
<1> USE MembershipAssumption
<1>1. UNCHANGED <<status, assignments, assigned>>
  BY DEF Abort
<1>2. /\ stage' = [stage EXCEPT ![w] = "idle"]
      /\ cmd' = [cmd EXCEPT ![w] = NoCommand]
      /\ stage \in [Workers -> {"idle", "checked", "sharing", "waiting", "locked", "written"}]
      /\ cmd \in [Workers -> Commands \cup {NoCommand}]
  BY DEF Abort, IInv, TypeOK
<1>3. \A x \in Workers \ {w} : stage'[x] = stage[x] /\ cmd'[x] = cmd[x]
  BY <1>2
<1>4. stage'[w] = "idle" /\ cmd'[w] = NoCommand
  BY <1>2
<1>5. orgLock' = IF orgLock = w THEN NoWorker ELSE orgLock
  BY DEF Abort
<1>6. TypeOK'
  BY <1>1, <1>2, <1>5 DEF IInv, TypeOK, Abort
<1>7. Exclusion'
  BY <1>3, <1>4, <1>5 DEF IInv, Exclusion, Holding, Sharing
<1>8. Staged'
  BY <1>3, <1>4 DEF IInv, Staged
<1>9. NoTwins'
  BY <1>1, <1>3, <1>4, TablesKept DEF IInv, NoTwins, Inserted, SameKey
<1>10. OneMembership'
  BY <1>1, <1>3, <1>4 DEF IInv, OneMembership, Joining
<1>11. OwnerRemains'
  BY <1>1, <1>3, <1>4, TablesKept DEF IInv, OwnerRemains
<1> QED
  BY <1>1, <1>6, <1>7, <1>8, <1>9, <1>10, <1>11, TablesKept DEF IInv

(* A statement that takes a row and goes on: what it must have found for    *)
(* its own worker.                                                          *)
LEMMA MoveStep ==
  ASSUME IInv, NEW w \in Workers, NEW next \in {"sharing", "written"},
         stage[w] # "idle", Move(w, next),
         next = "sharing" => cmd[w].op = "assign" /\ orgLock # w,
         next = "written" /\ cmd[w].op \in {"disable", "remove"} => orgLock = w,
         next = "written" /\ cmd[w].op \in {"invite", "assign"} => orgLock = NoWorker,
         next = "written" => cmd[w].op \in {"invite", "assign", "disable", "remove"},
         cmd[w].op = "assign" =>
           /\ ~Duplicates(cmd[w])
           /\ \A x \in Workers \ {w} : Inserted(x) => ~SameKey(cmd[x], cmd[w]),
         cmd[w].op = "invite" =>
           /\ status[cmd[w].user] = "ABSENT"
           /\ \A x \in Workers \ {w} : Joining(x) => cmd[x].user # cmd[w].user,
         cmd[w].op = "disable" =>
           \E a \in assignments : ActiveOwner(a) /\ a.user # cmd[w].user,
         cmd[w].op = "remove" =>
           \E a \in assignments : ActiveOwner(a) /\ a.id # cmd[w].id
  PROVE  IInv'
<1> USE MembershipAssumption
<1>1. UNCHANGED <<status, assignments, assigned, orgLock, cmd, held>>
  BY DEF Move
<1>2. /\ stage' = [stage EXCEPT ![w] = next]
      /\ stage \in [Workers -> {"idle", "checked", "sharing", "waiting", "locked", "written"}]
  BY DEF Move, IInv, TypeOK
<1>3. \A x \in Workers \ {w} : stage'[x] = stage[x]
  BY <1>2
<1>4. stage'[w] = next
  BY <1>2
<1>5. TypeOK'
  BY <1>1, <1>2, <1>4 DEF IInv, TypeOK
<1>6. Exclusion'
  BY <1>1, <1>3, <1>4 DEF IInv, Exclusion, Holding, Sharing
<1>7. Staged'
  BY <1>1, <1>3, <1>4 DEF IInv, Staged
<1>8. NoTwins'
  BY <1>1, <1>3, <1>4, TablesKept DEF IInv, NoTwins, Inserted, SameKey
<1>9. OneMembership'
  BY <1>1, <1>3, <1>4 DEF IInv, OneMembership, Joining
<1>10. OwnerRemains'
  BY <1>1, <1>3, <1>4, TablesKept DEF IInv, OwnerRemains
<1> QED
  BY <1>1, <1>5, <1>6, <1>7, <1>8, <1>9, <1>10, TablesKept DEF IInv

-----------------------------------------------------------------------------
(* The operations *)

(* The organization row is granted to one worker, with nothing shared.      *)
LEMMA LockOrganizationStep ==
  ASSUME IInv, NEW w \in Workers, LockOrganization(w)
  PROVE  IInv'
<1> USE MembershipAssumption
<1>1. /\ UNCHANGED <<status, assignments, assigned, cmd, held>>
      /\ orgLock = NoWorker /\ ~OrgShared /\ orgLock' = w
      /\ stage[w] = "waiting"
  BY DEF LockOrganization
<1>2. /\ stage' = [stage EXCEPT ![w] = "locked"]
      /\ stage \in [Workers -> {"idle", "checked", "sharing", "waiting", "locked", "written"}]
  BY DEF LockOrganization, IInv, TypeOK
<1>3. \A x \in Workers \ {w} : stage'[x] = stage[x]
  BY <1>2
<1>4. stage'[w] = "locked"
  BY <1>2
<1>5. TypeOK'
  BY <1>1, <1>2, <1>4 DEF IInv, TypeOK
<1>6. Exclusion'
  BY <1>1, <1>3, <1>4 DEF IInv, Exclusion, Holding, Sharing, OrgShared
<1>7. Staged'
  BY <1>1, <1>3, <1>4 DEF IInv, Staged
<1>8. NoTwins'
  BY <1>1, <1>3, <1>4, TablesKept DEF IInv, NoTwins, Inserted, SameKey
<1>9. OneMembership'
  BY <1>1, <1>3, <1>4 DEF IInv, OneMembership, Joining
<1>10. OwnerRemains'
  BY <1>1, <1>3, <1>4, TablesKept DEF IInv, OwnerRemains
<1> QED
  BY <1>1, <1>5, <1>6, <1>7, <1>8, <1>9, <1>10, TablesKept DEF IInv

(* The INSERTs find no row of their key, committed or not.                  *)
LEMMA InsertStep ==
  ASSUME IInv, NEW w \in Workers,
         InsertAssignment(w) \/ ShareOrganization(w) \/ InsertMembership(w)
  PROVE  IInv'
<1> USE MembershipAssumption
<1>1. CASE InsertAssignment(w)
  <2>1. CASE Abort(w)
    BY <2>1, AbortStep
  <2>2. CASE ~Duplicates(cmd[w]) /\ Move(w, "sharing")
    <3>1. stage[w] = "checked" /\ cmd[w].op = "assign"
      BY <1>1 DEF InsertAssignment
    <3>2. \A x \in Workers \ {w} : Inserted(x) => ~SameKey(cmd[x], cmd[w])
      BY <1>1 DEF InsertAssignment, Inserted, SameKey
    <3>3. orgLock # w
      BY <3>1 DEF IInv, Exclusion, Holding
    <3> QED
      BY <2>2, <3>1, <3>2, <3>3, MoveStep
  <2> QED
    BY <1>1, <2>1, <2>2 DEF InsertAssignment
<1>2. CASE ShareOrganization(w)
  <2>1. stage[w] = "sharing" /\ cmd[w].op = "assign" /\ orgLock = NoWorker
    BY <1>2 DEF ShareOrganization, IInv, Staged
  <2>2. Inserted(w)
    BY <2>1 DEF Inserted
  <2>3. /\ ~Duplicates(cmd[w])
        /\ \A x \in Workers \ {w} : Inserted(x) => ~SameKey(cmd[x], cmd[w])
    BY <2>2 DEF IInv, NoTwins
  <2> QED
    BY <1>2, <2>1, <2>3, MoveStep DEF ShareOrganization
<1>3. CASE InsertMembership(w)
  <2>1. CASE Abort(w)
    BY <2>1, AbortStep
  <2>2. CASE ~AlreadyMember(cmd[w].user) /\ orgLock = NoWorker /\ Move(w, "written")
    <3>1. stage[w] = "checked" /\ cmd[w].op = "invite"
      BY <1>3 DEF InsertMembership
    <3>2. \A x \in Workers \ {w} : Joining(x) => cmd[x].user # cmd[w].user
      BY <1>3 DEF InsertMembership, Joining
    <3> QED
      BY <2>2, <3>1, <3>2, MoveStep DEF AlreadyMember
  <2> QED
    BY <1>3, <2>1, <2>2 DEF InsertMembership
<1> QED
  BY <1>1, <1>2, <1>3

(* The member to be suspended is not the last owner.                        *)
LEMMA DisableUserStep ==
  ASSUME IInv, NEW w \in Workers, DisableUser(w)
  PROVE  IInv'
<1> USE MembershipAssumption
<1> DEFINE u == cmd[w].user
           owns == \E a \in Ownerships : a.user = u
<1>1. stage[w] = "locked" /\ cmd[w].op = "disable" /\ orgLock = w
  BY DEF DisableUser, IInv, Exclusion, Holding
<1>2. CASE Abort(w)
  BY <1>2, AbortStep
<1>3. CASE ~(OwnerCount <= 1 /\ owns) /\ Move(w, "written")
  <2>1. \E a \in assignments : ActiveOwner(a) /\ a.user # u
    <3>1. CASE ~owns
      BY <3>1 DEF IInv, AlwaysAnOwner, ActiveOwner, Ownerships
    <3>2. CASE owns
      <4>1. PICK b \in Ownerships : b.user = u
        BY <3>2
      <4>2. OwnerCount > 1
        BY <1>3, <3>2, OwnerCounted DEF IInv
      <4>3. PICK a \in assignments : ActiveOwner(a) /\ a # b
        BY <4>2, OwnerCounted DEF IInv
      <4>4. a.user # b.user
        BY <4>1, <4>3 DEF IInv, UniqueAssignments, ActiveOwner, Ownerships
      <4> QED
        BY <4>1, <4>3, <4>4
    <3> QED
      BY <3>1, <3>2
  <2> QED
    BY <1>1, <1>3, <2>1, MoveStep
<1> QED
  BY <1>2, <1>3 DEF DisableUser

(* The assignment to be deleted is not the last ownership.                  *)
LEMMA RemoveRoleStep ==
  ASSUME IInv, NEW w \in Workers, RemoveRole(w)
  PROVE  IInv'
<1> USE MembershipAssumption
<1>1. stage[w] = "locked" /\ cmd[w].op = "remove" /\ orgLock = w
  BY DEF RemoveRole, IInv, Exclusion, Holding
<1>2. CASE Abort(w)
  BY <1>2, AbortStep
<1>3. CASE /\ Move(w, "written")
           /\ \E a \in assignments : a.id = cmd[w].id /\ (a.role = "OWNER" => OwnerCount > 1)
  <2>1. PICK b \in assignments : b.id = cmd[w].id /\ (b.role = "OWNER" => OwnerCount > 1)
    BY <1>3
  <2>2. \E a \in assignments : ActiveOwner(a) /\ a # b
    <3>1. CASE b.role = "OWNER"
      BY <2>1, <3>1, OwnerCounted DEF IInv
    <3>2. CASE b.role # "OWNER"
      BY <3>2 DEF IInv, AlwaysAnOwner, ActiveOwner, Ownerships
    <3> QED
      BY <3>1, <3>2
  <2>3. \E a \in assignments : ActiveOwner(a) /\ a.id # cmd[w].id
    BY <2>1, <2>2 DEF IInv, TypeOK
  <2> QED
    BY <1>1, <1>3, <2>3, MoveStep
<1> QED
  BY <1>2, <1>3 DEF RemoveRole

(* A commit ends a transaction as an abort does; what follows from the end  *)
(* alone is common to the four operations.                                  *)
LEMMA CommitEnds ==
  ASSUME IInv, NEW w \in Workers, Commit(w)
  PROVE  /\ \A x \in Workers \ {w} : stage'[x] = stage[x] /\ cmd'[x] = cmd[x]
         /\ stage'[w] = "idle" /\ cmd'[w] = NoCommand
         /\ stage[w] = "written" /\ cmd[w] \in Commands
         /\ stage' \in [Workers -> {"idle", "checked", "sharing", "waiting", "locked", "written"}]
         /\ cmd' \in [Workers -> Commands \cup {NoCommand}]
         /\ held' \in [Workers -> SUBSET Permissions]
         /\ orgLock' \in Workers \cup {NoWorker}
         /\ \A x \in Workers : stage'[x] = "idle" <=> cmd'[x] = NoCommand
         /\ Exclusion'
         /\ Staged'
<1> USE MembershipAssumption
<1>1. /\ stage' = [stage EXCEPT ![w] = "idle"]
      /\ cmd' = [cmd EXCEPT ![w] = NoCommand]
      /\ held' = [held EXCEPT ![w] = {}]
      /\ orgLock' = IF orgLock = w THEN NoWorker ELSE orgLock
      /\ stage[w] = "written"
  BY DEF Commit
<1>2. /\ stage \in [Workers -> {"idle", "checked", "sharing", "waiting", "locked", "written"}]
      /\ cmd \in [Workers -> Commands \cup {NoCommand}]
      /\ held \in [Workers -> SUBSET Permissions]
      /\ orgLock \in Workers \cup {NoWorker}
      /\ \A x \in Workers : stage[x] = "idle" <=> cmd[x] = NoCommand
  BY DEF IInv, TypeOK
<1>3. /\ \A x \in Workers \ {w} : stage'[x] = stage[x] /\ cmd'[x] = cmd[x]
      /\ stage'[w] = "idle" /\ cmd'[w] = NoCommand
  BY <1>1, <1>2
<1>4. cmd[w] \in Commands
  BY <1>1, <1>2
<1>5. Exclusion'
  BY <1>1, <1>3 DEF IInv, Exclusion, Holding, Sharing
<1>6. Staged'
  BY <1>3 DEF IInv, Staged
<1> QED
  BY <1>1, <1>2, <1>3, <1>4, <1>5, <1>6

(* While an insert is written nobody holds the organization row, and while  *)
(* somebody holds it nothing else is written.                               *)
LEMMA OneSide ==
  ASSUME IInv, NEW w \in Workers
  PROVE  /\ Sharing(w) => \A x \in Workers : ~Holding(x)
         /\ Holding(w) => \A x \in Workers \ {w} : ~Holding(x) /\ ~Sharing(x)
  BY MembershipAssumption DEF IInv, Exclusion

LEMMA CommitInviteStep ==
  ASSUME IInv, NEW w \in Workers, Commit(w), cmd[w].op = "invite"
  PROVE  IInv'
<1> USE MembershipAssumption
<1> DEFINE c == cmd[w]
<1>1. status' = [status EXCEPT ![c.user] = "ACTIVE"] /\ UNCHANGED <<assignments, assigned>>
  BY DEF Commit
<1>2. \A x \in Workers \ {w} : stage'[x] = stage[x] /\ cmd'[x] = cmd[x]
  BY CommitEnds
<1>3. stage'[w] = "idle" /\ stage[w] = "written" /\ c \in Commands
  BY CommitEnds
<1>4. Joining(w) /\ Sharing(w)
  BY <1>3 DEF Joining, Sharing
<1>5. status \in [Users -> {"ABSENT", "ACTIVE", "SUSPENDED"}] /\ assignments \subseteq Assignment
  BY DEF IInv, TypeOK
<1>6. TypeOK'
  <2>1. status' \in [Users -> {"ABSENT", "ACTIVE", "SUSPENDED"}]
    BY <1>1, <1>5
  <2> QED
    BY <1>1, <2>1, CommitEnds DEF IInv, TypeOK
<1>7. NoTwins'
  BY <1>1, <1>2, <1>3 DEF IInv, NoTwins, Inserted, SameKey, Duplicates
<1>8. OneMembership'
  <2>1. ASSUME NEW x \in Workers, Joining(x)'
        PROVE  status'[cmd'[x].user] = "ABSENT" /\ x # w
    <3>1. x # w /\ Joining(x) /\ cmd'[x] = cmd[x]
      BY <1>2, <1>3, <2>1 DEF Joining
    <3>2. cmd[x].user # c.user
      BY <1>4, <3>1 DEF IInv, OneMembership
    <3>3. status[cmd[x].user] = "ABSENT"
      BY <3>1 DEF IInv, OneMembership
    <3> QED
      BY <1>1, <1>5, <3>1, <3>2, <3>3
  <2>2. \A x, y \in Workers \ {w} :
          Joining(x)' /\ Joining(y)' /\ cmd'[x].user = cmd'[y].user => x = y
    BY <1>2 DEF IInv, OneMembership, Joining
  <2> QED
    BY <2>1, <2>2 DEF OneMembership
<1>9. OwnerRemains'
  <2>1. \A x \in Workers : ~Holding(x)
    BY <1>4, OneSide
  <2> QED
    BY <1>2, <1>3, <2>1 DEF OwnerRemains, Holding
<1>10. AlwaysAnOwner'
  <2>1. PICK a \in Ownerships : status[a.user] = "ACTIVE"
    BY DEF IInv, AlwaysAnOwner
  <2>2. a \in Ownerships' /\ a.user \in Users
    BY <1>1, <1>5, <2>1 DEF Ownerships, Assignment
  <2>3. status'[a.user] = "ACTIVE"
    BY <1>1, <1>5, <2>1, <2>2
  <2> QED
    BY <2>2, <2>3 DEF AlwaysAnOwner
<1>11. UniqueAssignments' /\ IsFiniteSet(assignments)'
  BY <1>1 DEF IInv, UniqueAssignments
<1> QED
  BY <1>6, <1>7, <1>8, <1>9, <1>10, <1>11, CommitEnds DEF IInv

LEMMA CommitDisableStep ==
  ASSUME IInv, NEW w \in Workers, Commit(w), cmd[w].op = "disable"
  PROVE  IInv'
<1> USE MembershipAssumption
<1> DEFINE c == cmd[w]
<1>1. status' = [status EXCEPT ![c.user] = "SUSPENDED"] /\ UNCHANGED <<assignments, assigned>>
  BY DEF Commit
<1>2. \A x \in Workers \ {w} : stage'[x] = stage[x] /\ cmd'[x] = cmd[x]
  BY CommitEnds
<1>3. stage'[w] = "idle" /\ stage[w] = "written" /\ c \in Commands
  BY CommitEnds
<1>4. Holding(w)
  BY <1>3 DEF Holding
<1>5. \A x \in Workers \ {w} : ~Holding(x) /\ ~Sharing(x)
  BY <1>4, OneSide
<1>6. status \in [Users -> {"ABSENT", "ACTIVE", "SUSPENDED"}] /\ assignments \subseteq Assignment
  BY DEF IInv, TypeOK
<1>7. TypeOK'
  <2>1. status' \in [Users -> {"ABSENT", "ACTIVE", "SUSPENDED"}]
    BY <1>1, <1>6
  <2> QED
    BY <1>1, <2>1, CommitEnds DEF IInv, TypeOK
<1>8. NoTwins'
  BY <1>1, <1>2, <1>3 DEF IInv, NoTwins, Inserted, SameKey, Duplicates
<1>9. OneMembership'
  BY <1>2, <1>3, <1>5 DEF OneMembership, Joining, Sharing
<1>10. OwnerRemains'
  BY <1>2, <1>3, <1>5 DEF OwnerRemains, Holding
<1>11. AlwaysAnOwner'
  <2>1. PICK a \in assignments : ActiveOwner(a) /\ a.user # c.user
    BY <1>3 DEF IInv, OwnerRemains
  <2>2. a \in Ownerships' /\ status'[a.user] = "ACTIVE"
    BY <1>1, <1>6, <2>1 DEF ActiveOwner, Ownerships, Assignment
  <2> QED
    BY <2>2 DEF AlwaysAnOwner
<1>12. UniqueAssignments' /\ IsFiniteSet(assignments)'
  BY <1>1 DEF IInv, UniqueAssignments
<1> QED
  BY <1>7, <1>8, <1>9, <1>10, <1>11, <1>12, CommitEnds DEF IInv

LEMMA CommitAssignStep ==
  ASSUME IInv, NEW w \in Workers, Commit(w), cmd[w].op = "assign"
  PROVE  IInv'
<1> USE MembershipAssumption
<1> DEFINE c == cmd[w]
           n == NewAssignment(c)
<1>1. /\ assignments' = assignments \cup {n}
      /\ assigned' = assigned + 1
      /\ status' = status
  BY DEF Commit
<1>2. \A x \in Workers \ {w} : stage'[x] = stage[x] /\ cmd'[x] = cmd[x]
  BY CommitEnds
<1>3. stage'[w] = "idle" /\ stage[w] = "written" /\ c \in Commands
  BY CommitEnds
<1>4. Inserted(w) /\ Sharing(w)
  BY <1>3 DEF Inserted, Sharing
<1>5. assigned \in Nat /\ assignments \subseteq Assignment
  BY DEF IInv, TypeOK
<1>6. c \in AssignCommand
  BY <1>3 DEF InviteCommand, DisableCommand, AssignCommand, RemoveCommand
<1>7. n \in Assignment /\ n.id = assigned + 1 /\ SameKey(n, c)
  BY <1>5, <1>6 DEF NewAssignment, Assignment, AssignCommand, SameKey
<1> HIDE DEF n
<1>8. TypeOK'
  <2>1. assignments' \subseteq Assignment /\ assigned' \in Nat
    BY <1>1, <1>5, <1>7
  <2>2. \A a \in assignments : a.id \in Nat /\ a.id <= assigned
    BY <1>5 DEF IInv, TypeOK, Assignment
  <2>3. \A a, b \in assignments' : a.id <= assigned' /\ (a.id = b.id => a = b)
    BY <1>1, <1>5, <1>7, <2>2 DEF IInv, TypeOK
  <2> QED
    BY <1>1, <2>1, <2>3, CommitEnds DEF IInv, TypeOK
<1>9. NoTwins'
  <2>1. ASSUME NEW x \in Workers, Inserted(x)'
        PROVE  ~Duplicates(cmd[x])' /\ x # w
    <3>1. x # w /\ Inserted(x) /\ cmd'[x] = cmd[x]
      BY <1>2, <1>3, <2>1 DEF Inserted
    <3>2. ~SameKey(c, cmd[x])
      BY <1>4, <3>1 DEF IInv, NoTwins
    <3>3. ~SameKey(n, cmd[x])
      BY <1>7, <3>2 DEF SameKey
    <3>4. ~Duplicates(cmd[x])
      BY <3>1 DEF IInv, NoTwins
    <3> QED
      BY <1>1, <3>1, <3>3, <3>4 DEF Duplicates, SameKey
  <2>2. \A x, y \in Workers \ {w} :
          Inserted(x)' /\ Inserted(y)' /\ SameKey(cmd[x], cmd[y])' => x = y
    BY <1>2 DEF IInv, NoTwins, Inserted, SameKey
  <2> QED
    BY <2>1, <2>2 DEF NoTwins
<1>10. OneMembership'
  BY <1>1, <1>2, <1>3 DEF IInv, OneMembership, Joining
<1>11. OwnerRemains'
  <2>1. \A x \in Workers : ~Holding(x)
    BY <1>4, OneSide
  <2> QED
    BY <1>2, <1>3, <2>1 DEF OwnerRemains, Holding
<1>12. AlwaysAnOwner'
  BY <1>1 DEF IInv, AlwaysAnOwner, Ownerships
<1>13. UniqueAssignments'
  <2>1. \A a \in assignments : ~SameKey(a, n)
    <3>1. ~Duplicates(c)
      BY <1>4 DEF IInv, NoTwins
    <3> QED
      BY <1>7, <3>1 DEF Duplicates, SameKey
  <2> QED
    BY <1>1, <2>1 DEF IInv, UniqueAssignments, SameKey
<1>14. IsFiniteSet(assignments)'
  BY <1>1, FS_AddElement DEF IInv
<1> QED
  BY <1>8, <1>9, <1>10, <1>11, <1>12, <1>13, <1>14, CommitEnds DEF IInv

LEMMA CommitRemoveStep ==
  ASSUME IInv, NEW w \in Workers, Commit(w), cmd[w].op = "remove"
  PROVE  IInv'
<1> USE MembershipAssumption
<1> DEFINE c == cmd[w]
<1>1. /\ assignments' = {a \in assignments : a.id # c.id}
      /\ UNCHANGED <<status, assigned>>
  BY DEF Commit
<1>2. \A x \in Workers \ {w} : stage'[x] = stage[x] /\ cmd'[x] = cmd[x]
  BY CommitEnds
<1>3. stage'[w] = "idle" /\ stage[w] = "written" /\ c \in Commands
  BY CommitEnds
<1>4. Holding(w)
  BY <1>3 DEF Holding
<1>5. \A x \in Workers \ {w} : ~Holding(x) /\ ~Sharing(x)
  BY <1>4, OneSide
<1>6. TypeOK'
  BY <1>1, CommitEnds DEF IInv, TypeOK
<1>7. NoTwins'
  BY <1>1, <1>2, <1>3 DEF IInv, NoTwins, Inserted, SameKey, Duplicates
<1>8. OneMembership'
  BY <1>2, <1>3, <1>5 DEF OneMembership, Joining, Sharing
<1>9. OwnerRemains'
  BY <1>2, <1>3, <1>5 DEF OwnerRemains, Holding
<1>10. AlwaysAnOwner'
  <2>1. PICK a \in assignments : ActiveOwner(a) /\ a.id # c.id
    BY <1>3 DEF IInv, OwnerRemains
  <2> QED
    BY <1>1, <2>1 DEF ActiveOwner, AlwaysAnOwner, Ownerships
<1>11. UniqueAssignments'
  BY <1>1 DEF IInv, UniqueAssignments
<1>12. IsFiniteSet(assignments)'
  BY <1>1, FS_Subset DEF IInv
<1> QED
  BY <1>6, <1>7, <1>8, <1>9, <1>10, <1>11, <1>12, CommitEnds DEF IInv

-----------------------------------------------------------------------------
(* The theorems *)

(* The organization bootstrap leaves behind satisfies the invariant.        *)
LEMMA Bootstrapped == Init => IInv
<1> USE MembershipAssumption
<1> SUFFICES ASSUME Init PROVE IInv
  OBVIOUS
<1> DEFINE first == [id |-> 1, user |-> Founder, role |-> "OWNER", branch |-> NoBranch]
<1>1. /\ first \in Assignment /\ first.id = 1 /\ first.user = Founder
      /\ first.role = "OWNER" /\ first.branch = NoBranch
  BY DEF Assignment, Scopes
<1> HIDE DEF first
<1>2. assignments = {first}
  BY DEF Init, first
<1>3. /\ status = [u \in Users |-> IF u = Founder THEN "ACTIVE" ELSE "ABSENT"]
      /\ assigned = 1 /\ orgLock = NoWorker
      /\ stage = [w \in Workers |-> "idle"]
      /\ cmd = [w \in Workers |-> NoCommand]
      /\ held = [w \in Workers |-> {}]
  BY DEF Init
<1>4. TypeOK
  BY <1>1, <1>2, <1>3 DEF TypeOK
<1>5. IsFiniteSet(assignments)
  BY <1>2, FS_Singleton
<1>6. Exclusion /\ Staged /\ NoTwins /\ OneMembership /\ OwnerRemains
  BY <1>3 DEF Exclusion, Staged, NoTwins, OneMembership, OwnerRemains,
              Holding, Sharing, Inserted, Joining
<1>7. UniqueAssignments
  BY <1>2 DEF UniqueAssignments
<1>8. AlwaysAnOwner
  BY <1>1, <1>2, <1>3 DEF AlwaysAnOwner, Ownerships
<1> QED
  BY <1>4, <1>5, <1>6, <1>7, <1>8 DEF IInv

(* Every step keeps it. *)
LEMMA Kept == IInv /\ [Next]_vars => IInv'
<1> USE MembershipAssumption
<1> SUFFICES ASSUME IInv, [Next]_vars PROVE IInv'
  OBVIOUS
<1>1. CASE UNCHANGED vars
  <2>1. UNCHANGED <<status, assignments, assigned, orgLock, stage, cmd, held>>
    BY <1>1 DEF vars
  <2>2. TypeOK' /\ Exclusion' /\ Staged'
    BY <2>1 DEF IInv, TypeOK, Exclusion, Staged, Holding, Sharing
  <2>3. NoTwins' /\ OneMembership'
    BY <2>1 DEF IInv, NoTwins, OneMembership, Inserted, Joining, SameKey, Duplicates
  <2>4. OwnerRemains'
    BY <2>1, TablesKept DEF IInv, OwnerRemains
  <2> QED
    BY <2>1, <2>2, <2>3, <2>4, TablesKept DEF IInv
<1>2. ASSUME NEW w \in Workers, BeginInvite(w) \/ BeginAssign(w) \/ BeginDisable(w) \/ BeginRemove(w)
      PROVE  IInv'
  <2>1. CASE BeginInvite(w)
    BY <2>1, BeginStep DEF BeginInvite
  <2>2. CASE BeginAssign(w)
    BY <2>2, BeginStep DEF BeginAssign
  <2>3. CASE BeginDisable(w)
    BY <2>3, BeginStep DEF BeginDisable
  <2>4. CASE BeginRemove(w)
    BY <2>4, BeginStep DEF BeginRemove
  <2> QED
    BY <1>2, <2>1, <2>2, <2>3, <2>4
<1>3. ASSUME NEW w \in Workers, Commit(w)
      PROVE  IInv'
  <2>1. cmd[w].op \in {"invite", "disable", "assign", "remove"}
    BY <1>3 DEF Commit
  <2> QED
    BY <1>3, <2>1, CommitInviteStep, CommitDisableStep, CommitAssignStep, CommitRemoveStep
<1>4. ASSUME NEW w \in Workers, Serve(w)
      PROVE  IInv'
  <2>1. CASE LockOrganization(w)
    BY <2>1, LockOrganizationStep
  <2>2. CASE DisableUser(w)
    BY <2>2, DisableUserStep
  <2>3. CASE RemoveRole(w)
    BY <2>3, RemoveRoleStep
  <2>4. CASE InsertAssignment(w) \/ ShareOrganization(w) \/ InsertMembership(w)
    BY <2>4, InsertStep
  <2>5. CASE Commit(w)
    BY <2>5, <1>3
  <2>6. CASE BreakDeadlock(w)
    BY <2>6, AbortStep DEF BreakDeadlock
  <2> QED
    BY <1>4, <2>1, <2>2, <2>3, <2>4, <2>5, <2>6 DEF Serve
<1>5. ASSUME NEW w \in Workers, Crash(w)
      PROVE  IInv'
  BY <1>5, AbortStep DEF Crash
<1> QED
  BY <1>1, <1>2, <1>4, <1>5 DEF Next

(* The invariant, for any number of users, commands and server threads.     *)
THEOREM MembershipInvariant == Spec => []IInv
<1> QED
  BY Bootstrapped, Kept, PTL DEF Spec

(* Every variable keeps its type, for any users, roles and workers.         *)
THEOREM TypeCorrect == Spec => []TypeOK
<1>1. IInv => TypeOK
  BY DEF IInv
<1> QED
  BY <1>1, MembershipInvariant, PTL

(* The organization is never without an active owner, whatever disabling,   *)
(* removal and assignment run at once and wherever one of them crashes.     *)
THEOREM NeverOrphaned == Spec => []AlwaysAnOwner
<1>1. IInv => AlwaysAnOwner
  BY DEF IInv
<1> QED
  BY <1>1, MembershipInvariant, PTL

(* Concurrent assignments of one role never leave two rows of it.           *)
THEOREM NoDoubleAssignment == Spec => []UniqueAssignments
<1>1. IInv => UniqueAssignments
  BY DEF IInv
<1> QED
  BY <1>1, MembershipInvariant, PTL

(* No step reactivates a suspended member, a late invitation included.      *)
THEOREM SuspendedForGood == Spec => SuspensionIsFinal
<1> USE MembershipAssumption
<1>1. ASSUME IInv, [Next]_vars
      PROVE  [\A u \in Users : status[u] = "SUSPENDED" => status'[u] = "SUSPENDED"]_vars
  <2>1. ASSUME NEW w \in Workers, Commit(w), NEW u \in Users, status[u] = "SUSPENDED"
        PROVE  status'[u] = "SUSPENDED"
    <3>1. status \in [Users -> {"ABSENT", "ACTIVE", "SUSPENDED"}]
      BY <1>1 DEF IInv, TypeOK
    <3>2. CASE cmd[w].op = "invite"
      <4>1. Joining(w) /\ status' = [status EXCEPT ![cmd[w].user] = "ACTIVE"]
        BY <2>1, <3>2 DEF Commit, Joining
      <4>2. status[cmd[w].user] = "ABSENT"
        BY <1>1, <4>1 DEF IInv, OneMembership
      <4> QED
        BY <2>1, <3>1, <4>1, <4>2
    <3>3. CASE cmd[w].op = "disable"
      BY <2>1, <3>1, <3>3 DEF Commit
    <3>4. CASE cmd[w].op \in {"assign", "remove"}
      BY <2>1, <3>4 DEF Commit
    <3> QED
      BY <2>1, <3>2, <3>3, <3>4 DEF Commit
  <2>2. CASE UNCHANGED vars
    BY <2>2
  <2>3. CASE \E w \in Workers : Commit(w)
    BY <2>1, <2>3
  <2>4. CASE status' = status
    BY <2>4
  <2>5. ASSUME NEW w \in Workers, Serve(w), ~ Commit(w) PROVE status' = status
    BY <2>5 DEF Serve, Abort, BreakDeadlock, LockOrganization, DisableUser, RemoveRole,
                InsertAssignment, ShareOrganization, InsertMembership, Move
  <2>6. ASSUME NEW w \in Workers,
               BeginInvite(w) \/ BeginAssign(w) \/ BeginDisable(w) \/ BeginRemove(w) \/ Crash(w)
        PROVE  status' = status
    BY <2>6 DEF BeginInvite, BeginAssign, BeginDisable, BeginRemove, Begin, Crash, Abort, Move
  <2> QED
    BY <1>1, <2>2, <2>3, <2>4, <2>5, <2>6 DEF Next
<1> QED
  BY <1>1, MembershipInvariant, PTL DEF Spec, SuspensionIsFinal

-----------------------------------------------------------------------------
(* The promise *)

(* Roles are given to members and taken from members only, although a       *)
(* member's status is checked long before the assignment commits.           *)
MembersOnly ==
  /\ \A a \in assignments : status[a.user] # "ABSENT"
  /\ \A w \in Workers :
       \/ stage[w] # "idle" /\ cmd[w].op = "assign"
       \/ stage[w] = "written" /\ cmd[w].op = "disable"
       => status[cmd[w].user] # "ABSENT"

(* What a step does to the tables and to a worker that is not at its end.   *)
LEMMA Steps ==
  ASSUME IInv, NEW w \in Workers, Serve(w) \/ Crash(w), ~ Commit(w)
  PROVE  /\ UNCHANGED <<status, assignments, assigned>>
         /\ \A x \in Workers \ {w} : stage'[x] = stage[x] /\ cmd'[x] = cmd[x]
         /\ \/ stage'[w] = "idle"
            \/ /\ cmd'[w] = cmd[w]
               /\ stage[w] # "idle"
               /\ stage'[w] = "written" /\ cmd[w].op = "disable" => status[cmd[w].user] # "ABSENT"
<1>1. /\ stage \in [Workers -> {"idle", "checked", "sharing", "waiting", "locked", "written"}]
      /\ cmd \in [Workers -> Commands \cup {NoCommand}]
  BY DEF IInv, TypeOK
<1>2. CASE Abort(w)
  BY <1>1, <1>2 DEF Abort
<1>3. CASE LockOrganization(w)
  BY <1>1, <1>3 DEF LockOrganization
<1>4. CASE Move(w, "sharing") /\ stage[w] = "checked"
  BY <1>1, <1>4 DEF Move
<1>5. CASE Move(w, "written") /\ stage[w] \in {"checked", "sharing", "locked"}
           /\ (cmd[w].op = "disable" => status[cmd[w].user] # "ABSENT")
  BY <1>1, <1>5 DEF Move
<1>6. ShareOrganization(w) => cmd[w].op = "assign"
  BY DEF ShareOrganization, IInv, Staged
<1> QED
  BY <1>2, <1>3, <1>4, <1>5, <1>6 DEF Serve, Crash, BreakDeadlock, DisableUser, RemoveRole,
     InsertAssignment, ShareOrganization, InsertMembership

LEMMA Begins ==
  ASSUME IInv, NEW w \in Workers, NEW c \in Commands, NEW permission, NEW next,
         Begin(w, c, permission, next), next # "written"
  PROVE  /\ UNCHANGED <<status, assignments, assigned>>
         /\ \A x \in Workers \ {w} : stage'[x] = stage[x] /\ cmd'[x] = cmd[x]
         /\ cmd'[w] = c /\ stage'[w] # "written"
BY DEF Begin, IInv, TypeOK

(* Nobody ceases to be a member. *)
LEMMA MembersStay ==
  ASSUME IInv, NEW w \in Workers, Commit(w), NEW u \in Users, status[u] # "ABSENT"
  PROVE  status'[u] # "ABSENT"
BY DEF Commit, IInv, TypeOK

LEMMA MembersKept == IInv /\ MembersOnly /\ [Next]_vars => MembersOnly'
<1> SUFFICES ASSUME IInv, MembersOnly, [Next]_vars PROVE MembersOnly'
  OBVIOUS
<1>1. CASE UNCHANGED vars
  BY <1>1 DEF vars, MembersOnly
<1>2. ASSUME NEW w \in Workers, NEW c \in Commands, NEW permission, NEW next,
             Begin(w, c, permission, next), next # "written",
             c.op = "assign" => status[c.user] = "ACTIVE"
      PROVE  MembersOnly'
  BY <1>2, Begins DEF MembersOnly
<1>3. ASSUME NEW w \in Workers, BeginInvite(w) \/ BeginAssign(w) \/ BeginDisable(w) \/ BeginRemove(w)
      PROVE  MembersOnly'
  <2>1. CASE BeginInvite(w)
    BY <1>2, <2>1 DEF BeginInvite
  <2>2. CASE BeginAssign(w)
    BY <1>2, <2>2 DEF BeginAssign
  <2>3. CASE BeginDisable(w)
    BY <1>2, <2>3 DEF BeginDisable
  <2>4. CASE BeginRemove(w)
    BY <1>2, <2>4 DEF BeginRemove
  <2> QED
    BY <1>3, <2>1, <2>2, <2>3, <2>4
<1>4. ASSUME NEW w \in Workers, Serve(w) \/ Crash(w), ~ Commit(w)
      PROVE  MembersOnly'
  BY <1>4, Steps DEF MembersOnly
<1>5. ASSUME NEW w \in Workers, Commit(w)
      PROVE  MembersOnly'
  <2>1. /\ \A x \in Workers \ {w} : stage'[x] = stage[x] /\ cmd'[x] = cmd[x]
        /\ stage'[w] = "idle" /\ stage[w] = "written" /\ cmd[w] \in Commands
    BY <1>5, CommitEnds
  <2>2. \A u \in Users : status[u] # "ABSENT" => status'[u] # "ABSENT"
    BY <1>5, MembersStay
  <2>3. ASSUME NEW a \in assignments' PROVE status'[a.user] # "ABSENT"
    <3>1. CASE a \in assignments
      BY <2>2, <3>1 DEF MembersOnly, IInv, TypeOK, Assignment
    <3>2. CASE a \notin assignments
      <4>1. cmd[w].op = "assign" /\ a.user = cmd[w].user /\ status' = status
        BY <1>5, <2>3, <3>2 DEF Commit, NewAssignment
      <4> QED
        BY <2>1, <4>1 DEF MembersOnly
    <3> QED
      BY <3>1, <3>2
  <2>4. ASSUME NEW x \in Workers,
               \/ stage'[x] # "idle" /\ cmd'[x].op = "assign"
               \/ stage'[x] = "written" /\ cmd'[x].op = "disable"
        PROVE  status'[cmd'[x].user] # "ABSENT"
    <3>1. x # w /\ stage'[x] = stage[x] /\ cmd'[x] = cmd[x]
      BY <2>1, <2>4
    <3>2. status[cmd[x].user] # "ABSENT"
      BY <2>4, <3>1 DEF MembersOnly
    <3>3. cmd[x] \in Commands
      BY <2>4, <3>1 DEF IInv, TypeOK
    <3>4. cmd[x].user \in Users
      BY <3>3, MembershipAssumption DEF InviteCommand, DisableCommand, AssignCommand, RemoveCommand
    <3> QED
      BY <2>2, <3>1, <3>2, <3>4
  <2> QED
    BY <2>3, <2>4 DEF MembersOnly
<1> QED
  BY <1>1, <1>3, <1>4, <1>5 DEF Next

(* Members only hold roles, for any members, commands and server threads.   *)
THEOREM RolesAreOfMembers == Spec => []MembersOnly
<1>1. Init => MembersOnly
  BY MembershipAssumption DEF Init, MembersOnly
<1> QED
  BY <1>1, MembersKept, MembershipInvariant, PTL DEF Spec

(* What commits is admissible in the tables as they are by then.            *)
LEMMA CommitKeepsPromise ==
  ASSUME IInv, MembersOnly, NEW w \in Workers, Commit(w)
  PROVE  Promise!Next \/ UNCHANGED Promise!members
<1> DEFINE c == cmd[w]
<1>1. stage[w] = "written" /\ c \in Commands
  BY CommitEnds
<1>2. c.user \in Users
  BY <1>1, MembershipAssumption DEF InviteCommand, DisableCommand, AssignCommand, RemoveCommand
<1>3. CASE c.op = "invite"
  <2>1. status[c.user] = "ABSENT"
    BY <1>1, <1>3 DEF IInv, OneMembership, Joining
  <2>2. Promise!Invite(c.user)
    BY <1>3, <2>1 DEF Commit, Promise!Invite
  <2> QED
    BY <1>2, <2>2 DEF Promise!Next
<1>4. CASE c.op = "disable"
  <2>1. status' = [status EXCEPT ![c.user] = "SUSPENDED"] /\ UNCHANGED <<assignments, assigned>>
    BY <1>4 DEF Commit
  <2>2. PICK a \in assignments : ActiveOwner(a) /\ a.user # c.user
    BY <1>1, <1>4 DEF IInv, OwnerRemains
  <2>3. Promise!Owns(a)
    BY <2>2 DEF ActiveOwner, Ownerships, Promise!Owns
  <2>4. status[c.user] \in {"ACTIVE", "SUSPENDED"}
    BY <1>1, <1>2, <1>4 DEF MembersOnly, IInv, TypeOK
  <2>5. CASE status[c.user] = "ACTIVE"
    <3>1. Promise!Disable(c.user)
      BY <2>1, <2>2, <2>3, <2>5 DEF Promise!Disable
    <3> QED
      BY <1>2, <3>1 DEF Promise!Next
  <2>6. CASE status[c.user] = "SUSPENDED"
    <3>1. status' = status
      BY <2>1, <2>6 DEF IInv, TypeOK
    <3> QED
      BY <2>1, <3>1 DEF Promise!members
  <2> QED
    BY <2>4, <2>5, <2>6
<1>5. CASE c.op = "assign"
  <2>1. c.role \in Roles /\ c.branch \in Scopes
    BY <1>1, <1>5, MembershipAssumption DEF InviteCommand, DisableCommand, AssignCommand, RemoveCommand
  <2>2. status[c.user] # "ABSENT"
    BY <1>1, <1>5 DEF MembersOnly
  <2>3. ~ Duplicates(c)
    BY <1>1, <1>5 DEF IInv, NoTwins, Inserted
  <2>4. Promise!Assign(c.user, c.role, c.branch)
    BY <1>5, <2>2, <2>3 DEF Commit, NewAssignment, Duplicates, Promise!Assign
  <2> QED
    BY <1>2, <2>1, <2>4 DEF Promise!Next
<1>6. CASE c.op = "remove"
  <2>1. assignments' = {a \in assignments : a.id # c.id} /\ UNCHANGED <<status, assigned>>
    BY <1>6 DEF Commit
  <2>2. PICK b \in assignments : ActiveOwner(b) /\ b.id # c.id
    BY <1>1, <1>6 DEF IInv, OwnerRemains
  <2>3. CASE \E a \in assignments : a.id = c.id
    <3>1. PICK a \in assignments : a.id = c.id
      BY <2>3
    <3>2. assignments' = assignments \ {a}
      BY <2>1, <3>1 DEF IInv, TypeOK
    <3>3. b \in assignments \ {a} /\ Promise!Owns(b)
      BY <2>2, <3>1 DEF ActiveOwner, Ownerships, Promise!Owns
    <3>4. Promise!Remove(a)
      BY <2>1, <3>2, <3>3 DEF Promise!Remove
    <3> QED
      BY <3>1, <3>4 DEF Promise!Next
  <2>4. CASE ~ \E a \in assignments : a.id = c.id
    BY <2>1, <2>4 DEF Promise!members
  <2> QED
    BY <2>3, <2>4
<1> QED
  BY <1>3, <1>4, <1>5, <1>6 DEF Commit

(* The concurrent transactions implement MembershipPromise: memberships and *)
(* roles change one at a time, each change admissible when it commits.      *)
THEOREM MembershipKeepsPromise == Spec => KeepsPromise
<1>1. Init => Promise!Init
  BY DEF Init, Promise!Init
<1>2. IInv /\ MembersOnly /\ [Next]_vars => [Promise!Next]_(Promise!members)
  <2> SUFFICES ASSUME IInv, MembersOnly, [Next]_vars
               PROVE  Promise!Next \/ UNCHANGED Promise!members
    OBVIOUS
  <2>1. ASSUME NEW w \in Workers, Commit(w)
        PROVE  Promise!Next \/ UNCHANGED Promise!members
    BY <2>1, CommitKeepsPromise
  <2>2. ASSUME NEW w \in Workers, Serve(w) \/ Crash(w), ~ Commit(w)
        PROVE  UNCHANGED Promise!members
    BY <2>2, Steps DEF Promise!members
  <2>3. ASSUME NEW w \in Workers,
               BeginInvite(w) \/ BeginAssign(w) \/ BeginDisable(w) \/ BeginRemove(w)
        PROVE  UNCHANGED Promise!members
    BY <2>3 DEF BeginInvite, BeginAssign, BeginDisable, BeginRemove, Begin, Promise!members
  <2>4. CASE UNCHANGED vars
    BY <2>4 DEF vars, Promise!members
  <2> QED
    BY <2>1, <2>2, <2>3, <2>4 DEF Next
<1> QED
  BY <1>1, <1>2, MembershipInvariant, RolesAreOfMembers, PTL DEF Spec, KeepsPromise, Promise!Spec

-----------------------------------------------------------------------------
(* What the promise is worth: it keeps the owner and the roles by itself *)

PromiseInv ==
  /\ status \in [Users -> {"ABSENT", "ACTIVE", "SUSPENDED"}]
  /\ \A a \in assignments : a.user \in Users
  /\ AlwaysAnOwner
  /\ UniqueAssignments

LEMMA PromiseKept ==
  ASSUME PromiseInv, [Promise!Next]_(Promise!members)
  PROVE  PromiseInv'
<1>1. CASE UNCHANGED Promise!members
  BY <1>1 DEF Promise!members, PromiseInv, AlwaysAnOwner, Ownerships, UniqueAssignments
<1>2. ASSUME NEW u \in Users, Promise!Invite(u)
      PROVE  PromiseInv'
  <2>1. status[u] = "ABSENT" /\ status' = [status EXCEPT ![u] = "ACTIVE"] /\ assignments' = assignments
    BY <1>2 DEF Promise!Invite
  <2> QED
    BY <2>1 DEF PromiseInv, AlwaysAnOwner, Ownerships, UniqueAssignments
<1>3. ASSUME NEW u \in Users, Promise!Disable(u)
      PROVE  PromiseInv'
  <2>1. status' = [status EXCEPT ![u] = "SUSPENDED"] /\ assignments' = assignments
    BY <1>3 DEF Promise!Disable
  <2>2. PICK a \in assignments : Promise!Owns(a) /\ a.user # u
    BY <1>3 DEF Promise!Disable
  <2>3. AlwaysAnOwner'
    BY <2>1, <2>2 DEF Promise!Owns, PromiseInv, AlwaysAnOwner, Ownerships
  <2> QED
    BY <2>1, <2>3 DEF PromiseInv, UniqueAssignments
<1>4. ASSUME NEW u \in Users, NEW r \in Roles, NEW b \in Scopes, Promise!Assign(u, r, b)
      PROVE  PromiseInv'
  <2> DEFINE n == [id |-> assigned', user |-> u, role |-> r, branch |-> b]
  <2>1. /\ assignments' = assignments \cup {n} /\ status' = status
        /\ \A a \in assignments : ~ (a.user = u /\ a.role = r /\ a.branch = b)
    BY <1>4 DEF Promise!Assign
  <2>2. n.user = u /\ n.role = r /\ n.branch = b
    OBVIOUS
  <2> HIDE DEF n
  <2>3. UniqueAssignments'
    BY <2>1, <2>2 DEF PromiseInv, UniqueAssignments
  <2>4. AlwaysAnOwner'
    BY <2>1 DEF PromiseInv, AlwaysAnOwner, Ownerships
  <2> QED
    BY <2>1, <2>2, <2>3, <2>4 DEF PromiseInv
<1>5. ASSUME NEW a \in assignments, Promise!Remove(a)
      PROVE  PromiseInv'
  <2>1. assignments' = assignments \ {a} /\ status' = status
    BY <1>5 DEF Promise!Remove
  <2>2. PICK b \in assignments' : Promise!Owns(b)
    BY <1>5, <2>1 DEF Promise!Remove
  <2>3. AlwaysAnOwner'
    BY <2>1, <2>2 DEF Promise!Owns, AlwaysAnOwner, Ownerships
  <2> QED
    BY <2>1, <2>3 DEF PromiseInv, UniqueAssignments
<1> QED
  BY <1>1, <1>2, <1>3, <1>4, <1>5 DEF Promise!Next

(* Whatever keeps the promise keeps an active owner, gives no role twice in *)
(* a scope and brings no suspended member back: routes.py has to be right   *)
(* about its transactions only.                                             *)
THEOREM PromiseKeepsOwner ==
  KeepsPromise => [](AlwaysAnOwner /\ UniqueAssignments) /\ SuspensionIsFinal
<1>1. Promise!Init => PromiseInv
  <2> SUFFICES ASSUME Promise!Init PROVE PromiseInv
    OBVIOUS
  <2> DEFINE founder == [id |-> 1, user |-> Founder, role |-> "OWNER", branch |-> NoBranch]
  <2>1. /\ status = [u \in Users |-> IF u = Founder THEN "ACTIVE" ELSE "ABSENT"]
        /\ assignments = {founder}
    BY DEF Promise!Init
  <2>2. founder.user = Founder /\ founder.role = "OWNER" /\ founder.branch = NoBranch
    OBVIOUS
  <2> HIDE DEF founder
  <2> QED
    BY <2>1, <2>2, MembershipAssumption DEF PromiseInv, AlwaysAnOwner, Ownerships, UniqueAssignments
<1>2. PromiseInv /\ [Promise!Next]_(Promise!members) => PromiseInv'
  BY PromiseKept
<1>3. PromiseInv /\ [Promise!Next]_(Promise!members) =>
        [\A u \in Users : status[u] = "SUSPENDED" => status'[u] = "SUSPENDED"]_vars
  BY DEF PromiseInv, Promise!Next, Promise!members, Promise!Invite, Promise!Disable,
         Promise!Assign, Promise!Remove
<1>4. PromiseInv => AlwaysAnOwner /\ UniqueAssignments
  BY DEF PromiseInv
<1> QED
  BY <1>1, <1>2, <1>3, <1>4, PTL DEF KeepsPromise, Promise!Spec, SuspensionIsFinal


=============================================================================
