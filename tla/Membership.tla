----------------------------- MODULE Membership -----------------------------
(***************************************************************************)
(* Memberships and role assignments of one organization: invite_user,      *)
(* disable_user, assign_role and remove_role of api/routes.py, each in a   *)
(* database transaction of its own at READ COMMITTED.                      *)
(*                                                                         *)
(* disable_user and remove_role take the organization row FOR UPDATE and   *)
(* then the membership row.  invite_user and assign_role lock nothing      *)
(* themselves, but the foreign keys of what they insert take the same rows *)
(* FOR KEY SHARE, assign_role the membership row first and the             *)
(* organization row last: the opposite order.                              *)
(*                                                                         *)
(* A request that is refused before it takes a lock changes nothing and is *)
(* left out.                                                               *)
(***************************************************************************)
EXTENDS Naturals, FiniteSets

CONSTANTS
  Workers,         \* server threads, each running one transaction at a time
  Users,           \* the accounts a request may name
  Founder,         \* the user bootstrap creates
  Branches,        \* branches a role may be limited to
  Roles,           \* role codes, "OWNER" among them
  RoleGrants,      \* the permissions of each role
  Commands,        \* what callers ask for
  MaxAssignments,  \* bound: role assignments ever made or asked for
  NoBranch,        \* branch_id is NULL
  NoWorker,        \* nobody holds the organization row
  NoCommand        \* an idle worker

VARIABLES
  status,       \* of each membership: "ABSENT", "ACTIVE" or "SUSPENDED"
  assignments,  \* committed membership_roles rows
  assigned,     \* rows ever inserted; the last id used
  orgLock,      \* the worker that holds the organization row FOR UPDATE
  stage,        \* where each worker is in its transaction
  cmd,          \* the command each worker serves
  held          \* the organization-wide permissions in the request's Context

vars == <<status, assignments, assigned, orgLock, stage, cmd, held>>

Permissions == {"users.invite", "users.manage", "roles.manage", "branches.read"}
Scopes == Branches \cup {NoBranch}

InviteCommand == [op : {"invite"}, caller : Users, user : Users]
DisableCommand == [op : {"disable"}, caller : Users, user : Users]
AssignCommand == [op : {"assign"}, caller : Users, user : Users, role : Roles, branch : Scopes]
RemoveCommand == [op : {"remove"}, caller : Users, user : Users, id : Nat \ {0}]

Assignment == [id : Nat \ {0}, user : Users, role : Roles, branch : Scopes]

ASSUME MembershipAssumption ==
  /\ Founder \in Users
  /\ "OWNER" \in Roles
  /\ RoleGrants \in [Roles -> SUBSET Permissions]
  /\ NoBranch \notin Branches
  /\ NoWorker \notin Workers
  /\ NoCommand \notin Commands
  /\ Commands \subseteq InviteCommand \cup DisableCommand \cup AssignCommand \cup RemoveCommand
  /\ MaxAssignments \in Nat \ {0}

-----------------------------------------------------------------------------
(* bootstrap: one active member, who owns the organization. *)
Init ==
  /\ status = [u \in Users |-> IF u = Founder THEN "ACTIVE" ELSE "ABSENT"]
  /\ assignments = {[id |-> 1, user |-> Founder, role |-> "OWNER", branch |-> NoBranch]}
  /\ assigned = 1
  /\ orgLock = NoWorker
  /\ stage = [w \in Workers |-> "idle"]
  /\ cmd = [w \in Workers |-> NoCommand]
  /\ held = [w \in Workers |-> {}]

(* The global assignments of the OWNER role. *)
Ownerships == {a \in assignments : a.role = "OWNER" /\ a.branch = NoBranch}

(* owner_count: rows, not people. *)
OwnerCount == Cardinality({a \in Ownerships : status[a.user] = "ACTIVE"})

(* context: what an active member may do in a scope. *)
Granted(u, scope) ==
  UNION {RoleGrants[a.role] : a \in {b \in assignments : b.user = u /\ b.branch = scope}}

OrgPermissions(u) == Granted(u, NoBranch)

(* membership_roles is unique on (membership, role, branch); NULLs differ,  *)
(* so the global assignments have a partial index of their own.             *)
DuplicatesBranchOnly(c) == \E a \in assignments :
  a.user = c.user /\ a.role = c.role /\ a.branch = c.branch /\ a.branch # NoBranch

Duplicates(c) == \E a \in assignments :
  a.user = c.user /\ a.role = c.role /\ a.branch = c.branch

-----------------------------------------------------------------------------
(* The context is loaded and everything up to the first lock is checked. *)
Begin(w, c, permission, next) ==
  /\ stage[w] = "idle"
  /\ status[c.caller] = "ACTIVE"
  /\ permission \in OrgPermissions(c.caller)
  /\ stage' = [stage EXCEPT ![w] = next]
  /\ cmd' = [cmd EXCEPT ![w] = c]
  /\ held' = [held EXCEPT ![w] = OrgPermissions(c.caller)]
  /\ UNCHANGED <<status, assignments, assigned, orgLock>>

BeginInvite(w) == \E c \in Commands :
  /\ c.op = "invite"
  /\ status[c.user] = "ABSENT"
  /\ Begin(w, c, "users.invite", "checked")

(* The assignments in flight, which the bound counts as made. *)
Assigning == {w \in Workers : stage[w] # "idle" /\ cmd[w].op = "assign"}

BeginAssign(w) == \E c \in Commands :
  /\ c.op = "assign"
  /\ assigned + Cardinality(Assigning) < MaxAssignments
  /\ status[c.user] = "ACTIVE"
  /\ c.branch # NoBranch =>
       "branches.read" \in OrgPermissions(c.caller) \cup Granted(c.caller, c.branch)
  /\ RoleGrants[c.role] \subseteq OrgPermissions(c.caller)
  /\ c.role = "OWNER" => c.branch = NoBranch /\ \E a \in Ownerships : a.user = c.caller
  /\ ~\E a \in assignments : a.user = c.user /\ a.role = c.role /\ a.branch = c.branch
  /\ Begin(w, c, "roles.manage", "checked")

BeginDisable(w) == \E c \in Commands :
  /\ c.op = "disable"
  /\ Begin(w, c, "users.manage", "waiting")

BeginRemove(w) == \E c \in Commands :
  /\ c.op = "remove"
  /\ Begin(w, c, "roles.manage", "waiting")

-----------------------------------------------------------------------------
(* Locks.  The organization row is shared by the inserts that passed its    *)
(* foreign key; a membership row is shared by assignments inserted for it,  *)
(* and held by a disable or a removal until it commits.                     *)

OrgShared == \E w \in Workers : stage[w] = "written" /\ cmd[w].op \in {"invite", "assign"}

MemberShared(u) == \E w \in Workers :
  stage[w] \in {"sharing", "written"} /\ cmd[w].op = "assign" /\ cmd[w].user = u

MemberHeld(u) == \E w \in Workers :
  stage[w] = "written" /\ cmd[w].op \in {"disable", "remove"} /\ cmd[w].user = u

LockOrganizationSkipped(w) ==
  /\ stage[w] = "waiting"
  /\ orgLock' = w
  /\ stage' = [stage EXCEPT ![w] = "locked"]
  /\ UNCHANGED <<status, assignments, assigned, cmd, held>>

LockOrganization(w) ==
  /\ stage[w] = "waiting"
  /\ orgLock = NoWorker
  /\ ~OrgShared
  /\ orgLock' = w
  /\ stage' = [stage EXCEPT ![w] = "locked"]
  /\ UNCHANGED <<status, assignments, assigned, cmd, held>>

Move(w, next) ==
  /\ stage' = [stage EXCEPT ![w] = next]
  /\ UNCHANGED <<status, assignments, assigned, orgLock, cmd, held>>

(* A refusal, a database error, a crash: rolled back, the rows are free. *)
Abort(w) ==
  /\ stage' = [stage EXCEPT ![w] = "idle"]
  /\ cmd' = [cmd EXCEPT ![w] = NoCommand]
  /\ held' = [held EXCEPT ![w] = {}]
  /\ orgLock' = IF orgLock = w THEN NoWorker ELSE orgLock
  /\ UNCHANGED <<status, assignments, assigned>>

(* The INSERT of an assignment: it waits for an uncommitted twin, fails on  *)
(* a committed one, and shares the membership row.                          *)
InsertAssignment(w) ==
  /\ stage[w] = "checked" /\ cmd[w].op = "assign"
  /\ ~\E x \in Workers \ {w} : /\ stage[x] \in {"sharing", "written"}
                               /\ cmd[x].op = "assign"
                               /\ cmd[x].user = cmd[w].user
                               /\ cmd[x].role = cmd[w].role
                               /\ cmd[x].branch = cmd[w].branch
  /\ \/ Duplicates(cmd[w]) /\ Abort(w)
     \/ ~Duplicates(cmd[w]) /\ ~MemberHeld(cmd[w].user) /\ Move(w, "sharing")

ShareOrganization(w) ==
  /\ stage[w] = "sharing"
  /\ orgLock = NoWorker
  /\ Move(w, "written")

(* The INSERT of a membership, unique per organization and user. *)
MembershipUnchecked(u) == status[u] = "ACTIVE"
AlreadyMember(u) == status[u] # "ABSENT"

InsertMembership(w) ==
  /\ stage[w] = "checked" /\ cmd[w].op = "invite"
  /\ ~\E x \in Workers \ {w} :
        stage[x] = "written" /\ cmd[x].op = "invite" /\ cmd[x].user = cmd[w].user
  /\ \/ AlreadyMember(cmd[w].user) /\ Abort(w)
     \/ ~AlreadyMember(cmd[w].user) /\ orgLock = NoWorker /\ Move(w, "written")

-----------------------------------------------------------------------------
(* Under the organization row *)

DisableUser(w) ==
  /\ stage[w] = "locked" /\ cmd[w].op = "disable"
  /\ LET u == cmd[w].user
         lastOwner == OwnerCount <= 1 /\ \E a \in Ownerships : a.user = u
     IN \/ status[u] = "ABSENT" /\ Abort(w)
        \/ /\ status[u] # "ABSENT"
           /\ ~MemberShared(u)
           /\ \/ lastOwner /\ Abort(w)
              \/ ~lastOwner /\ Move(w, "written")

RemoveRole(w) ==
  /\ stage[w] = "locked" /\ cmd[w].op = "remove"
  /\ LET rows == {a \in assignments : a.id = cmd[w].id /\ a.user = cmd[w].user}
     IN \/ rows = {} /\ Abort(w)
        \/ \E a \in rows :
             /\ ~MemberShared(a.user)
             /\ \/ /\ \/ a.role = "OWNER" /\ OwnerCount <= 1
                      \/ ~(RoleGrants[a.role] \subseteq held[w])
                   /\ Abort(w)
                \/ /\ a.role = "OWNER" => OwnerCount > 1
                   /\ RoleGrants[a.role] \subseteq held[w]
                   /\ Move(w, "written")

-----------------------------------------------------------------------------
NewAssignment(c) == [id |-> assigned + 1, user |-> c.user, role |-> c.role, branch |-> c.branch]

Commit(w) ==
  /\ stage[w] = "written"
  /\ LET c == cmd[w]
     IN \/ /\ c.op = "invite"
           /\ status' = [status EXCEPT ![c.user] = "ACTIVE"]
           /\ UNCHANGED <<assignments, assigned>>
        \/ /\ c.op = "disable"
           /\ status' = [status EXCEPT ![c.user] = "SUSPENDED"]
           /\ UNCHANGED <<assignments, assigned>>
        \/ /\ c.op = "assign"
           /\ assignments' = assignments \cup {NewAssignment(c)}
           /\ assigned' = assigned + 1
           /\ UNCHANGED status
        \/ /\ c.op = "remove"
           /\ assignments' = {a \in assignments : a.id # c.id}
           /\ UNCHANGED <<status, assigned>>
  /\ stage' = [stage EXCEPT ![w] = "idle"]
  /\ cmd' = [cmd EXCEPT ![w] = NoCommand]
  /\ held' = [held EXCEPT ![w] = {}]
  /\ orgLock' = IF orgLock = w THEN NoWorker ELSE orgLock

Crash(w) == stage[w] # "idle" /\ Abort(w)

(* The holder of the organization row waits for a membership row that an    *)
(* inserted assignment shares while it waits for the organization row.      *)
WaitsForMember(w, u) ==
  /\ stage[w] = "locked" /\ cmd[w].user = u
  /\ cmd[w].op = "remove" => \E a \in assignments : a.id = cmd[w].id /\ a.user = u

Deadlocked(w) == \E a, d \in Workers :
  /\ w \in {a, d}
  /\ stage[a] = "sharing" /\ WaitsForMember(d, cmd[a].user)

(* PostgreSQL aborts one transaction of a cycle. *)
BreakDeadlockNever(w) == FALSE /\ Abort(w)
BreakDeadlock(w) == Deadlocked(w) /\ Abort(w)

Serve(w) ==
  \/ LockOrganization(w) \/ DisableUser(w) \/ RemoveRole(w)
  \/ InsertAssignment(w) \/ ShareOrganization(w) \/ InsertMembership(w)
  \/ Commit(w) \/ BreakDeadlock(w)

Next == \E w \in Workers :
  \/ BeginInvite(w) \/ BeginAssign(w) \/ BeginDisable(w) \/ BeginRemove(w)
  \/ Serve(w) \/ Crash(w)

Spec == Init /\ [][Next]_vars

(* A thread goes on with its transaction, the deadlock detector runs, and a *)
(* row that is released again and again is granted to each waiter in turn:  *)
(* a queue, so strong fairness.  Nothing makes a caller ask or a crash come.*)
Fairness == \A w \in Workers :
  /\ WF_vars(DisableUser(w) \/ RemoveRole(w) \/ Commit(w) \/ BreakDeadlock(w))
  /\ SF_vars(LockOrganization(w))
  /\ SF_vars(InsertAssignment(w) \/ InsertMembership(w))
  /\ SF_vars(ShareOrganization(w))

FairSpec == Spec /\ Fairness

-----------------------------------------------------------------------------
(* Properties *)

(* Every variable has its type, and an assignment's id tells it from the    *)
(* others: remove_role deletes the row the path names and no other.         *)
TypeOK ==
  /\ status \in [Users -> {"ABSENT", "ACTIVE", "SUSPENDED"}]
  /\ assignments \subseteq Assignment
  /\ assigned \in Nat
  /\ \A a, b \in assignments : a.id <= assigned /\ (a.id = b.id => a = b)
  /\ orgLock \in Workers \cup {NoWorker}
  /\ stage \in [Workers -> {"idle", "checked", "sharing", "waiting", "locked", "written"}]
  /\ cmd \in [Workers -> Commands \cup {NoCommand}]
  /\ held \in [Workers -> SUBSET Permissions]
  /\ \A w \in Workers : stage[w] = "idle" <=> cmd[w] = NoCommand

(* Somebody active owns the whole organization, however disabling and       *)
(* removing cross: owner_count is read under the organization row.          *)
AlwaysAnOwner == \E a \in Ownerships : status[a.user] = "ACTIVE"

(* A member holds a role in a scope once, the organization-wide scope too;  *)
(* owner_count, which counts rows, depends on it.                           *)
UniqueAssignments == \A a, b \in assignments :
  a.user = b.user /\ a.role = b.role /\ a.branch = b.branch => a = b

(* No interleaving of invitations brings a suspended member back:           *)
(* the organization has one membership row per user and nothing reactivates *)
(* it.                                                                      *)
SuspensionIsFinal ==
  [][\A u \in Users : status[u] = "SUSPENDED" => status'[u] = "SUSPENDED"]_vars

(* Every request is answered, although assign_role and disable_user or      *)
(* remove_role take the membership and the organization row in opposite     *)
(* orders.                                                                  *)
RequestsEnd == \A w \in Workers : stage[w] # "idle" ~> stage[w] = "idle"

(* The concurrent transactions implement the one-change-at-a-time           *)
(* memberships of MembershipPromise.                                        *)
Promise == INSTANCE MembershipPromise
KeepsPromise == Promise!Spec

=============================================================================
