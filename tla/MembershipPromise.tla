-------------------------- MODULE MembershipPromise --------------------------
(***************************************************************************)
(* What the memberships of an organization promise (ADR 0005), with no     *)
(* requests, transactions or row locks: one change at a time, each of      *)
(* which leaves the organization with an active owner.                     *)
(***************************************************************************)
EXTENDS Naturals

CONSTANTS Users, Founder, Roles, Scopes, NoBranch

VARIABLES
  status,       \* of each membership: "ABSENT", "ACTIVE" or "SUSPENDED"
  assignments,  \* who holds which role where
  assigned      \* the last id given to an assignment

members == <<status, assignments, assigned>>

Init ==
  /\ status = [u \in Users |-> IF u = Founder THEN "ACTIVE" ELSE "ABSENT"]
  /\ assignments = {[id |-> 1, user |-> Founder, role |-> "OWNER", branch |-> NoBranch]}
  /\ assigned = 1

Owns(a) == a.role = "OWNER" /\ a.branch = NoBranch /\ status[a.user] = "ACTIVE"

Invite(u) ==
  /\ status[u] = "ABSENT"
  /\ status' = [status EXCEPT ![u] = "ACTIVE"]
  /\ UNCHANGED <<assignments, assigned>>

Disable(u) ==
  /\ status[u] = "ACTIVE"
  /\ \E a \in assignments : Owns(a) /\ a.user # u
  /\ status' = [status EXCEPT ![u] = "SUSPENDED"]
  /\ UNCHANGED <<assignments, assigned>>

(* A member is given a role that the member does not hold in that scope.    *)
Assign(u, r, b) ==
  /\ status[u] # "ABSENT"
  /\ ~ \E a \in assignments : a.user = u /\ a.role = r /\ a.branch = b
  /\ assigned' = assigned + 1
  /\ assignments' = assignments \cup {[id |-> assigned', user |-> u, role |-> r, branch |-> b]}
  /\ UNCHANGED status

Remove(a) ==
  /\ \E b \in assignments \ {a} : Owns(b)
  /\ assignments' = assignments \ {a}
  /\ UNCHANGED <<status, assigned>>

Next ==
  \/ \E u \in Users : Invite(u) \/ Disable(u)
  \/ \E u \in Users, r \in Roles, b \in Scopes : Assign(u, r, b)
  \/ \E a \in assignments : Remove(a)

Spec == Init /\ [][Next]_members
=============================================================================
