---------------------------- MODULE MCMembership ----------------------------
(***************************************************************************)
(* A small organization: its founder ann, and ben, who may be invited.     *)
(* Either may make the other an owner, a manager of the one branch,        *)
(* disable the other or take a role away, and disable themselves.          *)
(***************************************************************************)
EXTENDS Membership

CONSTANTS w1, w2, ann, ben, branch

MCRoles == {"OWNER", "MANAGER"}

MCGrants == [r \in MCRoles |-> IF r = "OWNER" THEN Permissions ELSE {"branches.read"}]

Assign(c, u, r, b) == [op |-> "assign", caller |-> c, user |-> u, role |-> r, branch |-> b]
Remove(c, u, i) == [op |-> "remove", caller |-> c, user |-> u, id |-> i]
Disable(c, u) == [op |-> "disable", caller |-> c, user |-> u]

MCCommands ==
  {[op |-> "invite", caller |-> ann, user |-> ben]}
  \cup {Assign(ann, ben, "OWNER", NoBranch), Assign(ben, ann, "OWNER", NoBranch),
        Assign(ann, ben, "MANAGER", branch)}
  \cup {Disable(c, u) : c \in {ann, ben}, u \in {ann, ben}}
  \cup {Remove(ann, ann, 1), Remove(ann, ben, 2), Remove(ben, ann, 1), Remove(ben, ben, 2)}
=============================================================================
