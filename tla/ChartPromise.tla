---------------------------- MODULE ChartPromise -----------------------------
(***************************************************************************)
(* What the chart of accounts promises (ADR 0013), with no workers, locks  *)
(* or trigger: accounts join it one at a time, each under an active,       *)
(* older group of its own type, and never change but for their status.     *)
(***************************************************************************)
EXTENDS Naturals

CONSTANT NoParent

VARIABLES
  accounts,     \* the accounts, without their status
  active        \* the ids of the active ones

chart == <<accounts, active>>

Init == accounts = {} /\ active = {}

MayContain(p, a) ==
  p.id = a.parent /\ p.id < a.id /\ p.id \in active /\ p.kind = a.kind /\ ~ p.postable

Create(a) ==
  /\ \A b \in accounts : b.id # a.id /\ b.code # a.code
  /\ a.parent = NoParent \/ \E p \in accounts : MayContain(p, a)
  /\ accounts' = accounts \cup {a}
  /\ active' = active \cup {a.id}

Activate(a) ==
  /\ active' = active \cup {a.id}
  /\ UNCHANGED accounts

Deactivate(a) ==
  /\ active' = active \ {a.id}
  /\ UNCHANGED accounts

Next ==
  \/ \E a \in accounts' : Create(a)
  \/ \E a \in accounts : Activate(a) \/ Deactivate(a)

Spec == Init /\ [][Next]_chart
=============================================================================
