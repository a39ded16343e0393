--------------------------- MODULE RefreshFamilies ---------------------------
(***************************************************************************)
(* What the refresh tokens promise (ADR 0006), with no requests, clients   *)
(* or row locks: a login opens a family of tokens, one of them can be      *)
(* exchanged at a time, each exchange replaces it, and a family that ended *)
(* never has a token again.                                                *)
(***************************************************************************)
EXTENDS Naturals

VARIABLES
  held,     \* the tokens of each family that can be exchanged
  issued    \* the number of tokens issued so far; a token is its number

families == <<held, issued>>

Init == issued = 0 /\ held = [f \in {} |-> {}]

Open ==
  /\ issued' = issued + 1
  /\ held' = [f \in DOMAIN held \cup {issued'} |-> IF f = issued' THEN {issued'} ELSE held[f]]

Exchange(f) ==
  /\ \E t \in held[f] : held[f] = {t}
  /\ issued' = issued + 1
  /\ held' = [held EXCEPT ![f] = {issued'}]

End(f) ==
  /\ held[f] # {}
  /\ held' = [held EXCEPT ![f] = {}]
  /\ UNCHANGED issued

Next == Open \/ \E f \in DOMAIN held : Exchange(f) \/ End(f)

Spec == Init /\ [][Next]_families
=============================================================================
