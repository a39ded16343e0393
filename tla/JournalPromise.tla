--------------------------- MODULE JournalPromise ----------------------------
(***************************************************************************)
(* What the journal commands of the web client promise (ADR 0012), with no *)
(* tabs, cookies, requests or answers: each scope has at most one command  *)
(* whose outcome is in doubt, only that one can be posted, and it leaves   *)
(* its slot either posted and acknowledged or never to be posted.          *)
(***************************************************************************)
EXTENDS Naturals, Sequences

CONSTANTS Scopes, None

VARIABLES
  home,     \* the scope of every command, in the order they were confirmed
  slot,     \* the command in doubt of each scope, or None
  journal,  \* the entries
  acked     \* the commands the user was told are posted

commands == <<home, slot, journal, acked>>

Init ==
  /\ home = <<>>
  /\ slot = [s \in Scopes |-> None]
  /\ journal = {}
  /\ acked = {}

Entry(s) == [id |-> slot[s], scope |-> s]

Confirm(s) ==
  /\ slot[s] = None
  /\ home' = Append(home, s)
  /\ slot' = [slot EXCEPT ![s] = Len(home')]
  /\ UNCHANGED <<journal, acked>>

Post(s) ==
  /\ slot[s] # None
  /\ journal' = journal \cup {Entry(s)}
  /\ UNCHANGED <<home, slot, acked>>

Acknowledge(s) ==
  /\ Entry(s) \in journal
  /\ slot' = [slot EXCEPT ![s] = None]
  /\ acked' = acked \cup {slot[s]}
  /\ UNCHANGED <<home, journal>>

(* Nothing posts a command that is in no slot: it is given up for good.     *)
Discard(s) ==
  /\ slot[s] # None
  /\ Entry(s) \notin journal
  /\ slot' = [slot EXCEPT ![s] = None]
  /\ UNCHANGED <<home, journal, acked>>

Next == \E s \in Scopes : Confirm(s) \/ Post(s) \/ Acknowledge(s) \/ Discard(s)

Spec == Init /\ [][Next]_commands
=============================================================================
