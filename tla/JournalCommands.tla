--------------------------- MODULE JournalCommands ---------------------------
(***************************************************************************)
(* The web client's journal commands: apps/web/lib/journal-command.ts, the *)
(* api and session helpers it sends through, the proxy of the session      *)
(* gateway and what it needs of the ledger.                                *)
(*                                                                         *)
(* A browser has tabs that share its cookies and its storage.  A command   *)
(* is written to the storage slot of its scope (user, organization and     *)
(* branch) before it is sent, and stays there while its outcome is in      *)
(* doubt.  Its request id stands for the whole normalized payload.         *)
(*                                                                         *)
(* The ledger is taken at its promise (module Ledger): it posts a request  *)
(* id once, a repetition finds the entry of the first, and it may refuse   *)
(* the first and any repetition.                                           *)
(***************************************************************************)
EXTENDS Naturals, Sequences, FiniteSets

CONSTANTS
  Tabs,         \* pages of one browser
  Scopes,       \* user, organization and branch: what names a storage slot
  MaxCommands,  \* bound: commands ever confirmed
  MaxSessions,  \* bound: logins, logouts and choices of organization
  NoTab,        \* nobody waits for the answer
  NoScope,      \* logged out, or not forwarded yet
  None          \* an empty slot, no answer, no operation

VARIABLES
  session,  \* the cookies: the context and what it gives access to
  page,     \* the session each tab is bound to
  stage,    \* where each tab's operation is; it holds the Web Lock unless "idle"
  kind,     \* what each tab's operation is, none when idle
  slot,     \* local storage: the pending command of each scope
  home,     \* the scope each command was confirmed for
  flying,   \* requests sent and not yet answered
  reply,    \* the answer that has reached each tab
  journal,  \* the entries the ledger has posted
  acked     \* the commands whose entry a tab has seen

vars == <<session, page, stage, kind, slot, home, flying, reply, journal, acked>>

Sessions == [context : Nat, scope : Scopes \cup {NoScope}]
Requests == [id : Nat \ {0}, tab : Tabs \cup {NoTab}, from : Sessions,
             scope : Scopes \cup {NoScope}]

(* What a tab tells apart in an answer: a success with the whole entry, any *)
(* other success, a status that rejects the command (400, 403, 404, 413 and *)
(* 422), 401, and the rest: conflicts, failures of the server or gateway.   *)
Answers == {"posted", "malformed", "rejected", "unauthorized", "failed"}

ASSUME JournalCommandsAssumption ==
  /\ NoTab \notin Tabs
  /\ NoScope \notin Scopes
  /\ None \notin Nat \cup Answers
  /\ MaxCommands \in Nat
  /\ MaxSessions \in Nat

Init ==
  /\ session \in {[context |-> 0, scope |-> s] : s \in Scopes}
  /\ page = [t \in Tabs |-> session]
  /\ stage = [t \in Tabs |-> "idle"]
  /\ kind = [t \in Tabs |-> None]
  /\ slot = [s \in Scopes |-> None]
  /\ home = <<>>
  /\ flying = {}
  /\ reply = [t \in Tabs |-> None]
  /\ journal = {}
  /\ acked = {}

-----------------------------------------------------------------------------
(* assertContext, the checkContext of a command. *)
Bound(t) == page[t] = session

(* The Web Lock of a scope is held by the tab that works on its slot. *)
Locked(s) == \E t \in Tabs : stage[t] # "idle" /\ page[t].scope = s

Begin(t, next) ==
  /\ stage[t] = "idle"
  /\ page[t].scope # NoScope
  /\ Bound(t)
  /\ ~Locked(page[t].scope)
  /\ stage' = [stage EXCEPT ![t] = next]
  /\ UNCHANGED <<session, page, flying, reply, journal, acked>>

(* Saved under a new id before anything is sent.  A storage that refuses    *)
(* leaves everything as it was.                                             *)
Confirm(t) ==
  /\ Begin(t, "ready")
  /\ slot[page[t].scope] = None
  /\ Len(home) < MaxCommands
  /\ home' = Append(home, page[t].scope)
  /\ slot' = [slot EXCEPT ![page[t].scope] = Len(home) + 1]
  /\ kind' = [kind EXCEPT ![t] = "confirm"]

Resend(t) ==
  /\ Begin(t, "ready")
  /\ slot[page[t].scope] # None
  /\ kind' = [kind EXCEPT ![t] = "resend"]
  /\ UNCHANGED <<slot, home>>

Reconcile(t) ==
  /\ Begin(t, "looking")
  /\ slot[page[t].scope] # None
  /\ kind' = [kind EXCEPT ![t] = "reconcile"]
  /\ UNCHANGED <<slot, home>>

(* The operation is over and the lock is released; whatever still flies is  *)
(* nobody's.                                                                *)
Abandoned(t) == {IF r.tab = t THEN [r EXCEPT !.tab = NoTab] ELSE r : r \in flying}

Finish(t) ==
  /\ stage' = [stage EXCEPT ![t] = "idle"]
  /\ kind' = [kind EXCEPT ![t] = None]
  /\ reply' = [reply EXCEPT ![t] = None]
  /\ flying' = Abandoned(t)

(* Every failure but a first rejection keeps the slot. *)
Keep(t) ==
  /\ Finish(t)
  /\ UNCHANGED <<slot, acked>>

Forget(t) ==
  /\ Finish(t)
  /\ slot' = [slot EXCEPT ![page[t].scope] = None]
  /\ UNCHANGED acked

(* The entry was verified; the slot is cleared unless the storage refuses.  *)
AcknowledgeCleared(t) ==
  /\ Finish(t)
  /\ slot' = [slot EXCEPT ![page[t].scope] = None]
  /\ acked' = acked \cup {slot'[page[t].scope]}

Acknowledge(t) ==
  /\ Finish(t)
  /\ acked' = acked \cup {slot[page[t].scope]}
  /\ slot' = [slot EXCEPT ![page[t].scope] = None]

-----------------------------------------------------------------------------
(* Sending *)

Dispatch(t, next) ==
  /\ stage' = [stage EXCEPT ![t] = next]
  /\ reply' = [reply EXCEPT ![t] = None]
  /\ flying' = flying \cup {[id |-> slot[page[t].scope], tab |-> t,
                             from |-> page[t], scope |-> NoScope]}
  /\ UNCHANGED <<kind, slot, acked>>

Send(t) ==
  /\ stage[t] = "ready"
  /\ \/ Bound(t) /\ Dispatch(t, "sent")
     \/ ~Bound(t) /\ Keep(t)
  /\ UNCHANGED <<session, page, home, journal>>

(* An answer arrives, or the request is done and nobody waits for it; of    *)
(* requests nobody waits for there may be several alike.                    *)
Answer(r, a) ==
  /\ flying' \in {flying \ {r}} \cup {f \in {flying} : r.tab = NoTab}
  /\ reply' = [t \in Tabs |-> IF t = r.tab THEN a ELSE reply[t]]

(* The browser adds the cookies it has by now; the proxy compares.          *)
ForwardUnchecked(r) ==
  /\ r.scope = NoScope /\ session.scope # NoScope
  /\ flying' = (flying \ {r}) \cup {[r EXCEPT !.scope = session.scope]}
  /\ UNCHANGED <<reply, journal>>

Forward(r) ==
  /\ r.scope = NoScope
  /\ \/ /\ r.from = session
        /\ flying' = (flying \ {r}) \cup {[r EXCEPT !.scope = session.scope]}
        /\ UNCHANGED reply
     \/ /\ r.from # session
        /\ \E a \in {"unauthorized", "failed"} : Answer(r, a)
     \/ \E a \in {"rejected", "failed"} : Answer(r, a)
  /\ UNCHANGED journal

(* The ledger posts once and answers with the entry; the answer may fail    *)
(* after the commit or be mangled on the way.                               *)
Post(r) ==
  /\ r.scope # NoScope
  /\ journal' = journal \cup {[id |-> r.id, scope |-> r.scope]}
  /\ \E a \in {"posted", "malformed", "failed"} : Answer(r, a)

Refuse(r) ==
  /\ r.scope # NoScope
  /\ \E a \in {"rejected", "unauthorized", "failed", "malformed"} : Answer(r, a)
  /\ UNCHANGED journal

Lose(r) ==
  /\ flying' = flying \ {r}
  /\ UNCHANGED <<reply, journal>>

Serve == \E r \in flying :
  /\ Forward(r) \/ Post(r) \/ Refuse(r) \/ Lose(r)
  /\ UNCHANGED <<session, page, stage, kind, slot, home, acked>>

-----------------------------------------------------------------------------
(* Receiving *)

(* verifiedJournal: the entry of this very command. *)
AnySuccess(a) == a \in {"posted", "malformed"}
Verified(a) == a = "posted"

(* Only the first sending's own rejection lets the user edit and confirm    *)
(* anew.                                                                    *)
RejectionEndsAny(t) == reply[t] = "rejected"
RejectionEnds(t) == reply[t] = "rejected" /\ kind[t] = "confirm"

(* A 401 is renewed and sent again once; the renewal may fail instead, and  *)
(* its status stands for the answer.                                        *)
Renew(t) ==
  \/ Dispatch(t, "resent")
  \/ /\ \E a \in {"rejected", "unauthorized", "failed"} : reply' = [reply EXCEPT ![t] = a]
     /\ stage' = [stage EXCEPT ![t] = "resent"]
     /\ UNCHANGED <<kind, flying, slot, acked>>

Receive(t) ==
  /\ stage[t] \in {"sent", "resent"}
  /\ reply[t] # None
  /\ \/ ~Bound(t) /\ Keep(t)
     \/ /\ Bound(t)
        /\ \/ Verified(reply[t]) /\ (Acknowledge(t) \/ Keep(t))
           \/ RejectionEnds(t) /\ (Forget(t) \/ Keep(t))
           \/ reply[t] = "unauthorized" /\ stage[t] = "sent" /\ Renew(t)
           \/ /\ ~Verified(reply[t]) /\ ~RejectionEnds(t)
              /\ reply[t] = "unauthorized" => stage[t] = "resent"
              /\ Keep(t)
  /\ UNCHANGED <<session, page, home, journal>>

(* The answer to a lookup: the entry, its absence, or no answer. *)
Look(t) ==
  /\ stage[t] = "looking"
  /\ \/ /\ Bound(t)
        /\ [id |-> slot[page[t].scope], scope |-> page[t].scope] \in journal
        /\ Acknowledge(t)
     \/ Keep(t)
  /\ UNCHANGED <<session, page, home, journal>>

(* sessionRequest gives up by itself, and a connection may fail. *)
TimesOutOnce(t) == stage[t] = "sent"
TimesOut(t) == stage[t] \in {"sent", "resent"}

GiveUp(t) ==
  /\ TimesOut(t)
  /\ Keep(t)
  /\ UNCHANGED <<session, page, home, journal>>

(* A page is loaded: a reload, a closed tab opened again, a login boundary. *)
Reload(t) ==
  /\ page' = [page EXCEPT ![t] = session]
  /\ Keep(t)
  /\ UNCHANGED <<session, home, journal>>

(* Login, logout and the choice of an organization replace the cookies.     *)
Switch == \E s \in Scopes \cup {NoScope} :
  /\ session.context < MaxSessions
  /\ session' = [context |-> session.context + 1, scope |-> s]
  /\ UNCHANGED <<page, stage, kind, slot, home, flying, reply, journal, acked>>

Operate(t) == Send(t) \/ Receive(t) \/ Look(t) \/ GiveUp(t)

Next ==
  \/ \E t \in Tabs : Confirm(t) \/ Resend(t) \/ Reconcile(t) \/ Operate(t) \/ Reload(t)
  \/ Serve
  \/ Switch

Spec == Init /\ [][Next]_vars

(* A page runs its own code and its timers; nothing is assumed of the       *)
(* network, the servers or the user.                                        *)
Fairness == \A t \in Tabs : WF_vars(Operate(t))

FairSpec == Spec /\ Fairness

-----------------------------------------------------------------------------
(* Properties *)

(* Every variable has its type; a slot holds a command of its own scope, as *)
(* readPendingJournal insists.                                              *)
TypeOK ==
  /\ session \in Sessions
  /\ page \in [Tabs -> Sessions]
  /\ stage \in [Tabs -> {"idle", "ready", "sent", "resent", "looking"}]
  /\ kind \in [Tabs -> {"confirm", "resend", "reconcile", None}]
  /\ home \in Seq(Scopes) /\ Len(home) <= MaxCommands
  /\ slot \in [Scopes -> (1..Len(home)) \cup {None}]
  /\ \A s \in Scopes : slot[s] # None => home[slot[s]] = s
  /\ flying \subseteq Requests
  /\ reply \in [Tabs -> Answers \cup {None}]
  /\ journal \subseteq [id : 1..Len(home), scope : Scopes]
  /\ acked \subseteq 1..Len(home)

(* ADR 0012: an unknown outcome keeps its identity.  A command that is in   *)
(* the journal, or that a request on its way may still post, has been       *)
(* acknowledged or is still in its slot, where it bars every other command. *)
UncertainIsKept ==
  \A r \in journal \cup flying : r.id \in acked \/ slot[home[r.id]] = r.id

(* A success is shown only for an entry that exists: malformed answers and  *)
(* other sessions' answers are no acknowledgement.                          *)
AcknowledgedIsPosted ==
  \A i \in acked : [id |-> i, scope |-> home[i]] \in journal

(* A command is posted for the user and organization it was confirmed for   *)
(* and no other, once, although the cookies change under it.                *)
PostedWhereConfirmed == \A e \in journal : e.scope = home[e.id]

(* The Web Lock is released again: an operation ends, answered or not.      *)
OperationsEnd == \A t \in Tabs : stage[t] # "idle" ~> stage[t] = "idle"

(* The tabs, the cookies and the network implement one command at a time in *)
(* each scope, posted or given up for good.                                 *)
Promise == INSTANCE JournalPromise
KeepsPromise == Promise!Spec

=============================================================================
