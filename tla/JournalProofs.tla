---------------------------- MODULE JournalProofs ----------------------------
(***************************************************************************)
(* The web journal client never loses track of a command, for any number   *)
(* of tabs, scopes, commands and sessions.  The inductive invariant says   *)
(* what the tab that holds a slot knows: which requests are its own, and   *)
(* that a command it is sending for the first time is nowhere else.        *)
(***************************************************************************)
EXTENDS JournalCommands, TLAPS

Stages == {"idle", "ready", "sent", "resent", "looking"}

(* The command a tab works on. *)
Mine(t) == slot[page[t].scope]

(* An operation holds the lock of a scope with a command in its slot. *)
Holders ==
  /\ \A t \in Tabs : stage[t] # "idle" => page[t].scope \in Scopes /\ Mine(t) # None
  /\ \A t, x \in Tabs : stage[t] # "idle" /\ stage[x] # "idle" /\ page[t].scope = page[x].scope => t = x

(* A request carries a command of the scope it was sent from, and is        *)
(* forwarded there; a tab has one at most, for its command, unanswered.     *)
Requested ==
  /\ flying \subseteq Requests
  /\ \A r \in flying : /\ r.id \in 1..Len(home)
                       /\ r.from.scope = home[r.id]
                       /\ r.scope \in {NoScope, home[r.id]}
  /\ \A r \in flying : r.tab # NoTab => /\ stage[r.tab] \in {"sent", "resent"}
                                        /\ r.id = Mine(r.tab)
                                        /\ reply[r.tab] = None
  /\ \A r, q \in flying : r.tab # NoTab /\ r.tab = q.tab => r = q

(* A command that is being sent for the first time is only in the tab's own *)
(* request, and not in the journal unless the answer may say so.            *)
Fresh == \A t \in Tabs : stage[t] # "idle" /\ kind[t] = "confirm" =>
  /\ \A r \in flying : r.id = Mine(t) => r.tab = t
  /\ reply[t] \in {None, "rejected", "unauthorized"} => \A e \in journal : e.id # Mine(t)

(* A verified answer is true. *)
Truthful == \A t \in Tabs :
  /\ reply[t] # None => stage[t] \in {"sent", "resent"}
  /\ reply[t] = "posted" => [id |-> Mine(t), scope |-> page[t].scope] \in journal

IInv ==
  /\ TypeOK
  /\ Holders
  /\ Requested
  /\ Fresh
  /\ Truthful
  /\ UncertainIsKept
  /\ AcknowledgedIsPosted
  /\ PostedWhereConfirmed

-----------------------------------------------------------------------------
(* The ends of an operation *)

(* A request that is abandoned is still the same request. *)
LEMMA AbandonedOnly ==
  ASSUME NEW t \in Tabs, flying \subseteq Requests, NEW q \in Abandoned(t)
  PROVE  \E r \in flying : /\ q.id = r.id /\ q.from = r.from /\ q.scope = r.scope
                           /\ q \in Requests /\ q.tab # t
                           /\ q = r \/ (r.tab = t /\ q.tab = NoTab)
<1> USE JournalCommandsAssumption
<1>1. PICK r \in flying : q = IF r.tab = t THEN [r EXCEPT !.tab = NoTab] ELSE r
  BY DEF Abandoned
<1>2. CASE r.tab = t
  BY <1>1, <1>2 DEF Requests
<1>3. CASE r.tab # t
  BY <1>1, <1>3
<1> QED
  BY <1>2, <1>3

(* What is common to every end: the tab lets go of its slot and requests.   *)
LEMMA FinishStep ==
  ASSUME IInv, NEW t \in Tabs, Finish(t), UNCHANGED <<session, home, journal>>,
         page' \in [Tabs -> Sessions],
         \A x \in Tabs \ {t} : page'[x] = page[x],
         slot' \in [Scopes -> (1..Len(home)) \cup {None}],
         \A s \in Scopes : slot'[s] # slot[s] => slot'[s] = None /\ stage[t] # "idle" /\ s = page[t].scope,
         acked' \subseteq 1..Len(home),
         acked \subseteq acked',
         \A i \in acked' : [id |-> i, scope |-> home[i]] \in journal,
         \A r \in journal \cup flying : r.id \in acked' \/ slot'[home[r.id]] = r.id
  PROVE  IInv'
<1> USE JournalCommandsAssumption
<1>1. /\ stage' = [stage EXCEPT ![t] = "idle"]
      /\ kind' = [kind EXCEPT ![t] = None]
      /\ reply' = [reply EXCEPT ![t] = None]
      /\ flying' = Abandoned(t)
  BY DEF Finish
<1>2. /\ stage \in [Tabs -> Stages] /\ page \in [Tabs -> Sessions]
      /\ kind \in [Tabs -> {"confirm", "resend", "reconcile", None}]
      /\ reply \in [Tabs -> Answers \cup {None}]
  BY DEF IInv, TypeOK, Stages
<1>3. /\ stage'[t] = "idle" /\ reply'[t] = None
      /\ \A x \in Tabs \ {t} : stage'[x] = stage[x] /\ kind'[x] = kind[x] /\ reply'[x] = reply[x]
  BY <1>1, <1>2
<1>4. \A q \in flying' : \E r \in flying :
         /\ q.id = r.id /\ q.from = r.from /\ q.scope = r.scope
         /\ q \in Requests /\ q.tab # t
         /\ q = r \/ (r.tab = t /\ q.tab = NoTab)
  BY <1>1, AbandonedOnly DEF IInv, Requested
<1>5. \A x \in Tabs \ {t} : stage[x] # "idle" => Mine(x)' = Mine(x)
  <2>1. SUFFICES ASSUME NEW x \in Tabs \ {t}, stage[x] # "idle" PROVE Mine(x)' = Mine(x)
    OBVIOUS
  <2>2. page'[x].scope = page[x].scope /\ page[x].scope \in Scopes
    BY <2>1 DEF IInv, Holders
  <2>3. slot'[page[x].scope] = slot[page[x].scope]
    BY <2>1, <2>2 DEF IInv, Holders
  <2> QED
    BY <2>2, <2>3 DEF Mine
<1>6. TypeOK'
  <2>1. flying' \subseteq Requests
    BY <1>4
  <2>2. \A s \in Scopes : slot'[s] # None => home[slot'[s]] = s
    BY DEF IInv, TypeOK
  <2> QED
    BY <1>1, <1>2, <2>1, <2>2 DEF IInv, TypeOK, Stages
<1>7. Holders'
  BY <1>3, <1>5 DEF IInv, Holders
<1>8. Requested'
  <2>1. \A q \in flying' : /\ q \in Requests
                           /\ q.id \in 1..Len(home)
                           /\ q.from.scope = home[q.id]
                           /\ q.scope \in {NoScope, home[q.id]}
    BY <1>4 DEF IInv, Requested
  <2>2. ASSUME NEW q \in flying', q.tab # NoTab
        PROVE  /\ q \in flying /\ q.tab \in Tabs \ {t}
               /\ stage'[q.tab] \in {"sent", "resent"}
               /\ q.id = Mine(q.tab)'
               /\ reply'[q.tab] = None
    <3>1. q \in flying /\ q.tab \in Tabs \ {t}
      BY <1>4, <2>2 DEF Requests
    <3>2. stage[q.tab] \in {"sent", "resent"} /\ q.id = Mine(q.tab) /\ reply[q.tab] = None
      BY <2>2, <3>1 DEF IInv, Requested
    <3> QED
      BY <1>3, <1>5, <3>1, <3>2
  <2>3. \A r, q \in flying' : r.tab # NoTab /\ r.tab = q.tab => r = q
    BY <2>2 DEF IInv, Requested
  <2> QED
    BY <2>1, <2>2, <2>3 DEF Requested
<1>9. Fresh'
  <2>1. SUFFICES ASSUME NEW x \in Tabs, stage'[x] # "idle", kind'[x] = "confirm"
                 PROVE  /\ \A q \in flying' : q.id = Mine(x)' => q.tab = x
                        /\ reply'[x] \in {None, "rejected", "unauthorized"} =>
                             \A e \in journal' : e.id # Mine(x)'
    BY DEF Fresh
  <2>2. x \in Tabs \ {t} /\ stage[x] # "idle" /\ kind[x] = "confirm"
        /\ reply'[x] = reply[x] /\ Mine(x)' = Mine(x)
    BY <1>3, <1>5, <2>1
  <2>3. \A q \in flying' : q.id = Mine(x) => q.tab = x
    <3>1. SUFFICES ASSUME NEW q \in flying', q.id = Mine(x) PROVE q.tab = x
      OBVIOUS
    <3>2. PICK r \in flying : q.id = r.id /\ (q = r \/ (r.tab = t /\ q.tab = NoTab))
      BY <1>4
    <3>3. r.tab = x
      BY <2>2, <3>1, <3>2 DEF IInv, Fresh
    <3> QED
      BY <2>2, <3>2, <3>3
  <2> QED
    BY <2>2, <2>3 DEF IInv, Fresh
<1>10. Truthful'
  <2>1. SUFFICES ASSUME NEW x \in Tabs, reply'[x] # None
                 PROVE  /\ stage'[x] \in {"sent", "resent"}
                        /\ reply'[x] = "posted" => [id |-> Mine(x)', scope |-> page'[x].scope] \in journal'
    BY DEF Truthful, Answers
  <2>2. x \in Tabs \ {t} /\ stage'[x] = stage[x] /\ reply'[x] = reply[x] /\ page'[x] = page[x]
    BY <1>3, <2>1
  <2>3. stage[x] \in {"sent", "resent"}
    BY <2>1, <2>2 DEF IInv, Truthful
  <2> QED
    BY <1>5, <2>1, <2>2, <2>3 DEF IInv, Truthful
<1>11. UncertainIsKept'
  BY <1>4 DEF UncertainIsKept
<1>12. AcknowledgedIsPosted' /\ PostedWhereConfirmed'
  BY DEF IInv, AcknowledgedIsPosted, PostedWhereConfirmed
<1> QED
  BY <1>6, <1>7, <1>8, <1>9, <1>10, <1>11, <1>12 DEF IInv

LEMMA KeepStep ==
  ASSUME IInv, NEW t \in Tabs, Keep(t), UNCHANGED <<session, page, home, journal>>
  PROVE  IInv'
<1>1. page \in [Tabs -> Sessions] /\ slot \in [Scopes -> (1..Len(home)) \cup {None}]
      /\ acked \subseteq 1..Len(home)
  BY DEF IInv, TypeOK
<1>2. /\ \A i \in acked : [id |-> i, scope |-> home[i]] \in journal
      /\ \A r \in journal \cup flying : r.id \in acked \/ slot[home[r.id]] = r.id
  BY DEF IInv, AcknowledgedIsPosted, UncertainIsKept
<1> QED
  BY <1>1, <1>2, FinishStep DEF Keep

LEMMA ReloadStep ==
  ASSUME IInv, NEW t \in Tabs, Reload(t)
  PROVE  IInv'
<1>1. page \in [Tabs -> Sessions] /\ slot \in [Scopes -> (1..Len(home)) \cup {None}]
      /\ acked \subseteq 1..Len(home) /\ session \in Sessions
  BY DEF IInv, TypeOK
<1>2. page' = [page EXCEPT ![t] = session]
  BY DEF Reload
<1>3. page' \in [Tabs -> Sessions] /\ \A x \in Tabs \ {t} : page'[x] = page[x]
  BY <1>1, <1>2
<1>4. /\ \A i \in acked : [id |-> i, scope |-> home[i]] \in journal
      /\ \A r \in journal \cup flying : r.id \in acked \/ slot[home[r.id]] = r.id
  BY DEF IInv, AcknowledgedIsPosted, UncertainIsKept
<1> QED
  BY <1>1, <1>3, <1>4, FinishStep DEF Reload, Keep

(* A first rejection: the command is neither in the journal nor on its way. *)
LEMMA ForgetStep ==
  ASSUME IInv, NEW t \in Tabs, Forget(t), RejectionEnds(t),
         UNCHANGED <<session, page, home, journal>>
  PROVE  IInv'
<1> USE JournalCommandsAssumption
<1>1. page \in [Tabs -> Sessions] /\ slot \in [Scopes -> (1..Len(home)) \cup {None}]
      /\ acked \subseteq 1..Len(home)
  BY DEF IInv, TypeOK
<1>2. reply[t] = "rejected" /\ kind[t] = "confirm" /\ stage[t] # "idle"
  BY DEF RejectionEnds, IInv, Truthful, Answers
<1>3. page[t].scope \in Scopes
  BY <1>2 DEF IInv, Holders
<1>4. slot' = [slot EXCEPT ![page[t].scope] = None] /\ acked' = acked
  BY DEF Forget
<1>5. /\ slot' \in [Scopes -> (1..Len(home)) \cup {None}]
      /\ \A s \in Scopes : slot'[s] # slot[s] => slot'[s] = None /\ s = page[t].scope
  BY <1>1, <1>4
<1>6. ASSUME NEW r \in journal \cup flying
      PROVE  r.id \in acked \/ slot'[home[r.id]] = r.id
  <2>1. r.id # Mine(t)
    <3>1. CASE r \in journal
      BY <1>2, <3>1 DEF IInv, Fresh
    <3>2. CASE r \in flying
      <4>1. SUFFICES ASSUME r.id = Mine(t) PROVE FALSE
        OBVIOUS
      <4>2. r.tab = t
        BY <1>2, <3>2, <4>1 DEF IInv, Fresh
      <4>3. reply[t] = None
        BY <3>2, <4>2 DEF IInv, Requested
      <4> QED
        BY <1>2, <4>3 DEF Answers
    <3> QED
      BY <3>1, <3>2
  <2>2. r.id \in 1..Len(home) /\ home[r.id] \in Scopes
    BY DEF IInv, TypeOK, Requested
  <2>3. r.id \in acked \/ slot[home[r.id]] = r.id
    BY DEF IInv, UncertainIsKept
  <2> QED
    BY <1>1, <1>4, <2>1, <2>2, <2>3 DEF Mine
<1>7. \A i \in acked : [id |-> i, scope |-> home[i]] \in journal
  BY DEF IInv, AcknowledgedIsPosted
<1> QED
  BY <1>1, <1>2, <1>4, <1>5, <1>6, <1>7, FinishStep DEF Forget

(* A verified entry, of an answer or of a lookup. *)
LEMMA AcknowledgeStep ==
  ASSUME IInv, NEW t \in Tabs, Acknowledge(t), stage[t] # "idle",
         [id |-> Mine(t), scope |-> page[t].scope] \in journal,
         UNCHANGED <<session, page, home, journal>>
  PROVE  IInv'
<1> USE JournalCommandsAssumption
<1>1. page \in [Tabs -> Sessions] /\ slot \in [Scopes -> (1..Len(home)) \cup {None}]
      /\ acked \subseteq 1..Len(home) /\ home \in Seq(Scopes)
  BY DEF IInv, TypeOK
<1>2. page[t].scope \in Scopes /\ Mine(t) # None
  BY DEF IInv, Holders
<1>3. slot' = [slot EXCEPT ![page[t].scope] = None] /\ acked' = acked \cup {Mine(t)}
  BY DEF Acknowledge, Mine
<1>4. Mine(t) \in 1..Len(home) /\ home[Mine(t)] = page[t].scope
  BY <1>1, <1>2 DEF Mine, IInv, TypeOK
<1>5. /\ slot' \in [Scopes -> (1..Len(home)) \cup {None}]
      /\ \A s \in Scopes : slot'[s] # slot[s] => slot'[s] = None /\ s = page[t].scope
      /\ acked' \subseteq 1..Len(home)
  BY <1>1, <1>3, <1>4
<1>6. ASSUME NEW r \in journal \cup flying
      PROVE  r.id \in acked' \/ slot'[home[r.id]] = r.id
  <2>1. r.id \in 1..Len(home) /\ home[r.id] \in Scopes
    BY DEF IInv, TypeOK, Requested
  <2>2. r.id \in acked \/ slot[home[r.id]] = r.id
    BY DEF IInv, UncertainIsKept
  <2> QED
    BY <1>1, <1>3, <2>1, <2>2 DEF Mine
<1>7. \A i \in acked' : [id |-> i, scope |-> home[i]] \in journal
  BY <1>3, <1>4 DEF IInv, AcknowledgedIsPosted
<1> QED
  BY <1>1, <1>3, <1>5, <1>6, <1>7, FinishStep DEF Acknowledge

-----------------------------------------------------------------------------
(* The beginning and the sending *)

(* home keeps the scope of every earlier command. *)
LEMMA Appended ==
  ASSUME NEW S, NEW q \in Seq(S), NEW e \in S
  PROVE  /\ Len(q) \in Nat
         /\ Append(q, e) \in Seq(S)
         /\ Len(Append(q, e)) = Len(q) + 1
         /\ Append(q, e)[Len(q) + 1] = e
         /\ \A i \in 1..Len(q) : Append(q, e)[i] = q[i]
  OBVIOUS

LEMMA BeginStep ==
  ASSUME IInv, NEW t \in Tabs, Confirm(t) \/ Resend(t) \/ Reconcile(t)
  PROVE  IInv'
<1> USE JournalCommandsAssumption
<1> DEFINE s == page[t].scope
<1>1. PICK next \in {"ready", "looking"}, k \in {"confirm", "resend", "reconcile"} :
        /\ Begin(t, next) /\ kind' = [kind EXCEPT ![t] = k]
        /\ \/ /\ k = "confirm" /\ slot[s] = None /\ Len(home) < MaxCommands
              /\ home' = Append(home, s)
              /\ slot' = [slot EXCEPT ![s] = Len(home) + 1]
           \/ /\ k # "confirm" /\ slot[s] # None /\ UNCHANGED <<slot, home>>
  BY DEF Confirm, Resend, Reconcile
<1>2. /\ stage[t] = "idle" /\ s # NoScope /\ ~Locked(s)
      /\ stage' = [stage EXCEPT ![t] = next]
      /\ UNCHANGED <<session, page, flying, reply, journal, acked>>
  BY <1>1 DEF Begin
<1>3. /\ stage \in [Tabs -> Stages] /\ page \in [Tabs -> Sessions]
      /\ kind \in [Tabs -> {"confirm", "resend", "reconcile", None}]
      /\ home \in Seq(Scopes) /\ Len(home) \in Nat
      /\ slot \in [Scopes -> (1..Len(home)) \cup {None}]
  BY DEF IInv, TypeOK, Stages
<1>4. s \in Scopes
  BY <1>2, <1>3 DEF Sessions
<1>5. /\ stage'[t] = next /\ kind'[t] = k
      /\ \A x \in Tabs \ {t} : stage'[x] = stage[x] /\ kind'[x] = kind[x]
  BY <1>1, <1>2, <1>3
<1>6. /\ home' \in Seq(Scopes) /\ Len(home') \in Nat /\ Len(home) <= Len(home')
      /\ Len(home') <= MaxCommands
      /\ \A i \in 1..Len(home) : home'[i] = home[i]
  <2>1. CASE k = "confirm"
    <3>1. home' = Append(home, s) /\ Len(home) < MaxCommands
      BY <1>1, <2>1
    <3> QED
      BY <1>3, <1>4, <3>1, Appended
  <2>2. CASE k # "confirm"
    BY <1>1, <1>3, <2>2 DEF IInv, TypeOK
  <2> QED
    BY <2>1, <2>2
<1>7. /\ slot'[s] # None
      /\ \A z \in Scopes \ {s} : slot'[z] = slot[z]
      /\ slot[s] # None => slot'[s] = slot[s] /\ k # "confirm"
      /\ k = "confirm" => slot[s] = None /\ slot'[s] \notin 1..Len(home)
      /\ slot' \in [Scopes -> (1..Len(home')) \cup {None}]
      /\ \A z \in Scopes : slot'[z] # None => home'[slot'[z]] = z
  <2>1. \A z \in Scopes : slot[z] # None => slot[z] \in 1..Len(home) /\ home[slot[z]] = z
    BY <1>3 DEF IInv, TypeOK
  <2>2. CASE k = "confirm"
    <3>1. /\ slot[s] = None /\ slot' = [slot EXCEPT ![s] = Len(home) + 1]
          /\ home' = Append(home, s)
      BY <1>1, <2>2
    <3>2. home'[Len(home) + 1] = s /\ Len(home') = Len(home) + 1
      BY <1>3, <1>4, <3>1, Appended
    <3>3. slot'[s] = Len(home) + 1 /\ \A z \in Scopes \ {s} : slot'[z] = slot[z]
      BY <1>3, <1>4, <3>1
    <3>4. Len(home) + 1 # None /\ Len(home) + 1 \notin 1..Len(home)
      BY <1>3
    <3>5. slot' \in [Scopes -> (1..Len(home')) \cup {None}]
      BY <1>3, <1>4, <3>1, <3>2
    <3>6. \A z \in Scopes \ {s} : slot'[z] # None => home'[slot'[z]] = z
      BY <1>6, <2>1, <3>3
    <3> QED
      BY <2>2, <3>1, <3>2, <3>3, <3>4, <3>5, <3>6
  <2>3. CASE k # "confirm"
    <3>1. slot' = slot /\ home' = home /\ slot[s] # None
      BY <1>1, <2>3
    <3> QED
      BY <1>3, <2>1, <2>3, <3>1
  <2> QED
    BY <2>2, <2>3
<1>8. TypeOK'
  <2>1. stage' \in [Tabs -> Stages] /\ kind' \in [Tabs -> {"confirm", "resend", "reconcile", None}]
    BY <1>1, <1>2, <1>3 DEF Stages
  <2>2. 1..Len(home) \subseteq 1..Len(home')
    BY <1>3, <1>6
  <2>3. /\ session' \in Sessions /\ page' \in [Tabs -> Sessions]
        /\ flying' \subseteq Requests /\ reply' \in [Tabs -> Answers \cup {None}]
        /\ journal' \subseteq [id : 1..Len(home'), scope : Scopes]
        /\ acked' \subseteq 1..Len(home')
    BY <1>2, <2>2 DEF IInv, TypeOK
  <2> QED
    BY <1>6, <1>7, <2>1, <2>3 DEF TypeOK, Stages
<1>9. \A x \in Tabs \ {t} : stage[x] # "idle" => page[x].scope \in Scopes \ {s} /\ Mine(x)' = Mine(x)
  BY <1>2, <1>7 DEF IInv, Holders, Locked, Mine
<1>10. Holders'
  BY <1>2, <1>4, <1>5, <1>7, <1>9 DEF IInv, Holders, Mine
<1>11. \A r \in flying : r.tab # t
  <2>1. \A r \in flying : r.tab # NoTab => stage[r.tab] \in {"sent", "resent"}
    BY DEF IInv, Requested
  <2> QED
    BY <1>2, <2>1
<1>12. Requested'
  <2>1. \A r \in flying : /\ r.id \in 1..Len(home') /\ r.from.scope = home'[r.id]
                          /\ r.scope \in {NoScope, home'[r.id]}
    BY <1>3, <1>6 DEF IInv, Requested
  <2>2. ASSUME NEW r \in flying, r.tab # NoTab
        PROVE  stage'[r.tab] \in {"sent", "resent"} /\ r.id = Mine(r.tab)' /\ reply'[r.tab] = None
    <3>1. r.tab \in Tabs \ {t}
      BY <1>11, <2>2 DEF IInv, Requested, Requests
    <3>2. stage[r.tab] \in {"sent", "resent"} /\ r.id = Mine(r.tab) /\ reply[r.tab] = None
      BY <2>2 DEF IInv, Requested
    <3> QED
      BY <1>2, <1>5, <1>9, <3>1, <3>2
  <2> QED
    BY <1>2, <2>1, <2>2 DEF IInv, Requested
<1>13. Fresh'
  <2>1. SUFFICES ASSUME NEW x \in Tabs, stage'[x] # "idle", kind'[x] = "confirm"
                 PROVE  /\ \A r \in flying : r.id = Mine(x)' => r.tab = x
                        /\ reply[x] \in {None, "rejected", "unauthorized"} =>
                             \A e \in journal : e.id # Mine(x)'
    BY <1>2 DEF Fresh
  <2>2. CASE x # t
    BY <1>5, <1>9, <2>1, <2>2 DEF IInv, Fresh
  <2>3. CASE x = t
    <3>1. Mine(t)' \notin 1..Len(home)
      BY <1>2, <1>5, <1>7, <2>1, <2>3 DEF Mine
    <3>2. /\ \A r \in flying : r.id \in 1..Len(home)
          /\ \A e \in journal : e.id \in 1..Len(home)
      BY DEF IInv, TypeOK, Requested
    <3> QED
      BY <2>3, <3>1, <3>2
  <2> QED
    BY <2>2, <2>3
<1>14. Truthful'
  <2>1. SUFFICES ASSUME NEW x \in Tabs, reply[x] # None
                 PROVE  /\ stage'[x] \in {"sent", "resent"}
                        /\ reply[x] = "posted" => [id |-> Mine(x)', scope |-> page[x].scope] \in journal
    BY <1>2 DEF Truthful, Answers
  <2>2. stage[x] \in {"sent", "resent"} /\ x # t
    BY <1>2, <2>1 DEF IInv, Truthful
  <2> QED
    BY <1>5, <1>9, <2>1, <2>2 DEF IInv, Truthful
<1>15. UncertainIsKept'
  <2>1. SUFFICES ASSUME NEW r \in journal \cup flying, r.id \notin acked
                 PROVE  slot'[home'[r.id]] = r.id
    BY <1>2 DEF UncertainIsKept
  <2>2. r.id \in 1..Len(home) /\ home[r.id] \in Scopes
    BY DEF IInv, TypeOK, Requested
  <2>3. slot[home[r.id]] = r.id
    BY <2>1 DEF IInv, UncertainIsKept
  <2> QED
    BY <1>3, <1>6, <1>7, <2>2, <2>3
<1>16. AcknowledgedIsPosted' /\ PostedWhereConfirmed'
  BY <1>2, <1>6 DEF IInv, TypeOK, AcknowledgedIsPosted, PostedWhereConfirmed
<1> QED
  BY <1>8, <1>10, <1>12, <1>13, <1>14, <1>15, <1>16 DEF IInv

LEMMA DispatchStep ==
  ASSUME IInv, NEW t \in Tabs, NEW next \in {"sent", "resent"}, Dispatch(t, next),
         stage[t] # "idle", stage[t] = "ready" \/ reply[t] = "unauthorized",
         UNCHANGED <<session, page, home, journal>>
  PROVE  IInv'
<1> USE JournalCommandsAssumption
<1> DEFINE n == [id |-> Mine(t), tab |-> t, from |-> page[t], scope |-> NoScope]
<1>1. /\ stage' = [stage EXCEPT ![t] = next]
      /\ reply' = [reply EXCEPT ![t] = None]
      /\ flying' = flying \cup {n}
      /\ UNCHANGED <<session, page, home, journal, kind, slot, acked>>
  BY DEF Dispatch, Mine
<1>2. /\ stage \in [Tabs -> Stages] /\ page \in [Tabs -> Sessions]
      /\ reply \in [Tabs -> Answers \cup {None}]
      /\ slot \in [Scopes -> (1..Len(home)) \cup {None}]
      /\ home \in Seq(Scopes)
  BY DEF IInv, TypeOK, Stages
<1>3. /\ stage'[t] = next /\ reply'[t] = None
      /\ \A x \in Tabs \ {t} : stage'[x] = stage[x] /\ reply'[x] = reply[x]
      /\ \A x \in Tabs : Mine(x)' = Mine(x)
  BY <1>1, <1>2 DEF Mine
<1>4. page[t].scope \in Scopes /\ Mine(t) \in 1..Len(home) /\ home[Mine(t)] = page[t].scope
  BY <1>2 DEF IInv, Holders, Mine, TypeOK
<1>5. n \in Requests /\ n.id = Mine(t) /\ n.tab = t /\ n.from = page[t] /\ n.scope = NoScope
  BY <1>2, <1>4 DEF Requests
<1> HIDE DEF n
<1>6. \A r \in flying : r.tab # t
  <2>1. \A r \in flying : r.tab = t => stage[t] \in {"sent", "resent"} /\ reply[t] = None
    BY DEF IInv, Requested
  <2> QED
    BY <2>1 DEF Answers
<1>7. TypeOK'
  <2>1. stage' \in [Tabs -> Stages] /\ reply' \in [Tabs -> Answers \cup {None}]
    BY <1>1, <1>2 DEF Stages
  <2> QED
    BY <1>1, <1>5, <2>1 DEF IInv, TypeOK, Stages
<1>8. Holders'
  BY <1>1, <1>3 DEF IInv, Holders
<1>9. Requested'
  <2>1. \A r \in flying' : r.tab # NoTab => /\ stage'[r.tab] \in {"sent", "resent"}
                                           /\ r.id = Mine(r.tab)'
                                           /\ reply'[r.tab] = None
    <3>1. \A r \in flying : r.tab # NoTab => r.tab \in Tabs \ {t}
      BY <1>6 DEF IInv, Requested, Requests
    <3> QED
      BY <1>1, <1>3, <1>5, <3>1 DEF IInv, Requested
  <2>2. \A r, q \in flying' : r.tab # NoTab /\ r.tab = q.tab => r = q
    BY <1>1, <1>5, <1>6 DEF IInv, Requested
  <2>3. flying' \subseteq Requests
    BY <1>1, <1>5 DEF IInv, Requested
  <2>4. \A r \in flying' : /\ r.id \in 1..Len(home)
                           /\ r.from.scope = home[r.id]
                           /\ r.scope \in {NoScope, home[r.id]}
    BY <1>1, <1>4, <1>5 DEF IInv, Requested
  <2> QED
    BY <1>1, <2>1, <2>2, <2>3, <2>4 DEF Requested
<1>10. Fresh'
  <2>1. SUFFICES ASSUME NEW x \in Tabs, stage'[x] # "idle", kind[x] = "confirm"
                 PROVE  /\ \A r \in flying' : r.id = Mine(x) => r.tab = x
                        /\ reply'[x] \in {None, "rejected", "unauthorized"} =>
                             \A e \in journal : e.id # Mine(x)
    BY <1>1, <1>3 DEF Fresh
  <2>2. stage[x] # "idle"
    BY <1>3, <2>1
  <2>3. Mine(x) = Mine(t) => x = t
    BY <1>4, <2>2 DEF IInv, Holders, TypeOK, Mine
  <2>4. \A r \in flying' : r.id = Mine(x) => r.tab = x
    BY <1>1, <1>5, <2>1, <2>2, <2>3 DEF IInv, Fresh
  <2>5. reply[t] \in {None, "unauthorized"}
    BY DEF IInv, Truthful, TypeOK
  <2> QED
    BY <1>3, <2>1, <2>2, <2>4, <2>5 DEF IInv, Fresh
<1>11. Truthful'
  BY <1>1, <1>3 DEF IInv, Truthful, Answers
<1>12. UncertainIsKept'
  BY <1>1, <1>4, <1>5 DEF IInv, UncertainIsKept, Mine
<1>13. AcknowledgedIsPosted' /\ PostedWhereConfirmed'
  BY <1>1 DEF IInv, AcknowledgedIsPosted, PostedWhereConfirmed
<1> QED
  BY <1>7, <1>8, <1>9, <1>10, <1>11, <1>12, <1>13 DEF IInv

(* A renewal that fails puts its own status in the place of the 401. *)
LEMMA RenewalFailedStep ==
  ASSUME IInv, NEW t \in Tabs, NEW a \in {"rejected", "unauthorized", "failed"},
         reply[t] = "unauthorized",
         reply' = [reply EXCEPT ![t] = a],
         stage' = [stage EXCEPT ![t] = "resent"],
         UNCHANGED <<session, page, kind, slot, home, flying, journal, acked>>
  PROVE  IInv'
<1> USE JournalCommandsAssumption
<1>1. stage \in [Tabs -> Stages] /\ reply \in [Tabs -> Answers \cup {None}]
  BY DEF IInv, TypeOK, Stages
<1>2. /\ stage'[t] = "resent" /\ reply'[t] = a
      /\ \A x \in Tabs \ {t} : stage'[x] = stage[x] /\ reply'[x] = reply[x]
      /\ \A x \in Tabs : Mine(x)' = Mine(x)
  BY <1>1 DEF Mine
<1>3. stage[t] # "idle"
  BY DEF IInv, Truthful, Answers
<1>4. \A r \in flying : r.tab # t
  BY DEF IInv, Requested, Answers
<1>5. TypeOK'
  <2>1. stage' \in [Tabs -> Stages] /\ reply' \in [Tabs -> Answers \cup {None}]
    BY <1>1 DEF Stages, Answers
  <2> QED
    BY <2>1 DEF IInv, TypeOK, Stages
<1>6. Holders'
  BY <1>2, <1>3 DEF IInv, Holders
<1>7. Requested'
  <2>1. \A r \in flying : r.tab # NoTab => r.tab \in Tabs \ {t}
    BY <1>4 DEF IInv, Requested, Requests
  <2> QED
    BY <1>2, <2>1 DEF IInv, Requested
<1>8. Fresh'
  BY <1>2, <1>3 DEF IInv, Fresh
<1>9. Truthful'
  BY <1>2 DEF IInv, Truthful, Answers
<1>10. UncertainIsKept' /\ AcknowledgedIsPosted' /\ PostedWhereConfirmed'
  BY DEF IInv, UncertainIsKept, AcknowledgedIsPosted, PostedWhereConfirmed
<1> QED
  BY <1>5, <1>6, <1>7, <1>8, <1>9, <1>10 DEF IInv

-----------------------------------------------------------------------------
(* The other side *)

(* An answer to a request of a tab, and perhaps its entry in the journal.   *)
LEMMA AnswerStep ==
  ASSUME IInv, NEW r \in flying, NEW a \in Answers, Answer(r, a),
         \/ journal' = journal /\ a # "posted"
         \/ /\ r.scope # NoScope
            /\ journal' = journal \cup {[id |-> r.id, scope |-> r.scope]}
            /\ a \in {"posted", "malformed", "failed"},
         UNCHANGED <<session, page, stage, kind, slot, home, acked>>
  PROVE  IInv'
<1> USE JournalCommandsAssumption
<1> DEFINE t == r.tab
<1>1. /\ flying' \subseteq flying
      /\ r.tab # NoTab => flying' = flying \ {r}
      /\ reply' = [x \in Tabs |-> IF x = t THEN a ELSE reply[x]]
  BY DEF Answer
<1>2. /\ r.id \in 1..Len(home) /\ r.scope \in {NoScope, home[r.id]} /\ t \in Tabs \cup {NoTab}
      /\ home \in Seq(Scopes)
  BY DEF IInv, TypeOK, Requested, Requests
<1>3. \A x \in Tabs : Mine(x)' = Mine(x)
  BY DEF Mine
<1>4. t # NoTab => /\ t \in Tabs /\ stage[t] \in {"sent", "resent"} /\ r.id = Mine(t)
                   /\ reply[t] = None /\ \A q \in flying' : q.tab # t
  BY <1>1, <1>2 DEF IInv, Requested
<1>5. \A x \in Tabs : x # t => reply'[x] = reply[x]
  BY <1>1
<1>6. t # NoTab => reply'[t] = a
  BY <1>1, <1>2
<1>7. /\ journal \subseteq journal'
      /\ \A e \in journal' : e \in journal \/ (e.id = r.id /\ e.scope = home[r.id] /\ journal' # journal)
      /\ journal' # journal => /\ [id |-> r.id, scope |-> home[r.id]] \in journal'
                               /\ a \in {"posted", "malformed", "failed"}
      /\ a = "posted" => [id |-> r.id, scope |-> home[r.id]] \in journal'
  BY <1>2
<1>8. TypeOK'
  <2>1. reply' \in [Tabs -> Answers \cup {None}]
    BY <1>1 DEF IInv, TypeOK
  <2>2. home[r.id] \in Scopes
    BY <1>2
  <2>3. journal' \subseteq [id : 1..Len(home), scope : Scopes]
    BY <1>2, <2>2 DEF IInv, TypeOK
  <2> QED
    BY <1>1, <2>1, <2>3 DEF IInv, TypeOK
<1>9. Holders'
  BY <1>3 DEF IInv, Holders
<1>10. Requested'
  <2>1. ASSUME NEW q \in flying', q.tab # NoTab
        PROVE  stage'[q.tab] \in {"sent", "resent"} /\ q.id = Mine(q.tab)' /\ reply'[q.tab] = None
    <3>1. q \in flying /\ q.tab \in Tabs /\ q.tab # t
      BY <1>1, <1>4, <2>1 DEF IInv, Requested, Requests
    <3> QED
      BY <1>3, <1>5, <2>1, <3>1 DEF IInv, Requested
  <2> QED
    BY <1>1, <2>1 DEF IInv, Requested
<1>11. Fresh'
  <2>1. SUFFICES ASSUME NEW x \in Tabs, stage[x] # "idle", kind[x] = "confirm"
                 PROVE  /\ \A q \in flying' : q.id = Mine(x) => q.tab = x
                        /\ reply'[x] \in {None, "rejected", "unauthorized"} =>
                             \A e \in journal' : e.id # Mine(x)
    BY <1>3 DEF Fresh
  <2>2. \A q \in flying : q.id = Mine(x) => q.tab = x
    BY <2>1 DEF IInv, Fresh
  <2>3. CASE x = t
    BY <1>1, <1>4, <1>6, <1>7, <2>1, <2>2, <2>3 DEF IInv, Fresh
  <2>4. CASE x # t
    BY <1>1, <1>5, <1>7, <2>1, <2>2, <2>4 DEF IInv, Fresh
  <2> QED
    BY <2>3, <2>4
<1>12. Truthful'
  <2>1. SUFFICES ASSUME NEW x \in Tabs
                 PROVE  /\ reply'[x] # None => stage[x] \in {"sent", "resent"}
                        /\ reply'[x] = "posted" => [id |-> Mine(x), scope |-> page[x].scope] \in journal'
    BY <1>3 DEF Truthful
  <2>2. CASE x = t
    <3>1. stage[t] \in {"sent", "resent"} /\ r.id = Mine(t) /\ reply'[t] = a
      BY <1>4, <1>6, <2>2
    <3>2. home[Mine(t)] = page[t].scope
      BY <2>2, <3>1 DEF IInv, Holders, TypeOK, Mine
    <3> QED
      BY <1>7, <2>2, <3>1, <3>2
  <2>3. CASE x # t
    BY <1>5, <1>7, <2>3 DEF IInv, Truthful
  <2> QED
    BY <2>2, <2>3
<1>13. UncertainIsKept'
  <2>1. r.id \in acked \/ slot[home[r.id]] = r.id
    BY DEF IInv, UncertainIsKept
  <2> QED
    BY <1>1, <1>7, <2>1 DEF IInv, UncertainIsKept
<1>14. AcknowledgedIsPosted' /\ PostedWhereConfirmed'
  BY <1>7 DEF IInv, AcknowledgedIsPosted, PostedWhereConfirmed
<1> QED
  BY <1>8, <1>9, <1>10, <1>11, <1>12, <1>13, <1>14 DEF IInv

(* The proxy lets a request through to the scope it was sent from. *)
LEMMA ForwardedStep ==
  ASSUME IInv, NEW r \in flying, r.scope = NoScope, r.from = session,
         flying' = (flying \ {r}) \cup {[r EXCEPT !.scope = session.scope]},
         UNCHANGED <<session, page, stage, kind, slot, home, reply, journal, acked>>
  PROVE  IInv'
<1> USE JournalCommandsAssumption
<1> DEFINE n == [r EXCEPT !.scope = session.scope]
<1>1. r \in Requests /\ session \in Sessions /\ r.from.scope = home[r.id]
  BY DEF IInv, TypeOK, Requested
<1>2. /\ n \in Requests /\ n.id = r.id /\ n.tab = r.tab /\ n.from = r.from
      /\ n.scope = home[r.id]
  BY <1>1 DEF Requests, Sessions
<1> HIDE DEF n
<1>3. flying' = (flying \ {r}) \cup {n}
  BY DEF n
<1>4. \A x \in Tabs : Mine(x)' = Mine(x)
  BY DEF Mine
<1>5. TypeOK'
  BY <1>2, <1>3 DEF IInv, TypeOK
<1>6. Holders'
  BY <1>4 DEF IInv, Holders
<1>7. Requested'
  <2>1. \A q \in flying' : q.tab # NoTab => stage[q.tab] \in {"sent", "resent"}
                                           /\ q.id = Mine(q.tab) /\ reply[q.tab] = None
    BY <1>2, <1>3 DEF IInv, Requested
  <2>2. \A q \in flying' : q.tab # NoTab => q.tab \in Tabs
    BY <1>2, <1>3 DEF IInv, Requested, Requests
  <2>3. \A p, q \in flying' : p.tab # NoTab /\ p.tab = q.tab => p = q
    BY <1>2, <1>3 DEF IInv, Requested
  <2>4. flying' \subseteq Requests
    BY <1>2, <1>3 DEF IInv, Requested
  <2>5. \A q \in flying' : /\ q.id \in 1..Len(home)
                           /\ q.from.scope = home[q.id]
                           /\ q.scope \in {NoScope, home[q.id]}
    BY <1>2, <1>3 DEF IInv, Requested
  <2> QED
    BY <1>4, <2>1, <2>2, <2>3, <2>4, <2>5 DEF Requested
<1>8. Fresh'
  BY <1>2, <1>3, <1>4 DEF IInv, Fresh
<1>9. Truthful'
  BY <1>4 DEF IInv, Truthful
<1>10. UncertainIsKept' /\ AcknowledgedIsPosted' /\ PostedWhereConfirmed'
  BY <1>2, <1>3 DEF IInv, UncertainIsKept, AcknowledgedIsPosted, PostedWhereConfirmed
<1> QED
  BY <1>5, <1>6, <1>7, <1>8, <1>9, <1>10 DEF IInv

(* Steps that only lose requests or replace the cookies, and stutters. *)
LEMMA QuietStep ==
  ASSUME IInv, flying' \subseteq flying, session' \in Sessions,
         UNCHANGED <<page, stage, kind, slot, home, reply, journal, acked>>
  PROVE  IInv'
<1>1. TypeOK' /\ Holders'
  BY DEF IInv, TypeOK, Holders, Mine
<1>2. Requested' /\ Fresh' /\ Truthful'
  BY DEF IInv, Requested, Fresh, Truthful, Mine
<1>3. UncertainIsKept' /\ AcknowledgedIsPosted' /\ PostedWhereConfirmed'
  BY DEF IInv, UncertainIsKept, AcknowledgedIsPosted, PostedWhereConfirmed
<1> QED
  BY <1>1, <1>2, <1>3 DEF IInv

LEMMA ServeStep ==
  ASSUME IInv, Serve
  PROVE  IInv'
<1> USE JournalCommandsAssumption
<1>1. PICK r \in flying : /\ Forward(r) \/ Post(r) \/ Refuse(r) \/ Lose(r)
                          /\ UNCHANGED <<session, page, stage, kind, slot, home, acked>>
  BY DEF Serve
<1>2. CASE Forward(r)
  BY <1>1, <1>2, ForwardedStep, AnswerStep DEF Forward, Answers
<1>3. CASE Post(r)
  BY <1>1, <1>3, AnswerStep DEF Post, Answers
<1>4. CASE Refuse(r)
  BY <1>1, <1>4, AnswerStep DEF Refuse, Answers
<1>5. CASE Lose(r)
  BY <1>1, <1>5, QuietStep DEF Lose, IInv, TypeOK
<1> QED
  BY <1>1, <1>2, <1>3, <1>4, <1>5

-----------------------------------------------------------------------------
(* The theorems *)

LEMMA Loaded == Init => IInv
<1> USE JournalCommandsAssumption
<1> SUFFICES ASSUME Init PROVE IInv
  OBVIOUS
<1>1. TypeOK
  BY DEF Init, TypeOK, Sessions
<1>2. Holders /\ Requested /\ Fresh /\ Truthful
  BY DEF Init, Holders, Requested, Fresh, Truthful, Answers
<1>3. UncertainIsKept /\ AcknowledgedIsPosted /\ PostedWhereConfirmed
  BY DEF Init, UncertainIsKept, AcknowledgedIsPosted, PostedWhereConfirmed
<1> QED
  BY <1>1, <1>2, <1>3 DEF IInv

LEMMA OperateStep ==
  ASSUME IInv, NEW t \in Tabs, Operate(t)
  PROVE  IInv'
<1> USE JournalCommandsAssumption
<1>1. CASE Send(t)
  BY <1>1, KeepStep, DispatchStep DEF Send
<1>2. CASE Receive(t)
  <2>1. stage[t] \in {"sent", "resent"} /\ UNCHANGED <<session, page, home, journal>>
    BY <1>2 DEF Receive
  <2>2. CASE Keep(t)
    BY <2>1, <2>2, KeepStep
  <2>3. CASE Verified(reply[t]) /\ Acknowledge(t)
    <3>1. [id |-> Mine(t), scope |-> page[t].scope] \in journal
      BY <2>3 DEF Verified, IInv, Truthful
    <3> QED
      BY <2>1, <2>3, <3>1, AcknowledgeStep
  <2>4. CASE RejectionEnds(t) /\ Forget(t)
    BY <2>1, <2>4, ForgetStep
  <2>5. CASE reply[t] = "unauthorized" /\ Renew(t)
    <3>1. CASE Dispatch(t, "resent")
      BY <2>1, <2>5, <3>1, DispatchStep
    <3>2. CASE ~Dispatch(t, "resent")
      BY <2>1, <2>5, <3>2, RenewalFailedStep DEF Renew
    <3> QED
      BY <3>1, <3>2
  <2> QED
    BY <1>2, <2>2, <2>3, <2>4, <2>5 DEF Receive
<1>3. CASE Look(t)
  <2>1. stage[t] # "idle" /\ UNCHANGED <<session, page, home, journal>>
    BY <1>3 DEF Look
  <2>2. CASE Keep(t)
    BY <2>1, <2>2, KeepStep
  <2>3. CASE Acknowledge(t) /\ [id |-> Mine(t), scope |-> page[t].scope] \in journal
    BY <2>1, <2>3, AcknowledgeStep
  <2> QED
    BY <1>3, <2>2, <2>3 DEF Look, Mine
<1>4. CASE GiveUp(t)
  BY <1>4, KeepStep DEF GiveUp
<1> QED
  BY <1>1, <1>2, <1>3, <1>4 DEF Operate

LEMMA Kept == IInv /\ [Next]_vars => IInv'
<1> SUFFICES ASSUME IInv, [Next]_vars PROVE IInv'
  OBVIOUS
<1>1. CASE UNCHANGED vars
  BY <1>1, QuietStep DEF vars, IInv, TypeOK
<1>2. CASE \E t \in Tabs : Confirm(t) \/ Resend(t) \/ Reconcile(t)
  BY <1>2, BeginStep
<1>3. CASE \E t \in Tabs : Operate(t)
  BY <1>3, OperateStep
<1>4. CASE \E t \in Tabs : Reload(t)
  BY <1>4, ReloadStep
<1>5. CASE Serve
  BY <1>5, ServeStep
<1>6. CASE Switch
  <2>1. session' \in Sessions
    BY <1>6 DEF Switch, Sessions, IInv, TypeOK
  <2> QED
    BY <1>6, <2>1, QuietStep DEF Switch
<1> QED
  BY <1>1, <1>2, <1>3, <1>4, <1>5, <1>6 DEF Next

(* The invariant, for any number of tabs, scopes, commands and sessions.    *)
THEOREM JournalInvariant == Spec => []IInv
<1> QED
  BY Loaded, Kept, PTL DEF Spec

(* Every variable keeps its type, for any tabs, scopes and sessions.        *)
THEOREM TypeCorrect == Spec => []TypeOK
<1>1. IInv => TypeOK
  BY DEF IInv
<1> QED
  BY <1>1, JournalInvariant, PTL

(* The client never gives up a command that is posted or may yet be: it     *)
(* stays in its slot, where it bars a second one, until it is acknowledged. *)
THEOREM DoubtIsKept == Spec => []UncertainIsKept
<1>1. IInv => UncertainIsKept
  BY DEF IInv
<1> QED
  BY <1>1, JournalInvariant, PTL

(* The client shows no success for an entry that does not exist.            *)
THEOREM SuccessIsTrue == Spec => []AcknowledgedIsPosted
<1>1. IInv => AcknowledgedIsPosted
  BY DEF IInv
<1> QED
  BY <1>1, JournalInvariant, PTL

(* A command confirmed for one organization is never posted to another.     *)
THEOREM PostedAtHome == Spec => []PostedWhereConfirmed
<1>1. IInv => PostedWhereConfirmed
  BY DEF IInv
<1> QED
  BY <1>1, JournalInvariant, PTL

-----------------------------------------------------------------------------
(* The promise *)

(* What a tab that ends its operation does to the slot of its scope.        *)
LEMMA ForgetIsDiscard ==
  ASSUME IInv, NEW t \in Tabs, Forget(t), RejectionEnds(t), UNCHANGED <<home, journal>>
  PROVE  Promise!Discard(page[t].scope)
<1>1. reply[t] = "rejected" /\ kind[t] = "confirm" /\ stage[t] # "idle"
  BY JournalCommandsAssumption DEF RejectionEnds, IInv, Truthful, Answers
<1>2. \A e \in journal : e.id # Mine(t)
  BY <1>1 DEF IInv, Fresh
<1>3. Mine(t) # None
  BY <1>1 DEF IInv, Holders
<1> QED
  BY <1>2, <1>3 DEF Forget, Mine, Promise!Discard, Promise!Entry

LEMMA AcknowledgeIsAcknowledge ==
  ASSUME NEW t \in Tabs, Acknowledge(t), UNCHANGED <<home, journal>>,
         [id |-> Mine(t), scope |-> page[t].scope] \in journal
  PROVE  Promise!Acknowledge(page[t].scope)
BY DEF Acknowledge, Mine, Promise!Acknowledge, Promise!Entry

(* An entry that is new is of a command that is still in its slot.          *)
LEMMA PostIsPost ==
  ASSUME IInv, NEW r \in flying, Post(r), UNCHANGED <<slot, home, acked>>
  PROVE  Promise!Next \/ UNCHANGED Promise!commands
<1> DEFINE s == home[r.id]
<1>1. r.id \in 1..Len(home) /\ r.scope = s /\ s \in Scopes
  BY DEF IInv, TypeOK, Requested, Post
<1>2. journal' = journal \cup {[id |-> r.id, scope |-> s]}
  BY <1>1 DEF Post
<1> HIDE DEF s
<1>3. CASE r.id \in acked
  <2>1. [id |-> r.id, scope |-> s] \in journal
    BY <1>3 DEF IInv, AcknowledgedIsPosted, s
  <2> QED
    BY <1>2, <2>1 DEF Promise!commands
<1>4. CASE r.id \notin acked
  <2>1. slot[s] = r.id
    BY <1>4 DEF IInv, UncertainIsKept, s
  <2>2. slot[s] # None
    BY <1>1, <2>1, JournalCommandsAssumption DEF IInv, TypeOK
  <2>3. Promise!Post(s)
    BY <1>2, <2>1, <2>2 DEF Promise!Post, Promise!Entry
  <2> QED
    BY <1>1, <2>3 DEF Promise!Next
<1> QED
  BY <1>3, <1>4

LEMMA PromiseStep ==
  ASSUME IInv, [Next]_vars
  PROVE  Promise!Next \/ UNCHANGED Promise!commands
<1>1. CASE UNCHANGED vars
  BY <1>1 DEF vars, Promise!commands
<1>2. ASSUME NEW t \in Tabs, Confirm(t)
      PROVE  Promise!Next
  <2>1. page[t].scope \in Scopes
    BY <1>2 DEF Confirm, Begin, IInv, TypeOK, Sessions
  <2>2. Len(home') = Len(home) + 1
    BY <1>2, <2>1 DEF Confirm, IInv, TypeOK
  <2>3. Promise!Confirm(page[t].scope)
    BY <1>2, <2>2 DEF Confirm, Begin, Promise!Confirm
  <2> QED
    BY <2>1, <2>3 DEF Promise!Next
<1>3. ASSUME NEW t \in Tabs, Resend(t) \/ Reconcile(t) \/ Reload(t) \/ GiveUp(t)
      PROVE  UNCHANGED Promise!commands
  BY <1>3 DEF Resend, Reconcile, Begin, Reload, GiveUp, Keep, Promise!commands
<1>4. ASSUME NEW t \in Tabs, Send(t) \/ Receive(t) \/ Look(t)
      PROVE  Promise!Next \/ UNCHANGED Promise!commands
  <2>1. UNCHANGED <<home, journal>>
    BY <1>4 DEF Send, Receive, Look
  <2>2. \/ UNCHANGED <<slot, acked>>
        \/ RejectionEnds(t) /\ Forget(t)
        \/ Acknowledge(t) /\ stage[t] # "idle" /\ [id |-> Mine(t), scope |-> page[t].scope] \in journal
    BY <1>4 DEF Send, Receive, Look, Dispatch, Keep, Renew, Verified, Mine, IInv, Truthful
  <2>3. CASE UNCHANGED <<slot, acked>>
    BY <2>1, <2>3 DEF Promise!commands
  <2>4. CASE ~ UNCHANGED <<slot, acked>>
    <3>1. stage[t] # "idle"
      BY <2>2, <2>4, JournalCommandsAssumption DEF RejectionEnds, IInv, Truthful, Answers
    <3>2. page[t].scope \in Scopes
      BY <3>1 DEF IInv, Holders
    <3>3. Promise!Discard(page[t].scope) \/ Promise!Acknowledge(page[t].scope)
      BY <2>1, <2>2, <2>4, ForgetIsDiscard, AcknowledgeIsAcknowledge
    <3> QED
      BY <3>2, <3>3 DEF Promise!Next
  <2> QED
    BY <2>3, <2>4
<1>5. ASSUME NEW r \in flying, Forward(r) \/ Post(r) \/ Refuse(r) \/ Lose(r),
             UNCHANGED <<session, page, stage, kind, slot, home, acked>>
      PROVE  Promise!Next \/ UNCHANGED Promise!commands
  <2>1. CASE Post(r)
    BY <1>5, <2>1, PostIsPost
  <2>2. CASE ~ Post(r)
    BY <1>5, <2>2 DEF Forward, Refuse, Lose, Promise!commands
  <2> QED
    BY <2>1, <2>2
<1>6. CASE Switch
  BY <1>6 DEF Switch, Promise!commands
<1> QED
  BY <1>1, <1>2, <1>3, <1>4, <1>5, <1>6 DEF Next, Operate, Serve

(* The web client's protocol implements the commands of JournalPromise:     *)
(* only the command in a scope's slot is ever posted, and it leaves the     *)
(* slot acknowledged, or rejected and never posted.                         *)
THEOREM JournalKeepsPromise == Spec => KeepsPromise
<1>1. Init => Promise!Init
  BY DEF Init, Promise!Init
<1>2. IInv /\ [Next]_vars => [Promise!Next]_(Promise!commands)
  BY PromiseStep
<1> QED
  BY <1>1, <1>2, JournalInvariant, PTL DEF Spec, KeepsPromise, Promise!Spec

-----------------------------------------------------------------------------
(* What the promise is worth: no doubt is lost and no success is invented *)

(* A posted command is acknowledged or still in doubt, as the scopes keep   *)
(* their commands.                                                          *)
PromiseInv ==
  /\ home \in Seq(Scopes)
  /\ \A s \in Scopes : slot[s] # None => slot[s] \in 1..Len(home) /\ home[slot[s]] = s
  /\ slot \in [Scopes -> Nat \cup {None}]
  /\ journal \subseteq [id : 1..Len(home), scope : Scopes]
  /\ acked \subseteq 1..Len(home)
  /\ \A e \in journal : e.id \in acked \/ slot[home[e.id]] = e.id
  /\ AcknowledgedIsPosted
  /\ PostedWhereConfirmed

LEMMA PromiseConfirms ==
  ASSUME PromiseInv, NEW s \in Scopes, Promise!Confirm(s)
  PROVE  PromiseInv'
<1>1. /\ slot[s] = None /\ home' = Append(home, s) /\ slot' = [slot EXCEPT ![s] = Len(home')]
      /\ journal' = journal /\ acked' = acked
  BY DEF Promise!Confirm
<1>2. /\ home' \in Seq(Scopes) /\ Len(home) \in Nat /\ Len(home') = Len(home) + 1
      /\ home'[Len(home) + 1] = s
      /\ \A i \in 1..Len(home) : home'[i] = home[i] /\ i \in 1..Len(home')
  BY <1>1 DEF PromiseInv
<1>3. /\ slot'[s] = Len(home') /\ \A r \in Scopes \ {s} : slot'[r] = slot[r]
      /\ slot' \in [Scopes -> Nat \cup {None}]
  BY <1>1, <1>2 DEF PromiseInv
<1>4. \A r \in Scopes : slot'[r] # None => slot'[r] \in 1..Len(home') /\ home'[slot'[r]] = r
  BY <1>2, <1>3 DEF PromiseInv
<1>5. \A e \in journal : e.id \in 1..Len(home) /\ e.scope \in Scopes
  BY DEF PromiseInv
<1>6. \A e \in journal : e.id \in acked \/ slot'[home'[e.id]] = e.id
  <2> TAKE e \in journal
  <2>1. e.id \in 1..Len(home) /\ home'[e.id] = home[e.id] /\ home[e.id] \in Scopes
    BY <1>2, <1>5 DEF PromiseInv
  <2>2. home[e.id] = s => e.id \in acked
    BY <1>1, <2>1, JournalCommandsAssumption DEF PromiseInv
  <2> QED
    BY <1>3, <2>1, <2>2 DEF PromiseInv
<1>7. journal' \subseteq [id : 1..Len(home'), scope : Scopes] /\ acked' \subseteq 1..Len(home')
  BY <1>1, <1>2 DEF PromiseInv
<1>8. AcknowledgedIsPosted'
  <2>1. \A i \in acked : home'[i] = home[i]
    BY <1>2 DEF PromiseInv
  <2> QED
    BY <1>1, <2>1 DEF PromiseInv, AcknowledgedIsPosted
<1>9. PostedWhereConfirmed'
  BY <1>1, <1>2, <1>5 DEF PromiseInv, PostedWhereConfirmed
<1> QED
  BY <1>1, <1>2, <1>3, <1>4, <1>6, <1>7, <1>8, <1>9 DEF PromiseInv

LEMMA PromisePosts ==
  ASSUME PromiseInv, NEW s \in Scopes, Promise!Post(s)
  PROVE  PromiseInv'
<1> DEFINE e == [id |-> slot[s], scope |-> s]
<1>1. slot[s] # None /\ journal' = journal \cup {e} /\ home' = home /\ slot' = slot /\ acked' = acked
  BY DEF Promise!Post, Promise!Entry
<1>2. slot[s] \in 1..Len(home) /\ home[slot[s]] = s /\ e.id = slot[s] /\ e.scope = s
      /\ e \in [id : 1..Len(home), scope : Scopes]
  BY <1>1 DEF PromiseInv
<1> HIDE DEF e
<1> QED
  BY <1>1, <1>2 DEF PromiseInv, AcknowledgedIsPosted, PostedWhereConfirmed

LEMMA PromiseEmpties ==
  ASSUME PromiseInv, NEW s \in Scopes, Promise!Acknowledge(s) \/ Promise!Discard(s)
  PROVE  PromiseInv'
<1> DEFINE e == [id |-> slot[s], scope |-> s]
<1>1. /\ slot' = [slot EXCEPT ![s] = None] /\ journal' = journal /\ home' = home
      /\ \/ e \in journal /\ acked' = acked \cup {slot[s]}
         \/ slot[s] # None /\ e \notin journal /\ acked' = acked
  BY DEF Promise!Acknowledge, Promise!Discard, Promise!Entry
<1>2. /\ slot'[s] = None /\ \A r \in Scopes \ {s} : slot'[r] = slot[r]
      /\ slot' \in [Scopes -> Nat \cup {None}]
  BY <1>1 DEF PromiseInv
<1>3. \A f \in journal : f.id \in 1..Len(home) /\ f.scope = home[f.id] /\ f.scope \in Scopes
                         /\ f = [id |-> f.id, scope |-> f.scope]
  BY DEF PromiseInv, PostedWhereConfirmed
<1>4. e \in journal => e.id \in 1..Len(home) /\ home[e.id] = s /\ e.id = slot[s]
  BY <1>3
<1>5. \A f \in journal : f.id \in acked' \/ slot'[home[f.id]] = f.id
  <2> TAKE f \in journal
  <2>1. CASE f.scope = s /\ f.id = slot[s]
    <3>1. f = e
      BY <1>3, <2>1
    <3> QED
      BY <1>1, <2>1, <3>1
  <2>2. CASE ~ (f.scope = s /\ f.id = slot[s])
    BY <1>1, <1>2, <1>3, <2>2 DEF PromiseInv
  <2> QED
    BY <2>1, <2>2
<1>6. acked' \subseteq 1..Len(home) /\ AcknowledgedIsPosted'
  <2>1. CASE e \in journal /\ acked' = acked \cup {slot[s]}
    BY <1>1, <1>4, <2>1 DEF PromiseInv, AcknowledgedIsPosted
  <2>2. CASE acked' = acked
    BY <1>1, <2>2 DEF PromiseInv, AcknowledgedIsPosted
  <2> QED
    BY <1>1, <2>1, <2>2
<1> QED
  BY <1>1, <1>2, <1>5, <1>6 DEF PromiseInv, PostedWhereConfirmed

(* Whatever keeps the promise acknowledges only what is posted, posts where *)
(* the command was confirmed, and keeps a posted command in doubt until it  *)
(* is acknowledged.                                                         *)
THEOREM PromiseKeepsDoubt ==
  KeepsPromise =>
    []/\ AcknowledgedIsPosted
      /\ PostedWhereConfirmed
      /\ \A e \in journal : e.id \in acked \/ slot[home[e.id]] = e.id
<1>1. Promise!Init => PromiseInv
  BY DEF Promise!Init, PromiseInv, AcknowledgedIsPosted, PostedWhereConfirmed
<1>2. PromiseInv /\ [Promise!Next]_(Promise!commands) => PromiseInv'
  <2> SUFFICES ASSUME PromiseInv, [Promise!Next]_(Promise!commands) PROVE PromiseInv'
    OBVIOUS
  <2>1. CASE UNCHANGED Promise!commands
    BY <2>1 DEF Promise!commands, PromiseInv, AcknowledgedIsPosted, PostedWhereConfirmed
  <2> QED
    BY <2>1, PromiseConfirms, PromisePosts, PromiseEmpties DEF Promise!Next
<1>3. PromiseInv => /\ AcknowledgedIsPosted
                    /\ PostedWhereConfirmed
                    /\ \A e \in journal : e.id \in acked \/ slot[home[e.id]] = e.id
  BY DEF PromiseInv
<1> QED
  BY <1>1, <1>2, <1>3, PTL DEF KeepsPromise, Promise!Spec


=============================================================================
