------------------------------ MODULE WebProofs ------------------------------
(***************************************************************************)
(* The web session for any number of tabs, calls, tokens and contexts: the *)
(* server keeps its families, concurrent tabs never sign one another out,  *)
(* a logout ends its family, and the context cookie names the account.     *)
(*                                                                         *)
(* The inductive invariant says what the Web Lock buys: the one client     *)
(* that holds it is the only one whose request can touch the token in the  *)
(* cookies, unless an answer was lost before (the family is disturbed).    *)
(***************************************************************************)
EXTENDS WebSession, RefreshProofs

(* The stage in which a client waits for the answer to an operation. *)
StageOf(op) == [login |-> "entering", refresh |-> "renewing", logout |-> "leaving"][op]

Broken(t) == tokens[t].family \in disturbed

(* One client at a time has the Web Lock. *)
Exclusive == \A c, d \in Clients : stage[c] \in Locked /\ stage[d] \in Locked => c = d

(* A request is of the client that waits for it, about the cookies' token,  *)
(* or belongs to nobody and its family is disturbed.                        *)
Requested ==
  /\ \A r \in requests : r.op = "login" <=> r.token = 0
  /\ \A r \in requests : r.client \in Clients =>
       /\ stage[r.client] = StageOf(r.op)
       /\ answer[r.client] = NoAnswer
       /\ r.token # 0 => r.token = cookies.refresh
  /\ \A r \in requests : r.client = NoClient /\ r.token # 0 => Broken(r.token)
  /\ \A q, r \in requests : q.client = r.client /\ q.client \in Clients => q = r

(* A client that holds the lock for a session still has that session. *)
Bound ==
  \A c \in Clients :
    /\ stage[c] \in {"rejected", "logout", "organization"} \cup (Locked \ {"entering"}) => expected[c] # 0
    /\ stage[c] \in Locked \ {"entering"} => SameContext(c)

(* A client that waits for the server has a request there or an answer. *)
Awaited ==
  \A c \in Clients : stage[c] \in {"entering", "renewing", "leaving"} =>
    answer[c] # NoAnswer \/ \E r \in requests : r.client = c

(* What an answer means for the families that are not disturbed. *)
Meaning(c) ==
  /\ answer[c].status # "none"
  /\ stage[c] \in {"entering", "renewing", "leaving"}
  /\ stage[c] = "entering" /\ answer[c].status = "ok" =>
       answer[c].token # 0 /\ (answer[c].token \in Live \/ Broken(answer[c].token))
  /\ stage[c] = "renewing" =>
       /\ answer[c].token # 0
       /\ tokens[answer[c].token].family = tokens[cookies.refresh].family
       /\ answer[c].status = "ok" => answer[c].token \in Live \/ Broken(answer[c].token)
       /\ answer[c].status = "rejected" => Broken(answer[c].token)
  /\ stage[c] = "leaving" =>
       /\ answer[c].token = cookies.refresh
       /\ HeldBy(tokens[cookies.refresh].family) = {} \/ Broken(cookies.refresh)

Answered == \A c \in Clients : answer[c] # NoAnswer => Meaning(c)

(* The token in the cookies can be exchanged, or the lock's holder has just *)
(* exchanged or revoked it.                                                 *)
CookieLive ==
  cookies.refresh # 0 =>
    \/ cookies.refresh \in Live
    \/ Broken(cookies.refresh)
    \/ \E c \in Clients : stage[c] \in {"renewing", "leaving"} /\ answer[c].status = "ok"

IInv ==
  /\ TypeOK
  /\ ServerInv
  /\ Exclusive
  /\ Requested
  /\ Bound
  /\ Awaited
  /\ Answered
  /\ CookieLive
  /\ ContextNamesAccount
  /\ LogoutEndsFamily

-----------------------------------------------------------------------------
(* Steps of the server *)

Asking == {"entering", "renewing", "leaving"}

(* The table changes only in disturbed families, or by a new family. *)
Harmless ==
  /\ Changes
  /\ disturbed \subseteq disturbed'
  /\ \A t \in Tokens : ~ Broken(t)' => tokens'[t].status = tokens[t].status
  /\ \A t \in Tokens' \ Tokens : Broken(t)' \/ tokens'[t].family = t

LEMMA StillHarmless ==
  ASSUME UNCHANGED tokens, disturbed \subseteq disturbed'
  PROVE  Harmless
BY DEF Harmless, Changes, Tokens

(* The browser's variables keep their types while the table grows. *)
LEMMA BrowserTypes ==
  ASSUME IInv, ServerInv', Growth, UNCHANGED browser
  PROVE  TypeOK'
<1>1. Tokens \subseteq Tokens' /\ Families \subseteq Families'
  BY DEF Growth
<1>2. opened \in Seq(Families) /\ Len(opened) <= MaxContexts
  BY DEF IInv, TypeOK
<1>3. opened \in Seq(Families')
  BY <1>1, <1>2
<1>4. cookies = NoCookies
      \/ cookies \in [context : 1..Len(opened), access : Tokens', refresh : Tokens']
  <2>1. CASE cookies = NoCookies
    BY <2>1
  <2>2. CASE cookies \in [context : 1..Len(opened), access : Tokens, refresh : Tokens]
    BY <1>1, <2>2
  <2> QED
    BY <2>1, <2>2 DEF IInv, TypeOK
<1> QED
  BY <1>2, <1>3, <1>4 DEF IInv, TypeOK, ServerInv, browser, NoCookies

(* The facts of the cookies a proof needs.                                  *)
LEMMA CookieFacts ==
  ASSUME IInv
  PROVE  /\ 0 \notin Tokens /\ Len(tokens) \in Nat
         /\ cookies.refresh \in Tokens \cup {0} /\ cookies.access \in Tokens \cup {0}
         /\ cookies.context \in Nat
         /\ cookies.context # 0 => cookies.refresh \in Tokens /\ cookies.access \in Tokens
                                   /\ cookies.context \in 1..Len(opened)
         /\ cookies.context = 0 => cookies.refresh = 0
         /\ opened \in Seq(Families) /\ Len(opened) \in Nat
BY DEF IInv, TypeOK, ServerTypeOK, NoCookies, Tokens

(* A harmless step leaves the given answers and the cookies what they mean. *)
LEMMA HarmlessStep ==
  ASSUME IInv, ServerInv', Harmless, UNCHANGED <<browser, left>>,
         \A c \in Clients : answer[c] # NoAnswer => answer'[c] = answer[c]
  PROVE  /\ \A c \in Clients : answer[c] # NoAnswer => Meaning(c)'
         /\ CookieLive' /\ LogoutEndsFamily' /\ ContextNamesAccount' /\ TypeOK'
         /\ Exclusive' /\ Bound'
<1>1. Growth
  BY Grows DEF Harmless, IInv, ServerInv
<1>2. \A t \in Tokens : t \in Tokens' /\ tokens'[t].family = tokens[t].family
                        /\ (Broken(t) => Broken(t)')
  BY <1>1 DEF Growth, SameFamilies, Broken, Harmless
<1>3. \A t \in Tokens : t \in Live => t \in Live' \/ Broken(t)'
  BY <1>2 DEF Live, Harmless
<1>4. \A t \in Live' : Broken(t)' \/ t \in Live \/ t \notin Tokens
  BY <1>2 DEF Live, Harmless
<1>5. 0 \notin Tokens /\ cookies.refresh \in Tokens \cup {0} /\ UNCHANGED <<cookies, stage, expected>>
  BY CookieFacts DEF browser
<1>6. \A c \in Clients : answer[c].token \in Tokens \cup {0}
  BY DEF IInv, ServerInv, ServerTypeOK
<1>7. \A t \in Tokens : HeldBy(tokens[t].family) = {} => HeldBy(tokens[t].family)' = {} \/ Broken(t)'
  <2> SUFFICES ASSUME NEW t \in Tokens, HeldBy(tokens[t].family) = {}, ~ Broken(t)',
                      NEW u \in Live', tokens'[u].family = tokens'[t].family
               PROVE  FALSE
    BY DEF HeldBy
  <2>1. ~ Broken(u)'
    BY DEF Broken
  <2>2. CASE u \in Live
    BY <1>2, <2>2 DEF HeldBy, Live
  <2>3. CASE u \notin Tokens
    <3>1. tokens'[u].family = u
      BY <2>1, <2>3 DEF Harmless, Live
    <3>2. tokens[t].family \in Tokens
      BY DEF IInv, ServerInv, ServerTypeOK, Families
    <3> QED
      BY <1>2, <2>3, <3>1, <3>2
  <2> QED
    BY <1>4, <2>1, <2>2, <2>3
<1>8. ASSUME NEW c \in Clients, answer[c] # NoAnswer PROVE Meaning(c)'
  <2>1. stage[c] \in Locked \ {"entering"} => cookies.refresh \in Tokens
    BY <1>5, CookieFacts DEF IInv, Bound, SameContext
  <2> QED
    BY <1>2, <1>3, <1>5, <1>6, <1>7, <1>8, <2>1 DEF IInv, Answered, Meaning, Locked
<1>9. CookieLive'
  BY <1>2, <1>3, <1>5 DEF CookieLive, IInv, NoAnswer
<1>10. LogoutEndsFamily'
  <2> SUFFICES ASSUME NEW t \in Live', tokens'[t].family \in left, ~ Broken(t)'
               PROVE  FALSE
    BY DEF LogoutEndsFamily, Broken
  <2>1. CASE t \in Live
    BY <1>2, <2>1 DEF IInv, LogoutEndsFamily, Broken, Live
  <2>2. CASE t \notin Tokens
    <3>1. tokens'[t].family = t
      BY <2>2 DEF Harmless, Live
    <3> QED
      BY <2>2, <3>1 DEF IInv, ServerInv, ServerTypeOK, Families
  <2> QED
    BY <1>4, <2>1, <2>2
<1>11. ContextNamesAccount'
  BY <1>2, CookieFacts DEF ContextNamesAccount, IInv, browser
<1>12. TypeOK'
  BY <1>1, BrowserTypes
<1>13. Exclusive' /\ Bound'
  BY DEF Exclusive, Bound, SameContext, IInv, browser
<1> QED
  BY <1>8, <1>9, <1>10, <1>11, <1>12, <1>13

(* A request that is over: the others stay what they were. *)
LEMMA Replied ==
  ASSUME IInv, Growth, disturbed \subseteq disturbed', NEW r \in requests,
         NEW s \in {"ok", "rejected", "failed"}, NEW t, Reply(r, s, t), UNCHANGED browser
  PROVE  /\ Requested' /\ Awaited'
         /\ \A c \in Clients : answer[c] # NoAnswer => answer'[c] = answer[c]
         /\ r.client \in Clients => /\ answer'[r.client] = [status |-> s, token |-> t]
                                    /\ answer'[r.client] # NoAnswer
                                    /\ \A c \in Clients : answer[c] = NoAnswer
                                    /\ \A c \in Clients \ {r.client} : answer'[c] = NoAnswer
         /\ r.client = NoClient => UNCHANGED answer
<1>1. answer \in [Clients -> [status : {"none", "ok", "rejected", "failed"}, token : Tokens \cup {0}]]
      /\ requests \subseteq Requests
  BY DEF IInv, ServerInv, ServerTypeOK
<1>2. r.client \in Clients => answer'[r.client] = [status |-> s, token |-> t] /\ answer'[r.client] # NoAnswer
  BY <1>1, TokensAssumption DEF Reply, NoAnswer
<1>3. \A c \in Clients \ {r.client} : answer'[c] = answer[c]
  BY <1>1 DEF Reply
<1>4. r.client \in Clients => \A c \in Clients : answer[c] = NoAnswer
  <2> SUFFICES ASSUME r.client \in Clients, NEW c \in Clients, answer[c] # NoAnswer PROVE FALSE
    OBVIOUS
  <2>1. stage[r.client] \in Locked /\ answer[r.client] = NoAnswer
    BY <1>1 DEF IInv, Requested, StageOf, Requests, Operations, Locked
  <2>2. stage[c] \in Locked
    BY DEF IInv, Answered, Meaning, Locked
  <2> QED
    BY <2>1, <2>2 DEF IInv, Exclusive
<1>5. \A q \in requests : q.token \in Tokens \cup {0} /\ (q.token # 0 /\ Broken(q.token) => Broken(q.token)')
  BY <1>1 DEF Growth, SameFamilies, Broken, Requests
<1>6. requests' = requests \ {r} /\ UNCHANGED <<stage, cookies>>
  BY DEF Reply, browser
<1>7. Requested'
  <2>1. \A q \in requests' : q.client \in Clients => q.client # r.client /\ answer'[q.client] = answer[q.client]
    BY <1>3, <1>6 DEF IInv, Requested
  <2> QED
    BY <1>5, <1>6, <2>1 DEF IInv, Requested
<1>8. Awaited'
  BY <1>2, <1>3, <1>4, <1>6 DEF IInv, Awaited
<1> QED
  BY <1>1, <1>2, <1>3, <1>4, <1>7, <1>8 DEF Reply

(* An answer that reaches a client, after a harmless step.                  *)
LEMMA AnswerStep ==
  ASSUME IInv, ServerInv', Harmless, UNCHANGED <<browser, left>>, NEW r \in requests,
         NEW s \in {"ok", "rejected", "failed"}, NEW t, Reply(r, s, t),
         r.client \in Clients => Meaning(r.client)'
  PROVE  IInv'
<1>1. Growth /\ disturbed \subseteq disturbed'
  BY Grows DEF Harmless, IInv, ServerInv
<1>2. /\ Requested' /\ Awaited'
      /\ \A c \in Clients : answer[c] # NoAnswer => answer'[c] = answer[c]
      /\ r.client \in Clients => \A c \in Clients \ {r.client} : answer'[c] = NoAnswer
      /\ r.client = NoClient => UNCHANGED answer
  BY <1>1, Replied
<1>3. /\ \A c \in Clients : answer[c] # NoAnswer => Meaning(c)'
      /\ CookieLive' /\ LogoutEndsFamily' /\ ContextNamesAccount' /\ TypeOK'
      /\ Exclusive' /\ Bound'
  BY <1>2, HarmlessStep
<1>4. r.client \in Clients \cup {NoClient}
  BY RequestFacts DEF IInv
<1>5. Answered'
  BY <1>2, <1>3, <1>4 DEF Answered
<1> QED
  BY <1>2, <1>3, <1>5 DEF IInv

(* The client of a request: what it waits for and about which token.        *)
LEMMA Asker ==
  ASSUME IInv, NEW r \in requests, r.client \in Clients
  PROVE  /\ stage[r.client] = StageOf(r.op) /\ stage[r.client] \in Locked
         /\ r.op = "login" <=> r.token = 0
         /\ r.op # "login" => r.token = cookies.refresh /\ r.token \in Tokens
                              /\ (r.token \in Live \/ Broken(r.token))
<1>1. r \in Requests /\ r.op \in Operations
  BY RequestFacts DEF IInv
<1>2. stage[r.client] = StageOf(r.op) /\ stage[r.client] \in Locked /\ answer[r.client] = NoAnswer
  BY <1>1 DEF IInv, Requested, StageOf, Operations, Locked
<1>3. \A c \in Clients : answer[c].status # "ok" \/ stage[c] \notin Locked
  <2> SUFFICES ASSUME NEW c \in Clients, stage[c] \in Locked PROVE answer[c].status # "ok"
    OBVIOUS
  <2>1. answer[c] = NoAnswer
    BY <1>2 DEF IInv, Exclusive
  <2>2. NoAnswer.status = "none"
    BY DEF NoAnswer
  <2> QED
    BY <2>1, <2>2
<1>4. cookies.refresh # 0 => cookies.refresh \in Live \/ Broken(cookies.refresh)
  BY <1>3 DEF IInv, CookieLive, Locked
<1>5. r.op = "login" <=> r.token = 0
  BY DEF IInv, Requested
<1>6. r.op # "login" => r.token = cookies.refresh /\ r.token # 0
  BY <1>5 DEF IInv, Requested
<1> QED
  BY <1>2, <1>4, <1>5, <1>6, CookieFacts

LEMMA LoginIInv ==
  ASSUME IInv, NEW r \in requests, Login(r), UNCHANGED browser
  PROVE  IInv'
<1>1. ServerInv' /\ Changes /\ UNCHANGED <<disturbed, left>> /\ r.op = "login"
  BY LoginStep DEF Login, IInv
<1>2. r.client \in Clients => stage[r.client] = "entering"
  BY <1>1, Asker DEF StageOf
<1>3. CASE /\ tokens' = Issue(tokens, Len(tokens) + 1)
           /\ Reply(r, "ok", Len(tokens) + 1)
  <2>1. tokens \in Seq(Rows) /\ Len(tokens) \in Nat
    BY RequestFacts DEF IInv
  <2>2. LogsIn
    BY <1>3, <2>1, Inserted DEF LogsIn, SameFamilies, SameBut, Tokens
  <2>3. Harmless
    BY <1>1, <2>1, <2>2 DEF Harmless, LogsIn, SameBut, Tokens
  <2>4. Growth
    BY <1>1, Grows DEF IInv, ServerInv
  <2>5. Len(tokens) + 1 \in Live' /\ Len(tokens) + 1 # 0
    BY <2>1, <2>2 DEF LogsIn, Live, Tokens
  <2>6. r.client \in Clients => answer'[r.client] = [status |-> "ok", token |-> Len(tokens) + 1]
    BY <1>1, <1>3, <2>4, Replied
  <2>7. r.client \in Clients => Meaning(r.client)'
    BY <1>2, <2>5, <2>6 DEF Meaning, browser
  <2> QED
    BY <1>1, <1>3, <2>3, <2>7, AnswerStep
<1>4. CASE Reply(r, "rejected", 0) /\ UNCHANGED tokens
  <2>1. Harmless /\ Growth
    BY <1>1, <1>4, StillHarmless, Grows DEF IInv, ServerInv
  <2>2. r.client \in Clients => answer'[r.client] = [status |-> "rejected", token |-> 0]
    BY <1>1, <1>4, <2>1, Replied
  <2>3. r.client \in Clients => Meaning(r.client)'
    BY <1>2, <2>2 DEF Meaning, browser
  <2> QED
    BY <1>1, <1>4, <2>1, <2>3, AnswerStep
<1> QED
  BY <1>3, <1>4 DEF Login

LEMMA FailIInv ==
  ASSUME IInv, NEW r \in requests, Fail(r), UNCHANGED browser
  PROVE  IInv'
<1>1. ServerInv' /\ Changes /\ UNCHANGED <<tokens, left>> /\ r.op # "login" /\ Reply(r, "failed", r.token)
      /\ disturbed \subseteq disturbed'
  BY FailStep DEF Fail, IInv
<1>2. Harmless /\ Growth
  BY <1>1, StillHarmless, Grows DEF IInv, ServerInv
<1>3. r.client \in Clients => answer'[r.client] = [status |-> "failed", token |-> r.token]
  BY <1>1, <1>2, Replied
<1>4. r.client \in Clients => Meaning(r.client)'
  <2> SUFFICES ASSUME r.client \in Clients PROVE Meaning(r.client)'
    OBVIOUS
  <2>1. r.token = cookies.refresh /\ r.token \in Tokens /\ stage[r.client] = StageOf(r.op) /\ r.token # 0
    BY <1>1, Asker, CookieFacts
  <2>2. CASE r.op = "refresh"
    BY <1>3, <2>1, <2>2 DEF Meaning, StageOf, browser
  <2>3. CASE r.op = "logout"
    <3>1. Broken(cookies.refresh)'
      BY <1>1, <2>1, <2>3 DEF Fail, FamilyOf, Broken, browser
    <3> QED
      BY <1>3, <2>1, <2>3, <3>1 DEF Meaning, StageOf, browser
  <2> QED
    BY <1>1, <2>2, <2>3, RequestFacts DEF Operations, IInv
<1> QED
  BY <1>1, <1>2, <1>4, AnswerStep

LEMMA TakeIInv ==
  ASSUME IInv, NEW r \in requests, Take(r), UNCHANGED browser
  PROVE  IInv'
<1>1. ServerInv' /\ Changes /\ UNCHANGED <<tokens, disturbed, left>> /\ r.op # "login"
  BY TakeStep DEF Take, IInv
<1>2. Harmless /\ Growth
  BY <1>1, StillHarmless, Grows DEF IInv, ServerInv
<1>3. r \in Requests
  BY RequestFacts DEF IInv
<1>4. CASE requests' = (requests \ {r}) \cup {[r EXCEPT !.stage = "locked"]} /\ UNCHANGED answer
  <2> DEFINE l == [r EXCEPT !.stage = "locked"]
  <2>1. l.op = r.op /\ l.token = r.token /\ l.client = r.client
    BY <1>3 DEF Requests
  <2> HIDE DEF l
  <2>2. requests' = (requests \ {r}) \cup {l} /\ UNCHANGED <<answer, stage, cookies>>
    BY <1>4 DEF l, browser
  <2>3. \A t : Broken(t)' = Broken(t)
    BY <1>1 DEF Broken
  <2>4. Requested'
    BY <2>1, <2>2, <2>3 DEF IInv, Requested
  <2>5. Awaited'
    BY <2>1, <2>2 DEF IInv, Awaited
  <2>6. /\ \A c \in Clients : answer[c] # NoAnswer => Meaning(c)'
        /\ CookieLive' /\ LogoutEndsFamily' /\ ContextNamesAccount' /\ TypeOK'
        /\ Exclusive' /\ Bound'
    BY <1>1, <1>2, <2>2, HarmlessStep
  <2> QED
    BY <1>1, <2>2, <2>4, <2>5, <2>6 DEF IInv, Answered
<1>5. CASE ~ Usable(r) /\ Reply(r, IF r.op = "logout" THEN "ok" ELSE "rejected", r.token)
  <2> DEFINE s == IF r.op = "logout" THEN "ok" ELSE "rejected"
  <2>1. r.client \in Clients => answer'[r.client] = [status |-> s, token |-> r.token]
    BY <1>1, <1>2, <1>5, Replied
  <2>2. r.client \in Clients => Meaning(r.client)'
    <3> SUFFICES ASSUME r.client \in Clients PROVE Meaning(r.client)'
      OBVIOUS
    <3>1. r.token = cookies.refresh /\ r.token \in Tokens /\ stage[r.client] = StageOf(r.op)
          /\ r.token # 0 /\ (r.token \in Live \/ Broken(r.token))
      BY <1>1, Asker, CookieFacts
    <3>2. Broken(cookies.refresh)'
      BY <1>1, <1>5, <3>1 DEF Usable, Live, Broken, browser
    <3>3. CASE r.op = "refresh"
      BY <2>1, <3>1, <3>2, <3>3 DEF Meaning, StageOf, browser
    <3>4. CASE r.op = "logout"
      BY <2>1, <3>1, <3>2, <3>4 DEF Meaning, StageOf, browser
    <3> QED
      BY <1>1, <3>3, <3>4, RequestFacts DEF Operations, IInv
  <2> QED
    BY <1>1, <1>2, <1>5, <2>2, AnswerStep
<1> QED
  BY <1>4, <1>5 DEF Take

(* The transaction of a request nobody waits for: its family is disturbed.  *)
LEMMA ForgottenCommit ==
  ASSUME IInv, NEW r \in requests, Commit(r), r.client = NoClient, UNCHANGED browser
  PROVE  IInv'
<1>1. ServerInv' /\ Changes /\ r.token \in Tokens /\ UNCHANGED <<disturbed, left>>
      /\ \/ Rotates(r.token) /\ Reply(r, "ok", Len(tokens) + 1)
         \/ Ends(r.token) /\ Reply(r, "ok", r.token)
  BY CommitStep, CommitChanges DEF IInv
<1>2. Growth /\ 0 \notin Tokens
  BY <1>1, Grows, CookieFacts DEF IInv, ServerInv
<1>3. Broken(r.token) /\ Broken(r.token)'
  BY <1>1, <1>2 DEF IInv, Requested, Broken, Growth, SameFamilies
<1>4. Harmless
  <2>1. \A t \in Tokens : ~ Broken(t)' => tokens'[t].status = tokens[t].status
    BY <1>1, <1>3 DEF Rotates, Ends, SameBut
  <2>2. ASSUME NEW t \in Tokens' \ Tokens PROVE Broken(t)'
    <3>1. Rotates(r.token) /\ t = Len(tokens) + 1
      BY <1>1, <1>2 DEF Growth, Ends, Tokens
    <3> QED
      BY <1>1, <1>3, <3>1 DEF Rotates, Broken
  <2> QED
    BY <1>1, <2>1, <2>2 DEF Harmless
<1>5. r.client \notin Clients
  BY TokensAssumption
<1>6. CASE Reply(r, "ok", Len(tokens) + 1)
  BY <1>1, <1>4, <1>5, <1>6, AnswerStep
<1>7. CASE Reply(r, "ok", r.token)
  BY <1>1, <1>4, <1>5, <1>7, AnswerStep
<1> QED
  BY <1>1, <1>6, <1>7

(* The transaction of the client that has the Web Lock. *)
LEMMA AwaitedCommit ==
  ASSUME IInv, NEW r \in requests, Commit(r), r.client \in Clients, UNCHANGED browser
  PROVE  IInv'
<1>1. ServerInv' /\ Changes /\ r.token \in Tokens /\ UNCHANGED <<disturbed, left>>
      /\ \/ r.op = "refresh" /\ Rotates(r.token) /\ Reply(r, "ok", Len(tokens) + 1)
         \/ r.op = "logout" /\ Ends(r.token) /\ Reply(r, "ok", r.token)
  BY CommitStep, CommitChanges DEF IInv
<1>2. Growth /\ 0 \notin Tokens /\ Len(tokens) \in Nat
  BY <1>1, Grows, CookieFacts DEF IInv, ServerInv
<1>3. stage[r.client] = StageOf(r.op) /\ r.token = cookies.refresh /\ r.token # 0
      /\ (r.token \in Live \/ Broken(r.token))
  BY <1>1, <1>2, Asker
<1>4. \A t \in Tokens : t \in Tokens' /\ tokens'[t].family = tokens[t].family /\ Broken(t)' = Broken(t)
  BY <1>1, <1>2 DEF Growth, SameFamilies, Broken
<1>5. UNCHANGED <<stage, cookies>>
  BY DEF browser
<1> DEFINE f == tokens[r.token].family
<1>6. CASE r.op = "refresh" /\ Rotates(r.token) /\ Reply(r, "ok", Len(tokens) + 1)
  <2> DEFINE n == Len(tokens) + 1
  <2>1. n \in Tokens' /\ n # 0 /\ tokens'[n].family = f /\ n \in Live' /\ r.token \in Live
    BY <1>2, <1>6 DEF Rotates, Live, Tokens, Growth
  <2>2. /\ Requested' /\ Awaited' /\ answer'[r.client] = [status |-> "ok", token |-> n]
        /\ \A c \in Clients \ {r.client} : answer'[c] = NoAnswer
    BY <1>1, <1>2, <1>6, Replied
  <2>3. Answered'
    <3>1. stage'[r.client] = "renewing" /\ answer'[r.client].status = "ok" /\ answer'[r.client].token = n
      BY <1>3, <1>5, <1>6, <2>2 DEF StageOf
    <3>2. tokens'[n].family = tokens'[cookies'.refresh].family
      BY <1>1, <1>3, <1>4, <1>5, <2>1
    <3>3. Meaning(r.client)'
      BY <2>1, <3>1, <3>2 DEF Meaning
    <3> QED
      BY <2>2, <3>3 DEF Answered
  <2>4. CookieLive'
    BY <1>3, <1>5, <1>6, <2>2 DEF CookieLive, StageOf
  <2>5. LogoutEndsFamily'
    <3> SUFFICES ASSUME NEW t \in Live', tokens'[t].family \in left, ~ Broken(t)'
                 PROVE  FALSE
      BY <1>1 DEF LogoutEndsFamily, Broken
    <3>1. t \in Live \/ (t = n /\ tokens'[t].family = f)
      BY <1>2, <1>6, <2>1 DEF Rotates, SameBut, Live, Growth, Dead, Tokens
    <3>2. CASE t \in Live
      BY <1>4, <3>2 DEF IInv, LogoutEndsFamily, Broken, Live
    <3>3. CASE t = n /\ tokens'[t].family = f
      BY <1>1, <2>1, <3>3 DEF IInv, LogoutEndsFamily, Broken
    <3> QED
      BY <3>1, <3>2, <3>3
  <2>6. TypeOK' /\ Exclusive' /\ Bound' /\ ContextNamesAccount'
    BY <1>1, <1>2, <1>4, BrowserTypes, CookieFacts
       DEF IInv, Exclusive, Bound, SameContext, ContextNamesAccount, browser
  <2> QED
    BY <1>1, <2>2, <2>3, <2>4, <2>5, <2>6 DEF IInv
<1>7. CASE r.op = "logout" /\ Ends(r.token) /\ Reply(r, "ok", r.token)
  <2>1. /\ Requested' /\ Awaited' /\ answer'[r.client] = [status |-> "ok", token |-> r.token]
        /\ \A c \in Clients \ {r.client} : answer'[c] = NoAnswer
    BY <1>1, <1>2, <1>7, Replied
  <2>2. \A t \in Live' : t \in Live /\ t # r.token
    BY <1>2, <1>7 DEF Ends, SameBut, Live, Growth, Dead, Tokens
  <2>3. HeldBy(f)' = {} \/ Broken(r.token)'
    <3> SUFFICES ASSUME r.token \in Live, NEW t \in Live', tokens'[t].family = tokens'[r.token].family
                 PROVE  FALSE
      BY <1>1, <1>3, <1>4 DEF HeldBy
    <3>1. t \in Live /\ t # r.token /\ tokens[t].family = tokens[r.token].family
      BY <1>1, <1>4, <2>2 DEF Live
    <3> QED
      BY <3>1 DEF IInv, ServerInv, OneLive
  <2>4. Answered'
    BY <1>3, <1>5, <1>7, <2>1, <2>3 DEF Answered, Meaning, StageOf
  <2>5. CookieLive'
    BY <1>3, <1>5, <1>7, <2>1 DEF CookieLive, StageOf
  <2>6. LogoutEndsFamily'
    BY <1>1, <1>4, <2>2 DEF IInv, LogoutEndsFamily, Live
  <2>7. TypeOK' /\ Exclusive' /\ Bound' /\ ContextNamesAccount'
    BY <1>1, <1>2, <1>4, BrowserTypes, CookieFacts
       DEF IInv, Exclusive, Bound, SameContext, ContextNamesAccount, browser
  <2> QED
    BY <1>1, <2>1, <2>4, <2>5, <2>6, <2>7 DEF IInv
<1> QED
  BY <1>1, <1>6, <1>7

LEMMA ExpireIInv ==
  ASSUME IInv, ExpireRefresh, UNCHANGED browser
  PROVE  IInv'
<1> DEFINE t == cookies.refresh
<1>1. t \in Tokens /\ Expire(t)
  BY CookieFacts DEF ExpireRefresh
<1>2. ServerInv' /\ Changes /\ Ends(t) /\ UNCHANGED <<requests, answer, left>>
      /\ disturbed' = disturbed \cup {tokens[t].family}
  BY <1>1, ExpireStep DEF IInv
<1>3. Growth
  BY <1>2, Grows DEF IInv, ServerInv
<1>4. Harmless
  <2>1. Broken(t)'
    BY <1>1, <1>2, <1>3 DEF Broken, Growth, SameFamilies, browser
  <2>2. Tokens' \ Tokens = {}
    BY <1>2 DEF Ends, Tokens
  <2>3. \A u \in Tokens : ~ Broken(u)' => tokens'[u].status = tokens[u].status
    <3>1. \A u \in Tokens \ {t} : tokens'[u].status = tokens[u].status
      BY <1>2 DEF Ends, SameBut
    <3> QED
      BY <2>1, <3>1 DEF browser
  <2> QED
    BY <1>2, <2>2, <2>3 DEF Harmless
<1>5. /\ \A c \in Clients : answer[c] # NoAnswer => Meaning(c)'
      /\ CookieLive' /\ LogoutEndsFamily' /\ ContextNamesAccount' /\ TypeOK'
      /\ Exclusive' /\ Bound'
  BY <1>2, <1>4, HarmlessStep
<1>6. Requested'
  <2>1. \A r \in requests : r.token # 0 /\ Broken(r.token) => Broken(r.token)'
    BY <1>2, <1>3, RequestFacts DEF Growth, SameFamilies, Broken, IInv
  <2> QED
    BY <1>2, <2>1 DEF IInv, Requested, browser
<1>7. Awaited'
  BY <1>2 DEF IInv, Awaited, browser
<1> QED
  BY <1>2, <1>5, <1>6, <1>7 DEF IInv, Answered

LEMMA ServerIInv ==
  ASSUME IInv, Serve \/ ExpireRefresh, UNCHANGED browser
  PROVE  IInv'
<1>1. \A r \in requests : r.client \in Clients \cup {NoClient}
  BY RequestFacts DEF IInv
<1> QED
  BY <1>1, LoginIInv, TakeIInv, FailIInv, ForgottenCommit, AwaitedCommit, ExpireIInv DEF Serve

-----------------------------------------------------------------------------
(* Steps of the browser that ask the server nothing *)

LEMMA QuietStep ==
  ASSUME IInv, UNCHANGED server, cookies'.refresh = cookies.refresh,
         \A d \in Clients : stage'[d] = stage[d] \/ (stage[d] \notin Asking /\ stage'[d] \notin Asking)
  PROVE  /\ ServerInv' /\ ServerTypeOK'
         /\ Requested' /\ Awaited' /\ Answered' /\ CookieLive' /\ LogoutEndsFamily'
<1>1. UNCHANGED <<tokens, requests, answer, disturbed, left>>
  BY DEF server
<1>2. ServerInv' /\ ServerTypeOK'
  <2>1. ServerTypeOK'
    BY <1>1 DEF IInv, ServerInv, ServerTypeOK, Families, Tokens, Requests
  <2>2. OneLive'
    BY <1>1 DEF IInv, ServerInv, OneLive, Live, Tokens
  <2>3. Locks'
    BY <1>1 DEF IInv, ServerInv, Locks, Usable
  <2> QED
    BY <2>1, <2>2, <2>3 DEF ServerInv
<1>3. \A d \in Clients : stage[d] \in Asking => stage'[d] = stage[d]
  OBVIOUS
<1>4. \A d \in Clients : stage'[d] \in Asking => stage'[d] = stage[d]
  OBVIOUS
<1>5. \A t : Broken(t)' = Broken(t)
  BY <1>1 DEF Broken
<1>6. \A r \in requests : r.client \in Clients => StageOf(r.op) \in Asking
  BY RequestFacts DEF IInv, Operations, StageOf, Asking
<1>7. Requested'
  BY <1>1, <1>3, <1>5, <1>6 DEF IInv, Requested
<1>8. Awaited'
  BY <1>1, <1>4 DEF IInv, Awaited, Asking
<1>9. Answered'
  <2> SUFFICES ASSUME NEW c \in Clients, answer[c] # NoAnswer PROVE Meaning(c)'
    BY <1>1 DEF Answered
  <2>1. Meaning(c) /\ stage[c] \in Asking
    BY DEF IInv, Answered, Meaning, Asking
  <2>2. stage'[c] = stage[c]
    BY <1>3, <2>1
  <2>3. \A f : HeldBy(f)' = HeldBy(f)
    BY <1>1 DEF HeldBy, Live, Tokens
  <2> QED
    BY <1>1, <1>5, <2>1, <2>2, <2>3 DEF Meaning, Live, Tokens
<1>10. CookieLive'
  BY <1>1, <1>3, <1>5 DEF IInv, CookieLive, Live, Tokens, Asking
<1>11. LogoutEndsFamily'
  BY <1>1 DEF IInv, LogoutEndsFamily, Live, Tokens
<1> QED
  BY <1>2, <1>7, <1>8, <1>9, <1>10, <1>11

(* A client that moves to another stage, and what is bound and locked then. *)
LEMMA Moved ==
  ASSUME IInv, NEW c \in Clients, NEW s \in Stages, Move(c, s)
  PROVE  /\ stage' \in [Clients -> Stages] /\ expected' \in [Clients -> 0..Len(opened)]
         /\ stage'[c] = s /\ expected'[c] = (IF s = "idle" THEN 0 ELSE expected[c])
         /\ \A d \in Clients \ {c} : stage'[d] = stage[d] /\ expected'[d] = expected[d]
         /\ s \notin Locked \/ stage[c] \in Locked \/ LockFree => Exclusive'
BY DEF Move, IInv, TypeOK, Exclusive, LockFree, ServerTypeOK

(* A page starts a call or an operation of the session it has seen.         *)
LEMMA BindIInv ==
  ASSUME IInv, NEW c \in Clients, NEW s \in {"rejected", "logout", "organization"}, Bind(c, s)
  PROVE  IInv'
<1>1. /\ stage[c] = "idle" /\ cookies.context # 0
      /\ stage' = [stage EXCEPT ![c] = s] /\ expected' = [expected EXCEPT ![c] = cookies.context]
      /\ UNCHANGED <<server, cookies, expired, opened, observed>>
  BY DEF Bind, MayStart
<1>2. stage \in [Clients -> Stages] /\ expected \in [Clients -> 0..Len(opened)] /\ s \in Stages
      /\ cookies.context \in 0..Len(opened)
  BY CookieFacts DEF IInv, TypeOK, Stages
<1>3. /\ ServerInv' /\ ServerTypeOK'
      /\ Requested' /\ Awaited' /\ Answered' /\ CookieLive' /\ LogoutEndsFamily'
  BY <1>1, <1>2, QuietStep DEF Asking
<1>4. TypeOK'
  BY <1>1, <1>2, <1>3 DEF IInv, TypeOK, server, NoCookies, Families, Tokens
<1>5. Exclusive' /\ Bound' /\ ContextNamesAccount'
  BY <1>1, <1>2 DEF IInv, Exclusive, Bound, SameContext, ContextNamesAccount, Locked, server
<1> QED
  BY <1>3, <1>4, <1>5 DEF IInv

(* A step that moves a client and changes neither cookies nor requests.     *)
LEMMA MoveIInv ==
  ASSUME IInv, NEW c \in Clients, NEW s \in Stages, Move(c, s), stage[c] \notin Asking, s \notin Asking,
         UNCHANGED <<server, cookies, expired, opened, observed>>,
         s \notin Locked \/ stage[c] \in Locked \/ LockFree,
         s = "idle" \/ s = "login" \/ (SameContext(c) /\ expected[c] # 0)
  PROVE  IInv'
<1>1. /\ stage' \in [Clients -> Stages] /\ expected' \in [Clients -> 0..Len(opened)]
      /\ stage'[c] = s /\ expected'[c] = (IF s = "idle" THEN 0 ELSE expected[c])
      /\ \A d \in Clients \ {c} : stage'[d] = stage[d] /\ expected'[d] = expected[d]
      /\ Exclusive'
  BY Moved
<1>2. /\ ServerInv' /\ ServerTypeOK'
      /\ Requested' /\ Awaited' /\ Answered' /\ CookieLive' /\ LogoutEndsFamily'
  BY <1>1, QuietStep
<1>3. TypeOK'
  BY <1>1, <1>2 DEF IInv, TypeOK, server, NoCookies, Families, Tokens
<1>4. Bound' /\ ContextNamesAccount'
  BY <1>1 DEF IInv, Bound, SameContext, ContextNamesAccount, Locked, server
<1> QED
  BY <1>1, <1>2, <1>3, <1>4 DEF IInv

LEMMA ExpireAccessIInv ==
  ASSUME IInv, ExpireAccess
  PROVE  IInv'
<1>1. UNCHANGED <<server, cookies, opened, observed, expected, stage>> /\ expired' = TRUE
  BY DEF ExpireAccess
<1>2. /\ ServerInv' /\ ServerTypeOK'
      /\ Requested' /\ Awaited' /\ Answered' /\ CookieLive' /\ LogoutEndsFamily'
  BY <1>1, QuietStep
<1>3. TypeOK'
  BY <1>1, <1>2 DEF IInv, TypeOK, server, NoCookies, Families, Tokens
<1> QED
  BY <1>1, <1>2, <1>3 DEF IInv, Exclusive, Bound, SameContext, ContextNamesAccount, server

(* Another organization is another context of the same account.             *)
LEMMA ChosenIInv ==
  ASSUME IInv, NEW c \in Clients, Chosen(c)
  PROVE  IInv'
<1>1. stage[c] = "choosing" /\ Move(c, "idle") /\ UNCHANGED <<server, expired>>
  BY DEF Chosen
<1>2. CASE UNCHANGED <<opened, cookies, observed>>
  BY <1>1, <1>2, MoveIInv DEF Stages, Asking, Locked
<1>3. CASE /\ SameContext(c)
           /\ Len(opened) < MaxContexts
           /\ opened' = Append(opened, opened[cookies.context])
           /\ cookies' = [cookies EXCEPT !.context = Len(opened')]
           /\ Observe(c)
  <2>1. /\ stage' \in [Clients -> Stages] /\ expected' \in [Clients -> 0..Len(opened)]
        /\ stage'[c] = "idle" /\ expected'[c] = 0
        /\ \A d \in Clients \ {c} : stage'[d] = stage[d] /\ expected'[d] = expected[d]
        /\ Exclusive'
    BY <1>1, Moved DEF Stages, Locked
  <2>2. opened \in Seq(Families) /\ Len(opened) \in Nat /\ cookies.context \in 1..Len(opened)
        /\ cookies.refresh \in Tokens /\ cookies.access \in Tokens
    BY <1>1, <1>3, CookieFacts DEF IInv, Bound, SameContext, Locked
  <2>3. cookies = [context |-> cookies.context, access |-> cookies.access, refresh |-> cookies.refresh]
    BY DEF IInv, TypeOK, NoCookies
  <2>4. cookies' = [context |-> Len(opened) + 1, access |-> cookies.access, refresh |-> cookies.refresh]
    BY <1>3, <2>2, <2>3
  <2>5. opened' \in Seq(Families) /\ Len(opened') = Len(opened) + 1
        /\ opened'[Len(opened) + 1] = opened[cookies.context]
    BY <1>3, <2>2
  <2>6. /\ ServerInv' /\ ServerTypeOK'
        /\ Requested' /\ Awaited' /\ Answered' /\ CookieLive' /\ LogoutEndsFamily'
    BY <1>1, <2>1, <2>4, QuietStep DEF Asking
  <2>7. UNCHANGED tokens
    BY <1>1 DEF server
  <2>8. observed' \in [Tabs -> 0..Len(opened')]
    <3>1. 0..Len(opened) \subseteq 0..Len(opened') /\ cookies'.context \in 0..Len(opened')
      BY <2>2, <2>4, <2>5
    <3>2. observed \in [Tabs -> 0..Len(opened')]
      BY <3>1 DEF IInv, TypeOK
    <3> QED
      BY <1>3, <3>1, <3>2 DEF Observe
  <2>9. TypeOK'
    <3>1. cookies' \in [context : 1..Len(opened'), access : Tokens', refresh : Tokens']
      BY <2>2, <2>4, <2>5, <2>7 DEF Tokens
    <3>2. opened' \in Seq(Families') /\ Len(opened') <= MaxContexts
      BY <1>3, <2>2, <2>5, <2>7, WebAssumption DEF Families, Tokens
    <3>3. expected' \in [Clients -> 0..Len(opened')]
      BY <2>1, <2>2, <2>5
    <3> QED
      BY <1>1, <2>1, <2>6, <2>8, <3>1, <3>2, <3>3 DEF IInv, TypeOK
  <2>10. Bound'
    <3>1. \A d \in Clients : stage'[d] \notin Locked
      BY <1>1, <2>1 DEF IInv, Exclusive, Locked
    <3> QED
      BY <2>1, <3>1 DEF IInv, Bound
  <2>11. ContextNamesAccount'
    BY <2>2, <2>4, <2>5, <2>7 DEF IInv, ContextNamesAccount
  <2> QED
    BY <2>1, <2>6, <2>9, <2>10, <2>11 DEF IInv
<1> QED
  BY <1>2, <1>3 DEF Chosen

-----------------------------------------------------------------------------
(* Steps of the browser that ask the server, hear from it or give up *)

(* The holder of the lock sends a request and waits for its answer.         *)
LEMMA AskIInv ==
  ASSUME IInv, NEW c \in Clients, NEW op \in Operations, NEW t \in Tokens \cup {0},
         Move(c, StageOf(op)), stage[c] \notin Asking, stage[c] \in Locked \/ LockFree,
         Send(c, op, t), op = "login" <=> t = 0, t # 0 => t = cookies.refresh,
         op = "login" \/ (SameContext(c) /\ expected[c] # 0),
         UNCHANGED <<tokens, answer, disturbed, left, cookies, expired, opened, observed>>
  PROVE  IInv'
<1> DEFINE s == StageOf(op)
           r == [op |-> op, token |-> t, client |-> c, stage |-> "sent"]
<1>1. s \in Asking /\ s \in Stages /\ s \in Locked /\ s # "idle" /\ (s = "entering" <=> op = "login")
  BY DEF StageOf, Operations, Asking, Stages, Locked
<1>2. /\ stage' \in [Clients -> Stages] /\ expected' \in [Clients -> 0..Len(opened)]
      /\ stage'[c] = s /\ expected'[c] = expected[c]
      /\ \A d \in Clients \ {c} : stage'[d] = stage[d] /\ expected'[d] = expected[d]
      /\ Exclusive'
  BY <1>1, Moved
<1>3. ServerInv'
  BY SendStep DEF IInv
<1>4. requests' = requests \cup {r} /\ r.op = op /\ r.token = t /\ r.client = c
  BY DEF Send
<1>5. answer[c] = NoAnswer
  BY DEF IInv, Answered, Meaning, Asking
<1>6. \A q \in requests : q.client # c
  BY RequestFacts DEF IInv, Requested, StageOf, Operations, Asking
<1>7. \A u : Broken(u)' = Broken(u)
  BY DEF Broken
<1> HIDE DEF r, s
<1>8. Requested'
  <2>1. \A q \in requests : q.client \in Clients => q.client \in Clients \ {c}
    BY <1>6
  <2>2. c \in Clients /\ c # NoClient /\ stage'[c] = StageOf(op)
    BY <1>2, TokensAssumption DEF s
  <2> QED
    BY <1>2, <1>4, <1>5, <1>6, <1>7, <2>1, <2>2 DEF IInv, Requested
<1>9. Awaited'
  BY <1>2, <1>4 DEF IInv, Awaited
<1>10. Answered'
  <2> SUFFICES ASSUME NEW d \in Clients, answer[d] # NoAnswer PROVE Meaning(d)'
    BY DEF Answered
  <2>1. Meaning(d) /\ d # c
    BY <1>5 DEF IInv, Answered
  <2>2. \A f : HeldBy(f)' = HeldBy(f)
    BY DEF HeldBy, Live, Tokens
  <2>3. Live' = Live /\ stage'[d] = stage[d]
    BY <1>2, <2>1 DEF Live, Tokens
  <2> QED
    BY <1>7, <2>1, <2>2, <2>3 DEF Meaning
<1>11. CookieLive'
  <2>1. \A d \in Clients : stage[d] \in Asking => d # c /\ stage'[d] = stage[d]
    BY <1>2
  <2> QED
    BY <1>7, <2>1 DEF IInv, CookieLive, Live, Tokens, Asking
<1>12. LogoutEndsFamily' /\ ContextNamesAccount'
  BY DEF IInv, LogoutEndsFamily, ContextNamesAccount, Live, Tokens
<1>13. Bound'
  BY <1>1, <1>2 DEF IInv, Bound, SameContext, Asking, Locked
<1>14. TypeOK'
  BY <1>2, <1>3 DEF IInv, TypeOK, ServerInv, NoCookies, Families, Tokens
<1> QED
  BY <1>2, <1>3, <1>8, <1>9, <1>10, <1>11, <1>12, <1>13, <1>14 DEF IInv

LEMMA AcquireIInv ==
  ASSUME IInv, NEW c \in Clients, Acquire(c)
  PROVE  IInv'
<1>1. LockFree /\ stage[c] \notin Locked
      /\ UNCHANGED <<tokens, answer, disturbed, left, cookies, expired, opened, observed>>
  BY DEF Acquire, LockFree
<1>2. stage[c] \in Waits \ {"login"} => expected[c] # 0
  BY DEF IInv, Bound, Waits
<1>3. CASE stage[c] = "login" /\ Move(c, "entering") /\ Send(c, "login", 0)
  BY <1>1, <1>3, AskIInv DEF StageOf, Operations, Asking
<1>4. CASE /\ stage[c] = "logout" /\ SameContext(c) /\ Move(c, "leaving")
           /\ IF cookies.refresh # 0 THEN Send(c, "logout", cookies.refresh) ELSE UNCHANGED requests
  <2>1. cookies.refresh \in Tokens /\ cookies.refresh # 0 /\ expected[c] # 0
    BY <1>2, <1>4, CookieFacts DEF SameContext, Waits
  <2> QED
    BY <1>1, <1>4, <2>1, AskIInv DEF StageOf, Operations, Asking
<1>5. CASE stage[c] = "rejected" /\ SameContext(c) /\ Move(c, "probing") /\ UNCHANGED requests
  BY <1>1, <1>2, <1>5, MoveIInv DEF Asking, Stages, Waits, server
<1>6. CASE stage[c] = "organization" /\ SameContext(c) /\ Move(c, "choosing") /\ UNCHANGED requests
  BY <1>1, <1>2, <1>6, MoveIInv DEF Asking, Stages, Waits, server
<1>7. CASE stage[c] \in Waits \ {"login"} /\ Move(c, "idle") /\ UNCHANGED requests
  BY <1>1, <1>7, MoveIInv DEF Asking, Stages, Waits, Locked, server
<1> QED
  BY <1>3, <1>4, <1>5, <1>6, <1>7 DEF Acquire

LEMMA ProbedIInv ==
  ASSUME IInv, NEW c \in Clients, Probed(c)
  PROVE  IInv'
<1>1. stage[c] = "probing" /\ SameContext(c) /\ expected[c] # 0
      /\ UNCHANGED <<tokens, answer, disturbed, left, cookies, expired, opened, observed>>
  BY DEF Probed, IInv, Bound, Locked
<1>2. CASE Move(c, "renewing") /\ Send(c, "refresh", cookies.refresh)
  <2>1. cookies.refresh \in Tokens /\ cookies.refresh # 0
    BY <1>1, CookieFacts DEF SameContext
  <2> QED
    BY <1>1, <1>2, <2>1, AskIInv DEF StageOf, Operations, Asking, Locked
<1>3. CASE Move(c, "retrying") /\ UNCHANGED requests
  BY <1>1, <1>3, MoveIInv DEF Asking, Stages, Locked, server
<1> QED
  BY <1>1, <1>2, <1>3 DEF Probed

LEMMA RetriedIInv ==
  ASSUME IInv, NEW c \in Clients, Retried(c)
  PROVE  IInv'
BY MoveIInv DEF Retried, Asking, Stages, Locked

(* A client whose answer has come is the only one that asked the server.    *)
LEMMA Heard ==
  ASSUME IInv, NEW c \in Clients, answer[c] # NoAnswer, Consume(c), UNCHANGED <<tokens, requests, disturbed, left>>,
         NEW s \in Stages, s \notin Asking, Move(c, s)
  PROVE  /\ ServerInv' /\ Requested' /\ Awaited' /\ Answered' /\ Exclusive' /\ LogoutEndsFamily'
         /\ \A d \in Clients \ {c} : stage'[d] \notin Locked /\ stage'[d] = stage[d] /\ expected'[d] = expected[d]
         /\ stage'[c] = s /\ (s # "idle" => expected'[c] = expected[c])
         /\ stage' \in [Clients -> Stages] /\ expected' \in [Clients -> 0..Len(opened)]
         /\ Meaning(c) /\ \A d \in Clients : answer'[d] = NoAnswer
<1>1. Meaning(c) /\ stage[c] \in Asking /\ stage[c] \in Locked
  BY DEF IInv, Answered, Meaning, Asking, Locked
<1>2. /\ stage' \in [Clients -> Stages] /\ expected' \in [Clients -> 0..Len(opened)]
      /\ stage'[c] = s /\ expected'[c] = (IF s = "idle" THEN 0 ELSE expected[c])
      /\ \A d \in Clients \ {c} : stage'[d] = stage[d] /\ expected'[d] = expected[d]
      /\ Exclusive'
  BY <1>1, Moved
<1>3. \A d \in Clients \ {c} : stage[d] \notin Locked /\ answer[d] = NoAnswer
  BY <1>1 DEF IInv, Exclusive, Answered, Meaning, Locked
<1>4. \A d \in Clients : answer'[d] = NoAnswer
  BY <1>3 DEF Consume, IInv, ServerInv, ServerTypeOK
<1>5. ServerInv'
  BY ConsumeStep DEF IInv, ServerInv, ServerTypeOK
<1>6. \A r \in requests : r.client = NoClient
  <2> SUFFICES ASSUME NEW r \in requests, r.client \in Clients PROVE FALSE
    BY RequestFacts DEF IInv
  <2>1. stage[r.client] \in Locked /\ answer[r.client] = NoAnswer
    BY Asker DEF IInv, Requested
  <2> QED
    BY <1>1, <2>1 DEF IInv, Exclusive
<1>7. Requested'
  <2>1. \A t : Broken(t)' = Broken(t)
    BY DEF Broken
  <2> QED
    BY <1>6, <2>1, TokensAssumption DEF IInv, Requested
<1>8. Awaited'
  BY <1>2, <1>3 DEF Awaited, Asking, Locked
<1>9. Answered'
  BY <1>4 DEF Answered
<1>10. LogoutEndsFamily'
  BY DEF IInv, LogoutEndsFamily, Live, Tokens
<1> QED
  BY <1>1, <1>2, <1>3, <1>4, <1>5, <1>7, <1>8, <1>9, <1>10

LEMMA RenewedIInv ==
  ASSUME IInv, NEW c \in Clients, Renewed(c)
  PROVE  IInv'
<1>1. /\ stage[c] = "renewing" /\ answer[c] # NoAnswer /\ Consume(c) /\ SameContext(c) /\ expected[c] # 0
      /\ UNCHANGED <<tokens, requests, disturbed, left, opened, observed>>
  BY DEF Renewed, IInv, Bound, Locked
<1>2. cookies.refresh \in Tokens /\ cookies.context \in 1..Len(opened) /\ cookies.context # 0 /\ 0 \notin Tokens
      /\ cookies.access \in Tokens /\ cookies.refresh # 0
  BY <1>1, CookieFacts DEF SameContext
<1>3. cookies = [context |-> cookies.context, access |-> cookies.access, refresh |-> cookies.refresh]
  BY DEF IInv, TypeOK, NoCookies
<1>4. \A t : Broken(t)' = Broken(t)
  BY <1>1 DEF Broken
<1>5. CASE answer[c].status = "ok" /\ cookies' = Renewal(answer[c].token) /\ expired' = FALSE
           /\ Move(c, "retrying")
  <2> DEFINE n == answer[c].token
  <2>1. /\ ServerInv' /\ Requested' /\ Awaited' /\ Answered' /\ Exclusive' /\ LogoutEndsFamily'
        /\ \A d \in Clients \ {c} : stage'[d] \notin Locked /\ stage'[d] = stage[d] /\ expected'[d] = expected[d]
        /\ stage'[c] = "retrying" /\ expected'[c] = expected[c]
        /\ stage' \in [Clients -> Stages] /\ expected' \in [Clients -> 0..Len(opened)]
        /\ Meaning(c)
    BY <1>1, <1>5, Heard DEF Stages, Asking
  <2>2. n \in Tokens /\ tokens[n].family = tokens[cookies.refresh].family /\ (n \in Live \/ Broken(n))
    <3>1. n \in Tokens \cup {0}
      BY DEF IInv, ServerInv, ServerTypeOK
    <3> QED
      BY <1>1, <1>5, <2>1, <3>1 DEF Meaning
  <2> HIDE DEF n
  <2>3. cookies' = [context |-> cookies.context, access |-> n, refresh |-> n]
    BY <1>3, <1>5 DEF Renewal, n
  <2>4. CookieLive'
    BY <1>1, <1>4, <2>2, <2>3 DEF CookieLive, Live, Tokens
  <2>5. ContextNamesAccount'
    BY <1>1, <1>2, <2>2, <2>3 DEF ContextNamesAccount, IInv
  <2>6. Bound'
    BY <1>1, <2>1, <2>3 DEF Bound, SameContext, IInv
  <2>7. TypeOK'
    <3>1. cookies' \in [context : 1..Len(opened'), access : Tokens', refresh : Tokens']
      BY <1>1, <1>2, <2>2, <2>3 DEF Tokens
    <3> QED
      BY <1>1, <1>5, <2>1, <3>1 DEF TypeOK, IInv, ServerInv, Families, Tokens
  <2> QED
    BY <2>1, <2>4, <2>5, <2>6, <2>7 DEF IInv
<1>6. CASE answer[c].status # "ok" /\ Move(c, "idle") /\ UNCHANGED <<cookies, expired>>
  <2>1. /\ ServerInv' /\ Requested' /\ Awaited' /\ Answered' /\ Exclusive' /\ LogoutEndsFamily'
        /\ \A d \in Clients \ {c} : stage'[d] \notin Locked /\ stage'[d] = stage[d] /\ expected'[d] = expected[d]
        /\ stage'[c] = "idle"
        /\ stage' \in [Clients -> Stages] /\ expected' \in [Clients -> 0..Len(opened)]
    BY <1>1, <1>6, Heard DEF Stages, Asking
  <2>2. CookieLive'
    <3>1. \A d \in Clients : d # c => stage[d] \notin Locked
      BY <1>1 DEF IInv, Exclusive, Locked
    <3>2. cookies.refresh \in Live \/ Broken(cookies.refresh)
      BY <1>2, <1>6, <3>1 DEF IInv, CookieLive, Locked
    <3> QED
      BY <1>1, <1>4, <1>6, <3>2 DEF CookieLive, Live, Tokens
  <2>3. ContextNamesAccount'
    BY <1>1, <1>6 DEF ContextNamesAccount, IInv
  <2>4. Bound'
    BY <1>1, <1>6, <2>1 DEF Bound, SameContext, IInv, Locked
  <2>5. TypeOK'
    BY <1>1, <1>6, <2>1 DEF TypeOK, IInv, ServerInv, Families, Tokens, NoCookies
  <2> QED
    BY <2>1, <2>2, <2>3, <2>4, <2>5 DEF IInv
<1> QED
  BY <1>1, <1>5, <1>6 DEF Renewed

LEMMA LoggedInIInv ==
  ASSUME IInv, NEW c \in Clients, LoggedIn(c)
  PROVE  IInv'
<1>1. /\ stage[c] = "entering" /\ answer[c] # NoAnswer /\ Consume(c) /\ Move(c, "idle")
      /\ UNCHANGED <<tokens, requests, disturbed, left>>
  BY DEF LoggedIn
<1>2. /\ ServerInv' /\ Requested' /\ Awaited' /\ Answered' /\ Exclusive' /\ LogoutEndsFamily'
      /\ \A d \in Clients \ {c} : stage'[d] \notin Locked /\ stage'[d] = stage[d] /\ expected'[d] = expected[d]
      /\ stage'[c] = "idle"
      /\ stage' \in [Clients -> Stages] /\ expected' \in [Clients -> 0..Len(opened)]
      /\ Meaning(c)
  BY <1>1, Heard DEF Stages, Asking
<1>3. \A t : Broken(t)' = Broken(t)
  BY <1>1 DEF Broken
<1>4. Bound'
  BY <1>2 DEF Bound, IInv, Locked
<1>5. CASE /\ answer[c].status = "ok"
           /\ Len(opened) < MaxContexts
           /\ opened' = Append(opened, tokens[answer[c].token].family)
           /\ cookies' = [context |-> Len(opened'), access |-> answer[c].token,
                          refresh |-> answer[c].token]
           /\ expired' = FALSE
           /\ Observe(c)
  <2>1. PICK n : n = answer[c].token
    OBVIOUS
  <2>2. n \in Tokens /\ (n \in Live \/ Broken(n)) /\ tokens[n].family \in Families
    <3>1. n \in Tokens \cup {0}
      BY <2>1 DEF IInv, ServerInv, ServerTypeOK
    <3>2. n \in Tokens /\ (n \in Live \/ Broken(n))
      BY <1>1, <1>2, <1>5, <2>1, <3>1 DEF Meaning
    <3> QED
      BY <3>2 DEF IInv, ServerInv, ServerTypeOK
  <2>3. opened \in Seq(Families) /\ Len(opened) \in Nat
    BY CookieFacts
  <2>4. opened' \in Seq(Families) /\ Len(opened') = Len(opened) + 1
        /\ opened'[Len(opened) + 1] = tokens[n].family
    BY <1>5, <2>1, <2>2, <2>3
  <2>5. cookies' = [context |-> Len(opened) + 1, access |-> n, refresh |-> n]
    BY <1>5, <2>1, <2>4
  <2>6. CookieLive'
    BY <1>1, <1>3, <2>2, <2>5 DEF CookieLive, Live, Tokens
  <2>7. ContextNamesAccount'
    BY <1>1, <2>4, <2>5 DEF ContextNamesAccount
  <2>8. observed' \in [Tabs -> 0..Len(opened')]
    <3>1. 0..Len(opened) \subseteq 0..Len(opened') /\ cookies'.context \in 0..Len(opened')
      BY <2>3, <2>4, <2>5
    <3>2. observed \in [Tabs -> 0..Len(opened')]
      BY <3>1 DEF IInv, TypeOK
    <3> QED
      BY <1>5, <3>1, <3>2 DEF Observe
  <2>9. TypeOK'
    <3>1. cookies' \in [context : 1..Len(opened'), access : Tokens', refresh : Tokens']
      BY <1>1, <2>2, <2>3, <2>4, <2>5 DEF Tokens
    <3>2. opened' \in Seq(Families') /\ Len(opened') <= MaxContexts
      BY <1>1, <1>5, <2>3, <2>4, WebAssumption DEF Families, Tokens
    <3>3. expected' \in [Clients -> 0..Len(opened')]
      BY <1>2, <2>3, <2>4
    <3> QED
      BY <1>2, <1>5, <2>8, <3>1, <3>2, <3>3 DEF TypeOK, ServerInv
  <2> QED
    BY <1>2, <1>4, <2>6, <2>7, <2>9 DEF IInv
<1>6. CASE answer[c].status # "ok" /\ UNCHANGED <<opened, cookies, expired, observed>>
  <2>1. CookieLive'
    <3>1. \A d \in Clients : stage[d] \notin {"renewing", "leaving"}
      BY <1>1 DEF IInv, Exclusive, Locked
    <3> QED
      BY <1>1, <1>3, <1>6, <3>1 DEF CookieLive, Live, Tokens, IInv
  <2>2. ContextNamesAccount'
    BY <1>1, <1>6 DEF ContextNamesAccount, IInv
  <2>3. TypeOK'
    BY <1>1, <1>2, <1>6 DEF TypeOK, IInv, ServerInv, Families, Tokens, NoCookies
  <2> QED
    BY <1>2, <1>4, <2>1, <2>2, <2>3 DEF IInv
<1> QED
  BY <1>5, <1>6 DEF LoggedIn

(* Clients that stop waiting.  Whatever they had lost is disturbed, and the *)
(* cookies change only if nobody else has the lock.                         *)
LEMMA Abandoned ==
  ASSUME IInv, NEW C \in SUBSET Clients, Abandon(C), UNCHANGED tokens,
         disturbed \subseteq disturbed', disturbed' \subseteq Families, left' \subseteq Families,
         \A r \in Waiting(C) : FamilyOf(r.token) \subseteq disturbed',
         stage' = [d \in Clients |-> IF d \in C THEN "idle" ELSE stage[d]],
         UNCHANGED cookies \/ \A d \in Clients : stage'[d] \notin Locked
  PROVE  /\ ServerInv' /\ Requested' /\ Awaited' /\ Answered' /\ Exclusive'
         /\ \A t : Broken(t) => Broken(t)'
<1>1. \A d \in Clients : stage'[d] = (IF d \in C THEN "idle" ELSE stage[d])
                         /\ answer'[d] = (IF d \in C THEN NoAnswer ELSE answer[d])
  BY DEF Abandon
<1>2. \A t : Broken(t) => Broken(t)'
  BY DEF Broken
<1>3. requests \subseteq Requests /\ NoClient \notin Clients
  BY TokensAssumption DEF IInv, ServerInv, ServerTypeOK
<1>4. \A r \in requests' :
        \/ r \in requests /\ r.client \notin C
        \/ r.client = NoClient /\ \E q \in Waiting(C) : r.op = q.op /\ r.token = q.token
  BY <1>3 DEF Abandon, Waiting, Requests
<1>5. \A r \in requests : r.client \notin C => r \in requests'
  BY DEF Abandon, Waiting
<1>6. \A r \in Waiting(C) : r \in requests /\ (r.token # 0 => Broken(r.token)')
  BY DEF Waiting, FamilyOf, Broken
<1>7. \A d \in Clients : stage'[d] \in Locked => UNCHANGED cookies
  OBVIOUS
<1>8. \A r \in requests : r.client \in Clients => stage[r.client] \in Locked
  BY Asker
<1>9. Requested'
  <2>1. \A r \in requests' : r.op = "login" <=> r.token = 0
    BY <1>4, <1>6 DEF IInv, Requested
  <2>2. ASSUME NEW r \in requests', r.client \in Clients
        PROVE  /\ stage'[r.client] = StageOf(r.op)
               /\ answer'[r.client] = NoAnswer
               /\ r.token # 0 => r.token = cookies'.refresh
    <3>1. r \in requests /\ r.client \notin C
      BY <1>3, <1>4, <2>2
    <3>2. UNCHANGED cookies
      BY <1>1, <1>7, <1>8, <2>2, <3>1
    <3> QED
      BY <1>1, <2>2, <3>1, <3>2 DEF IInv, Requested
  <2>3. \A r \in requests' : r.client = NoClient /\ r.token # 0 => Broken(r.token)'
    BY <1>2, <1>4, <1>6 DEF IInv, Requested
  <2>4. \A q, r \in requests' : q.client = r.client /\ q.client \in Clients => q = r
    BY <1>3, <1>4 DEF IInv, Requested
  <2> QED
    BY <2>1, <2>2, <2>3, <2>4 DEF Requested
<1>10. Awaited'
  <2> SUFFICES ASSUME NEW c \in Clients, stage'[c] \in Asking
               PROVE  answer'[c] # NoAnswer \/ \E r \in requests' : r.client = c
    BY DEF Awaited, Asking
  <2>1. c \notin C /\ stage[c] \in Asking /\ answer'[c] = answer[c]
    BY <1>1 DEF Asking
  <2> QED
    BY <1>5, <2>1 DEF IInv, Awaited, Asking
<1>11. Answered'
  <2> SUFFICES ASSUME NEW c \in Clients, answer'[c] # NoAnswer PROVE Meaning(c)'
    BY DEF Answered
  <2>1. c \notin C /\ stage'[c] = stage[c] /\ answer'[c] = answer[c] /\ Meaning(c)
    BY <1>1 DEF IInv, Answered
  <2>2. UNCHANGED cookies
    BY <1>7, <2>1 DEF Meaning, Locked
  <2>3. \A f : HeldBy(f)' = HeldBy(f)
    BY DEF HeldBy, Live, Tokens
  <2> QED
    BY <1>2, <2>1, <2>2, <2>3 DEF Meaning, Live, Tokens
<1>12. ServerInv'
  BY AbandonStep DEF IInv
<1>13. Exclusive'
  BY <1>1 DEF IInv, Exclusive, Locked
<1> QED
  BY <1>2, <1>9, <1>10, <1>11, <1>12, <1>13

(* What the abandoned waited for is of a family that exists.                *)
LEMMA LosingFamilies ==
  ASSUME IInv, NEW C \in SUBSET Clients
  PROVE  /\ Losing(C) \subseteq Families
         /\ \A r \in Waiting(C) : FamilyOf(r.token) \subseteq Losing(C)
         /\ \A c \in C : FamilyOf(answer[c].token) \subseteq Losing(C)
<1>1. \A t \in Tokens \cup {0} : FamilyOf(t) \subseteq Families
  BY DEF FamilyOf, IInv, ServerInv, ServerTypeOK
<1>2. \A r \in Waiting(C) : r.token \in Tokens \cup {0}
  BY RequestFacts DEF Waiting, IInv
<1>3. \A c \in C : answer[c].token \in Tokens \cup {0}
  BY DEF IInv, ServerInv, ServerTypeOK
<1>4. \A f : f \in Losing(C) <=> \/ \E r \in Waiting(C) : f \in FamilyOf(r.token)
                                 \/ \E c \in C : f \in FamilyOf(answer[c].token)
  <2>2. \A f : f \in UNION {FamilyOf(r.token) : r \in Waiting(C)} <=> \E r \in Waiting(C) : f \in FamilyOf(r.token)
    BY Zenon
  <2>3. \A f : f \in UNION {FamilyOf(answer[c].token) : c \in C} <=> \E c \in C : f \in FamilyOf(answer[c].token)
    BY Zenon
  <2> QED
    <3> DEFINE A == UNION {FamilyOf(r.token) : r \in Waiting(C)}
               B == UNION {FamilyOf(answer[c].token) : c \in C}
    <3>1. Losing(C) = A \cup B
      BY DEF Losing
    <3> HIDE DEF A, B
    <3>2. \A f : f \in Losing(C) <=> f \in A \/ f \in B
      BY <3>1
    <3> QED
      BY <2>2, <2>3, <3>2, Zenon DEF A, B
<1>5. Losing(C) \subseteq Families
  <2> SUFFICES ASSUME NEW f \in Losing(C) PROVE f \in Families
    OBVIOUS
  <2>1. CASE \E r \in Waiting(C) : f \in FamilyOf(r.token)
    BY <1>1, <1>2, <2>1
  <2>2. CASE \E c \in C : f \in FamilyOf(answer[c].token)
    BY <1>1, <1>3, <2>2
  <2> QED
    BY <1>4, <2>1, <2>2
<1> QED
  BY <1>4, <1>5

(* A deadline passes or a page is left: the cookies stay as they were.      *)
LEMMA GiveUpIInv ==
  ASSUME IInv, NEW C \in SUBSET Clients, Abandon(C),
         disturbed' = disturbed \cup Losing(C),
         stage' = [d \in Clients |-> IF d \in C THEN "idle" ELSE stage[d]],
         expected' = [d \in Clients |-> IF d \in C THEN 0 ELSE expected[d]],
         observed' \in [Tabs -> 0..Len(opened)],
         UNCHANGED <<tokens, left, cookies, expired, opened>>
  PROVE  IInv'
<1>1. disturbed' \subseteq Families /\ left' \subseteq Families
      /\ \A r \in Waiting(C) : FamilyOf(r.token) \subseteq disturbed'
  BY LosingFamilies DEF IInv, ServerInv, ServerTypeOK
<1>2. /\ ServerInv' /\ Requested' /\ Awaited' /\ Answered' /\ Exclusive'
      /\ \A t : Broken(t) => Broken(t)'
  BY <1>1, Abandoned
<1>3. CookieLive'
  <2> SUFFICES ASSUME cookies.refresh # 0, cookies.refresh \notin Live, ~ Broken(cookies.refresh)'
               PROVE  \E c \in Clients : stage'[c] \in {"renewing", "leaving"} /\ answer'[c].status = "ok"
    BY DEF CookieLive, Live, Tokens
  <2>1. PICK c \in Clients : stage[c] \in {"renewing", "leaving"} /\ answer[c].status = "ok"
    BY <1>2 DEF IInv, CookieLive
  <2>2. answer[c] # NoAnswer
    <3>1. NoAnswer.status = "none"
      BY DEF NoAnswer
    <3> QED
      BY <2>1, <3>1
  <2>3. answer[c].token # 0 /\ tokens[answer[c].token].family = tokens[cookies.refresh].family
    BY <2>1, <2>2 DEF IInv, Answered, Meaning
  <2>4. c \notin C
    <3> SUFFICES ASSUME c \in C PROVE FALSE
      OBVIOUS
    <3>1. tokens[cookies.refresh].family \in Losing(C)
      BY <2>3, LosingFamilies DEF FamilyOf
    <3> QED
      BY <3>1 DEF Broken
  <2> QED
    BY <2>1, <2>4 DEF Abandon
<1>4. LogoutEndsFamily' /\ ContextNamesAccount'
  BY DEF IInv, LogoutEndsFamily, ContextNamesAccount, Live, Tokens
<1>5. Bound'
  BY DEF IInv, Bound, SameContext, Locked
<1>6. TypeOK'
  <2>1. stage' \in [Clients -> Stages] /\ expected' \in [Clients -> 0..Len(opened)]
    BY CookieFacts DEF IInv, TypeOK, Stages
  <2> QED
    BY <1>2, <2>1 DEF IInv, TypeOK, ServerInv, NoCookies, Families, Tokens
<1> QED
  BY <1>2, <1>3, <1>4, <1>5, <1>6 DEF IInv

(* The cookies are deleted: what is logged out has no live token any more,  *)
(* or the answer to its revocation was lost.                                *)
LEMMA LoggedOutIInv ==
  ASSUME IInv, NEW c \in Clients, LoggedOut(c)
  PROVE  IInv'
<1>1. /\ stage[c] = "leaving" /\ Move(c, "idle") /\ cookies' = NoCookies /\ expired' = FALSE
      /\ Observe(c) /\ left' = left \cup FamilyOf(cookies.refresh)
      /\ disturbed' = (IF Waiting({c}) = {} THEN disturbed ELSE disturbed \cup Losing({c}))
      /\ Abandon({c}) /\ UNCHANGED <<tokens, opened>>
  BY DEF LoggedOut, Cleared
<1>2. /\ stage' \in [Clients -> Stages] /\ expected' \in [Clients -> 0..Len(opened)]
      /\ stage'[c] = "idle" /\ expected'[c] = 0
      /\ \A d \in Clients \ {c} : stage'[d] = stage[d] /\ expected'[d] = expected[d]
  BY <1>1, Moved DEF Stages
<1>3. \A d \in Clients : stage'[d] \notin Locked
  BY <1>1, <1>2 DEF IInv, Exclusive, Locked
<1>4. stage' = [d \in Clients |-> IF d \in {c} THEN "idle" ELSE stage[d]]
  BY <1>2
<1>5. cookies.refresh \in Tokens /\ 0 \notin Tokens /\ tokens[cookies.refresh].family \in Families
  BY <1>1, CookieFacts DEF IInv, Bound, SameContext, Locked, ServerInv, ServerTypeOK
<1>6. disturbed \subseteq disturbed' /\ disturbed' \subseteq Families /\ left' \subseteq Families
      /\ \A r \in Waiting({c}) : FamilyOf(r.token) \subseteq disturbed'
  <2>1. {c} \in SUBSET Clients
    OBVIOUS
  <2>2. Losing({c}) \subseteq Families /\ \A r \in Waiting({c}) : FamilyOf(r.token) \subseteq Losing({c})
    BY <2>1, LosingFamilies
  <2>3. disturbed \subseteq Families /\ left \subseteq Families /\ FamilyOf(cookies.refresh) \subseteq Families
    BY <1>5 DEF IInv, ServerInv, ServerTypeOK, FamilyOf
  <2> QED
    BY <1>1, <2>2, <2>3
<1>7. /\ ServerInv' /\ Requested' /\ Awaited' /\ Answered' /\ Exclusive'
      /\ \A t : Broken(t) => Broken(t)'
  <2>1. {c} \in SUBSET Clients
    OBVIOUS
  <2> QED
    BY <1>1, <1>3, <1>4, <1>6, <2>1, Abandoned
<1>8. HeldBy(tokens[cookies.refresh].family) = {} \/ tokens[cookies.refresh].family \in disturbed'
  <2>1. CASE answer[c] # NoAnswer
    BY <1>1, <1>6, <2>1 DEF IInv, Answered, Meaning, Broken
  <2>2. CASE \E r \in requests : r.client = c
    <3>1. PICK r \in Waiting({c}) : r.client = c /\ r \in requests
      BY <2>2 DEF Waiting
    <3>2. r.op # "login"
      BY <1>1, <3>1 DEF IInv, Requested, StageOf
    <3>3. r.token = cookies.refresh
      BY <3>1, <3>2, Asker
    <3> QED
      BY <1>5, <1>6, <3>1, <3>3 DEF FamilyOf
  <2> QED
    BY <1>1, <2>1, <2>2 DEF IInv, Awaited
<1>9. LogoutEndsFamily'
  <2> SUFFICES ASSUME NEW t \in Live, tokens[t].family \in left' PROVE tokens[t].family \in disturbed'
    BY <1>1 DEF LogoutEndsFamily, Live, Tokens
  <2>1. CASE tokens[t].family \in left
    BY <1>6, <2>1 DEF IInv, LogoutEndsFamily
  <2>2. CASE tokens[t].family = tokens[cookies.refresh].family
    BY <1>8, <2>2 DEF HeldBy
  <2> QED
    BY <1>1, <1>5, <2>1, <2>2 DEF FamilyOf
<1>10. CookieLive' /\ ContextNamesAccount'
  BY <1>1 DEF CookieLive, ContextNamesAccount, NoCookies
<1>11. Bound'
  BY <1>2, <1>3 DEF IInv, Bound, Locked
<1>12. TypeOK'
  <2>1. observed' \in [Tabs -> 0..Len(opened')]
    <3>1. observed \in [Tabs -> 0..Len(opened)] /\ 0 \in 0..Len(opened) /\ cookies'.context = 0
      BY <1>1, CookieFacts DEF IInv, TypeOK, NoCookies
    <3> QED
      BY <1>1, <3>1 DEF Observe
  <2> QED
    BY <1>1, <1>2, <1>7, <2>1 DEF IInv, TypeOK, ServerInv, Families, Tokens
<1> QED
  BY <1>7, <1>9, <1>10, <1>11, <1>12 DEF IInv

-----------------------------------------------------------------------------
(* The theorems *)

LEMMA WebInit ==
  ASSUME Init
  PROVE  IInv /\ Promise!Init
<1>1. tokens = <<>> /\ requests = {} /\ disturbed = {} /\ left = {} /\ cookies = NoCookies
      /\ answer = [c \in Clients |-> NoAnswer] /\ stage = [c \in Clients |-> "idle"]
      /\ opened = <<>> /\ expired = FALSE /\ observed = [t \in Tabs |-> 0]
      /\ expected = [c \in Clients |-> 0]
  BY DEF Init, ServerInit
<1>2. Len(tokens) = 0 /\ Tokens = {} /\ Live = {} /\ Families = {}
  BY <1>1 DEF Tokens, Live, Families
<1>3. ServerTypeOK
  BY <1>1, <1>2, TokensAssumption DEF ServerTypeOK, NoAnswer
<1>4. ServerInv
  BY <1>1, <1>2, <1>3 DEF ServerInv, OneLive, Locks
<1>5. TypeOK
  <2>1. opened \in Seq(Families) /\ Len(opened) = 0 /\ MaxContexts \in Nat
    BY <1>1, WebAssumption
  <2>2. stage \in [Clients -> Stages]
    BY <1>1 DEF Stages
  <2>3. observed \in [Tabs -> 0..Len(opened)] /\ expected \in [Clients -> 0..Len(opened)]
    BY <1>1, <2>1
  <2>4. Len(opened) <= MaxContexts
    BY <2>1
  <2> QED
    BY <1>1, <1>3, <2>1, <2>2, <2>3, <2>4, Zenon DEF TypeOK
<1>6. Exclusive /\ Requested /\ Bound /\ Awaited /\ Answered /\ CookieLive /\ ContextNamesAccount /\ LogoutEndsFamily
  BY <1>1, <1>2 DEF Exclusive, Requested, Bound, Awaited, Answered, CookieLive, ContextNamesAccount,
                    LogoutEndsFamily, Locked, NoCookies
<1>7. Promise!Init
  BY <1>2 DEF Promise!Init
<1> QED
  BY <1>4, <1>5, <1>6, <1>7 DEF IInv

(* Every step keeps the invariant, and only the server's change the table.  *)
LEMMA WebNext ==
  ASSUME IInv, [Next]_vars
  PROVE  IInv' /\ Changes
<1>1. ASSUME NEW c \in Clients, Page(c) PROVE IInv' /\ UNCHANGED tokens
  <2>1. CASE Start(c)
    BY <2>1, BindIInv DEF Start, Bind, server
  <2>2. CASE Called(c)
    BY <2>2, BindIInv DEF Called, Bind, server
  <2>3. CASE StartLogin(c)
    BY <2>3, MoveIInv DEF StartLogin, MayStart, Stages, Asking, Locked, server
  <2>4. CASE Acquire(c)
    BY <2>4, AcquireIInv DEF Acquire
  <2>5. CASE Probed(c)
    BY <2>5, ProbedIInv DEF Probed
  <2>6. CASE Renewed(c)
    BY <2>6, RenewedIInv DEF Renewed
  <2>7. CASE Retried(c)
    BY <2>7, RetriedIInv DEF Retried, server
  <2>8. CASE LoggedIn(c)
    BY <2>8, LoggedInIInv DEF LoggedIn
  <2>9. CASE LoggedOut(c)
    BY <2>9, LoggedOutIInv DEF LoggedOut
  <2>10. CASE Chosen(c)
    BY <2>10, ChosenIInv DEF Chosen, server
  <2>11. CASE GiveUp(c)
    <3>1. {c} \in SUBSET Clients
      OBVIOUS
    <3>2. /\ stage' = [d \in Clients |-> IF d \in {c} THEN "idle" ELSE stage[d]]
          /\ expected' = [d \in Clients |-> IF d \in {c} THEN 0 ELSE expected[d]]
      BY <2>11 DEF GiveUp, Move, IInv, TypeOK
    <3>3. observed' \in [Tabs -> 0..Len(opened)]
      BY <2>11 DEF GiveUp, IInv, TypeOK
    <3> QED
      BY <2>11, <3>1, <3>2, <3>3, GiveUpIInv DEF GiveUp
  <2> QED
    BY <1>1, <2>1, <2>2, <2>3, <2>4, <2>5, <2>6, <2>7, <2>8, <2>9, <2>10, <2>11 DEF Page, Proceed
<1>2. ASSUME NEW t \in Tabs, Reload(t) PROVE IInv' /\ UNCHANGED tokens
  <2>1. observed' \in [Tabs -> 0..Len(opened)]
    BY <1>2, CookieFacts DEF Reload, IInv, TypeOK, NoCookies
  <2> QED
    BY <1>2, <2>1, GiveUpIInv DEF Reload
<1>3. CASE (Serve \/ ExpireRefresh) /\ UNCHANGED browser
  <2>1. IInv'
    BY <1>3, ServerIInv
  <2>2. CASE Serve
    BY <2>1, <2>2, LoginStep, TakeStep, CommitStep, FailStep DEF Serve, IInv
  <2>3. CASE ExpireRefresh
    <3>1. cookies.refresh \in Tokens /\ Expire(cookies.refresh)
      BY <2>3, CookieFacts DEF ExpireRefresh
    <3> QED
      BY <2>1, <3>1, ExpireStep DEF IInv
  <2> QED
    BY <1>3, <2>2, <2>3
<1>4. CASE ExpireAccess
  BY <1>4, ExpireAccessIInv DEF ExpireAccess, server, Changes
<1>5. CASE UNCHANGED vars
  <2>1. UNCHANGED <<server, browser>> /\ UNCHANGED <<cookies, stage, expired, opened, observed, expected>>
    BY <1>5 DEF vars, browser
  <2>2. /\ ServerInv' /\ ServerTypeOK'
        /\ Requested' /\ Awaited' /\ Answered' /\ CookieLive' /\ LogoutEndsFamily'
    BY <2>1, QuietStep
  <2>3. TypeOK' /\ Exclusive' /\ Bound' /\ ContextNamesAccount'
    BY <2>1, <2>2 DEF IInv, TypeOK, Exclusive, Bound, SameContext, ContextNamesAccount, server, NoCookies,
                      Families, Tokens
  <2> QED
    BY <2>1, <2>2, <2>3 DEF IInv, Changes, server
<1> QED
  BY <1>1, <1>2, <1>3, <1>4, <1>5 DEF Next, Changes

(* The invariant, for any number of tabs, calls, tokens and contexts.       *)
THEOREM WebInvariant == Spec => []IInv
<1>1. Init => IInv
  BY WebInit
<1>2. IInv /\ [Next]_vars => IInv'
  BY WebNext
<1> QED
  BY <1>1, <1>2, PTL DEF Spec

(* Every variable keeps its type. *)
THEOREM TypeCorrect == Spec => []TypeOK
<1>1. IInv => TypeOK
  BY DEF IInv
<1> QED
  BY <1>1, WebInvariant, PTL

(* However the requests of the tabs meet at the server, its families are    *)
(* opened, exchanged and ended one step at a time, and never revive.        *)
THEOREM ServerKeepsFamilies == Spec => FamiliesPromise
<1>1. Init => Promise!Init
  BY WebInit
<1>2. IInv /\ [Next]_vars => [Promise!Next]_(Promise!families)
  BY WebNext, PromiseStep DEF IInv
<1> QED
  BY <1>1, <1>2, WebInvariant, PTL DEF Spec, FamiliesPromise, Promise!Spec

(* Concurrent tabs never sign one another out. *)
THEOREM TabsStaySignedIn == Spec => []NoNeedlessSignOut
<1>1. IInv => NoNeedlessSignOut
  <2> SUFFICES ASSUME IInv, NEW c \in Clients, stage[c] = "renewing", answer[c].status = "rejected"
               PROVE  FamilyOf(answer[c].token) \subseteq disturbed
    BY DEF NoNeedlessSignOut
  <2>1. NoAnswer.status = "none"
    BY DEF NoAnswer
  <2>2. answer[c] # NoAnswer
    BY <2>1
  <2>3. Broken(answer[c].token)
    BY <2>2 DEF IInv, Answered, Meaning
  <2> QED
    BY <2>3 DEF Broken, FamilyOf
<1> QED
  BY <1>1, WebInvariant, PTL

(* What was logged out cannot be renewed. *)
THEOREM LoggedOutForGood == Spec => []LogoutEndsFamily
<1>1. IInv => LogoutEndsFamily
  BY DEF IInv
<1> QED
  BY <1>1, WebInvariant, PTL

(* No call of one account runs for another. *)
THEOREM CallsKeepAccount == Spec => []ContextNamesAccount
<1>1. IInv => ContextNamesAccount
  BY DEF IInv
<1> QED
  BY <1>1, WebInvariant, PTL
=============================================================================
