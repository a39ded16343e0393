----------------------------- MODULE OwnerProofs -----------------------------
(***************************************************************************)
(* The owner app's session for any queue and any number of tokens: the two *)
(* keys hold one pair, no late answer undoes an intent, and the app is     *)
(* never signed out while its family lives and no answer was lost.         *)
(*                                                                         *)
(* The inductive invariant says what the queue buys: the one running       *)
(* operation is the only one whose request can touch the stored token,     *)
(* unless an answer was lost before (the family is disturbed), and all but *)
(* the last login or logout in the queue are obsolete.                     *)
(***************************************************************************)
EXTENDS OwnerSession, RefreshProofs

Intents == {"login", "logout"}
Asking == {"entering", "refreshing", "leaving"}

(* The stage in which an operation waits for the answer to its request. *)
StageOf(op) == [login |-> "entering", refresh |-> "refreshing", logout |-> "leaving"][op]

Broken(t) == tokens[t].family \in disturbed

(* Only the last login or logout is current, and it is the user's intent. *)
QueueOK ==
  /\ \A i, j \in DOMAIN queue : i < j /\ queue[j].op \in Intents => ~ queue[i].current
  /\ \A i \in DOMAIN queue : queue[i].current /\ queue[i].op \in Intents => queue[i].op = intent

(* The stages of each operation. *)
StageOK ==
  stage # "idle" =>
    /\ Op = "login" => stage \in {"entering", "saving"}
    /\ Op = "logout" => stage = "leaving"
    /\ Op = "check" => stage \in {"probing", "refreshing", "saving", "confirming"}

Pending(op) == \E i \in DOMAIN queue : queue[i].current /\ queue[i].op = op

(* A logout that is not pending any more has emptied the storage, and       *)
(* nothing has filled it since.                                             *)
AfterLogout ==
  intent = "logout" /\ ~ torn => Pending("logout") \/ (storage = Empty /\ stage = "idle")

(* A request is of the running operation, about the stored token, or        *)
(* belongs to nobody and its family is disturbed.                           *)
Requested ==
  /\ \A r \in requests : r.op = "login" <=> r.token = 0
  /\ \A r \in requests : r.client \in Clients =>
       /\ stage = StageOf(r.op)
       /\ \A c \in Clients : answer[c] = NoAnswer
       /\ r.token # 0 => r.token = storage.refresh
  /\ \A r \in requests : r.client = NoClient /\ r.token # 0 => Broken(r.token)
  /\ \A q, r \in requests : q.client \in Clients /\ r.client \in Clients => q = r

(* An operation that waits for the server has a request there or an answer. *)
Awaited ==
  stage \in Asking =>
    (\E c \in Clients : answer[c] # NoAnswer) \/ (\E r \in requests : r.client \in Clients)

OneAnswer == \A c, d \in Clients : answer[c] # NoAnswer /\ answer[d] # NoAnswer => c = d

(* What an answer means for the families that are not disturbed. *)
Meaning(c) ==
  /\ answer[c].status # "none"
  /\ stage \in Asking
  /\ stage = "entering" /\ answer[c].status = "ok" =>
       answer[c].token # 0 /\ (answer[c].token \in Live \/ Broken(answer[c].token))
  /\ stage = "refreshing" =>
       /\ answer[c].token # 0
       /\ tokens[answer[c].token].family = tokens[storage.refresh].family
       /\ answer[c].status = "ok" => answer[c].token \in Live \/ Broken(answer[c].token)
       /\ answer[c].status = "rejected" => Broken(answer[c].token)
  /\ stage = "leaving" =>
       /\ answer[c].token = storage.refresh
       /\ HeldBy(tokens[storage.refresh].family) = {} \/ Broken(storage.refresh)

Meant == \A c \in Clients : answer[c] # NoAnswer => Meaning(c)

Stored == stage \in {"refreshing", "leaving"} => storage.refresh # 0

(* Between its writes a pair is good, and a renewed one is of the family of *)
(* the token that is still stored.                                          *)
Saving ==
  stage = "saving" =>
    /\ storage.access = used /\ used # 0
    /\ used \in Live \/ Broken(used)
    /\ Op = "check" => storage.refresh # 0 /\ tokens[storage.refresh].family = tokens[used].family

(* The stored token can be exchanged, or the running operation has just     *)
(* exchanged or revoked it.                                                 *)
StoredLive ==
  storage.refresh # 0 =>
    \/ storage.refresh \in Live
    \/ Broken(storage.refresh)
    \/ \E c \in Clients : stage \in {"refreshing", "leaving"} /\ answer[c].status = "ok"
    \/ stage = "saving" /\ Op = "check"

IntentsOK == QueueOK /\ StageOK /\ AfterLogout /\ IntentHides

TokensOK ==
  /\ Requested /\ Awaited /\ OneAnswer /\ Meant
  /\ Stored /\ Saving /\ StoredLive /\ PairIsWhole /\ LogoutEndsFamily

IInv == TypeOK /\ ServerInv /\ IntentsOK /\ TokensOK

-----------------------------------------------------------------------------
(* Steps of the server *)

(* The table changes only in disturbed families, or by a new family. *)
Harmless ==
  /\ Changes
  /\ disturbed \subseteq disturbed'
  /\ \A t \in Tokens : ~ Broken(t)' => tokens'[t].status = tokens[t].status
  /\ \A t \in Tokens' \ Tokens : Broken(t)' \/ tokens'[t].family = t

LEMMA StillHarmless ==
  ASSUME UNCHANGED tokens, disturbed \subseteq disturbed'
  PROVE  Harmless
BY DEF Harmless, Changes, Tokens

(* The facts of the storage a proof needs. *)
LEMMA StorageFacts ==
  ASSUME IInv
  PROVE  /\ 0 \notin Tokens /\ Len(tokens) \in Nat
         /\ storage.refresh \in Tokens \cup {0} /\ storage.access \in Tokens \cup {0}
         /\ used \in Tokens \cup {0} /\ shown \in Tokens \cup {0}
BY DEF IInv, TypeOK, ServerTypeOK, Tokens

(* The app's variables keep their types while the table grows. *)
LEMMA AppTypes ==
  ASSUME IInv, ServerInv', Growth, UNCHANGED app
  PROVE  TypeOK'
<1>1. Tokens \subseteq Tokens'
  BY DEF Growth
<1>2. storage \in [access : Tokens' \cup {0}, refresh : Tokens' \cup {0}]
  BY <1>1 DEF IInv, TypeOK
<1> QED
  BY <1>1, <1>2 DEF IInv, TypeOK, ServerInv, app, Op

(* The queue and the intents do not look at the server. *)
LEMMA IntentsKept ==
  ASSUME IInv, UNCHANGED app
  PROVE  IntentsOK'
BY DEF IInv, IntentsOK, QueueOK, StageOK, AfterLogout, Pending, IntentHides, Op, app

(* A harmless step leaves the given answers and the storage what they mean. *)
LEMMA HarmlessStep ==
  ASSUME IInv, ServerInv', Harmless, UNCHANGED <<app, left>>,
         \A c \in Clients : answer[c] # NoAnswer => answer'[c] = answer[c]
  PROVE  /\ \A c \in Clients : answer[c] # NoAnswer => Meaning(c)'
         /\ Stored' /\ Saving' /\ StoredLive' /\ PairIsWhole' /\ LogoutEndsFamily'
         /\ IntentsOK' /\ TypeOK'
<1>1. Growth
  BY Grows DEF Harmless, IInv, ServerInv
<1>2. \A t \in Tokens : t \in Tokens' /\ tokens'[t].family = tokens[t].family
                        /\ (Broken(t) => Broken(t)')
  BY <1>1 DEF Growth, SameFamilies, Broken, Harmless
<1>3. \A t \in Tokens : t \in Live => t \in Live' \/ Broken(t)'
  BY <1>2 DEF Live, Harmless
<1>4. \A t \in Live' : Broken(t)' \/ t \in Live \/ t \notin Tokens
  BY <1>2 DEF Live, Harmless
<1>5. /\ 0 \notin Tokens /\ storage.refresh \in Tokens \cup {0} /\ used \in Tokens \cup {0}
      /\ UNCHANGED <<storage, shown, stale, queue, stage, used, intent, torn>>
  BY StorageFacts DEF app
<1>6. \A c \in Clients : answer[c].token \in Tokens \cup {0}
  BY DEF IInv, ServerInv, ServerTypeOK
<1>7. \A t \in Tokens : HeldBy(tokens[t].family) = {} => HeldBy(tokens[t].family)' = {} \/ Broken(t)'
  <2> SUFFICES ASSUME NEW t \in Tokens, HeldBy(tokens[t].family) = {}, ~ Broken(t)',
                      NEW u \in Live', tokens'[u].family = tokens'[t].family
               PROVE  FALSE
    BY DEF HeldBy
  <2>1. ~ Broken(u)'
    BY DEF Broken
  <2>2. CASE u \in Live
    BY <1>2, <2>2 DEF HeldBy, Live
  <2>3. CASE u \notin Tokens
    <3>1. tokens'[u].family = u
      BY <2>1, <2>3 DEF Harmless, Live
    <3>2. tokens[t].family \in Tokens
      BY DEF IInv, ServerInv, ServerTypeOK, Families
    <3> QED
      BY <1>2, <2>3, <3>1, <3>2
  <2> QED
    BY <1>4, <2>1, <2>2, <2>3
<1>8. ASSUME NEW c \in Clients, answer[c] # NoAnswer PROVE Meaning(c)'
  <2>1. Meaning(c) /\ answer'[c] = answer[c]
    BY <1>8 DEF IInv, TokensOK, Meant
  <2>2. stage \in {"refreshing", "leaving"} => storage.refresh \in Tokens
    BY <1>5 DEF IInv, TokensOK, Stored
  <2>3. \A t \in Tokens : t \in Live \/ Broken(t) => t \in Live' \/ Broken(t)'
    BY <1>2, <1>3
  <2>4. CASE stage \in {"refreshing", "leaving"}
    <3>1. storage.refresh \in Tokens /\ answer[c].token \in Tokens
      BY <1>5, <1>6, <2>1, <2>2, <2>4 DEF Meaning
    <3>2. HeldBy(tokens[storage.refresh].family) = {} \/ Broken(storage.refresh) =>
            HeldBy(tokens[storage.refresh].family)' = {} \/ Broken(storage.refresh)'
      BY <1>2, <1>5, <1>7, <3>1
    <3> QED
      BY <1>2, <1>5, <2>1, <2>3, <2>4, <3>1, <3>2 DEF Meaning
  <2>5. CASE stage \notin {"refreshing", "leaving"}
    BY <1>5, <1>6, <2>1, <2>3, <2>5 DEF Meaning
  <2> QED
    BY <2>4, <2>5
<1>9. StoredLive'
  BY <1>2, <1>3, <1>5 DEF StoredLive, IInv, TokensOK, NoAnswer, Op
<1>10. Saving'
  <2> SUFFICES ASSUME stage = "saving" PROVE Saving'
    BY <1>5 DEF Saving
  <2>1. used \in Tokens /\ storage.access = used /\ (used \in Live \/ Broken(used))
        /\ (Op = "check" => storage.refresh \in Tokens
                            /\ tokens[storage.refresh].family = tokens[used].family)
    BY <1>5 DEF IInv, TokensOK, Saving
  <2>2. used \in Live' \/ Broken(used)'
    BY <1>2, <1>3, <1>5, <2>1
  <2> QED
    BY <1>2, <1>5, <2>1, <2>2 DEF Saving, Op
<1>11. LogoutEndsFamily'
  <2> SUFFICES ASSUME NEW t \in Live', tokens'[t].family \in left, ~ Broken(t)'
               PROVE  FALSE
    BY DEF LogoutEndsFamily, Broken
  <2>1. CASE t \in Live
    BY <1>2, <2>1 DEF IInv, TokensOK, LogoutEndsFamily, Broken, Live
  <2>2. CASE t \notin Tokens
    <3>1. tokens'[t].family = t
      BY <2>2 DEF Harmless, Live
    <3> QED
      BY <2>2, <3>1 DEF IInv, ServerInv, ServerTypeOK, Families
  <2> QED
    BY <1>4, <2>1, <2>2
<1>12. Stored' /\ PairIsWhole'
  BY <1>5 DEF IInv, TokensOK, Stored, PairIsWhole
<1> QED
  BY <1>1, <1>8, <1>9, <1>10, <1>11, <1>12, AppTypes, IntentsKept

(* A request that is over: the others stay what they were. *)
LEMMA Replied ==
  ASSUME IInv, Growth, disturbed \subseteq disturbed', NEW r \in requests,
         NEW s \in {"ok", "rejected", "failed"}, NEW t, Reply(r, s, t), UNCHANGED app
  PROVE  /\ Requested' /\ Awaited' /\ OneAnswer'
         /\ \A c \in Clients : answer[c] # NoAnswer => answer'[c] = answer[c]
         /\ r.client \in Clients => /\ answer'[r.client] = [status |-> s, token |-> t]
                                    /\ answer'[r.client] # NoAnswer
                                    /\ \A c \in Clients \ {r.client} : answer'[c] = NoAnswer
         /\ r.client = NoClient => UNCHANGED answer
<1>1. answer \in [Clients -> [status : {"none", "ok", "rejected", "failed"}, token : Tokens \cup {0}]]
      /\ requests \subseteq Requests
  BY DEF IInv, ServerInv, ServerTypeOK
<1>2. r.client \in Clients => answer'[r.client] = [status |-> s, token |-> t] /\ answer'[r.client] # NoAnswer
  BY <1>1, TokensAssumption DEF Reply, NoAnswer
<1>3. \A c \in Clients \ {r.client} : answer'[c] = answer[c]
  BY <1>1 DEF Reply
<1>4. r.client \in Clients => \A c \in Clients : answer[c] = NoAnswer
  BY DEF IInv, TokensOK, Requested
<1>5. \A q \in requests : q.token \in Tokens \cup {0} /\ (q.token # 0 /\ Broken(q.token) => Broken(q.token)')
  BY <1>1 DEF Growth, SameFamilies, Broken, Requests
<1>6. requests' = requests \ {r} /\ UNCHANGED <<stage, storage>>
  BY DEF Reply, app
<1>7. r.client = NoClient => UNCHANGED answer
  BY DEF Reply
<1>8. r.client \in Clients \cup {NoClient}
  BY <1>1 DEF Requests
<1>9. \A q \in requests' : q.client \in Clients => r.client = NoClient
  BY <1>6, <1>8 DEF IInv, TokensOK, Requested
<1>10. Requested'
  BY <1>5, <1>6, <1>7, <1>9 DEF IInv, TokensOK, Requested
<1>11. Awaited' /\ OneAnswer'
  <2>1. CASE r.client \in Clients
    BY <1>2, <1>3, <1>4, <2>1 DEF Awaited, OneAnswer
  <2>2. CASE r.client = NoClient
    BY <1>6, <1>7, <2>2, TokensAssumption DEF IInv, TokensOK, Awaited, OneAnswer
  <2> QED
    BY <1>8, <2>1, <2>2
<1> QED
  BY <1>2, <1>3, <1>4, <1>7, <1>10, <1>11

(* An answer that reaches a client, after a harmless step. *)
LEMMA AnswerStep ==
  ASSUME IInv, ServerInv', Harmless, UNCHANGED <<app, left>>, NEW r \in requests,
         NEW s \in {"ok", "rejected", "failed"}, NEW t, Reply(r, s, t),
         r.client \in Clients => Meaning(r.client)'
  PROVE  IInv'
<1>1. Growth /\ disturbed \subseteq disturbed'
  BY Grows DEF Harmless, IInv, ServerInv
<1>2. /\ Requested' /\ Awaited' /\ OneAnswer'
      /\ \A c \in Clients : answer[c] # NoAnswer => answer'[c] = answer[c]
      /\ r.client \in Clients => \A c \in Clients \ {r.client} : answer'[c] = NoAnswer
      /\ r.client = NoClient => UNCHANGED answer
  BY <1>1, Replied
<1>3. /\ \A c \in Clients : answer[c] # NoAnswer => Meaning(c)'
      /\ Stored' /\ Saving' /\ StoredLive' /\ PairIsWhole' /\ LogoutEndsFamily'
      /\ IntentsOK' /\ TypeOK'
  BY <1>2, HarmlessStep
<1>4. r.client \in Clients \cup {NoClient}
  BY RequestFacts DEF IInv
<1>5. Meant'
  BY <1>2, <1>3, <1>4 DEF Meant
<1> QED
  BY <1>2, <1>3, <1>5 DEF IInv, TokensOK

(* The client of a request: what it waits for and about which token. *)
LEMMA Asker ==
  ASSUME IInv, NEW r \in requests, r.client \in Clients
  PROVE  /\ stage = StageOf(r.op)
         /\ r.op = "login" <=> r.token = 0
         /\ r.op # "login" => r.token = storage.refresh /\ r.token \in Tokens
                              /\ (r.token \in Live \/ Broken(r.token))
<1>1. r.op \in Operations
  BY RequestFacts DEF IInv
<1>2. stage = StageOf(r.op) /\ \A c \in Clients : answer[c] = NoAnswer
  BY DEF IInv, TokensOK, Requested
<1>3. r.op = "login" <=> r.token = 0
  BY DEF IInv, TokensOK, Requested
<1>4. r.op # "login" => r.token = storage.refresh /\ r.token # 0
  BY <1>3 DEF IInv, TokensOK, Requested
<1>5. stage # "saving" /\ \A c \in Clients : answer[c].status # "ok"
  BY <1>1, <1>2 DEF StageOf, Operations, NoAnswer
<1>6. storage.refresh # 0 => storage.refresh \in Live \/ Broken(storage.refresh)
  BY <1>5 DEF IInv, TokensOK, StoredLive
<1> QED
  BY <1>2, <1>3, <1>4, <1>6, StorageFacts

LEMMA LoginIInv ==
  ASSUME IInv, NEW r \in requests, Login(r), UNCHANGED app
  PROVE  IInv'
<1>1. ServerInv' /\ Changes /\ UNCHANGED <<disturbed, left>> /\ r.op = "login"
  BY LoginStep DEF Login, IInv
<1>2. r.client \in Clients => stage' = "entering"
  BY <1>1, Asker DEF StageOf, app
<1>3. CASE /\ tokens' = Issue(tokens, Len(tokens) + 1)
           /\ Reply(r, "ok", Len(tokens) + 1)
  <2>1. tokens \in Seq(Rows) /\ Len(tokens) \in Nat
    BY RequestFacts DEF IInv
  <2>2. LogsIn
    BY <1>3, <2>1, Inserted DEF LogsIn, SameFamilies, SameBut, Tokens
  <2>3. Harmless
    BY <1>1, <2>1, <2>2 DEF Harmless, LogsIn, SameBut, Tokens
  <2>4. Growth
    BY <1>1, Grows DEF IInv, ServerInv
  <2>5. Len(tokens) + 1 \in Live' /\ Len(tokens) + 1 # 0
    BY <2>1, <2>2 DEF LogsIn, Live, Tokens
  <2>6. r.client \in Clients => answer'[r.client] = [status |-> "ok", token |-> Len(tokens) + 1]
    BY <1>1, <1>3, <2>4, Replied
  <2>7. r.client \in Clients => Meaning(r.client)'
    BY <1>2, <2>5, <2>6 DEF Meaning, Asking
  <2> QED
    BY <1>1, <1>3, <2>3, <2>7, AnswerStep
<1>4. CASE Reply(r, "rejected", 0) /\ UNCHANGED tokens
  <2>1. Harmless /\ Growth
    BY <1>1, <1>4, StillHarmless, Grows DEF IInv, ServerInv
  <2>2. r.client \in Clients => answer'[r.client] = [status |-> "rejected", token |-> 0]
    BY <1>1, <1>4, <2>1, Replied
  <2>3. r.client \in Clients => Meaning(r.client)'
    BY <1>2, <2>2 DEF Meaning, Asking
  <2> QED
    BY <1>1, <1>4, <2>1, <2>3, AnswerStep
<1> QED
  BY <1>3, <1>4 DEF Login

LEMMA FailIInv ==
  ASSUME IInv, NEW r \in requests, Fail(r), UNCHANGED app
  PROVE  IInv'
<1>1. ServerInv' /\ Changes /\ UNCHANGED <<tokens, left>> /\ r.op # "login" /\ Reply(r, "failed", r.token)
      /\ disturbed \subseteq disturbed'
  BY FailStep DEF Fail, IInv
<1>2. Harmless /\ Growth
  BY <1>1, StillHarmless, Grows DEF IInv, ServerInv
<1>3. r.client \in Clients => answer'[r.client] = [status |-> "failed", token |-> r.token]
  BY <1>1, <1>2, Replied
<1>4. r.client \in Clients => Meaning(r.client)'
  <2> SUFFICES ASSUME r.client \in Clients PROVE Meaning(r.client)'
    OBVIOUS
  <2>1. r.token = storage'.refresh /\ r.token \in Tokens /\ stage' = StageOf(r.op) /\ r.token # 0
    BY <1>1, Asker, StorageFacts DEF app
  <2>2. CASE r.op = "refresh"
    BY <1>3, <2>1, <2>2 DEF Meaning, StageOf, Asking
  <2>3. CASE r.op = "logout"
    <3>1. Broken(storage.refresh)'
      BY <1>1, <2>1, <2>3 DEF Fail, FamilyOf, Broken
    <3> QED
      BY <1>3, <2>1, <2>3, <3>1 DEF Meaning, StageOf, Asking
  <2> QED
    BY <1>1, <2>2, <2>3, RequestFacts DEF Operations, IInv
<1> QED
  BY <1>1, <1>2, <1>4, AnswerStep

LEMMA TakeIInv ==
  ASSUME IInv, NEW r \in requests, Take(r), UNCHANGED app
  PROVE  IInv'
<1>1. ServerInv' /\ Changes /\ UNCHANGED <<tokens, disturbed, left>> /\ r.op # "login"
  BY TakeStep DEF Take, IInv
<1>2. Harmless /\ Growth
  BY <1>1, StillHarmless, Grows DEF IInv, ServerInv
<1>3. r \in Requests
  BY RequestFacts DEF IInv
<1>4. CASE requests' = (requests \ {r}) \cup {[r EXCEPT !.stage = "locked"]} /\ UNCHANGED answer
  <2> DEFINE l == [r EXCEPT !.stage = "locked"]
  <2>1. l.op = r.op /\ l.token = r.token /\ l.client = r.client
    BY <1>3 DEF Requests
  <2> HIDE DEF l
  <2>2. requests' = (requests \ {r}) \cup {l} /\ UNCHANGED <<answer, stage, storage>>
    BY <1>4 DEF l, app
  <2>3. \A t : Broken(t)' = Broken(t)
    BY <1>1 DEF Broken
  <2>4. Requested'
    BY <2>1, <2>2, <2>3 DEF IInv, TokensOK, Requested
  <2>5. Awaited' /\ OneAnswer'
    BY <2>1, <2>2 DEF IInv, TokensOK, Awaited, OneAnswer
  <2>6. /\ \A c \in Clients : answer[c] # NoAnswer => Meaning(c)'
        /\ Stored' /\ Saving' /\ StoredLive' /\ PairIsWhole' /\ LogoutEndsFamily'
        /\ IntentsOK' /\ TypeOK'
    BY <1>1, <1>2, <2>2, HarmlessStep
  <2> QED
    BY <1>1, <2>2, <2>4, <2>5, <2>6 DEF IInv, TokensOK, Meant
<1>5. CASE ~ Usable(r) /\ Reply(r, IF r.op = "logout" THEN "ok" ELSE "rejected", r.token)
  <2> DEFINE s == IF r.op = "logout" THEN "ok" ELSE "rejected"
  <2>1. r.client \in Clients => answer'[r.client] = [status |-> s, token |-> r.token]
    BY <1>1, <1>2, <1>5, Replied
  <2>2. r.client \in Clients => Meaning(r.client)'
    <3> SUFFICES ASSUME r.client \in Clients PROVE Meaning(r.client)'
      OBVIOUS
    <3>1. r.token = storage.refresh /\ r.token \in Tokens /\ stage = StageOf(r.op)
          /\ r.token # 0 /\ (r.token \in Live \/ Broken(r.token))
          /\ stage' = stage /\ storage' = storage
      BY <1>1, Asker, StorageFacts DEF app
    <3>2. Broken(storage.refresh)'
      BY <1>1, <1>5, <3>1 DEF Usable, Live, Broken
    <3>3. CASE r.op = "refresh"
      BY <2>1, <3>1, <3>2, <3>3 DEF Meaning, StageOf, Asking
    <3>4. CASE r.op = "logout"
      BY <2>1, <3>1, <3>2, <3>4 DEF Meaning, StageOf, Asking
    <3> QED
      BY <1>1, <3>3, <3>4, RequestFacts DEF Operations, IInv
  <2> QED
    BY <1>1, <1>2, <1>5, <2>2, AnswerStep
<1> QED
  BY <1>4, <1>5 DEF Take

(* The transaction of a request nobody waits for: its family is disturbed. *)
LEMMA ForgottenCommit ==
  ASSUME IInv, NEW r \in requests, Commit(r), r.client = NoClient, UNCHANGED app
  PROVE  IInv'
<1>1. ServerInv' /\ Changes /\ r.token \in Tokens /\ UNCHANGED <<disturbed, left>>
      /\ \/ Rotates(r.token) /\ Reply(r, "ok", Len(tokens) + 1)
         \/ Ends(r.token) /\ Reply(r, "ok", r.token)
  BY CommitStep, CommitChanges DEF IInv
<1>2. Growth /\ 0 \notin Tokens
  BY <1>1, Grows, StorageFacts DEF IInv, ServerInv
<1>3. Broken(r.token) /\ tokens'[r.token].family \in disturbed
  BY <1>1, <1>2 DEF IInv, TokensOK, Requested, Broken, Growth, SameFamilies
<1>4. Harmless
  <2>1. \A t \in Tokens : ~ Broken(t)' => tokens'[t].status = tokens[t].status
    BY <1>1, <1>3 DEF Rotates, Ends, SameBut, Broken
  <2>2. ASSUME NEW t \in Tokens' \ Tokens PROVE Broken(t)'
    <3>1. Rotates(r.token) /\ t = Len(tokens) + 1
      BY <1>1, <1>2 DEF Growth, Ends, Tokens
    <3> QED
      BY <1>1, <1>3, <3>1 DEF Rotates, Broken
  <2> QED
    BY <1>1, <2>1, <2>2 DEF Harmless
<1>5. r.client \notin Clients
  BY TokensAssumption
<1>6. CASE Reply(r, "ok", Len(tokens) + 1)
  BY <1>1, <1>4, <1>5, <1>6, AnswerStep
<1>7. CASE Reply(r, "ok", r.token)
  BY <1>1, <1>4, <1>5, <1>7, AnswerStep
<1> QED
  BY <1>1, <1>6, <1>7

(* The transaction of the running operation. *)
LEMMA AwaitedCommit ==
  ASSUME IInv, NEW r \in requests, Commit(r), r.client \in Clients, UNCHANGED app
  PROVE  IInv'
<1>1. ServerInv' /\ Changes /\ r.token \in Tokens /\ UNCHANGED <<disturbed, left>>
      /\ \/ r.op = "refresh" /\ Rotates(r.token) /\ Reply(r, "ok", Len(tokens) + 1)
         \/ r.op = "logout" /\ Ends(r.token) /\ Reply(r, "ok", r.token)
  BY CommitStep, CommitChanges DEF IInv
<1>2. Growth /\ 0 \notin Tokens /\ Len(tokens) \in Nat
  BY <1>1, Grows, StorageFacts DEF IInv, ServerInv
<1>3. stage = StageOf(r.op) /\ r.token = storage.refresh /\ r.token # 0
      /\ (r.token \in Live \/ Broken(r.token))
  BY <1>1, <1>2, Asker
<1>4. \A t \in Tokens : t \in Tokens' /\ tokens'[t].family = tokens[t].family /\ Broken(t)' = Broken(t)
  BY <1>1, <1>2 DEF Growth, SameFamilies, Broken
<1>5. UNCHANGED <<stage, storage, used, torn>>
  BY DEF app
<1>6. stage \in {"refreshing", "leaving"}
  BY <1>1, <1>3 DEF StageOf
<1>7. TypeOK' /\ IntentsOK' /\ Stored' /\ Saving' /\ PairIsWhole'
  <2>1. TypeOK' /\ IntentsOK'
    BY <1>1, <1>2, AppTypes, IntentsKept
  <2>2. Stored' /\ Saving' /\ PairIsWhole'
    BY <1>5, <1>6 DEF IInv, TokensOK, Stored, Saving, PairIsWhole
  <2> QED
    BY <2>1, <2>2
<1> DEFINE f == tokens[r.token].family
<1>8. CASE r.op = "refresh" /\ Rotates(r.token) /\ Reply(r, "ok", Len(tokens) + 1)
  <2> DEFINE n == Len(tokens) + 1
  <2>1. n \in Tokens' /\ n # 0 /\ tokens'[n].family = f /\ n \in Live' /\ r.token \in Live
    BY <1>2, <1>8 DEF Rotates, Live, Tokens, Growth
  <2>2. /\ Requested' /\ Awaited' /\ OneAnswer' /\ answer'[r.client] = [status |-> "ok", token |-> n]
        /\ \A c \in Clients \ {r.client} : answer'[c] = NoAnswer
    BY <1>1, <1>2, <1>8, Replied
  <2>3. stage' = "refreshing" /\ answer'[r.client].status = "ok" /\ answer'[r.client].token = n
    BY <1>3, <1>5, <1>8, <2>2 DEF StageOf
  <2>4. Meant'
    <3>1. tokens'[n].family = tokens'[storage'.refresh].family
      BY <1>1, <1>3, <1>4, <1>5, <2>1
    <3>2. Meaning(r.client)'
      BY <2>1, <2>3, <3>1 DEF Meaning, Asking
    <3> QED
      BY <2>2, <3>2 DEF Meant
  <2>5. StoredLive'
    BY <2>3 DEF StoredLive
  <2>6. LogoutEndsFamily'
    <3> SUFFICES ASSUME NEW t \in Live', tokens'[t].family \in left, ~ Broken(t)'
                 PROVE  FALSE
      BY <1>1 DEF LogoutEndsFamily, Broken
    <3>1. t \in Live \/ (t = n /\ tokens'[t].family = f)
      BY <1>2, <1>8, <2>1 DEF Rotates, SameBut, Live, Growth, Dead, Tokens
    <3>2. CASE t \in Live
      BY <1>4, <3>2 DEF IInv, TokensOK, LogoutEndsFamily, Broken, Live
    <3>3. CASE t = n /\ tokens'[t].family = f
      BY <1>1, <2>1, <3>3 DEF IInv, TokensOK, LogoutEndsFamily, Broken
    <3> QED
      BY <3>1, <3>2, <3>3
  <2> QED
    BY <1>1, <1>7, <2>2, <2>4, <2>5, <2>6 DEF IInv, TokensOK
<1>9. CASE r.op = "logout" /\ Ends(r.token) /\ Reply(r, "ok", r.token)
  <2>1. /\ Requested' /\ Awaited' /\ OneAnswer' /\ answer'[r.client] = [status |-> "ok", token |-> r.token]
        /\ \A c \in Clients \ {r.client} : answer'[c] = NoAnswer
    BY <1>1, <1>2, <1>9, Replied
  <2>2. \A t \in Live' : t \in Live /\ t # r.token
    BY <1>2, <1>9 DEF Ends, SameBut, Live, Growth, Dead, Tokens
  <2>3. HeldBy(tokens[storage.refresh].family)' = {} \/ Broken(storage.refresh)'
    <3> SUFFICES ASSUME r.token \in Live, NEW t \in Live', tokens'[t].family = tokens'[r.token].family
                 PROVE  FALSE
      BY <1>1, <1>3, <1>4, <1>5 DEF HeldBy
    <3>1. t \in Live /\ t # r.token /\ tokens[t].family = tokens[r.token].family
      BY <1>1, <1>4, <2>2 DEF Live
    <3> QED
      BY <3>1 DEF IInv, ServerInv, OneLive
  <2>4. stage' = "leaving" /\ answer'[r.client].status = "ok" /\ answer'[r.client].token = storage'.refresh
    BY <1>3, <1>5, <1>9, <2>1 DEF StageOf
  <2>5. Meant'
    <3>1. Meaning(r.client)'
      BY <2>3, <2>4 DEF Meaning, Asking
    <3> QED
      BY <2>1, <3>1 DEF Meant
  <2>6. StoredLive'
    BY <2>4 DEF StoredLive
  <2>7. LogoutEndsFamily'
    BY <1>1, <1>4, <2>2 DEF IInv, TokensOK, LogoutEndsFamily, Live
  <2> QED
    BY <1>1, <1>7, <2>1, <2>5, <2>6, <2>7 DEF IInv, TokensOK
<1> QED
  BY <1>1, <1>8, <1>9

LEMMA ExpireIInv ==
  ASSUME IInv, ExpireRefresh, UNCHANGED app
  PROVE  IInv'
<1> DEFINE t == storage.refresh
<1>1. t \in Tokens /\ Expire(t)
  BY StorageFacts DEF ExpireRefresh
<1>2. ServerInv' /\ Changes /\ Ends(t) /\ UNCHANGED <<requests, answer, left>>
      /\ disturbed' = disturbed \cup {tokens[t].family}
  BY <1>1, ExpireStep DEF IInv
<1>3. Growth
  BY <1>2, Grows DEF IInv, ServerInv
<1>4. Harmless
  <2>1. tokens'[t].family \in disturbed'
    BY <1>1, <1>2, <1>3 DEF Growth, SameFamilies
  <2>2. Tokens' \ Tokens = {}
    BY <1>2 DEF Ends, Tokens
  <2>3. \A u \in Tokens : ~ Broken(u)' => tokens'[u].status = tokens[u].status
    <3>1. \A u \in Tokens \ {t} : tokens'[u].status = tokens[u].status
      BY <1>2 DEF Ends, SameBut
    <3> QED
      BY <2>1, <3>1 DEF Broken
  <2> QED
    BY <1>2, <2>2, <2>3 DEF Harmless
<1>5. /\ \A c \in Clients : answer[c] # NoAnswer => Meaning(c)'
      /\ Stored' /\ Saving' /\ StoredLive' /\ PairIsWhole' /\ LogoutEndsFamily'
      /\ IntentsOK' /\ TypeOK'
  BY <1>2, <1>4, HarmlessStep
<1>6. UNCHANGED <<requests, answer, stage, storage>>
  BY <1>2 DEF app
<1>7. Requested'
  <2>1. \A r \in requests : r.token # 0 /\ Broken(r.token) => Broken(r.token)'
    BY <1>2, <1>3, RequestFacts DEF Growth, SameFamilies, Broken, IInv
  <2> QED
    BY <1>6, <2>1 DEF IInv, TokensOK, Requested
<1>8. Awaited' /\ OneAnswer'
  BY <1>6 DEF IInv, TokensOK, Awaited, OneAnswer
<1> QED
  BY <1>2, <1>5, <1>6, <1>7, <1>8 DEF IInv, TokensOK, Meant

LEMMA ServerIInv ==
  ASSUME IInv, Serve \/ ExpireRefresh, UNCHANGED app
  PROVE  IInv'
<1>1. \A r \in requests : r.client \in Clients \cup {NoClient}
  BY RequestFacts DEF IInv
<1> QED
  BY <1>1, LoginIInv, TakeIInv, FailIInv, ForgottenCommit, AwaitedCommit, ExpireIInv DEF Serve

-----------------------------------------------------------------------------
(* Steps of the app: the queue and the intents *)

Entries == [op : {"check", "login", "logout"}, current : BOOLEAN]

(* The running operation and the queue behind it. *)
LEMMA QueueFacts ==
  ASSUME IInv, queue # <<>>
  PROVE  /\ queue \in Seq(Entries) /\ Len(queue) \in Nat \ {0} /\ 1 \in DOMAIN queue
         /\ Head(queue) = queue[1] /\ Op = queue[1].op /\ queue[1] \in Entries
         /\ Tail(queue) \in Seq(Entries) /\ Len(Tail(queue)) = Len(queue) - 1
         /\ \A i \in DOMAIN Tail(queue) : /\ i + 1 \in DOMAIN queue /\ 1 < i + 1
                                          /\ Tail(queue)[i] = queue[i + 1]
         /\ \A i \in DOMAIN queue : i # 1 => /\ i - 1 \in DOMAIN Tail(queue)
                                             /\ Tail(queue)[i - 1] = queue[i]
<1>1. queue \in Seq(Entries)
  BY DEF IInv, TypeOK, Entries
<1> QED
  BY <1>1 DEF Op

(* Erasing succeeds or the storage is torn. *)
LEMMA ClearFacts ==
  ASSUME IInv, Clear
  PROVE  /\ storage' \in {storage, Empty} /\ shown' \in {0, shown}
         /\ torn \in BOOLEAN /\ torn' \in BOOLEAN /\ (torn => torn')
         /\ ~ torn' => storage' = Empty
BY DEF Clear, Erased, Publish, IInv, TypeOK

(* The end of an operation: its intent is fulfilled, or the next in the     *)
(* queue takes over.                                                        *)
LEMMA FinishIntents ==
  ASSUME IInv, queue # <<>>, Finish, UNCHANGED intent, torn => torn',
         ~ torn' /\ Head(queue).current /\ Op = "logout" => storage' = Empty,
         ~ torn' /\ storage = Empty /\ stage = "idle" => storage' = Empty,
         shown' \in {0, shown} \/ (Head(queue).current /\ Op # "logout" /\ stage # "idle")
  PROVE  IntentsOK'
<1>1. queue' = Tail(queue) /\ stage' = "idle"
  BY DEF Finish
<1>2. QueueOK /\ AfterLogout /\ IntentHides
  BY DEF IInv, IntentsOK
<1>3. QueueOK'
  <2>1. \A i \in DOMAIN Tail(queue) : /\ i + 1 \in DOMAIN queue /\ Tail(queue)[i] = queue[i + 1]
                                       /\ i \in Nat
    <3>1. DOMAIN Tail(queue) \subseteq Nat
      BY QueueFacts
    <3> QED
      BY <3>1, QueueFacts
  <2>2. ASSUME NEW i \in DOMAIN Tail(queue), NEW j \in DOMAIN Tail(queue), i < j,
               Tail(queue)[j].op \in Intents
        PROVE  ~ Tail(queue)[i].current
    <3>1. i + 1 < j + 1
      BY <2>1, <2>2
    <3> QED
      BY <1>2, <2>1, <2>2, <3>1 DEF QueueOK
  <2>3. \A i \in DOMAIN Tail(queue) :
          Tail(queue)[i].current /\ Tail(queue)[i].op \in Intents => Tail(queue)[i].op = intent
    BY <1>2, <2>1 DEF QueueOK
  <2> QED
    BY <1>1, <2>2, <2>3 DEF QueueOK
<1>4. StageOK'
  BY <1>1 DEF StageOK
<1>5. AfterLogout'
  <2> SUFFICES ASSUME intent = "logout", ~ torn', storage' # Empty
               PROVE  Pending("logout")'
    BY <1>1 DEF AfterLogout
  <2>1. Pending("logout")
    BY <1>2 DEF AfterLogout
  <2>2. PICK i \in DOMAIN queue : queue[i].current /\ queue[i].op = "logout"
    BY <2>1 DEF Pending
  <2>3. i # 1
    BY <2>2, QueueFacts
  <2>4. i - 1 \in DOMAIN Tail(queue) /\ Tail(queue)[i - 1] = queue[i]
    BY <2>2, <2>3, QueueFacts
  <2> QED
    BY <1>1, <2>2, <2>4 DEF Pending
<1>6. IntentHides'
  <2>1. ASSUME NEW i \in DOMAIN Tail(queue), Tail(queue)[i].current, Tail(queue)[i].op \in Intents
        PROVE  shown' = 0
    <3>1. i + 1 \in DOMAIN queue /\ queue[i + 1].current /\ queue[i + 1].op \in Intents
          /\ 1 < i + 1 /\ 1 \in DOMAIN queue /\ Head(queue) = queue[1]
      BY <2>1, QueueFacts
    <3>2. shown = 0 /\ ~ Head(queue).current
      BY <1>2, <3>1 DEF QueueOK, IntentHides, Intents
    <3> QED
      BY <3>2
  <2>2. ASSUME intent = "logout", ~ torn'
        PROVE  shown' = 0
    <3>1. shown = 0
      BY <1>2, <2>2 DEF IntentHides
    <3>2. ~ (Head(queue).current /\ Op # "logout" /\ stage # "idle")
      <4>1. CASE stage # "idle"
        <5>1. PICK i \in DOMAIN queue : queue[i].current /\ queue[i].op = "logout"
          BY <1>2, <2>2, <4>1 DEF AfterLogout, Pending
        <5>2. CASE i = 1
          BY <5>1, <5>2, QueueFacts
        <5>3. CASE i # 1
          <6>1. 1 < i
            BY <5>3, QueueFacts
          <6> QED
            BY <1>2, <5>1, <6>1, QueueFacts DEF QueueOK, Intents
        <5> QED
          BY <5>2, <5>3
      <4> QED
        BY <4>1
    <3> QED
      BY <3>1, <3>2
  <2> QED
    BY <1>1, <2>1, <2>2 DEF IntentHides, Intents
<1> QED
  BY <1>3, <1>4, <1>5, <1>6 DEF IntentsOK

(* A step inside an operation: only a check that is current publishes. *)
LEMMA WaitIntents ==
  ASSUME IInv, queue # <<>>, UNCHANGED <<queue, intent, torn>>, StageOK',
         intent = "logout" /\ ~ torn => Pending("logout"),
         shown' = shown \/ (Head(queue).current /\ Op = "check")
  PROVE  IntentsOK'
<1>1. QueueOK /\ IntentHides
  BY DEF IInv, IntentsOK
<1>2. QueueOK' /\ AfterLogout'
  BY <1>1 DEF QueueOK, AfterLogout, Pending
<1>3. IntentHides'
  <2>1. ASSUME NEW i \in DOMAIN queue, queue[i].current, queue[i].op \in Intents
        PROVE  shown' = 0
    <3>1. shown = 0
      BY <1>1, <2>1 DEF IntentHides, Intents
    <3>2. CASE i = 1
      BY <2>1, <3>1, <3>2, QueueFacts DEF Intents
    <3>3. CASE i # 1
      <4>1. 1 < i
        BY <3>3, QueueFacts
      <4> QED
        BY <1>1, <2>1, <3>1, <4>1, QueueFacts DEF QueueOK
    <3> QED
      BY <3>2, <3>3
  <2>2. intent = "logout" /\ ~ torn => \E i \in DOMAIN queue : queue[i].current /\ queue[i].op \in Intents
    BY DEF Pending, Intents
  <2> QED
    BY <2>1, <2>2 DEF IntentHides, Intents
<1> QED
  BY <1>2, <1>3 DEF IntentsOK

-----------------------------------------------------------------------------
(* Steps of the app: the requests and the storage *)

(* The steps of the app leave the table alone. *)
LEMMA SameTable ==
  ASSUME UNCHANGED tokens
  PROVE  /\ Tokens' = Tokens /\ Live' = Live /\ Families' = Families /\ Changes
         /\ \A f : HeldBy(f)' = HeldBy(f)
         /\ \A t : FamilyOf(t)' = FamilyOf(t)
         /\ UNCHANGED disturbed => \A t : Broken(t)' = Broken(t)
BY DEF Tokens, Live, Families, HeldBy, Changes, FamilyOf, Broken

(* Outside these stages nothing of the app is on its way. *)
LEMMA Quiet ==
  ASSUME IInv, stage \notin Asking
  PROVE  /\ \A c \in Clients : answer[c] = NoAnswer
         /\ \A r \in requests : r.client \notin Clients
<1>1. \A c \in Clients : answer[c] = NoAnswer
  BY DEF IInv, TokensOK, Meant, Meaning
<1>2. \A r \in requests : StageOf(r.op) \in Asking
  BY RequestFacts DEF IInv, StageOf, Asking, Operations
<1> QED
  BY <1>1, <1>2 DEF IInv, TokensOK, Requested

(* The running operation sends its request. *)
LEMMA AskStep ==
  ASSUME IInv, NEW op \in Operations, NEW t, Ask(op, t), stage \notin Asking \cup {"saving"},
         stage' = StageOf(op), UNCHANGED <<tokens, answer, disturbed, left, storage, torn>>,
         op = "login" <=> t = 0, t # 0 => t = storage.refresh
  PROVE  ServerInv' /\ TokensOK'
<1>1. PICK c \in Clients : Send(c, op, t)
  BY DEF Ask
<1>2. t \in Tokens \cup {0}
  BY StorageFacts
<1>3. ServerInv'
  BY <1>1, <1>2, SendStep DEF IInv
<1>4. (\A d \in Clients : answer[d] = NoAnswer) /\ (\A r \in requests : r.client \notin Clients)
  BY Quiet
<1> DEFINE q == [op |-> op, token |-> t, client |-> c, stage |-> "sent"]
<1>5. q.op = op /\ q.token = t /\ q.client = c /\ requests' = requests \cup {q}
  BY <1>1 DEF Send
<1> HIDE DEF q
<1>6. stage' \in Asking /\ stage' # "saving" /\ (stage' \in {"refreshing", "leaving"} => op # "login")
  BY DEF StageOf, Asking, Operations
<1>7. Requested'
  <2>1. /\ \A r \in requests' : r = q \/ r \in requests
        /\ \A r \in requests : (r.op = "login" <=> r.token = 0)
                               /\ (r.client = NoClient /\ r.token # 0 => Broken(r.token)')
    BY <1>5, SameTable DEF IInv, TokensOK, Requested
  <2> QED
    BY <1>4, <1>5, <2>1, TokensAssumption DEF Requested
<1>8. Awaited' /\ OneAnswer' /\ Meant'
  BY <1>4, <1>5 DEF Awaited, OneAnswer, Meant
<1>9. Stored' /\ Saving' /\ PairIsWhole'
  BY <1>6 DEF Stored, Saving, PairIsWhole, IInv, TokensOK
<1>10. StoredLive'
  BY <1>4, SameTable DEF StoredLive, IInv, TokensOK, NoAnswer
<1>11. LogoutEndsFamily'
  BY SameTable DEF LogoutEndsFamily, IInv, TokensOK
<1> QED
  BY <1>3, <1>7, <1>8, <1>9, <1>10, <1>11 DEF TokensOK

(* A step between requests that erases the storage or leaves it alone. *)
LEMMA QuietStep ==
  ASSUME IInv, UNCHANGED server, stage \notin Asking \cup {"saving"},
         stage' \notin Asking \cup {"saving"}, storage' \in {storage, Empty}, torn => torn'
  PROVE  ServerInv' /\ TokensOK'
<1>1. UNCHANGED <<tokens, requests, answer, disturbed, left>>
  BY DEF server
<1>2. ServerInv'
  BY <1>1, SameTable DEF IInv, ServerInv, ServerTypeOK, OneLive, Locks, Usable, Requests
<1>3. (\A d \in Clients : answer[d] = NoAnswer) /\ (\A r \in requests : r.client \notin Clients)
  BY Quiet
<1>4. Requested' /\ Awaited' /\ OneAnswer' /\ Meant'
  BY <1>1, <1>3, SameTable DEF IInv, TokensOK, Requested, Awaited, OneAnswer, Meant
<1>5. Stored' /\ Saving'
  BY DEF Stored, Saving, Asking
<1>6. PairIsWhole'
  BY DEF PairIsWhole, Empty, IInv, TokensOK
<1>7. StoredLive'
  BY <1>1, <1>3, SameTable DEF StoredLive, IInv, TokensOK, NoAnswer, Empty
<1>8. LogoutEndsFamily'
  BY <1>1, SameTable DEF LogoutEndsFamily, IInv, TokensOK
<1> QED
  BY <1>2, <1>4, <1>5, <1>6, <1>7, <1>8 DEF TokensOK

(* A step that only queues. *)
LEMMA SameStep ==
  ASSUME IInv, UNCHANGED <<server, storage, stage, used, torn>>, stage # "idle" => Op' = Op
  PROVE  ServerInv' /\ TokensOK'
<1>1. UNCHANGED <<tokens, requests, answer, disturbed, left>>
  BY DEF server
<1>2. ServerInv'
  BY <1>1, SameTable DEF IInv, ServerInv, ServerTypeOK, OneLive, Locks, Usable, Requests
<1>3. Requested' /\ Awaited' /\ OneAnswer'
  BY <1>1, SameTable DEF IInv, TokensOK, Requested, Awaited, OneAnswer
<1>4. Meant'
  BY <1>1, SameTable DEF IInv, TokensOK, Meant, Meaning
<1>5. Stored' /\ Saving' /\ PairIsWhole'
  BY <1>1, SameTable DEF IInv, TokensOK, Stored, Saving, PairIsWhole
<1>6. StoredLive' /\ LogoutEndsFamily'
  BY <1>1, SameTable DEF IInv, TokensOK, StoredLive, LogoutEndsFamily
<1> QED
  BY <1>2, <1>3, <1>4, <1>5, <1>6 DEF TokensOK

(* The app stops waiting: what its requests were about is disturbed. *)
LEMMA ForgetStep ==
  ASSUME IInv, Abandon(Clients), UNCHANGED tokens, stage' = "idle",
         storage' \in {storage, Empty}, torn => torn', stage = "saving" => torn',
         disturbed \subseteq disturbed', disturbed' \subseteq Families, left' \subseteq Families,
         \A r \in requests : r.client \in Clients /\ r.token # 0 => Broken(r.token)',
         storage'.refresh # 0 => storage.refresh \in Live \/ Broken(storage.refresh)',
         \A t \in Live : tokens[t].family \in left' => tokens[t].family \in disturbed'
  PROVE  ServerInv' /\ TokensOK'
<1>1. ServerInv'
  BY AbandonStep DEF IInv
<1>2. answer' = [c \in Clients |-> NoAnswer]
  BY DEF Abandon
<1>3. \A r \in requests' : /\ r.client = NoClient
                           /\ r.op = "login" <=> r.token = 0
                           /\ r.token # 0 => Broken(r.token)'
  <2>1. \A r \in requests : Broken(r.token) => Broken(r.token)'
    BY DEF Broken
  <2>2. requests' = (requests \ {r \in requests : r.client \in Clients})
                      \cup {[r EXCEPT !.client = NoClient] : r \in {r \in requests : r.client \in Clients}}
    BY DEF Abandon, Waiting
  <2>3. \A r \in requests : /\ r.client \in Clients \cup {NoClient} /\ r \in Requests
                            /\ r.op = "login" <=> r.token = 0
                            /\ r.client = NoClient /\ r.token # 0 => Broken(r.token)
    BY RequestFacts DEF IInv, TokensOK, Requested
  <2>4. \A r \in requests : LET q == [r EXCEPT !.client = NoClient]
                            IN q.client = NoClient /\ q.op = r.op /\ q.token = r.token
    BY <2>3 DEF Requests
  <2> SUFFICES ASSUME NEW r \in requests'
               PROVE  r.client = NoClient /\ (r.op = "login" <=> r.token = 0)
                      /\ (r.token # 0 => Broken(r.token)')
    OBVIOUS
  <2>5. CASE r \in requests /\ r.client \notin Clients
    BY <2>1, <2>3, <2>5
  <2>6. ASSUME NEW q \in requests, q.client \in Clients, r = [q EXCEPT !.client = NoClient]
        PROVE  r.client = NoClient /\ (r.op = "login" <=> r.token = 0)
               /\ (r.token # 0 => Broken(r.token)')
    <3>1. r.client = NoClient /\ r.op = q.op /\ r.token = q.token
      BY <2>4, <2>6
    <3> QED
      BY <2>3, <2>6, <3>1
  <2> QED
    BY <2>2, <2>5, <2>6
<1>4. Requested' /\ Awaited' /\ OneAnswer' /\ Meant'
  BY <1>2, <1>3, TokensAssumption DEF Requested, Awaited, OneAnswer, Meant, Asking
<1>5. Stored' /\ Saving'
  BY DEF Stored, Saving
<1>6. PairIsWhole'
  BY DEF PairIsWhole, Empty, IInv, TokensOK
<1>7. StoredLive'
  BY SameTable DEF StoredLive, Empty
<1>8. LogoutEndsFamily'
  BY SameTable DEF LogoutEndsFamily
<1> QED
  BY <1>1, <1>4, <1>5, <1>6, <1>7, <1>8 DEF TokensOK

-----------------------------------------------------------------------------
(* Each step of the app *)

LEMMA FinishTypes ==
  ASSUME IInv, ServerInv', UNCHANGED <<tokens, stale, intent>>, queue # <<>>, Finish,
         storage' \in [access : Tokens \cup {0}, refresh : Tokens \cup {0}],
         storage'.refresh # 0 => storage'.access # 0,
         shown' \in {0, shown, used}, torn' \in BOOLEAN
  PROVE  TypeOK'
<1>1. queue' \in Seq(Entries) /\ Len(queue') <= MaxQueue
  BY QueueFacts, OwnerAssumption DEF Finish, IInv, TypeOK
<1>2. stage' = "idle" /\ used' = 0 /\ shown' \in Tokens \cup {0}
  BY StorageFacts DEF Finish
<1>3. Tokens' = Tokens /\ stale' \subseteq Tokens /\ intent' \in {"none", "login", "logout"}
  BY SameTable DEF IInv, TypeOK
<1> QED
  BY <1>1, <1>2, <1>3 DEF TypeOK, ServerInv, Entries

LEMMA WaitTypes ==
  ASSUME IInv, ServerInv', UNCHANGED <<tokens, stale, intent, queue, torn>>, queue # <<>>,
         stage' \in {"probing", "confirming", "entering", "refreshing", "saving", "leaving"},
         storage' \in [access : Tokens \cup {0}, refresh : Tokens \cup {0}],
         storage'.refresh # 0 => storage'.access # 0,
         shown' \in {0, shown, used}, used' \in Tokens \cup {0}
  PROVE  TypeOK'
<1>1. shown' \in Tokens \cup {0}
  BY StorageFacts
<1>2. Tokens' = Tokens
  BY SameTable
<1> QED
  BY <1>1, <1>2 DEF IInv, TypeOK, ServerInv

(* The storage keeps its type when it is erased or left alone. *)
LEMMA StorageKept ==
  ASSUME IInv, storage' \in {storage, Empty}
  PROVE  /\ storage' \in [access : Tokens \cup {0}, refresh : Tokens \cup {0}]
         /\ storage'.refresh # 0 => storage'.access # 0
BY DEF IInv, TypeOK, Empty

(* A new entry: the older ones keep their places. *)
LEMMA QueuedFacts ==
  ASSUME NEW Q \in Seq(Entries), NEW e \in Entries
  PROVE  /\ Append(Q, e) \in Seq(Entries) /\ Append(Q, e) # <<>>
         /\ Len(Append(Q, e)) = Len(Q) + 1 /\ Len(Q) \in Nat
         /\ DOMAIN Append(Q, e) = DOMAIN Q \cup {Len(Q) + 1}
         /\ \A i \in DOMAIN Q : Append(Q, e)[i] = Q[i] /\ i < Len(Q) + 1 /\ i # Len(Q) + 1
         /\ Append(Q, e)[Len(Q) + 1] = e
         /\ Q # <<>> => Head(Append(Q, e)) = Q[1] /\ 1 \in DOMAIN Q
OBVIOUS

LEMMA CheckIInv ==
  ASSUME IInv, Check
  PROVE  IInv'
<1> DEFINE e == Entry("check")
<1>1. queue \in Seq(Entries) /\ e \in Entries /\ e.op \notin Intents
  BY DEF IInv, TypeOK, Entries, Entry, Intents
<1>2. queue' = Append(queue, e) /\ UNCHANGED <<server, storage, shown, stale, stage, used, intent, torn>>
      /\ UNCHANGED tokens
  BY DEF Check, server
<1> HIDE DEF e
<1>3. stage # "idle" => queue # <<>>
  BY DEF IInv, TypeOK
<1>4. queue # <<>> => Op' = Op /\ Op = queue[1].op
  BY <1>1, <1>2, QueuedFacts DEF Op
<1>5. ServerInv' /\ TokensOK'
  BY <1>2, <1>3, <1>4, SameStep
<1>6. TypeOK'
  <2>1. Len(queue') <= MaxQueue
    BY <1>1, <1>2, QueuedFacts, OwnerAssumption DEF Check, MayQueue
  <2>2. queue' \in Seq([op : {"check", "login", "logout"}, current : BOOLEAN]) /\ queue' # <<>>
    BY <1>1, <1>2, QueuedFacts DEF Entries
  <2> QED
    BY <1>2, <1>5, <2>1, <2>2, SameTable DEF IInv, TypeOK, ServerInv
<1>7. IntentsOK'
  <2>1. QueueOK'
    BY <1>1, <1>2, QueuedFacts DEF IInv, IntentsOK, QueueOK
  <2>2. StageOK'
    BY <1>2, <1>3, <1>4 DEF IInv, IntentsOK, StageOK
  <2>3. AfterLogout'
    BY <1>1, <1>2, QueuedFacts DEF IInv, IntentsOK, AfterLogout, Pending
  <2>4. IntentHides'
    BY <1>1, <1>2, QueuedFacts DEF IInv, IntentsOK, IntentHides, Intents
  <2> QED
    BY <2>1, <2>2, <2>3, <2>4 DEF IntentsOK
<1> QED
  BY <1>5, <1>6, <1>7 DEF IInv

LEMMA IntendIInv ==
  ASSUME IInv, NEW op \in Intents, Intend(op)
  PROVE  IInv'
<1> DEFINE e == Entry(op)
<1>1. queue \in Seq(Entries) /\ e \in Entries /\ e.op = op /\ e.current
  BY DEF IInv, TypeOK, Entries, Entry, Intents
<1> HIDE DEF e
<1>2. /\ Obsolete \in Seq(Entries) /\ Len(Obsolete) = Len(queue) /\ DOMAIN Obsolete = DOMAIN queue
      /\ \A i \in DOMAIN queue : Obsolete[i].op = queue[i].op /\ ~ Obsolete[i].current
  <2>1. \A x \in Entries : LET y == [x EXCEPT !.current = FALSE]
                           IN y \in Entries /\ y.op = x.op /\ y.current = FALSE
    BY DEF Entries
  <2>2. queue \in [1..Len(queue) -> Entries] /\ Len(queue) \in Nat /\ DOMAIN queue = 1..Len(queue)
    BY <1>1
  <2>3. Obsolete \in [1..Len(queue) -> Entries]
    BY <2>1, <2>2 DEF Obsolete
  <2>4. Obsolete \in Seq(Entries) /\ Len(Obsolete) = Len(queue)
    BY <2>2, <2>3
  <2>5. \A i \in DOMAIN queue : Obsolete[i].op = queue[i].op /\ ~ Obsolete[i].current
    BY <2>1, <2>2 DEF Obsolete
  <2> QED
    BY <2>2, <2>3, <2>4, <2>5
<1>3. queue' = Append(Obsolete, e) /\ shown' = 0 /\ intent' = op
      /\ UNCHANGED <<server, storage, stale, stage, used, torn>> /\ UNCHANGED tokens
  BY DEF Intend, server, e
<1>4. /\ queue' \in Seq(Entries) /\ queue' # <<>> /\ Len(queue') = Len(queue) + 1
      /\ DOMAIN queue' = DOMAIN queue \cup {Len(queue) + 1} /\ Len(queue) \in Nat
      /\ \A i \in DOMAIN queue : /\ queue'[i].op = queue[i].op /\ ~ queue'[i].current
                                 /\ i < Len(queue) + 1 /\ i # Len(queue) + 1
      /\ queue'[Len(queue) + 1] = e
  BY <1>1, <1>2, <1>3, QueuedFacts
<1>5. stage # "idle" => queue # <<>> /\ Op' = Op
  <2>1. stage # "idle" => queue # <<>>
    BY DEF IInv, TypeOK
  <2>2. queue # <<>> => Head(queue') = queue'[1] /\ 1 \in DOMAIN queue /\ Head(queue) = queue[1]
    BY <1>1, <1>4
  <2> QED
    BY <1>4, <2>1, <2>2 DEF Op
<1>6. ServerInv' /\ TokensOK'
  BY <1>3, <1>5, SameStep
<1>7. TypeOK'
  <2>1. Len(queue') <= MaxQueue
    BY <1>4, OwnerAssumption DEF Intend, MayQueue
  <2> QED
    BY <1>3, <1>4, <1>6, <2>1, SameTable DEF IInv, TypeOK, ServerInv, Entries, Intents
<1>8. IntentsOK'
  <2>1. QueueOK'
    BY <1>1, <1>3, <1>4 DEF QueueOK
  <2>2. StageOK'
    BY <1>3, <1>5 DEF IInv, IntentsOK, StageOK
  <2>3. AfterLogout'
    BY <1>1, <1>3, <1>4 DEF AfterLogout, Pending
  <2>4. IntentHides'
    BY <1>3 DEF IntentHides
  <2> QED
    BY <2>1, <2>2, <2>3, <2>4 DEF IntentsOK
<1> QED
  BY <1>6, <1>7, <1>8 DEF IInv

(* auth/me finds the token expired, or there is none: the app renews it, or *)
(* has nothing to renew.                                                    *)
LEMMA RenewIInv ==
  ASSUME IInv, queue # <<>>, stage \in {"idle", "probing"}, Op = "check", Renew,
         intent = "logout" /\ ~ torn /\ storage.refresh # 0 => Pending("logout"),
         UNCHANGED <<tokens, answer, disturbed, left, stale, intent>>
  PROVE  IInv'
<1>1. stage \notin Asking \cup {"saving"}
  BY DEF Asking
<1>2. CASE storage.refresh # 0
  <2>1. Ask("refresh", storage.refresh) /\ stage' = "refreshing" /\ used' = 0
        /\ UNCHANGED <<queue, storage, shown, torn>>
    BY <1>2 DEF Renew, Wait
  <2>2. "refresh" \in Operations /\ stage' = StageOf("refresh")
    BY <2>1 DEF Operations, StageOf
  <2>3. ServerInv' /\ TokensOK'
    <3>1. ("refresh" = "login") <=> (storage.refresh = 0)
      BY <1>2
    <3> QED
      BY <1>1, <1>2, <2>1, <2>2, <3>1, AskStep
  <2>4. IntentsOK'
    <3>1. StageOK'
      BY <2>1 DEF StageOK, Op
    <3> QED
      BY <1>2, <2>1, <3>1, WaitIntents
  <2>5. TypeOK'
    BY <2>1, <2>3, WaitTypes, StorageKept
  <2> QED
    BY <2>3, <2>4, <2>5 DEF IInv
<1>3. CASE storage.refresh = 0
  <2>1. Clear /\ Finish /\ UNCHANGED requests
    BY <1>3 DEF Renew
  <2>2. UNCHANGED server /\ stage' = "idle"
    BY <2>1 DEF server, Finish
  <2>3. ServerInv' /\ TokensOK'
    BY <1>1, <2>1, <2>2, QuietStep, ClearFacts DEF Asking
  <2>4. IntentsOK'
    BY <2>1, FinishIntents, ClearFacts
  <2>5. TypeOK'
    <3>1. shown' \in {0, shown, used} /\ torn' \in BOOLEAN
      BY <2>1, ClearFacts
    <3> QED
      BY <2>1, <2>3, <3>1, FinishTypes, ClearFacts, StorageKept
  <2> QED
    BY <2>3, <2>4, <2>5 DEF IInv
<1> QED
  BY <1>2, <1>3

(* Nothing of a session is left after a logout unless it is still pending. *)
LEMMA AfterLogoutFacts ==
  ASSUME IInv, intent = "logout", ~ torn, ~ Pending("logout")
  PROVE  storage.refresh = 0 /\ storage.access = 0 /\ shown = 0 /\ stage = "idle"
BY DEF IInv, IntentsOK, AfterLogout, IntentHides, Empty

LEMMA BeginIInv ==
  ASSUME IInv, Begin
  PROVE  IInv'
<1>1. queue # <<>> /\ stage = "idle" /\ stage \notin Asking \cup {"saving"}
      /\ UNCHANGED <<tokens, answer, disturbed, left, stale, intent>>
  BY DEF Begin, Asking
<1>2. Head(queue).current \in BOOLEAN /\ storage \in {storage, Empty}
  BY <1>1, QueueFacts DEF Entries
<1>3. CASE Skips /\ Finish /\ UNCHANGED <<storage, shown, torn, requests>>
  <2>1. UNCHANGED server /\ stage' = "idle" /\ ~ Head(queue).current /\ storage' \in {storage, Empty}
    BY <1>1, <1>3 DEF server, Finish, Skips
  <2>2. ServerInv' /\ TokensOK'
    BY <1>1, <1>3, <2>1, QuietStep DEF Asking
  <2>3. IntentsOK'
    BY <1>1, <1>3, <2>1, FinishIntents
  <2>4. TypeOK'
    <3>1. torn' \in BOOLEAN /\ shown' \in {0, shown, used}
      BY <1>3 DEF IInv, TypeOK
    <3> QED
      BY <1>1, <1>3, <2>1, <2>2, <3>1, FinishTypes, StorageKept
  <2> QED
    BY <2>2, <2>3, <2>4 DEF IInv
<1>4. CASE ~ Skips /\ Op = "check"
           /\ LET t == IF shown # 0 THEN shown ELSE storage.access
              IN IF t # 0 THEN Wait("probing", t) /\ UNCHANGED <<storage, shown, torn, requests>>
                 ELSE Renew
  <2> DEFINE t == IF shown # 0 THEN shown ELSE storage.access
  <2>1. t \in Tokens \cup {0} /\ (t = 0 <=> shown = 0 /\ storage.access = 0)
    BY StorageFacts
  <2>2. CASE t # 0 /\ Wait("probing", t) /\ UNCHANGED <<storage, shown, torn, requests>>
    <3>1. UNCHANGED server /\ stage' = "probing" /\ used' \in Tokens \cup {0}
          /\ storage' \in {storage, Empty} /\ UNCHANGED queue
      BY <1>1, <2>1, <2>2 DEF server, Wait
    <3>2. ServerInv' /\ TokensOK'
      BY <1>1, <2>2, <3>1, QuietStep DEF Asking
    <3>3. IntentsOK'
      <4>1. StageOK'
        BY <1>4, <3>1 DEF StageOK, Op
      <4>2. intent = "logout" /\ ~ torn => Pending("logout")
        BY <2>1, <2>2, AfterLogoutFacts
      <4> QED
        BY <1>1, <2>2, <3>1, <4>1, <4>2, WaitIntents
    <3>4. TypeOK'
      BY <1>1, <2>2, <3>1, <3>2, WaitTypes, StorageKept
    <3> QED
      BY <3>2, <3>3, <3>4 DEF IInv
  <2>3. CASE t = 0 /\ Renew
    <3>1. intent = "logout" /\ ~ torn /\ storage.refresh # 0 => Pending("logout")
      BY AfterLogoutFacts
    <3> QED
      BY <1>1, <1>4, <2>3, <3>1, RenewIInv
  <2> QED
    BY <1>4, <2>2, <2>3
<1>5. CASE ~ Skips /\ Op = "login" /\ Ask("login", 0) /\ Wait("entering", 0)
           /\ UNCHANGED <<storage, shown, torn>>
  <2>1. "login" \in Operations /\ stage' = StageOf("login") /\ stage' = "entering"
        /\ used' = 0 /\ UNCHANGED queue
    BY <1>5 DEF Operations, StageOf, Wait
  <2>2. ServerInv' /\ TokensOK'
    BY <1>1, <1>5, <2>1, AskStep
  <2>3. intent = "login"
    BY <1>1, <1>5, QueueFacts DEF Skips, IInv, IntentsOK, QueueOK, Intents
  <2>4. IntentsOK'
    <3>1. StageOK'
      BY <1>5, <2>1 DEF StageOK, Op
    <3> QED
      BY <1>1, <1>5, <2>1, <2>3, <3>1, WaitIntents
  <2>5. TypeOK'
    BY <1>1, <1>2, <1>5, <2>1, <2>2, WaitTypes, StorageKept
  <2> QED
    BY <2>2, <2>4, <2>5 DEF IInv
<1>6. CASE Op = "logout" /\ storage.refresh # 0 /\ Ask("logout", storage.refresh)
           /\ Wait("leaving", 0) /\ UNCHANGED <<storage, shown, torn>>
  <2>1. "logout" \in Operations /\ stage' = StageOf("logout") /\ stage' = "leaving"
        /\ used' = 0 /\ UNCHANGED queue
    BY <1>6 DEF Operations, StageOf, Wait
  <2>2. ServerInv' /\ TokensOK'
    <3>1. ("logout" = "login") <=> (storage.refresh = 0)
      BY <1>6
    <3> QED
      BY <1>1, <1>6, <2>1, <3>1, AskStep
  <2>3. IntentsOK'
    <3>1. StageOK'
      BY <1>6, <2>1 DEF StageOK, Op
    <3>2. intent = "logout" /\ ~ torn => Pending("logout")
      BY <1>6, AfterLogoutFacts
    <3> QED
      BY <1>1, <1>6, <2>1, <3>1, <3>2, WaitIntents
  <2>4. TypeOK'
    BY <1>1, <1>2, <1>6, <2>1, <2>2, WaitTypes, StorageKept
  <2> QED
    BY <2>2, <2>3, <2>4 DEF IInv
<1>7. CASE Op = "logout" /\ Clear /\ Finish /\ UNCHANGED requests
  <2>1. UNCHANGED server /\ stage' = "idle"
    BY <1>1, <1>7 DEF server, Finish
  <2>2. ServerInv' /\ TokensOK'
    BY <1>1, <1>7, <2>1, QuietStep, ClearFacts DEF Asking
  <2>3. IntentsOK'
    BY <1>1, <1>7, FinishIntents, ClearFacts
  <2>4. TypeOK'
    <3>1. shown' \in {0, shown, used} /\ torn' \in BOOLEAN
      BY <1>7, ClearFacts
    <3> QED
      BY <1>1, <1>7, <2>2, <3>1, FinishTypes, ClearFacts, StorageKept
  <2> QED
    BY <2>2, <2>3, <2>4 DEF IInv
<1> QED
  <2>1. \/ Skips /\ Finish /\ UNCHANGED <<storage, shown, torn, requests>>
        \/ /\ ~ Skips /\ Op = "check"
           /\ LET t == IF shown # 0 THEN shown ELSE storage.access
              IN IF t # 0 THEN Wait("probing", t) /\ UNCHANGED <<storage, shown, torn, requests>>
                 ELSE Renew
        \/ ~ Skips /\ Op = "login" /\ Ask("login", 0) /\ Wait("entering", 0)
           /\ UNCHANGED <<storage, shown, torn>>
        \/ /\ Op = "logout"
           /\ IF storage.refresh # 0
                THEN Ask("logout", storage.refresh) /\ Wait("leaving", 0)
                     /\ UNCHANGED <<storage, shown, torn>>
                ELSE Clear /\ Finish /\ UNCHANGED requests
    BY DEF Begin
  <2> QED
    BY <1>3, <1>4, <1>5, <1>6, <1>7, <2>1

(* An operation is under way and nothing of a logout is left behind it. *)
LEMMA Running ==
  ASSUME IInv, stage # "idle"
  PROVE  queue # <<>> /\ (intent = "logout" /\ ~ torn => Pending("logout"))
BY AfterLogoutFacts DEF IInv, TypeOK

LEMMA ProbedIInv ==
  ASSUME IInv, Probed
  PROVE  IInv'
<1>1. stage = "probing" /\ UNCHANGED <<tokens, answer, disturbed, left, stale, intent>>
      /\ stage \notin Asking \cup {"saving"}
  BY DEF Probed, Asking
<1>2. queue # <<>> /\ (intent = "logout" /\ ~ torn => Pending("logout")) /\ Op = "check"
      /\ Op \in {"check", "login", "logout"}
  <2>1. queue # <<>> /\ (intent = "logout" /\ ~ torn => Pending("logout"))
    BY <1>1, Running
  <2>2. Op \in {"check", "login", "logout"}
    BY <2>1, QueueFacts DEF Entries
  <2> QED
    BY <1>1, <2>1, <2>2 DEF IInv, IntentsOK, StageOK
<1>3. CASE Renew
  BY <1>1, <1>2, <1>3, RenewIInv
<1>4. CASE Publish(used) /\ Finish /\ UNCHANGED <<storage, torn, requests>>
  <2>1. UNCHANGED server /\ stage' = "idle" /\ storage' \in {storage, Empty}
        /\ (shown' = shown \/ (Head(queue).current /\ shown' = used))
    BY <1>1, <1>4 DEF server, Finish, Publish, MayPublish
  <2>2. ServerInv' /\ TokensOK'
    BY <1>1, <1>4, <2>1, QuietStep DEF Asking
  <2>3. IntentsOK'
    BY <1>1, <1>2, <1>4, <2>1, FinishIntents
  <2>4. TypeOK'
    <3>1. shown' \in {0, shown, used} /\ torn' \in BOOLEAN
      BY <1>4, <2>1 DEF IInv, TypeOK
    <3> QED
      BY <1>1, <1>2, <1>4, <2>1, <2>2, <3>1, FinishTypes, StorageKept
  <2> QED
    BY <2>2, <2>3, <2>4 DEF IInv
<1> QED
  BY <1>3, <1>4 DEF Probed

LEMMA ConfirmedIInv ==
  ASSUME IInv, Confirmed
  PROVE  IInv'
<1>1. stage = "confirming" /\ UNCHANGED <<server, stale, intent>> /\ UNCHANGED tokens /\ Finish
      /\ stage \notin Asking \cup {"saving"} /\ stage' = "idle"
  BY DEF Confirmed, Asking, Finish, server
<1>2. queue # <<>> /\ Op = "check"
  <2>1. queue # <<>>
    BY <1>1, Running
  <2>2. Op \in {"check", "login", "logout"}
    BY <2>1, QueueFacts DEF Entries
  <2> QED
    BY <1>1, <2>1, <2>2 DEF IInv, IntentsOK, StageOK
<1>3. \/ /\ storage' \in {storage, Empty} /\ (~ torn' => storage' = Empty)
         /\ shown' \in {0, shown} /\ torn' \in BOOLEAN /\ (torn => torn')
      \/ UNCHANGED <<storage, torn>> /\ shown' \in {shown, used}
         /\ (shown' = shown \/ Head(queue).current)
  <2>1. CASE Clear
    BY <2>1, ClearFacts
  <2>2. CASE Publish(used) /\ UNCHANGED <<storage, torn>>
    BY <2>2 DEF Publish, MayPublish
  <2> QED
    BY <2>1, <2>2 DEF Confirmed
<1>4. storage' \in {storage, Empty} /\ (torn => torn') /\ torn' \in BOOLEAN
  BY <1>3 DEF IInv, TypeOK
<1>5. ServerInv' /\ TokensOK'
  BY <1>1, <1>4, QuietStep DEF Asking
<1>6. IntentsOK'
  BY <1>1, <1>2, <1>3, <1>4, FinishIntents
<1>7. TypeOK'
  BY <1>1, <1>2, <1>3, <1>4, <1>5, FinishTypes, StorageKept
<1> QED
  BY <1>5, <1>6, <1>7 DEF IInv

(* The answer is read: there is no other, and no request either. *)
LEMMA GrantedIInv ==
  ASSUME IInv, NEW c \in Clients, Granted(c)
  PROVE  IInv'
<1>1. /\ stage \in {"entering", "refreshing"} /\ answer[c] # NoAnswer /\ Consume(c)
      /\ UNCHANGED <<tokens, requests, disturbed, left, stale, intent>>
      /\ stage # "idle" /\ stage # "saving" /\ stage # "leaving"
  BY DEF Granted, Answered
<1>2. queue # <<>> /\ (intent = "logout" /\ ~ torn => Pending("logout"))
      /\ Op \in {"check", "login"} /\ (stage = "refreshing" <=> Op = "check")
  <2>1. queue # <<>> /\ (intent = "logout" /\ ~ torn => Pending("logout"))
    BY <1>1, Running
  <2>2. Op \in {"check", "login", "logout"}
    BY <2>1, QueueFacts DEF Entries
  <2> QED
    BY <1>1, <2>1, <2>2 DEF IInv, IntentsOK, StageOK
<1>3. ServerInv'
  BY <1>1, ConsumeStep DEF IInv, ServerInv, ServerTypeOK
<1>4. \A d \in Clients : answer'[d] = NoAnswer
  BY <1>1 DEF IInv, ServerInv, ServerTypeOK, TokensOK, OneAnswer, Consume
<1>5. \A r \in requests : r.client \notin Clients
  BY <1>1 DEF IInv, TokensOK, Requested
<1>6. Meaning(c) /\ answer[c].token \in Tokens \cup {0}
  BY <1>1 DEF IInv, TokensOK, Meant, ServerInv, ServerTypeOK
<1>7. Requested' /\ OneAnswer' /\ Meant'
  BY <1>1, <1>4, <1>5, SameTable DEF IInv, TokensOK, Requested, OneAnswer, Meant
<1>8. LogoutEndsFamily'
  BY <1>1, SameTable DEF LogoutEndsFamily, IInv, TokensOK
<1>9. \A t : Broken(t)' = Broken(t)
  BY <1>1, SameTable
<1>10. CASE /\ MaySave(c) /\ storage' = [storage EXCEPT !.access = answer[c].token]
            /\ Wait("saving", answer[c].token) /\ UNCHANGED <<shown, torn>>
  <2> DEFINE t == answer[c].token
  <2>1. answer[c].status = "ok" /\ stage' = "saving" /\ used' = t /\ UNCHANGED queue
        /\ storage'.access = t /\ storage'.refresh = storage.refresh
        /\ storage' \in [access : Tokens \cup {0}, refresh : Tokens \cup {0}]
    BY <1>6, <1>10 DEF MaySave, Wait, IInv, TypeOK
  <2>2. t \in Tokens /\ t # 0 /\ (t \in Live \/ Broken(t))
        /\ (stage = "refreshing" => tokens[t].family = tokens[storage.refresh].family)
    BY <1>1, <1>6, <2>1, StorageFacts DEF Meaning
  <2>3. Saving'
    <3>1. Op = "check" => storage.refresh # 0
      BY <1>2 DEF IInv, TokensOK, Stored
    <3> QED
      BY <1>1, <1>2, <1>9, <2>1, <2>2, <3>1, SameTable DEF Saving, Op
  <2>4. StoredLive'
    <3>1. CASE Op = "check"
      BY <2>1, <3>1 DEF StoredLive, Op
    <3>2. CASE Op = "login"
      BY <1>1, <1>2, <1>9, <2>1, <3>2, SameTable DEF StoredLive, IInv, TokensOK
    <3> QED
      BY <1>2, <3>1, <3>2
  <2>5. Awaited' /\ Stored' /\ PairIsWhole'
    BY <2>1 DEF Awaited, Asking, Stored, PairIsWhole
  <2>6. IntentsOK'
    <3>1. StageOK'
      BY <1>2, <2>1 DEF StageOK, Op
    <3> QED
      BY <1>1, <1>2, <1>10, <2>1, <3>1, WaitIntents
  <2>7. TypeOK'
    BY <1>1, <1>2, <1>3, <1>10, <2>1, <2>2, WaitTypes
  <2> QED
    BY <1>3, <1>7, <1>8, <2>3, <2>4, <2>5, <2>6, <2>7 DEF IInv, TokensOK
<1>11. CASE /\ ~ MaySave(c)
            /\ IF stage = "refreshing" /\ answer[c].status = "rejected" THEN Clear
               ELSE UNCHANGED <<storage, shown, torn>>
            /\ Finish
  <2>1. storage' \in {storage, Empty} /\ shown' \in {0, shown} /\ (torn => torn') /\ torn' \in BOOLEAN
    <3>1. CASE Clear
      BY <3>1, ClearFacts
    <3>2. CASE UNCHANGED <<storage, shown, torn>>
      BY <3>2 DEF IInv, TypeOK
    <3> QED
      BY <1>11, <3>1, <3>2
  <2>2. stage' = "idle" /\ answer[c].status # "ok"
    BY <1>11 DEF Finish, MaySave
  <2>3. Awaited' /\ Stored' /\ Saving'
    BY <2>2 DEF Awaited, Asking, Stored, Saving
  <2>4. PairIsWhole'
    BY <1>1, <2>1 DEF PairIsWhole, Empty, IInv, TokensOK
  <2>5. StoredLive'
    <3>1. \A d \in Clients : answer[d].status # "ok"
      BY <1>1, <2>2 DEF IInv, TokensOK, OneAnswer, NoAnswer
    <3>2. storage.refresh # 0 => storage.refresh \in Live \/ Broken(storage.refresh)
      BY <1>1, <3>1 DEF IInv, TokensOK, StoredLive
    <3> QED
      BY <1>1, <1>9, <2>1, <3>2, SameTable DEF StoredLive, Empty
  <2>6. IntentsOK'
    BY <1>1, <1>2, <1>11, <2>1, FinishIntents
  <2>7. TypeOK'
    BY <1>1, <1>2, <1>3, <1>11, <2>1, FinishTypes, StorageKept
  <2> QED
    BY <1>3, <1>7, <1>8, <2>3, <2>4, <2>5, <2>6, <2>7 DEF IInv, TokensOK
<1> QED
  BY <1>10, <1>11 DEF Granted

LEMMA SavedIInv ==
  ASSUME IInv, Saved
  PROVE  IInv'
<1>1. /\ stage = "saving" /\ storage' = [storage EXCEPT !.refresh = used]
      /\ UNCHANGED <<server, stale, intent, torn>>
      /\ UNCHANGED <<tokens, requests, answer, disturbed, left>>
      /\ stage \notin Asking
  BY DEF Saved, Paired, Asking, server
<1>2. queue # <<>> /\ (intent = "logout" /\ ~ torn => Pending("logout")) /\ Op \in {"check", "login"}
  <2>1. queue # <<>> /\ (intent = "logout" /\ ~ torn => Pending("logout"))
    BY <1>1, Running
  <2>2. Op \in {"check", "login", "logout"}
    BY <2>1, QueueFacts DEF Entries
  <2> QED
    BY <1>1, <2>1, <2>2 DEF IInv, IntentsOK, StageOK
<1>3. used \in Tokens /\ storage'.access = used /\ storage'.refresh = used
      /\ storage' \in [access : Tokens \cup {0}, refresh : Tokens \cup {0}]
      /\ used # 0 /\ (used \in Live \/ Broken(used))
  BY <1>1, StorageFacts DEF IInv, TypeOK, TokensOK, Saving
<1>4. shown' = shown \/ (Head(queue).current /\ shown' = used)
  BY DEF Saved, Publish, MayPublish
<1>5. (\A d \in Clients : answer[d] = NoAnswer) /\ (\A r \in requests : r.client \notin Clients)
  BY <1>1, Quiet
<1>6. ServerInv'
  BY <1>1, SameTable DEF IInv, ServerInv, ServerTypeOK, OneLive, Locks, Usable, Requests
<1>7. Requested' /\ OneAnswer' /\ Meant'
  BY <1>1, <1>5, SameTable DEF IInv, TokensOK, Requested, OneAnswer, Meant
<1>8. LogoutEndsFamily' /\ PairIsWhole'
  BY <1>1, <1>3, SameTable DEF LogoutEndsFamily, IInv, TokensOK, PairIsWhole
<1>9. StoredLive'
  BY <1>1, <1>3, SameTable DEF StoredLive
<1>10. stage' \in {"idle", "confirming"}
  BY DEF Saved, Finish, Wait
<1>11. Awaited' /\ Stored' /\ Saving'
  BY <1>10 DEF Awaited, Asking, Stored, Saving
<1>12. IntentsOK' /\ TypeOK'
  <2>1. CASE Op = "login" /\ Finish
    <3>1. IntentsOK'
      <4>1. Op # "logout" /\ stage # "idle" /\ (torn => torn')
        BY <1>1, <2>1
      <4> QED
        BY <1>1, <1>2, <1>4, <2>1, <4>1, FinishIntents
    <3>2. TypeOK'
      <4>1. shown' \in {0, shown, used} /\ torn' \in BOOLEAN /\ UNCHANGED <<tokens, stale, intent>>
        BY <1>1, <1>4 DEF IInv, TypeOK
      <4> QED
        BY <1>2, <1>3, <1>6, <2>1, <4>1, FinishTypes
    <3> QED
      BY <3>1, <3>2
  <2>2. CASE Op # "login" /\ Wait("confirming", used)
    <3>1. Op = "check" /\ stage' = "confirming" /\ used' = used /\ UNCHANGED queue
      BY <1>2, <2>2 DEF Wait
    <3>2. IntentsOK'
      <4>1. StageOK'
        BY <3>1 DEF StageOK, Op
      <4> QED
        BY <1>1, <1>2, <1>4, <3>1, <4>1, WaitIntents
    <3>3. TypeOK'
      BY <1>1, <1>2, <1>3, <1>4, <1>6, <3>1, WaitTypes
    <3> QED
      BY <3>2, <3>3
  <2> QED
    BY <2>1, <2>2 DEF Saved
<1> QED
  BY <1>6, <1>7, <1>8, <1>9, <1>11, <1>12 DEF IInv, TokensOK

(* What Losing(Clients) covers: the families of every request and answer of *)
(* the app.                                                                 *)
LEMMA LosingFacts ==
  ASSUME IInv
  PROVE  /\ Losing(Clients) \subseteq Families
         /\ \A r \in requests : r.client \in Clients /\ r.token # 0 =>
              tokens[r.token].family \in Losing(Clients)
         /\ \A c \in Clients : answer[c].token # 0 =>
              tokens[answer[c].token].family \in Losing(Clients)
<1>1. /\ requests \subseteq Requests
      /\ \A c \in Clients : answer[c].token \in Tokens \cup {0}
      /\ \A t \in Tokens : tokens[t].family \in Families
  BY DEF IInv, ServerInv, ServerTypeOK
<1>2. \A r \in requests : r.token \in Tokens \cup {0}
  BY <1>1 DEF Requests
<1>3. \A t \in Tokens \cup {0} : FamilyOf(t) \subseteq Families
  BY <1>1 DEF FamilyOf
<1>4. Losing(Clients) \subseteq Families
  BY <1>1, <1>2, <1>3 DEF Losing, Waiting
<1>5. \A r \in requests : r.client \in Clients => FamilyOf(r.token) \subseteq Losing(Clients)
  BY DEF Losing, Waiting
<1>6. \A c \in Clients : FamilyOf(answer[c].token) \subseteq Losing(Clients)
  BY DEF Losing
<1> QED
  BY <1>4, <1>5, <1>6 DEF FamilyOf

(* The stored token is good, or about to be lost with the answer that has   *)
(* exchanged it, or the storage is between its writes.                      *)
LEMMA StoredOrLosing ==
  ASSUME IInv, storage.refresh # 0
  PROVE  \/ storage.refresh \in Live \/ Broken(storage.refresh)
         \/ tokens[storage.refresh].family \in Losing(Clients)
         \/ stage = "saving" /\ tokens[storage.refresh].family \in FamilyOf(used)
<1>1. CASE storage.refresh \in Live \/ Broken(storage.refresh)
  BY <1>1
<1>2. ASSUME NEW c \in Clients, stage \in {"refreshing", "leaving"}, answer[c].status = "ok"
      PROVE  tokens[storage.refresh].family \in Losing(Clients)
  <2>1. Meaning(c)
    BY <1>2 DEF IInv, TokensOK, Meant, NoAnswer
  <2>2. answer[c].token # 0 /\ tokens[answer[c].token].family = tokens[storage.refresh].family
    BY <1>2, <2>1 DEF Meaning
  <2> QED
    BY <2>2, LosingFacts
<1>3. CASE stage = "saving" /\ Op = "check"
  BY <1>3 DEF IInv, TokensOK, Saving, FamilyOf
<1> QED
  BY <1>1, <1>2, <1>3 DEF IInv, TokensOK, StoredLive

LEMMA GiveUpIInv ==
  ASSUME IInv, GiveUp
  PROVE  IInv'
<1>1. /\ stage \in {"probing", "confirming", "entering", "refreshing"} /\ Finish /\ stage' = "idle"
      /\ stage # "idle" /\ stage # "saving" /\ stage # "leaving"
      /\ disturbed' = disturbed \cup Losing(Clients) /\ Abandon(Clients)
      /\ UNCHANGED <<tokens, left, storage, shown, stale, intent, torn>>
  BY DEF GiveUp, TimesOut, Finish
<1>2. queue # <<>> /\ Op # "logout"
  <2>1. queue # <<>>
    BY <1>1, Running
  <2> QED
    BY <1>1, <2>1 DEF IInv, IntentsOK, StageOK
<1>3. disturbed \subseteq Families /\ left \subseteq Families
  BY DEF IInv, ServerInv, ServerTypeOK
<1>4. ServerInv' /\ TokensOK'
  <2>1. \A r \in requests : r.client \in Clients /\ r.token # 0 => Broken(r.token)'
    BY <1>1, LosingFacts DEF Broken
  <2>2. storage.refresh # 0 => storage.refresh \in Live \/ Broken(storage.refresh)'
    BY <1>1, StoredOrLosing DEF Broken
  <2>3. \A t \in Live : tokens[t].family \in left' => tokens[t].family \in disturbed'
    BY <1>1 DEF IInv, TokensOK, LogoutEndsFamily
  <2>4. disturbed \subseteq disturbed' /\ disturbed' \subseteq Families /\ left' \subseteq Families
    BY <1>1, <1>3, LosingFacts
  <2>5. storage' \in {storage, Empty} /\ (torn => torn') /\ (stage = "saving" => torn')
    BY <1>1
  <2> QED
    BY <1>1, <2>1, <2>2, <2>3, <2>4, <2>5, ForgetStep
<1>5. IntentsOK'
  BY <1>1, <1>2, FinishIntents
<1>6. TypeOK'
  <2>1. shown' \in {0, shown, used} /\ torn' \in BOOLEAN /\ storage' \in {storage, Empty}
    BY <1>1 DEF IInv, TypeOK
  <2> QED
    BY <1>1, <1>2, <1>4, <2>1, FinishTypes, StorageKept
<1> QED
  BY <1>4, <1>5, <1>6 DEF IInv

(* A logout has ended the family or lost its answer, and its family is      *)
(* disturbed then.                                                          *)
LEMMA LoggedOutIInv ==
  ASSUME IInv, LoggedOut
  PROVE  IInv'
<1>1. /\ stage = "leaving" /\ Clear /\ Finish /\ stage' = "idle"
      /\ left' = left \cup FamilyOf(storage.refresh)
      /\ disturbed' = disturbed \cup (IF Waiting(Clients) = {} /\ storage' = Empty THEN {} ELSE Losing(Clients))
      /\ Abandon(Clients)
      /\ UNCHANGED <<tokens, stale, intent>>
  BY DEF LoggedOut, Finish
<1>2. queue # <<>> /\ storage.refresh # 0 /\ storage.refresh \in Tokens
  BY <1>1, Running, StorageFacts DEF IInv, TokensOK, Stored
<1>3. disturbed \subseteq Families /\ left' \subseteq Families
  BY <1>1, <1>2 DEF IInv, ServerInv, ServerTypeOK, FamilyOf
<1>4. storage' \in {storage, Empty} /\ shown' \in {0, shown}
      /\ torn' \in BOOLEAN /\ (torn => torn') /\ (~ torn' => storage' = Empty)
  BY <1>1, ClearFacts
<1> DEFINE f == tokens[storage.refresh].family
<1>5. ASSUME Waiting(Clients) = {}, storage' = Empty
      PROVE  ServerInv' /\ TokensOK'
  <2>1. disturbed' = disturbed /\ (\A r \in requests : r.client \notin Clients)
    BY <1>1, <1>5 DEF Waiting
  <2>2. HeldBy(f) = {} \/ f \in disturbed
    <3>1. PICK c \in Clients : answer[c] # NoAnswer
      BY <1>1, <2>1 DEF IInv, TokensOK, Awaited, Asking
    <3>2. Meaning(c)
      BY <3>1 DEF IInv, TokensOK, Meant
    <3> QED
      BY <1>1, <3>2 DEF Meaning, Broken
  <2>3. \A t \in Live : tokens[t].family \in left' => tokens[t].family \in disturbed'
    BY <1>1, <1>2, <2>1, <2>2 DEF IInv, TokensOK, LogoutEndsFamily, FamilyOf, HeldBy
  <2>4. ServerInv' /\ TokensOK'
    <3>1. storage'.refresh = 0 /\ stage # "saving" /\ disturbed \subseteq disturbed'
          /\ disturbed' \subseteq Families
      BY <1>1, <1>3, <1>5, <2>1 DEF Empty
    <3> QED
      BY <1>1, <1>3, <1>4, <2>1, <2>3, <3>1, ForgetStep
  <2> QED
    BY <2>4
<1>6. ASSUME disturbed' = disturbed \cup Losing(Clients)
      PROVE  ServerInv' /\ TokensOK'
  <2>1. f \in Losing(Clients)
    <3>1. CASE \E c \in Clients : answer[c] # NoAnswer
      <4>1. PICK c \in Clients : answer[c] # NoAnswer
        BY <3>1
      <4>2. answer[c].token = storage.refresh
        BY <1>1, <4>1 DEF IInv, TokensOK, Meant, Meaning
      <4> QED
        BY <1>2, <4>2, LosingFacts
    <3>2. CASE \E r \in requests : r.client \in Clients
      <4>1. PICK r \in requests : r.client \in Clients
        BY <3>2
      <4>2. r.op = "logout" /\ r.token = storage.refresh
        BY <1>1, <4>1, Asker, RequestFacts DEF IInv, StageOf, Operations
      <4> QED
        BY <1>2, <4>1, <4>2, LosingFacts
    <3> QED
      BY <1>1, <3>1, <3>2 DEF IInv, TokensOK, Awaited, Asking
  <2>2. \A r \in requests : r.client \in Clients /\ r.token # 0 => Broken(r.token)'
    BY <1>1, <1>6, LosingFacts DEF Broken
  <2>3. storage'.refresh # 0 => storage.refresh \in Live \/ Broken(storage.refresh)'
    BY <1>1, <1>4, <1>6, <2>1 DEF Broken, Empty
  <2>4. \A t \in Live : tokens[t].family \in left' => tokens[t].family \in disturbed'
    BY <1>1, <1>2, <1>6, <2>1 DEF IInv, TokensOK, LogoutEndsFamily, FamilyOf
  <2>5. disturbed \subseteq disturbed' /\ disturbed' \subseteq Families
        /\ stage # "saving"
    BY <1>1, <1>2, <1>3, <1>6, LosingFacts
  <2> QED
    BY <1>1, <1>3, <1>4, <2>2, <2>3, <2>4, <2>5, ForgetStep
<1>7. ServerInv' /\ TokensOK'
  BY <1>1, <1>5, <1>6
<1>8. IntentsOK'
  <2>1. (~ torn' /\ Head(queue).current /\ Op = "logout" => storage' = Empty)
        /\ (~ torn' /\ storage = Empty /\ stage = "idle" => storage' = Empty)
    BY <1>4
  <2> QED
    BY <1>1, <1>2, <1>4, <2>1, FinishIntents
<1>9. TypeOK'
  <2>1. shown' \in {0, shown, used}
    BY <1>4
  <2> QED
    BY <1>1, <1>2, <1>4, <1>7, <2>1, FinishTypes, StorageKept
<1> QED
  BY <1>7, <1>8, <1>9 DEF IInv

(* The server does not see a failing storage; the family is disturbed.      *)
LEMMA SaveFailsIInv ==
  ASSUME IInv, SaveFails
  PROVE  IInv'
<1>1. /\ stage = "saving" /\ Finish /\ torn' = TRUE /\ stage' = "idle"
      /\ disturbed' = disturbed \cup FamilyOf(used)
      /\ UNCHANGED <<tokens, requests, answer, left, storage, shown, stale, intent>>
      /\ stage \notin Asking
  BY DEF SaveFails, Finish, Asking
<1>2. queue # <<>>
  BY <1>1, Running
<1>3. used \in Tokens /\ tokens[used].family \in Families /\ FamilyOf(used) = {tokens[used].family}
  BY <1>1, StorageFacts DEF IInv, ServerInv, ServerTypeOK, TokensOK, Saving, FamilyOf
<1>4. disturbed \subseteq disturbed' /\ disturbed' \subseteq Families
  BY <1>1, <1>3 DEF IInv, ServerInv, ServerTypeOK
<1>5. ServerInv'
  BY <1>1, <1>4, SameTable DEF IInv, ServerInv, ServerTypeOK, OneLive, Locks, Usable, Requests
<1>6. (\A d \in Clients : answer[d] = NoAnswer) /\ (\A r \in requests : r.client \notin Clients)
  BY <1>1, Quiet
<1>7. \A t : Broken(t) => Broken(t)'
  BY <1>1, <1>4 DEF Broken
<1>8. Requested' /\ OneAnswer' /\ Meant' /\ Awaited'
  BY <1>1, <1>6, <1>7 DEF IInv, TokensOK, Requested, OneAnswer, Meant, Awaited, Asking
<1>9. Stored' /\ Saving' /\ PairIsWhole'
  BY <1>1 DEF Stored, Saving, PairIsWhole
<1>10. StoredLive'
  <2>1. storage.refresh # 0 => storage.refresh \in Live \/ Broken(storage.refresh)'
    BY <1>1, <1>3, <1>6, <1>7, StoredOrLosing DEF Broken, IInv, TokensOK, Saving, StoredLive, NoAnswer
  <2> QED
    BY <1>1, <2>1, SameTable DEF StoredLive
<1>11. LogoutEndsFamily'
  BY <1>1, <1>4, SameTable DEF LogoutEndsFamily, IInv, TokensOK
<1>12. IntentsOK'
  BY <1>1, <1>2, FinishIntents
<1>13. TypeOK'
  <2>1. shown' \in {0, shown, used} /\ torn' \in BOOLEAN /\ storage' \in {storage, Empty}
    BY <1>1
  <2> QED
    BY <1>1, <1>2, <1>5, <2>1, FinishTypes, StorageKept
<1> QED
  BY <1>5, <1>8, <1>9, <1>10, <1>11, <1>12, <1>13 DEF IInv, TokensOK

LEMMA RestartIInv ==
  ASSUME IInv, Restart
  PROVE  IInv'
<1>1. /\ queue' = <<>> /\ stage' = "idle" /\ used' = 0 /\ shown' = 0 /\ intent' = "none"
      /\ torn' = (torn \/ stage = "saving")
      /\ disturbed' = disturbed \cup Losing(Clients)
                        \cup (IF stage = "saving" THEN FamilyOf(used) ELSE {})
      /\ Abandon(Clients)
      /\ UNCHANGED <<tokens, left, storage, stale>>
  BY DEF Restart
<1>2. disturbed \subseteq Families /\ left \subseteq Families /\ FamilyOf(used) \subseteq Families
  BY StorageFacts DEF IInv, ServerInv, ServerTypeOK, FamilyOf
<1>3. ServerInv' /\ TokensOK'
  <2>1. \A r \in requests : r.client \in Clients /\ r.token # 0 => Broken(r.token)'
    BY <1>1, LosingFacts DEF Broken
  <2>2. storage.refresh # 0 => storage.refresh \in Live \/ Broken(storage.refresh)'
    BY <1>1, StoredOrLosing DEF Broken
  <2>3. \A t \in Live : tokens[t].family \in left' => tokens[t].family \in disturbed'
    BY <1>1 DEF IInv, TokensOK, LogoutEndsFamily
  <2>4. disturbed \subseteq disturbed' /\ disturbed' \subseteq Families /\ left' \subseteq Families
    BY <1>1, <1>2, LosingFacts
  <2>5. storage' \in {storage, Empty} /\ (torn => torn') /\ (stage = "saving" => torn')
    BY <1>1
  <2> QED
    BY <1>1, <2>1, <2>2, <2>3, <2>4, <2>5, ForgetStep
<1>4. IntentsOK'
  BY <1>1 DEF IntentsOK, QueueOK, StageOK, AfterLogout, IntentHides
<1>5. TypeOK'
  <2>1. queue' \in Seq([op : {"check", "login", "logout"}, current : BOOLEAN]) /\ Len(queue') <= MaxQueue
    BY <1>1, OwnerAssumption
  <2>2. torn' \in BOOLEAN
    BY <1>1 DEF IInv, TypeOK
  <2> QED
    BY <1>1, <1>3, <2>1, <2>2, SameTable DEF IInv, TypeOK, ServerInv
<1> QED
  BY <1>3, <1>4, <1>5 DEF IInv

LEMMA ExpireAccessIInv ==
  ASSUME IInv, ExpireAccess
  PROVE  IInv'
<1>1. /\ UNCHANGED <<server, storage, shown, queue, stage, used, intent, torn>>
      /\ UNCHANGED tokens
      /\ \E t \in {storage.access, shown} \ {0} :
           stale' = (stale \cap {storage.access, shown, used}) \cup {t}
  BY DEF ExpireAccess, server
<1>2. ServerInv' /\ TokensOK'
  BY <1>1, SameStep DEF Op
<1>3. IntentsOK'
  BY <1>1 DEF IInv, IntentsOK, QueueOK, StageOK, AfterLogout, Pending, IntentHides, Op
<1>4. TypeOK'
  <2>1. stale' \subseteq Tokens
    BY <1>1, StorageFacts DEF IInv, TypeOK
  <2> QED
    BY <1>1, <1>2, <2>1, SameTable DEF IInv, TypeOK, ServerInv
<1> QED
  BY <1>2, <1>3, <1>4 DEF IInv

-----------------------------------------------------------------------------
(* The theorems *)

LEMMA InitIInv == Init => IInv
<1> SUFFICES ASSUME Init PROVE IInv
  OBVIOUS
<1>1. /\ tokens = <<>> /\ requests = {} /\ answer = [c \in Clients |-> NoAnswer]
      /\ disturbed = {} /\ left = {} /\ Tokens = {}
      /\ storage = Empty /\ shown = 0 /\ stale = {} /\ queue = <<>> /\ stage = "idle"
      /\ used = 0 /\ intent = "none" /\ torn = FALSE
  BY DEF Init, ServerInit, Tokens
<1>2. ServerInv
  BY <1>1, TokensAssumption DEF ServerInv, ServerTypeOK, OneLive, Locks, NoAnswer, Live
<1>3. TypeOK
  <2>1. queue \in Seq([op : {"check", "login", "logout"}, current : BOOLEAN]) /\ Len(queue) <= MaxQueue
    BY <1>1, OwnerAssumption
  <2>2. storage \in [access : Tokens \cup {0}, refresh : Tokens \cup {0}] /\ storage.refresh = 0
    BY <1>1 DEF Empty
  <2> QED
    BY <1>1, <1>2, <2>1, <2>2 DEF TypeOK, ServerInv
<1>4. IntentsOK
  BY <1>1 DEF IntentsOK, QueueOK, StageOK, AfterLogout, IntentHides
<1>5. TokensOK
  BY <1>1 DEF TokensOK, Requested, Awaited, OneAnswer, Meant, Stored, Saving, StoredLive,
              PairIsWhole, LogoutEndsFamily, Empty, Asking, Live
<1> QED
  BY <1>2, <1>3, <1>4, <1>5 DEF IInv

LEMMA NextIInv == IInv /\ [Next]_vars => IInv'
<1> SUFFICES ASSUME IInv, [Next]_vars PROVE IInv'
  OBVIOUS
<1>1. CASE UNCHANGED vars
  <2>1. UNCHANGED <<server, storage, shown, stale, queue, stage, used, intent, torn>>
        /\ UNCHANGED app /\ UNCHANGED tokens
    BY <1>1 DEF vars, app, server
  <2>2. ServerInv' /\ TokensOK'
    BY <2>1, SameStep DEF Op
  <2>3. Growth
    BY <2>1, SameTable, Grows DEF IInv, ServerInv
  <2> QED
    BY <2>1, <2>2, <2>3, AppTypes, IntentsKept DEF IInv
<1>2. CASE Check
  BY <1>2, CheckIInv
<1>3. CASE \E op \in {"login", "logout"} : Intend(op)
  BY <1>3, IntendIInv DEF Intents
<1>4. CASE Proceed
  BY <1>4, BeginIInv, ProbedIInv, ConfirmedIInv, GrantedIInv, SavedIInv, LoggedOutIInv, GiveUpIInv
  DEF Proceed
<1>5. CASE SaveFails
  BY <1>5, SaveFailsIInv
<1>6. CASE Restart
  BY <1>6, RestartIInv
<1>7. CASE (Serve \/ ExpireRefresh) /\ UNCHANGED app
  BY <1>7, ServerIInv
<1>8. CASE ExpireAccess
  BY <1>8, ExpireAccessIInv
<1> QED
  BY <1>1, <1>2, <1>3, <1>4, <1>5, <1>6, <1>7, <1>8 DEF Next

(* The inductive invariant holds in every reachable state: the one running  *)
(* operation alone can touch the stored token, and all but the last intent  *)
(* are obsolete.                                                            *)
THEOREM OwnerInvariant == Spec => []IInv
<1>1. Init => IInv
  BY InitIInv
<1>2. IInv /\ [Next]_vars => IInv'
  BY NextIInv
<1> QED
  BY <1>1, <1>2, PTL DEF Spec

(* Every variable of the session keeps its type, and no refresh token is    *)
(* stored without an access token.                                          *)
THEOREM TypeCorrect == Spec => []TypeOK
<1>1. IInv => TypeOK
  BY DEF IInv
<1> QED
  BY <1>1, OwnerInvariant, PTL

(* The two keys of the storage are of one pair unless the app died or the   *)
(* storage failed between the writes of _save.                              *)
THEOREM PairStaysWhole == Spec => []PairIsWhole
<1>1. IInv => PairIsWhole
  BY DEF IInv, TokensOK
<1> QED
  BY <1>1, OwnerInvariant, PTL

(* A login or logout hides the session at once; what ran before it never    *)
(* publishes it again, and nothing does after a logout.                     *)
THEOREM IntentsWin == Spec => []IntentHides
<1>1. IInv => IntentHides
  BY DEF IInv, IntentsOK
<1> QED
  BY <1>1, OwnerInvariant, PTL

(* A renewal the server rejects was of a family that had lost an answer, a  *)
(* logout or its lifetime: the queue never signs the user out by itself.    *)
THEOREM PhoneStaysSignedIn == Spec => []NoNeedlessSignOut
<1>1. IInv => NoNeedlessSignOut
  <2> SUFFICES ASSUME IInv, NEW c \in Clients, stage = "refreshing", answer[c].status = "rejected"
               PROVE  FamilyOf(answer[c].token) \subseteq disturbed
    BY DEF NoNeedlessSignOut
  <2>1. Meaning(c)
    BY DEF IInv, TokensOK, Meant, NoAnswer
  <2> QED
    BY <2>1 DEF Meaning, Broken, FamilyOf
<1> QED
  BY <1>1, OwnerInvariant, PTL

(* After the app's logout no token of the session can be exchanged, unless  *)
(* an answer was lost or the logout failed.                                 *)
THEOREM LogoutIsFinal == Spec => []LogoutEndsFamily
<1>1. IInv => LogoutEndsFamily
  BY DEF IInv, TokensOK
<1> QED
  BY <1>1, OwnerInvariant, PTL

(* However the app's operations, their deadlines and its restarts meet at   *)
(* the server, the families of tokens are opened, exchanged and ended one   *)
(* step at a time, and never revive.                                        *)
THEOREM ServerKeepsFamilies == Spec => FamiliesPromise
<1>1. Init => Promise!Init
  <2> SUFFICES ASSUME Init PROVE Promise!Init
    OBVIOUS
  <2>1. tokens = <<>> /\ Len(tokens) = 0 /\ Tokens = {} /\ Families = {}
    BY DEF Init, ServerInit, Tokens, Families
  <2> QED
    BY <2>1 DEF Promise!Init
<1>2. IInv /\ [Next]_vars => Changes
  <2> SUFFICES ASSUME IInv, [Next]_vars PROVE Changes
    OBVIOUS
  <2>1. CASE Serve
    BY <2>1, LoginStep, TakeStep, CommitStep, FailStep DEF Serve, IInv
  <2>2. CASE ExpireRefresh
    <3>1. storage.refresh \in Tokens /\ Expire(storage.refresh)
      BY <2>2, StorageFacts DEF ExpireRefresh
    <3> QED
      BY <3>1, ExpireStep DEF IInv
  <2>3. CASE Proceed
    BY <2>3 DEF Proceed, Begin, Probed, Confirmed, Granted, Saved, LoggedOut, GiveUp, Changes, server
  <2>4. CASE Check \/ \E op \in {"login", "logout"} : Intend(op)
    BY <2>4 DEF Check, Intend, Changes, server
  <2>5. CASE SaveFails \/ Restart \/ ExpireAccess \/ UNCHANGED vars
    BY <2>5 DEF SaveFails, Restart, ExpireAccess, vars, Changes, server
  <2> QED
    BY <2>1, <2>2, <2>3, <2>4, <2>5 DEF Next
<1>3. IInv /\ [Next]_vars => [Promise!Next]_(Promise!families)
  BY <1>2, PromiseStep DEF IInv
<1> QED
  BY <1>1, <1>3, OwnerInvariant, PTL DEF Spec, FamiliesPromise, Promise!Spec
=============================================================================
