---------------------------- MODULE RefreshProofs ----------------------------
(***************************************************************************)
(* What the server of RefreshTokens guarantees to any client: at most one  *)
(* token of a family is live, two transactions never hold the same row,    *)
(* and every change of the table is one of RefreshFamilies.  WebProofs     *)
(* builds on these lemmas.                                                 *)
(***************************************************************************)
EXTENDS RefreshTokens, TLAPS

Statuses == {"live", "revoked", "expired"}
Rows == [family : Nat, status : Statuses]

(* One token of a family is live at a time. *)
OneLive == \A t, u \in Live : tokens[t].family = tokens[u].family => t = u

(* A locked row is still usable by the one request that holds it. *)
Locks ==
  /\ \A r \in requests : r.stage = "locked" => r.op # "login" /\ Usable(r)
  /\ \A q, r \in requests : q.stage = "locked" /\ r.stage = "locked" /\ q.token = r.token => q = r

ServerInv == ServerTypeOK /\ OneLive /\ Locks

-----------------------------------------------------------------------------
(* The changes of the table *)

SameFamilies == \A u \in Tokens : tokens'[u].family = tokens[u].family
SameBut(t) == \A u \in Tokens \ {t} : tokens'[u].status = tokens[u].status
Dead(t) == tokens'[t].status \in Statuses \ {"live"}

LogsIn ==
  /\ tokens' \in Seq(Rows) /\ Len(tokens') = Len(tokens) + 1
  /\ SameFamilies /\ SameBut(0)
  /\ tokens'[Len(tokens) + 1] = [family |-> Len(tokens) + 1, status |-> "live"]

Rotates(t) ==
  /\ t \in Live
  /\ tokens' \in Seq(Rows) /\ Len(tokens') = Len(tokens) + 1
  /\ SameFamilies /\ SameBut(t) /\ Dead(t)
  /\ tokens'[Len(tokens) + 1] = [family |-> tokens[t].family, status |-> "live"]

Ends(t) ==
  /\ t \in Tokens
  /\ tokens' \in Seq(Rows) /\ Len(tokens') = Len(tokens)
  /\ SameFamilies /\ SameBut(t) /\ Dead(t)

Changes == LogsIn \/ (\E t \in Tokens : Rotates(t) \/ Ends(t)) \/ UNCHANGED tokens

(* A row whose status is overwritten.                                       *)
LEMMA Marked ==
  ASSUME NEW T \in Seq(Rows), NEW t \in 1..Len(T), NEW s \in Statuses,
         NEW U, U = [T EXCEPT ![t].status = s]
  PROVE  /\ U \in Seq(Rows) /\ Len(U) = Len(T)
         /\ \A u \in 1..Len(T) : U[u].family = T[u].family
         /\ \A u \in 1..Len(T) : U[u].status = IF u = t THEN s ELSE T[u].status
<1>1. T \in [1..Len(T) -> Rows] /\ Len(T) \in Nat
  OBVIOUS
<1>2. T[t] \in Rows /\ [T[t] EXCEPT !.status = s] \in Rows
  BY <1>1 DEF Rows
<1>3. U = [T EXCEPT ![t] = [T[t] EXCEPT !.status = s]]
  OBVIOUS
<1>4. U \in [1..Len(T) -> Rows]
  BY <1>1, <1>2, <1>3
<1>5. U \in Seq(Rows) /\ Len(U) = Len(T)
  BY <1>1, <1>4
<1>6. \A u \in 1..Len(T) : U[u] = IF u = t THEN [T[t] EXCEPT !.status = s] ELSE T[u]
  BY <1>1, <1>3
<1> QED
  BY <1>1, <1>2, <1>5, <1>6 DEF Rows

(* A row that is inserted.                                                  *)
LEMMA Inserted ==
  ASSUME NEW T \in Seq(Rows), NEW f \in Nat, NEW U, U = Issue(T, f)
  PROVE  /\ U \in Seq(Rows) /\ Len(U) = Len(T) + 1
         /\ \A u \in 1..Len(T) : U[u] = T[u]
         /\ U[Len(T) + 1] = [family |-> f, status |-> "live"]
BY DEF Issue, Rows, Statuses

(* Tokens and families stay, and a token is of a family that exists.        *)
Growth ==
  /\ Tokens \subseteq Tokens' /\ Families \subseteq Families'
  /\ Len(tokens) \in Nat /\ Len(tokens') \in Nat
  /\ tokens' \in Seq(Rows)
  /\ SameFamilies
  /\ \A t \in Tokens' : tokens'[t].family \in Families'
  /\ Tokens' \subseteq Tokens \cup {Len(tokens) + 1}

LEMMA Grows ==
  ASSUME ServerTypeOK, Changes
  PROVE  Growth
<1>1. tokens \in Seq(Rows) /\ Len(tokens) \in Nat
  BY DEF ServerTypeOK, Rows, Statuses
<1>2. \A t \in Tokens : tokens[t].family \in Tokens /\ tokens[tokens[t].family].family = tokens[t].family
  BY DEF ServerTypeOK, Families
<1> DEFINE n == Len(tokens) + 1
<1>0. ASSUME tokens' \in Seq(Rows), Len(tokens') = n, SameFamilies,
             tokens'[n].family \in Families \cup {n}
      PROVE  Growth
  <2>1. Tokens' = Tokens \cup {n} /\ n \notin Tokens
    BY <1>0, <1>1 DEF Tokens
  <2>2. \A t \in Tokens : tokens'[t].family = tokens[t].family
    BY <1>0 DEF SameFamilies
  <2>3. Families \subseteq Families'
    BY <2>1, <2>2 DEF Families
  <2>4. tokens'[n].family \in Families'
    BY <1>0, <2>1, <2>3 DEF Families
  <2>5. \A t \in Tokens : tokens'[t].family \in Families'
    BY <1>2, <2>2, <2>3 DEF Families
  <2> QED
    BY <1>0, <1>1, <2>1, <2>3, <2>4, <2>5 DEF Growth
<1>3. CASE LogsIn
  <2>1. tokens'[n].family = n
    BY <1>3 DEF LogsIn
  <2> QED
    BY <1>0, <1>3, <2>1 DEF LogsIn
<1>4. ASSUME NEW t \in Tokens, Rotates(t) PROVE Growth
  <2>1. tokens'[n].family = tokens[t].family /\ tokens[t].family \in Families
    BY <1>2, <1>4 DEF Rotates, Families
  <2> QED
    BY <1>0, <1>4, <2>1 DEF Rotates
<1>5. ASSUME NEW t \in Tokens, Ends(t) PROVE Growth
  BY <1>1, <1>2, <1>5 DEF Growth, Ends, SameFamilies, Tokens, Families
<1>6. CASE UNCHANGED tokens
  BY <1>1, <1>2, <1>6 DEF Growth, SameFamilies, Tokens, Families
<1> QED
  BY <1>3, <1>4, <1>5, <1>6 DEF Changes

-----------------------------------------------------------------------------
(* The requests of the server *)

Answers == [Clients -> [status : {"none", "ok", "rejected", "failed"}, token : Tokens \cup {0}]]

(* The type of the server from the types of what a step writes. *)
LEMMA TypesKept ==
  ASSUME ServerTypeOK, Changes, Len(tokens') <= MaxTokens,
         requests' \subseteq Requests', answer' \in Answers',
         disturbed' \subseteq Families', left' \subseteq Families'
  PROVE  ServerTypeOK'
<1>1. Growth
  BY Grows
<1> QED
  BY <1>1 DEF ServerTypeOK, Growth, Rows, Statuses, Answers

(* What was of its type among the old tokens is so among the new.           *)
LEMMA TypesGrow ==
  ASSUME ServerTypeOK, Growth
  PROVE  /\ Requests \subseteq Requests' /\ requests \subseteq Requests'
         /\ Answers \subseteq Answers' /\ answer \in Answers'
         /\ disturbed \subseteq Families' /\ left \subseteq Families'
<1>1. Tokens \subseteq Tokens' /\ Families \subseteq Families'
  BY DEF Growth
<1>2. requests \subseteq Requests /\ answer \in Answers /\ disturbed \subseteq Families /\ left \subseteq Families
  BY DEF ServerTypeOK, Answers
<1>3. Requests \subseteq Requests'
  BY <1>1 DEF Requests
<1>4. Answers \subseteq Answers'
  <2> SUFFICES ASSUME NEW a \in Answers, NEW c \in Clients
               PROVE  a[c] \in [status : {"none", "ok", "rejected", "failed"}, token : Tokens' \cup {0}]
    BY DEF Answers
  <2>1. a[c] \in [status : {"none", "ok", "rejected", "failed"}, token : Tokens \cup {0}]
    BY DEF Answers
  <2> QED
    BY <1>1, <2>1
<1> QED
  BY <1>1, <1>2, <1>3, <1>4

LEMMA ReplyTypes ==
  ASSUME ServerTypeOK, Growth, NEW r \in requests, NEW s \in {"ok", "rejected", "failed"},
         NEW t \in Tokens' \cup {0}, Reply(r, s, t)
  PROVE  requests' \subseteq requests /\ requests' \subseteq Requests' /\ answer' \in Answers'
<1>1. requests \subseteq Requests' /\ answer \in Answers'
  BY TypesGrow
<1>2. r.client \in Clients \cup {NoClient}
  BY DEF ServerTypeOK, Requests
<1>3. [status |-> s, token |-> t] \in [status : {"none", "ok", "rejected", "failed"}, token : Tokens' \cup {0}]
  OBVIOUS
<1> QED
  BY <1>1, <1>2, <1>3 DEF Reply, Answers

(* The last request about a row that it ends: the others keep their rows.   *)
LEMMA LocksKept ==
  ASSUME ServerTypeOK, Locks, Growth, requests' \subseteq requests,
         \A q \in requests' : q.stage = "locked" => tokens'[q.token].status = tokens[q.token].status
  PROVE  Locks'
BY DEF Locks, Usable, Growth

(* One token of a family at most stays live. *)
LEMMA OneLiveKept ==
  ASSUME ServerTypeOK, OneLive, Changes
  PROVE  OneLive'
<1>1. Growth
  BY Grows
<1>2. \A t \in Tokens : tokens[t].family \in Tokens /\ tokens'[t].family = tokens[t].family
  BY <1>1 DEF ServerTypeOK, Families, Growth, SameFamilies
<1>3. CASE LogsIn
  <2>1. \A t \in Live' : t \in Live \/ t = Len(tokens) + 1
    BY <1>1, <1>3 DEF LogsIn, SameBut, Live, Growth, Tokens
  <2>2. Len(tokens) + 1 \notin Tokens
    BY <1>1 DEF Growth, Tokens
  <2> QED
    BY <1>2, <1>3, <2>1, <2>2 DEF OneLive, Live, LogsIn
<1>4. ASSUME NEW t \in Tokens, Rotates(t) PROVE OneLive'
  <2>1. t \in Live /\ tokens'[t].status # "live"
        /\ tokens'[Len(tokens) + 1].family = tokens[t].family
    BY <1>4 DEF Rotates, Dead
  <2>2. \A u \in Live' : (u \in Live /\ u # t) \/ u = Len(tokens) + 1
    BY <1>1, <1>4, <2>1 DEF Rotates, SameBut, Live, Growth, Tokens
  <2> QED
    BY <1>2, <2>1, <2>2 DEF OneLive, Live
<1>5. ASSUME NEW t \in Tokens, Ends(t) PROVE OneLive'
  <2>1. \A u \in Live' : u \in Live
    BY <1>1, <1>5 DEF Ends, Dead, SameBut, Live, Growth, Tokens
  <2> QED
    BY <1>2, <2>1 DEF OneLive, Live
<1>6. CASE UNCHANGED tokens
  BY <1>6 DEF OneLive, Live, Tokens
<1> QED
  BY <1>3, <1>4, <1>5, <1>6 DEF Changes

-----------------------------------------------------------------------------
(* The steps of the server *)

(* What every step needs to know of a request. *)
LEMMA RequestFacts ==
  ASSUME ServerInv, NEW r \in requests
  PROVE  /\ r \in Requests /\ r.op \in Operations /\ r.stage \in {"sent", "locked"}
         /\ r.client \in Clients \cup {NoClient} /\ r.token \in Tokens \cup {0}
         /\ tokens \in Seq(Rows) /\ Len(tokens) \in Nat /\ 0 \notin Tokens
         /\ r.token # 0 => tokens[r.token].family \in Families
         /\ FamilyOf(r.token) \subseteq Families
BY DEF ServerInv, ServerTypeOK, Requests, Rows, Statuses, Tokens, FamilyOf

LEMMA LoginStep ==
  ASSUME ServerInv, NEW r \in requests, Login(r)
  PROVE  ServerInv' /\ Changes
<1>1. tokens \in Seq(Rows) /\ Len(tokens) \in Nat /\ 0 \notin Tokens
  BY RequestFacts
<1>2. CASE tokens' = Issue(tokens, Len(tokens) + 1) /\ Len(tokens) < MaxTokens
           /\ Reply(r, "ok", Len(tokens) + 1)
  <2>1. LogsIn
    BY <1>1, <1>2, Inserted DEF LogsIn, SameFamilies, SameBut, Tokens
  <2>2. Changes /\ Growth
    BY <2>1, Grows DEF Changes, ServerInv
  <2>3. Len(tokens') = Len(tokens) + 1 /\ Len(tokens') <= MaxTokens /\ Len(tokens) + 1 \in Tokens'
    BY <1>1, <1>2, <2>1, TokensAssumption DEF LogsIn, Tokens
  <2>4. requests' \subseteq requests /\ requests' \subseteq Requests' /\ answer' \in Answers'
    BY <1>2, <2>2, <2>3, ReplyTypes DEF ServerInv
  <2>5. disturbed' \subseteq Families' /\ left' \subseteq Families'
    BY <2>2, TypesGrow DEF Login, ServerInv
  <2>6. ServerTypeOK'
    BY <2>2, <2>3, <2>4, <2>5, TypesKept DEF ServerInv
  <2>7. \A q \in requests' : q.stage = "locked" => tokens'[q.token].status = tokens[q.token].status
    BY <1>1, <2>1, <2>4, RequestFacts DEF LogsIn, SameBut, ServerInv, Locks, Usable
  <2> QED
    BY <2>2, <2>4, <2>6, <2>7, LocksKept, OneLiveKept DEF ServerInv
<1>3. CASE Reply(r, "rejected", 0) /\ UNCHANGED tokens
  <2>1. Changes /\ Growth
    BY <1>3, Grows DEF Changes, ServerInv
  <2>2. requests' \subseteq requests /\ requests' \subseteq Requests' /\ answer' \in Answers'
    BY <1>3, <2>1, ReplyTypes DEF ServerInv
  <2>3. ServerTypeOK'
    BY <1>3, <2>1, <2>2, TypesGrow, TypesKept DEF ServerInv, Login, ServerTypeOK
  <2> QED
    BY <1>3, <2>1, <2>2, <2>3, LocksKept, OneLiveKept DEF ServerInv
<1> QED
  BY <1>2, <1>3 DEF Login

LEMMA TakeStep ==
  ASSUME ServerInv, NEW r \in requests, Take(r)
  PROVE  ServerInv' /\ Changes
<1>1. Changes /\ Growth /\ UNCHANGED <<tokens, disturbed, left>>
  BY Grows DEF Changes, ServerInv, Take
<1>2. r \in Requests /\ r.token \in Tokens \cup {0}
  BY RequestFacts
<1>3. CASE Usable(r) /\ requests' = (requests \ {r}) \cup {[r EXCEPT !.stage = "locked"]}
           /\ UNCHANGED answer
  <2> DEFINE l == [r EXCEPT !.stage = "locked"]
  <2>1. l \in Requests /\ l.op = r.op /\ l.token = r.token /\ l.stage = "locked"
    BY <1>2 DEF Requests
  <2>2. requests' \subseteq Requests' /\ answer' \in Answers'
    BY <1>1, <1>3, <2>1, TypesGrow DEF ServerInv
  <2>3. ServerTypeOK'
    BY <1>1, <2>2, TypesGrow, TypesKept DEF ServerInv, ServerTypeOK
  <2>4. \A q \in requests : q.stage = "locked" => q.token # r.token
    BY DEF Take, RowFree
  <2>5. Usable(l)' /\ l.op # "login"
    BY <1>1, <1>3, <2>1 DEF Usable, Take
  <2>6. \A q \in requests' : q.stage = "locked" => q = l \/ (q \in requests /\ q.token # l.token)
    BY <1>3, <2>1, <2>4
  <2>7. \A q \in requests : q.stage = "locked" => q.op # "login" /\ Usable(q)'
    BY <1>1 DEF Locks, Usable, ServerInv
  <2>8. Locks'
    BY <2>5, <2>6, <2>7 DEF Locks, ServerInv
  <2> QED
    BY <1>1, <2>3, <2>8, OneLiveKept DEF ServerInv
<1>4. CASE Reply(r, IF r.op = "logout" THEN "ok" ELSE "rejected", r.token)
  <2>1. requests' \subseteq requests /\ requests' \subseteq Requests' /\ answer' \in Answers'
    <3>1. r.token \in Tokens' \cup {0}
      BY <1>1, <1>2 DEF Growth
    <3> QED
      BY <1>1, <1>4, <3>1, ReplyTypes DEF ServerInv
  <2>2. ServerTypeOK'
    BY <1>1, <2>1, TypesGrow, TypesKept DEF ServerInv, ServerTypeOK
  <2> QED
    BY <1>1, <2>1, <2>2, LocksKept, OneLiveKept DEF ServerInv
<1> QED
  BY <1>3, <1>4 DEF Take

(* What the transaction that holds a row does to the table. *)
LEMMA CommitChanges ==
  ASSUME ServerInv, NEW r \in requests, Commit(r)
  PROVE  /\ r.token \in Tokens
         /\ \/ /\ r.op = "refresh" /\ Rotates(r.token) /\ Len(tokens) < MaxTokens
               /\ Reply(r, "ok", Len(tokens) + 1)
            \/ r.op = "logout" /\ Ends(r.token) /\ Reply(r, "ok", r.token)
         /\ UNCHANGED <<disturbed, left>>
<1>1. tokens \in Seq(Rows) /\ Len(tokens) \in Nat /\ r.token \in Tokens \cup {0}
  BY RequestFacts
<1>2. r.stage = "locked" /\ Usable(r)
  BY DEF Commit, ServerInv, Locks
<1>3. r.token \in Tokens
  BY <1>1, <1>2 DEF Usable
<1> DEFINE U == Revoked(r.token)
<1>4. U \in Seq(Rows) /\ Len(U) = Len(tokens)
      /\ (\A u \in Tokens : U[u].family = tokens[u].family)
      /\ (\A u \in Tokens : U[u].status = IF u = r.token THEN "revoked" ELSE tokens[u].status)
  <2>1. "revoked" \in Statuses /\ r.token \in 1..Len(tokens)
    BY <1>3 DEF Statuses, Tokens
  <2>2. U = [tokens EXCEPT ![r.token].status = "revoked"]
    BY DEF Revoked
  <2> HIDE DEF U
  <2> QED
    BY <1>1, <2>1, <2>2, Marked DEF Tokens
<1> HIDE DEF U
<1>5. CASE r.op = "refresh"
  <2>1. tokens[r.token].status = "live" /\ r.token \in Live
    BY <1>2, <1>3, <1>5 DEF Usable, Live
  <2>2. tokens[r.token].family \in Nat
    <3>1. tokens[r.token] \in Rows
      BY <1>1, <1>3 DEF Tokens
    <3> QED
      BY <3>1 DEF Rows
  <2>3. tokens' = Issue(U, tokens[r.token].family) /\ Len(tokens) < MaxTokens
        /\ Reply(r, "ok", Len(tokens) + 1)
    BY <1>5 DEF Commit, U
  <2>4. /\ tokens' \in Seq(Rows) /\ Len(tokens') = Len(tokens) + 1
        /\ \A u \in Tokens : tokens'[u] = U[u]
        /\ tokens'[Len(tokens) + 1] = [family |-> tokens[r.token].family, status |-> "live"]
    <3> DEFINE f == tokens[r.token].family
               T == tokens'
    <3>1. U \in Seq(Rows) /\ f \in Nat /\ T = Issue(U, f)
      BY <1>4, <2>2, <2>3
    <3> HIDE DEF f, T
    <3>2. /\ T \in Seq(Rows) /\ Len(T) = Len(U) + 1
          /\ \A u \in 1..Len(U) : T[u] = U[u]
          /\ T[Len(U) + 1] = [family |-> f, status |-> "live"]
      BY <3>1 DEF Issue, Rows, Statuses
    <3>3. 1..Len(U) = Tokens /\ Len(U) = Len(tokens)
      BY <1>4 DEF Tokens
    <3> QED
      BY <3>2, <3>3 DEF f, T
  <2>5. Rotates(r.token)
    BY <1>3, <1>4, <2>1, <2>4 DEF Rotates, SameFamilies, SameBut, Dead, Statuses
  <2> QED
    BY <1>3, <1>5, <2>3, <2>5 DEF Commit
<1>6. CASE r.op = "logout"
  <2>1. tokens' = U /\ Reply(r, "ok", r.token)
    BY <1>6 DEF Commit, U
  <2>2. Ends(r.token)
    BY <1>3, <1>4, <2>1 DEF Ends, SameFamilies, SameBut, Dead, Statuses
  <2> QED
    BY <1>3, <1>6, <2>1, <2>2 DEF Commit
<1> QED
  BY <1>5, <1>6 DEF Commit

LEMMA CommitStep ==
  ASSUME ServerInv, NEW r \in requests, Commit(r)
  PROVE  ServerInv' /\ Changes
<1>1. /\ r.token \in Tokens
      /\ \/ Rotates(r.token) /\ Len(tokens) < MaxTokens /\ Reply(r, "ok", Len(tokens) + 1)
         \/ Ends(r.token) /\ Reply(r, "ok", r.token)
      /\ UNCHANGED <<disturbed, left>>
  BY CommitChanges
<1>2. Changes /\ Growth
  BY <1>1, Grows DEF Changes, ServerInv
<1>3. requests' \subseteq requests /\ requests' \subseteq Requests' /\ answer' \in Answers'
      /\ Len(tokens') <= MaxTokens /\ requests' = requests \ {r}
  <2>1. CASE Rotates(r.token) /\ Len(tokens) < MaxTokens /\ Reply(r, "ok", Len(tokens) + 1)
    <3>1. Len(tokens') = Len(tokens) + 1 /\ Len(tokens') <= MaxTokens /\ Len(tokens) + 1 \in Tokens'
      BY <1>2, <2>1, TokensAssumption DEF Rotates, Growth, Tokens
    <3> QED
      BY <1>2, <2>1, <3>1, ReplyTypes DEF ServerInv, Reply
  <2>2. CASE Ends(r.token) /\ Reply(r, "ok", r.token)
    <3>1. Len(tokens') = Len(tokens) /\ Len(tokens') <= MaxTokens /\ r.token \in Tokens'
      BY <1>1, <2>2 DEF Ends, Tokens, ServerInv, ServerTypeOK
    <3> QED
      BY <1>2, <2>2, <3>1, ReplyTypes DEF ServerInv, Reply
  <2> QED
    BY <1>1, <2>1, <2>2
<1>4. ServerTypeOK'
  BY <1>1, <1>2, <1>3, TypesGrow, TypesKept DEF ServerInv
<1>5. \A q \in requests' : q.stage = "locked" => tokens'[q.token].status = tokens[q.token].status
  <2>1. r.stage = "locked" /\ SameBut(r.token)
    BY <1>1 DEF Commit, Rotates, Ends
  <2>2. \A q \in requests' : q.stage = "locked" => q.token # r.token /\ q.token \in Tokens
    BY <1>3, <2>1, RequestFacts DEF ServerInv, Locks, Usable
  <2> QED
    BY <2>1, <2>2 DEF SameBut
<1> QED
  BY <1>2, <1>3, <1>4, <1>5, LocksKept, OneLiveKept DEF ServerInv

LEMMA FailStep ==
  ASSUME ServerInv, NEW r \in requests, Fail(r)
  PROVE  ServerInv' /\ Changes
<1>1. Changes /\ Growth /\ UNCHANGED <<tokens, left>> /\ Reply(r, "failed", r.token)
  BY Grows DEF Changes, ServerInv, Fail
<1>2. r.token \in Tokens' \cup {0}
  BY <1>1, RequestFacts DEF Growth
<1>3. requests' \subseteq requests /\ requests' \subseteq Requests' /\ answer' \in Answers'
  BY <1>1, <1>2, ReplyTypes DEF ServerInv
<1>4. disturbed' \subseteq Families'
  BY <1>1, TypesGrow, RequestFacts DEF Fail, Growth, ServerInv
<1>5. ServerTypeOK'
  BY <1>1, <1>3, <1>4, TypesGrow, TypesKept DEF ServerInv, ServerTypeOK
<1> QED
  BY <1>1, <1>3, <1>5, LocksKept, OneLiveKept DEF ServerInv

LEMMA ExpireStep ==
  ASSUME ServerInv, NEW t \in Tokens, Expire(t)
  PROVE  ServerInv' /\ Changes /\ Ends(t) /\ t \in Live
         /\ UNCHANGED <<requests, answer, left>> /\ disturbed' = disturbed \cup {tokens[t].family}
<1>1. tokens \in Seq(Rows) /\ Len(tokens) \in Nat
  BY DEF ServerInv, ServerTypeOK, Rows, Statuses
<1>2. Ends(t)
  <2>1. "expired" \in Statuses /\ t \in 1..Len(tokens)
    BY DEF Statuses, Tokens
  <2>2. tokens' = [tokens EXCEPT ![t].status = "expired"]
    BY DEF Expire
  <2>3. tokens' \in Seq(Rows) /\ Len(tokens') = Len(tokens)
        /\ (\A u \in Tokens : tokens'[u].family = tokens[u].family)
        /\ (\A u \in Tokens : tokens'[u].status = IF u = t THEN "expired" ELSE tokens[u].status)
    BY <1>1, <2>1, <2>2, Marked DEF Tokens
  <2> QED
    BY <2>3 DEF Ends, SameFamilies, SameBut, Dead, Statuses
<1>3. Changes /\ Growth
  BY <1>2, Grows DEF Changes, ServerInv
<1>4. disturbed' = disturbed \cup {tokens[t].family} /\ UNCHANGED <<requests, answer, left>> /\ t \in Live
  BY <1>1 DEF Expire, FamilyOf, Tokens
<1>5. disturbed' \subseteq Families'
  BY <1>3, <1>4, TypesGrow DEF Growth, ServerInv, ServerTypeOK
<1>6. ServerTypeOK'
  BY <1>2, <1>3, <1>4, <1>5, TypesGrow, TypesKept DEF ServerInv, ServerTypeOK, Ends
<1>7. \A q \in requests' : q.stage = "locked" => tokens'[q.token].status = tokens[q.token].status
  <2>1. \A q \in requests' : q.stage = "locked" => q.token # t /\ q.token \in Tokens
    BY <1>4, RequestFacts DEF Expire, ServerInv, Locks, Usable
  <2> QED
    BY <1>2, <2>1 DEF Ends, SameBut
<1> QED
  BY <1>2, <1>3, <1>4, <1>6, <1>7, LocksKept, OneLiveKept DEF ServerInv

-----------------------------------------------------------------------------
(* The steps of the clients *)

(* A step of a client changes no row.                                       *)
LEMMA SendStep ==
  ASSUME ServerInv, NEW c \in Clients, NEW op \in Operations, NEW t \in Tokens \cup {0},
         Send(c, op, t), UNCHANGED <<tokens, answer, disturbed, left>>
  PROVE  ServerInv'
<1>1. Changes /\ Growth
  BY Grows DEF Changes, ServerInv
<1> DEFINE r == [op |-> op, token |-> t, client |-> c, stage |-> "sent"]
<1>2. r \in Requests /\ r.stage = "sent" /\ requests' = requests \cup {r}
  BY DEF Requests, Send
<1>3. ServerTypeOK'
  BY <1>1, <1>2, TypesGrow, TypesKept DEF ServerInv, ServerTypeOK
<1>4. Locks'
  BY <1>2 DEF Locks, Usable, ServerInv
<1> QED
  BY <1>1, <1>3, <1>4, OneLiveKept DEF ServerInv

LEMMA AbandonStep ==
  ASSUME ServerInv, NEW C \in SUBSET Clients, Abandon(C), UNCHANGED tokens,
         disturbed' \subseteq Families, left' \subseteq Families
  PROVE  ServerInv'
<1>1. Changes /\ Growth /\ requests \subseteq Requests
  BY Grows DEF Changes, ServerInv, ServerTypeOK
<1>2. \A r \in Requests : [r EXCEPT !.client = NoClient] \in Requests
  BY DEF Requests
<1>3. requests' \subseteq Requests'
  BY <1>1, <1>2, TypesGrow DEF Abandon, Waiting, ServerInv
<1>4. answer' \in Answers'
  BY <1>1 DEF Abandon, NoAnswer, Answers, ServerInv, ServerTypeOK, Growth
<1>5. ServerTypeOK'
  BY <1>1, <1>3, <1>4, TypesKept DEF ServerInv, ServerTypeOK, Growth
<1>6. Locks'
  <2>1. \A q \in requests' : \E r \in requests : q.op = r.op /\ q.token = r.token /\ q.stage = r.stage
          /\ q = (IF r.client \in C THEN [r EXCEPT !.client = NoClient] ELSE r)
    BY <1>1 DEF Abandon, Waiting, Requests
  <2> QED
    BY <2>1 DEF Locks, Usable, ServerInv
<1> QED
  BY <1>1, <1>5, <1>6, OneLiveKept DEF ServerInv

LEMMA ConsumeStep ==
  ASSUME ServerInv, NEW c \in Clients, Consume(c), UNCHANGED <<tokens, requests>>,
         disturbed' \subseteq Families, left' \subseteq Families
  PROVE  ServerInv'
<1>1. Changes /\ Growth
  BY Grows DEF Changes, ServerInv
<1>2. answer' \in Answers'
  BY <1>1 DEF Consume, NoAnswer, Answers, ServerInv, ServerTypeOK, Growth
<1>3. ServerTypeOK'
  BY <1>1, <1>2, TypesGrow, TypesKept DEF ServerInv, ServerTypeOK, Growth
<1>4. Locks'
  BY DEF Locks, Usable, ServerInv
<1> QED
  BY <1>1, <1>3, <1>4, OneLiveKept DEF ServerInv

-----------------------------------------------------------------------------
(* The promise *)

HeldBy(f) == {t \in Live : tokens[t].family = f}

(* Each change of the table is a login, an exchange or an end of the        *)
(* families, or none.                                                       *)
LEMMA PromiseStep ==
  ASSUME ServerInv, Changes
  PROVE  Promise!Next \/ UNCHANGED Promise!families
<1> DEFINE held == [f \in Families |-> HeldBy(f)]
<1>1. Growth
  BY Grows DEF ServerInv
<1>2. \A t \in Tokens : tokens'[t].family = tokens[t].family /\ t \in Tokens'
      /\ tokens[t].family \in Families
  BY <1>1 DEF Growth, SameFamilies, ServerInv, ServerTypeOK
<1>3. CASE LogsIn
  <2>1. PICK n \in Nat : n = Len(tokens) + 1
    BY <1>1 DEF Growth
  <2>2. n = Len(tokens') /\ n \notin Tokens /\ Tokens' = Tokens \cup {n}
        /\ tokens'[n].family = n /\ tokens'[n].status = "live"
    BY <1>1, <1>3, <2>1 DEF LogsIn, Growth, Tokens
  <2>3. Families' = Families \cup {n} /\ n \notin Families
    BY <1>2, <2>2 DEF Families
  <2>4. \A t \in Tokens : tokens'[t].status = tokens[t].status
    BY <1>1, <1>3 DEF LogsIn, SameBut, Growth, Tokens
  <2>5. \A f \in Families : HeldBy(f)' = HeldBy(f)
    BY <1>2, <2>2, <2>3, <2>4 DEF HeldBy, Live
  <2>6. HeldBy(n)' = {n}
    BY <1>2, <2>2, <2>3 DEF HeldBy, Live
  <2>7. held' = [f \in Families \cup {n} |-> IF f = n THEN {n} ELSE held[f]]
    BY <2>3, <2>5, <2>6
  <2>8. held' = [f \in Families \cup {n} |-> IF f = n THEN {n} ELSE held[f]]
        /\ Len(tokens') = Len(tokens) + 1 /\ Len(tokens') = n
    BY <2>1, <2>2, <2>7
  <2>9. Promise!Open
    BY <2>8 DEF Promise!Open, HeldBy
  <2> QED
    BY <2>9 DEF Promise!Next
<1>4. ASSUME NEW t \in Tokens, Rotates(t) PROVE Promise!Next
  <2>1. PICK n \in Nat : n = Len(tokens) + 1
    BY <1>1 DEF Growth
  <2>2. PICK f \in Families : f = tokens[t].family
    BY <1>2
  <2>3. n = Len(tokens') /\ n \notin Tokens /\ Tokens' = Tokens \cup {n}
        /\ tokens'[n].family = f /\ tokens'[n].status = "live" /\ f \in Tokens
    BY <1>1, <1>4, <2>1, <2>2 DEF Rotates, Growth, Tokens, Families
  <2>4. t \in Live /\ tokens'[t].status # "live"
        /\ \A u \in Tokens : u # t => tokens'[u].status = tokens[u].status
    BY <1>4 DEF Rotates, SameBut, Dead
  <2>5. Families' = Families
    BY <1>2, <2>3 DEF Families
  <2>6. HeldBy(f) = {t}
    BY <2>2, <2>4 DEF HeldBy, Live, ServerInv, OneLive
  <2>7. HeldBy(f)' = {n}
    BY <1>2, <2>2, <2>3, <2>4, <2>6 DEF HeldBy, Live
  <2>8. \A g \in Families : g # f => HeldBy(g)' = HeldBy(g)
    BY <1>2, <2>2, <2>3, <2>4 DEF HeldBy, Live
  <2>9. held' = [held EXCEPT ![f] = {n}]
    BY <2>5, <2>7, <2>8
  <2> QED
    BY <2>1, <2>3, <2>6, <2>9 DEF Promise!Next, Promise!Exchange, HeldBy
<1>5. ASSUME NEW t \in Tokens, Ends(t) PROVE Promise!Next \/ UNCHANGED Promise!families
  <2>1. Tokens' = Tokens /\ Len(tokens') = Len(tokens)
    BY <1>5 DEF Ends, Tokens
  <2>2. tokens'[t].status # "live" /\ \A u \in Tokens : u # t => tokens'[u].status = tokens[u].status
    BY <1>5 DEF Ends, SameBut, Dead
  <2>3. Families' = Families
    BY <1>2, <2>1 DEF Families
  <2>4. PICK f \in Families : f = tokens[t].family
    BY <1>2
  <2>5. \A g \in Families : HeldBy(g)' = HeldBy(g) \ {t}
    BY <1>2, <2>1, <2>2 DEF HeldBy, Live
  <2>6. CASE t \in Live
    <3>1. HeldBy(f) = {t}
      BY <2>4, <2>6 DEF HeldBy, Live, ServerInv, OneLive
    <3>2. \A g \in Families : g # f => t \notin HeldBy(g)
      BY <2>4 DEF HeldBy
    <3>3. held' = [held EXCEPT ![f] = {}]
      <4>1. HeldBy(f)' = {}
        BY <2>5, <3>1
      <4>2. \A g \in Families : g # f => HeldBy(g)' = HeldBy(g)
        BY <2>5, <3>2
      <4> HIDE DEF HeldBy
      <4> QED
        BY <2>3, <4>1, <4>2
    <3> QED
      BY <2>1, <3>1, <3>3 DEF Promise!Next, Promise!End, HeldBy
  <2>7. CASE t \notin Live
    <3>1. \A g \in Families : HeldBy(g)' = HeldBy(g)
      BY <2>5, <2>7 DEF HeldBy
    <3>2. held' = held
      BY <2>3, <3>1
    <3> QED
      BY <2>1, <3>2 DEF Promise!families, HeldBy
  <2> QED
    BY <2>6, <2>7
<1>6. CASE UNCHANGED tokens
  BY <1>6 DEF Promise!families, Families, Live, Tokens
<1> QED
  BY <1>3, <1>4, <1>5, <1>6 DEF Changes

-----------------------------------------------------------------------------
(* What the promise is worth: one usable token, and none after the end      *)

Held == [f \in Families |-> {t \in Live : tokens[t].family = f}]

PromiseInv ==
  /\ Len(tokens) \in Nat /\ DOMAIN Held \subseteq 1..Len(tokens)
  /\ \A f \in DOMAIN Held : \A t, u \in Held[f] : t = u

EndsForGood == \A f \in DOMAIN Held : f \in DOMAIN Held' /\ (Held[f] = {} => Held'[f] = {})

LEMMA PromiseKept ==
  ASSUME PromiseInv, [Promise!Next]_(Promise!families)
  PROVE  PromiseInv' /\ EndsForGood
<1>1. CASE UNCHANGED Promise!families
  <2>1. Held' = Held /\ Len(tokens') = Len(tokens)
    BY <1>1 DEF Promise!families, Held
  <2> QED
    BY <2>1 DEF PromiseInv, EndsForGood
<1>2. CASE Promise!Open
  <2>1. /\ Len(tokens') = Len(tokens) + 1
        /\ Held' = [f \in DOMAIN Held \cup {Len(tokens')} |->
                     IF f = Len(tokens') THEN {Len(tokens')} ELSE Held[f]]
    BY <1>2 DEF Promise!Open, Held
  <2>2. Len(tokens') \in Nat /\ Len(tokens') \notin DOMAIN Held
        /\ 1..Len(tokens) \subseteq 1..Len(tokens') /\ Len(tokens') \in 1..Len(tokens')
    BY <2>1 DEF PromiseInv
  <2> QED
    BY <2>1, <2>2 DEF PromiseInv, EndsForGood
<1>3. ASSUME NEW f \in DOMAIN Held, Promise!Exchange(f)
      PROVE  PromiseInv' /\ EndsForGood
  <2>1. /\ Len(tokens') = Len(tokens) + 1 /\ Held[f] # {}
        /\ Held' = [Held EXCEPT ![f] = {Len(tokens')}]
    BY <1>3 DEF Promise!Exchange, Held
  <2>2. Len(tokens') \in Nat /\ 1..Len(tokens) \subseteq 1..Len(tokens')
    BY <2>1 DEF PromiseInv
  <2> QED
    BY <2>1, <2>2 DEF PromiseInv, EndsForGood
<1>4. ASSUME NEW f \in DOMAIN Held, Promise!End(f)
      PROVE  PromiseInv' /\ EndsForGood
  <2>1. Len(tokens') = Len(tokens) /\ Held' = [Held EXCEPT ![f] = {}]
    BY <1>4 DEF Promise!End, Held
  <2> QED
    BY <2>1 DEF PromiseInv, EndsForGood
<1>5. Promise!Next => Promise!Open \/ \E f \in DOMAIN Held : Promise!Exchange(f) \/ Promise!End(f)
  BY DEF Promise!Next, Held
<1> QED
  BY <1>1, <1>2, <1>3, <1>4, <1>5

(* Whatever keeps the promise of ADR 0006 has one usable token of a family  *)
(* at most, and none again of a family that has ended, whichever client or  *)
(* request holds it.                                                        *)
THEOREM PromiseKeepsFamilies ==
  FamiliesPromise =>
    /\ [](\A f \in Families : \A t, u \in HeldBy(f) : t = u)
    /\ [][\A f \in Families : HeldBy(f) = {} => f \in Families' /\ HeldBy(f)' = {}]_tokens
<1>1. Promise!Init => PromiseInv
  <2> SUFFICES ASSUME Promise!Init PROVE PromiseInv
    OBVIOUS
  <2>1. Len(tokens) = 0 /\ Held = [f \in {} |-> {}]
    BY DEF Promise!Init, Held
  <2> QED
    BY <2>1 DEF PromiseInv
<1>2. PromiseInv /\ [Promise!Next]_(Promise!families) => PromiseInv' /\ EndsForGood
  BY PromiseKept
<1>3. EndsForGood =>
        [\A f \in Families : HeldBy(f) = {} => f \in Families' /\ HeldBy(f)' = {}]_tokens
  BY DEF EndsForGood, Held, HeldBy
<1>4. PromiseInv => \A f \in Families : \A t, u \in HeldBy(f) : t = u
  BY DEF PromiseInv, Held, HeldBy
<1> QED
  BY <1>1, <1>2, <1>3, <1>4, PTL DEF FamiliesPromise, Promise!Spec


=============================================================================
