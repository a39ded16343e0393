---------------------------- MODULE RefreshTokens ----------------------------
(***************************************************************************)
(* The refresh sessions of the backend: login, refresh and logout of       *)
(* api/routes.py with issue_refresh, rotate_refresh and revoke_refresh of  *)
(* core/security.py.  The rows are the sequence tokens; a token is its     *)
(* place there, 0 stands for no token, and the tokens that descend from    *)
(* one login are a family, named by its first token.  Each request runs in *)
(* a transaction of its own that locks the row of its token.               *)
(*                                                                         *)
(* A client is whoever waits for an answer: WebSession and OwnerSession    *)
(* extend this module with the clients' programs.  A request nobody waits  *)
(* for any more belongs to NoClient and is still served.                   *)
(*                                                                         *)
(* A user stays ACTIVE: nothing in the program changes users.status, so    *)
(* the branch of refresh for an inactive user is not reached.              *)
(***************************************************************************)
EXTENDS Integers, Sequences

CONSTANTS
  Clients,
  NoClient,
  MaxTokens     \* bound: the tokens ever issued

ASSUME TokensAssumption == NoClient \notin Clients /\ MaxTokens \in Nat

VARIABLES
  tokens,       \* the rows of refresh_sessions: family and status
  requests,     \* the requests at the server
  answer,       \* client -> the answer that has reached it
  disturbed,    \* families that lost an answer, a logout or a token's lifetime
  left          \* families a client has logged out of

server == <<tokens, requests, answer, disturbed, left>>

Operations == {"login", "refresh", "logout"}
Tokens == 1..Len(tokens)
Live == {t \in Tokens : tokens[t].status = "live"}
Families == {t \in Tokens : tokens[t].family = t}
Requests == [op : Operations, token : Tokens \cup {0}, client : Clients \cup {NoClient},
             stage : {"sent", "locked"}]

NoAnswer == [status |-> "none", token |-> 0]

ServerInit ==
  /\ tokens = <<>>
  /\ requests = {}
  /\ answer = [c \in Clients |-> NoAnswer]
  /\ disturbed = {}
  /\ left = {}

-----------------------------------------------------------------------------
(* The clients' side. *)

FamilyOf(t) == IF t = 0 THEN {} ELSE {tokens[t].family}

Waiting(C) == {r \in requests : r.client \in C}

Send(c, op, t) ==
  requests' = requests \cup {[op |-> op, token |-> t, client |-> c, stage |-> "sent"]}

(* Clients stop waiting, with their answers on the way or not.              *)
Abandon(C) ==
  /\ requests' = (requests \ Waiting(C)) \cup {[r EXCEPT !.client = NoClient] : r \in Waiting(C)}
  /\ answer' = [c \in Clients |-> IF c \in C THEN NoAnswer ELSE answer[c]]

(* The families whose answer Abandon(C) loses.                              *)
Losing(C) == (UNION {FamilyOf(r.token) : r \in Waiting(C)})
             \cup (UNION {FamilyOf(answer[c].token) : c \in C})

Consume(c) == answer' = [answer EXCEPT ![c] = NoAnswer]

-----------------------------------------------------------------------------
(* The server's side. *)

(* Request r is over and its answer reaches the client that waits for it.   *)
Reply(r, status, t) ==
  /\ requests' = requests \ {r}
  /\ answer' = IF r.client = NoClient THEN answer
               ELSE [answer EXCEPT ![r.client] = [status |-> status, token |-> t]]

Issue(table, family) == Append(table, [family |-> family, status |-> "live"])

(* The answer to a login names the new token; wrong credentials and every   *)
(* failure leave nothing behind.                                            *)
Login(r) ==
  /\ r.op = "login"
  /\ \/ /\ Len(tokens) < MaxTokens
        /\ tokens' = Issue(tokens, Len(tokens) + 1)
        /\ Reply(r, "ok", Len(tokens) + 1)
     \/ Reply(r, "rejected", 0) /\ UNCHANGED tokens
  /\ UNCHANGED <<disturbed, left>>

(* SELECT ... FOR UPDATE waits for the transaction that holds the row.      *)
RowNeverLocked(r) == r.token # 0
RowFree(r) == ~ \E q \in requests : q.stage = "locked" /\ q.token = r.token

(* revoke_refresh revokes an expired token too, rotate_refresh needs a live *)
(* one.                                                                     *)
Usable(r) ==
  /\ r.token # 0
  /\ tokens[r.token].status \in (IF r.op = "logout" THEN {"live", "expired"} ELSE {"live"})

(* The row is read under its lock; a used token is answered at once: a      *)
(* refresh with 401, a logout like any other.                               *)
Take(r) ==
  /\ r.op # "login"
  /\ r.stage = "sent"
  /\ RowFree(r)
  /\ IF Usable(r)
       THEN /\ requests' = (requests \ {r}) \cup {[r EXCEPT !.stage = "locked"]}
            /\ UNCHANGED answer
       ELSE Reply(r, IF r.op = "logout" THEN "ok" ELSE "rejected", r.token)
  /\ UNCHANGED <<tokens, disturbed, left>>

Revoked(t) == [tokens EXCEPT ![t].status = "revoked"]

(* The transaction that holds the row revokes its token, issues the         *)
(* successor if it is a refresh, and commits.                               *)
Commit(r) ==
  /\ r.stage = "locked"
  /\ \/ /\ r.op = "refresh"
        /\ Len(tokens) < MaxTokens
        /\ tokens' = Issue(Revoked(r.token), tokens[r.token].family)
        /\ Reply(r, "ok", Len(tokens) + 1)
     \/ /\ r.op = "logout"
        /\ tokens' = Revoked(r.token)
        /\ Reply(r, "ok", r.token)
  /\ UNCHANGED <<disturbed, left>>

(* The limiter refuses, Redis or the database fails, the worker dies: the   *)
(* transaction is rolled back, and a logout has not happened.               *)
Fail(r) ==
  /\ r.op # "login"
  /\ Reply(r, "failed", r.token)
  /\ disturbed' = IF r.op = "logout" THEN disturbed \cup FamilyOf(r.token) ELSE disturbed
  /\ UNCHANGED <<tokens, left>>

(* A refresh token's time passes while nobody has checked it under the      *)
(* lock; a check under way counts as made before.                           *)
Expire(t) ==
  /\ t \in Live
  /\ \A r \in requests : r.token = t => r.stage = "sent"
  /\ tokens' = [tokens EXCEPT ![t].status = "expired"]
  /\ disturbed' = disturbed \cup FamilyOf(t)
  /\ UNCHANGED <<requests, answer, left>>

Serve == \E r \in requests : Login(r) \/ Take(r) \/ Commit(r) \/ Fail(r)

-----------------------------------------------------------------------------
(* Properties, of the server and its clients together. *)

ServerTypeOK ==
  /\ tokens \in Seq([family : Nat, status : {"live", "revoked", "expired"}])
  /\ Len(tokens) <= MaxTokens
  /\ \A t \in Tokens : tokens[t].family \in Families
  /\ requests \subseteq Requests
  /\ answer \in [Clients -> [status : {"none", "ok", "rejected", "failed"}, token : Tokens \cup {0}]]
  /\ disturbed \subseteq Families
  /\ left \subseteq Families

Promise == INSTANCE RefreshFamilies WITH
  held <- [f \in Families |-> {t \in Live : tokens[t].family = f}],
  issued <- Len(tokens)

(* ADR 0006: the concurrent requests implement the families one exchange    *)
(* at a time: no family ever has two tokens that can be exchanged, and none *)
(* has one again after its end.                                             *)
FamiliesPromise == Promise!Spec

(* After a logout nobody can renew the session, although its token may have *)
(* been rotated before and other operations were under way; except when an  *)
(* answer was lost or the logout failed.                                    *)
LogoutEndsFamily ==
  \A t \in Live : tokens[t].family \in left => tokens[t].family \in disturbed
=============================================================================
