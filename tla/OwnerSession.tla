---------------------------- MODULE OwnerSession ----------------------------
(***************************************************************************)
(* The owner app's session (apps/owner/lib/session.dart, ADR 0009): one    *)
(* queue of operations over the two keys of the secure storage, the token  *)
(* the app shows itself signed in with, and the intents that make earlier  *)
(* operations obsolete.                                                    *)
(*                                                                         *)
(* _epoch is only ever compared with the epoch an operation was queued     *)
(* under; an operation carries the outcome, whether it is still current.   *)
(* Several server requests of one operation are separate steps; what       *)
(* auth/me returns beyond its status is left out.                          *)
(***************************************************************************)
EXTENDS RefreshTokens, FiniteSets

CONSTANTS
  MaxQueue,      \* bound: operations queued at a time
  MaxAbandoned   \* bound: the abandoned requests while another operation is queued

ASSUME OwnerAssumption == {MaxQueue, MaxAbandoned} \subseteq Nat

VARIABLES
  storage,     \* the keys access_token and refresh_token
  shown,       \* the access token the app publishes, its state
  stale,       \* the access tokens that have expired
  queue,       \* the operations of _serial, the first one running
  stage,       \* what the running operation waits for
  used,        \* the token it works with
  intent,      \* the user's last login or logout
  torn         \* whether the storage failed or the app died in between writes

app == <<storage, shown, stale, queue, stage, used, intent, torn>>
vars == <<server, app>>

Empty == [access |-> 0, refresh |-> 0]
Op == Head(queue).op

Init ==
  /\ ServerInit
  /\ storage = Empty
  /\ shown = 0
  /\ stale = {}
  /\ queue = <<>>
  /\ stage = "idle"
  /\ used = 0
  /\ intent = "none"
  /\ torn = FALSE

-----------------------------------------------------------------------------
(* The app asks for operations. *)

Entry(op) == [op |-> op, current |-> TRUE]

MayQueue == Len(queue) < MaxQueue /\ Cardinality(Waiting({NoClient})) < MaxAbandoned

(* restore, resume and organization all come to _me; a restore that finds   *)
(* another pending shares its outcome and queues nothing.                   *)
Check ==
  /\ MayQueue
  /\ queue' = Append(queue, Entry("check"))
  /\ UNCHANGED <<server, storage, shown, stale, stage, used, intent, torn>>

(* A login or logout makes what is queued obsolete and hides the session.   *)
Obsolete == [i \in DOMAIN queue |-> [queue[i] EXCEPT !.current = FALSE]]

Intend(op) ==
  /\ MayQueue
  /\ queue' = Append(Obsolete, Entry(op))
  /\ shown' = 0
  /\ intent' = op
  /\ UNCHANGED <<server, storage, stale, stage, used, torn>>

-----------------------------------------------------------------------------
(* What a running operation does between its answers. *)

MayAlwaysPublish == queue # <<>>
MayPublish == Head(queue).current
Publish(t) == shown' = IF MayPublish THEN t ELSE shown

Wait(s, t) == stage' = s /\ used' = t /\ UNCHANGED queue
Finish == stage' = "idle" /\ used' = 0 /\ queue' = Tail(queue)

AccessErased == [storage EXCEPT !.access = 0]
Erased == Empty

(* deleteAll, which may throw and leave everything as it was.               *)
Clear ==
  \/ /\ storage' = Erased
     /\ Publish(0)
     /\ UNCHANGED torn
  \/ torn' = TRUE /\ UNCHANGED <<storage, shown>>

Ask(op, t) == \E c \in Clients : Send(c, op, t)

(* _refresh reads the stored token and clears when there is none.           *)
Renew ==
  IF storage.refresh # 0
    THEN Ask("refresh", storage.refresh) /\ Wait("refreshing", 0) /\ UNCHANGED <<storage, shown, torn>>
    ELSE Clear /\ Finish /\ UNCHANGED requests

-----------------------------------------------------------------------------
(* The steps of the running operation. *)

(* Only logout runs although a later intent has made it obsolete.           *)
Skips == ~ Head(queue).current /\ Op # "logout"

Begin ==
  /\ queue # <<>>
  /\ stage = "idle"
  /\ \/ /\ Skips
        /\ Finish
        /\ UNCHANGED <<storage, shown, torn, requests>>
     \/ /\ ~ Skips /\ Op = "check"
        /\ LET t == IF shown # 0 THEN shown ELSE storage.access
           IN IF t # 0 THEN Wait("probing", t) /\ UNCHANGED <<storage, shown, torn, requests>>
              ELSE Renew
     \/ /\ ~ Skips /\ Op = "login"
        /\ Ask("login", 0)
        /\ Wait("entering", 0)
        /\ UNCHANGED <<storage, shown, torn>>
     \/ /\ Op = "logout"
        /\ IF storage.refresh # 0
             THEN /\ Ask("logout", storage.refresh)
                  /\ Wait("leaving", 0)
                  /\ UNCHANGED <<storage, shown, torn>>
             ELSE Clear /\ Finish /\ UNCHANGED requests
  /\ UNCHANGED <<tokens, answer, disturbed, left, stale, intent>>

(* auth/me answers 200, or 401 for an expired token: renew once.            *)
Probed ==
  /\ stage = "probing"
  /\ IF used \in stale THEN Renew
     ELSE Publish(used) /\ Finish /\ UNCHANGED <<storage, torn, requests>>
  /\ UNCHANGED <<tokens, answer, disturbed, left, stale, intent>>

(* auth/me after a renewal: 401 clears.                                     *)
Confirmed ==
  /\ stage = "confirming"
  /\ IF used \in stale THEN Clear
     ELSE Publish(used) /\ UNCHANGED <<storage, torn>>
  /\ Finish
  /\ UNCHANGED <<server, stale, intent>>

Answered(c) == answer[c] # NoAnswer

(* _save writes the access token first, whatever has been intended since.   *)
MaySaveCurrent(c) == answer[c].status = "ok" /\ MayPublish
MaySave(c) == answer[c].status = "ok"

(* The answer to a login or a renewal: the new pair is saved, a rejected    *)
(* renewal clears, anything else leaves the storage alone.                  *)
Granted(c) ==
  /\ stage \in {"entering", "refreshing"}
  /\ Answered(c)
  /\ Consume(c)
  /\ \/ /\ MaySave(c)
        /\ storage' = [storage EXCEPT !.access = answer[c].token]
        /\ Wait("saving", answer[c].token)
        /\ UNCHANGED <<shown, torn>>
     \/ /\ ~ MaySave(c)
        /\ IF stage = "refreshing" /\ answer[c].status = "rejected" THEN Clear
           ELSE UNCHANGED <<storage, shown, torn>>
        /\ Finish
  /\ UNCHANGED <<tokens, requests, disturbed, left, stale, intent>>

CurrentPaired == [storage EXCEPT !.refresh = IF MayPublish THEN used ELSE @]
Paired == [storage EXCEPT !.refresh = used]

(* The refresh token follows; a renewal asks auth/me again.                 *)
Saved ==
  /\ stage = "saving"
  /\ storage' = Paired
  /\ Publish(used)
  /\ IF Op = "login" THEN Finish ELSE Wait("confirming", used)
  /\ UNCHANGED <<server, stale, intent, torn>>

(* A logout clears the storage whatever its answer, or after its deadline.  *)
LoggedOut ==
  /\ stage = "leaving"
  /\ Clear
  /\ Finish
  /\ left' = left \cup FamilyOf(storage.refresh)
  /\ disturbed' = disturbed \cup (IF Waiting(Clients) = {} /\ storage' = Empty THEN {} ELSE Losing(Clients))
  /\ Abandon(Clients)
  /\ UNCHANGED <<tokens, stale, intent>>

(* A request reaches its deadline of ten seconds or fails on the way.       *)
TimesOutButRenewal == stage \in {"probing", "confirming", "entering"}
TimesOut == stage \in {"probing", "confirming", "entering", "refreshing"}

GiveUp ==
  /\ TimesOut
  /\ Finish
  /\ disturbed' = disturbed \cup Losing(Clients)
  /\ Abandon(Clients)
  /\ UNCHANGED <<tokens, left, storage, shown, stale, intent, torn>>

Proceed == Begin \/ Probed \/ Confirmed \/ (\E c \in Clients : Granted(c)) \/ Saved
           \/ LoggedOut \/ GiveUp

-----------------------------------------------------------------------------
(* The second write fails.                                                  *)
SaveFails ==
  /\ stage = "saving"
  /\ Finish
  /\ torn' = TRUE
  /\ disturbed' = disturbed \cup FamilyOf(used)
  /\ UNCHANGED <<tokens, requests, answer, left, storage, shown, stale, intent>>

(* The app is killed and started again: only the storage survives.          *)
Restart ==
  /\ queue' = <<>>
  /\ stage' = "idle"
  /\ used' = 0
  /\ shown' = 0
  /\ intent' = "none"
  /\ torn' = (torn \/ stage = "saving")
  /\ disturbed' = disturbed \cup Losing(Clients)
                    \cup (IF stage = "saving" THEN FamilyOf(used) ELSE {})
  /\ Abandon(Clients)
  /\ UNCHANGED <<tokens, left, storage, stale>>

(* Access tokens the app has dropped are forgotten.                         *)
ExpireAccess ==
  /\ \E t \in {storage.access, shown} \ {0} :
       stale' = (stale \cap {storage.access, shown, used}) \cup {t}
  /\ UNCHANGED <<server, storage, shown, queue, stage, used, intent, torn>>

ExpireRefresh == storage.refresh # 0 /\ Expire(storage.refresh)

Next ==
  \/ Check
  \/ \E op \in {"login", "logout"} : Intend(op)
  \/ Proceed
  \/ SaveFails
  \/ Restart
  \/ (Serve \/ ExpireRefresh) /\ UNCHANGED app
  \/ ExpireAccess

Spec == Init /\ [][Next]_vars

(* The isolate runs its queue and its timers; nothing is assumed of the     *)
(* network, the server or the user.                                         *)
FairSpec == Spec /\ WF_vars(Proceed)

-----------------------------------------------------------------------------
(* Properties *)

(* Every variable has its type, and the two keys come and go together       *)
(* except between the writes of a first pair.                               *)
TypeOK ==
  /\ ServerTypeOK
  /\ storage \in [access : Tokens \cup {0}, refresh : Tokens \cup {0}]
  /\ storage.refresh # 0 => storage.access # 0
  /\ shown \in Tokens \cup {0}
  /\ stale \subseteq Tokens
  /\ queue \in Seq([op : {"check", "login", "logout"}, current : BOOLEAN])
  /\ Len(queue) <= MaxQueue
  /\ stage \in {"idle", "probing", "confirming", "entering", "refreshing", "saving", "leaving"}
  /\ (stage # "idle" => queue # <<>>)
  /\ used \in Tokens \cup {0}
  /\ intent \in {"none", "login", "logout"}
  /\ torn \in BOOLEAN

(* The two keys hold the pair one answer brought, whatever was queued,      *)
(* hidden or given up meanwhile; the app dying between the writes, or a     *)
(* storage that fails, are the exceptions ADR 0009 names.                   *)
PairIsWhole == stage # "saving" /\ ~ torn => storage.access = storage.refresh

(* An intent hides the session at once, and no late answer brings it back:  *)
(* not before a login has succeeded, and never after a logout.              *)
IntentHides ==
  \/ \E i \in DOMAIN queue : queue[i].current /\ queue[i].op \in {"login", "logout"}
  \/ intent = "logout" /\ ~ torn
  => shown = 0

(* The app is signed out by a rejected renewal only when an answer was      *)
(* lost, a logout failed, or the token expired.                             *)
NoNeedlessSignOut ==
  \A c \in Clients : stage = "refreshing" /\ answer[c].status = "rejected"
                       => FamilyOf(answer[c].token) \subseteq disturbed

(* A logout ends with an empty storage, whatever is queued before it and    *)
(* whether or not the server answers, unless the user signs in again, the   *)
(* app is restarted or the storage fails.                                   *)
LogoutClears == intent = "logout" ~> storage = Empty \/ intent # "logout" \/ torn
=============================================================================
