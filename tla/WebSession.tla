----------------------------- MODULE WebSession -----------------------------
(***************************************************************************)
(* The web client's session: the cookies of one browser, the API calls and *)
(* session operations its tabs have under way, and the routes of the web   *)
(* server that pass them on (lib/session.ts, lib/api.ts, app/api/session). *)
(* ADR 0007 and 0008 are about this module.                                *)
(*                                                                         *)
(* A client is one call or operation of a page.  A context, a token and an *)
(* observed context are numbers; 0 is an absent cookie.  What a call does  *)
(* at the backend is left out: only the account it runs for matters here.  *)
(***************************************************************************)
EXTENDS RefreshTokens, FiniteSets

CONSTANTS
  Tabs,
  TabOf,         \* client -> the tab whose page runs it
  MaxContexts,   \* bound: the session contexts the browser ever has
  MaxAbandoned   \* bound: the abandoned requests while a page starts another call

ASSUME WebAssumption == TabOf \in [Clients -> Tabs] /\ {MaxContexts, MaxAbandoned} \subseteq Nat

VARIABLES
  cookies,       \* sm_context, and the token sm_access and sm_refresh came with
  expired,       \* whether the access token in sm_access has expired
  opened,        \* context -> the family whose account it names
  observed,      \* tab -> observedContext of its page
  expected,      \* client -> the context it is bound to
  stage          \* client -> what it waits for

browser == <<cookies, expired, opened, observed, expected, stage>>
vars == <<server, browser>>

Waits == {"rejected", "login", "logout", "organization"}
LockedButLogout == {"probing", "renewing", "retrying", "entering", "choosing"}
LockedButRenewal == {"probing", "retrying", "entering", "leaving", "choosing"}
Locked == {"probing", "renewing", "retrying", "entering", "leaving", "choosing"}
Stages == {"idle", "rejected", "login", "logout", "organization", "probing", "renewing",
           "retrying", "entering", "leaving", "choosing"}

NoCookies == [context |-> 0, access |-> 0, refresh |-> 0]

Init ==
  /\ ServerInit
  /\ cookies = NoCookies
  /\ expired = FALSE
  /\ opened = <<>>
  /\ observed = [t \in Tabs |-> 0]
  /\ expected = [c \in Clients |-> 0]
  /\ stage = [c \in Clients |-> "idle"]

(* c waits for s, or is over and forgets its context.                       *)
Move(c, s) ==
  /\ stage' = [stage EXCEPT ![c] = s]
  /\ expected' = IF s = "idle" THEN [expected EXCEPT ![c] = 0] ELSE expected

(* observedContext of c's page becomes sessionContext().                    *)
Observe(c) == observed' = [observed EXCEPT ![TabOf[c]] = cookies'.context]

(* assertContext of c's bound context.                                      *)
SameContext(c) == cookies.context = expected[c]

-----------------------------------------------------------------------------
(* A page starts a call or an operation. *)

MayStart(c) == stage[c] = "idle" /\ Cardinality(Waiting({NoClient})) < MaxAbandoned

(* boundSessionContext: the page acts only for the session it has seen.  A  *)
(* page of nobody's offers nothing but to sign in, and its calls are not    *)
(* renewed.                                                                 *)
Bind(c, s) ==
  /\ MayStart(c)
  /\ cookies.context # 0 /\ observed[TabOf[c]] = cookies.context
  /\ stage' = [stage EXCEPT ![c] = s]
  /\ expected' = [expected EXCEPT ![c] = cookies.context]
  /\ UNCHANGED <<server, cookies, expired, opened, observed>>

Start(c) == \E s \in {"logout", "organization"} : Bind(c, s)

(* A call of a signed-in page that the backend answers with 401 goes for    *)
(* renewal; any other answer, and the 409 of the proxy for another context, *)
(* ends the call and changes nothing here.                                  *)
Called(c) == expired /\ Bind(c, "rejected")

(* Anyone may sign in over whatever session there is.                       *)
StartLogin(c) ==
  /\ MayStart(c)
  /\ Len(opened) < MaxContexts
  /\ Move(c, "login")
  /\ UNCHANGED <<server, cookies, expired, opened, observed>>

-----------------------------------------------------------------------------
(* Under the Web Lock. *)

LockFree == \A c \in Clients : stage[c] \notin Locked

(* The lock is granted, and the session is compared again except by login.  *)
Acquire(c) ==
  /\ LockFree
  /\ \/ /\ stage[c] = "login"
        /\ Move(c, "entering")
        /\ Send(c, "login", 0)
     \/ /\ stage[c] = "logout" /\ SameContext(c)
        /\ Move(c, "leaving")
        /\ IF cookies.refresh # 0 THEN Send(c, "logout", cookies.refresh) ELSE UNCHANGED requests
     \/ /\ stage[c] = "rejected" /\ SameContext(c)
        /\ Move(c, "probing")
        /\ UNCHANGED requests
     \/ /\ stage[c] = "organization" /\ SameContext(c)
        /\ Move(c, "choosing")
        /\ UNCHANGED requests
     \/ /\ stage[c] \in Waits \ {"login"} /\ ~ SameContext(c)
        /\ Move(c, "idle")
        /\ UNCHANGED requests
  /\ UNCHANGED <<tokens, answer, disturbed, left, cookies, expired, opened, observed>>

Denied(c) == SameContext(c) /\ expired

(* Another tab may have renewed the cookies already: auth/me tells.         *)
Probed(c) ==
  /\ stage[c] = "probing"
  /\ \/ Denied(c) /\ Move(c, "renewing") /\ Send(c, "refresh", cookies.refresh)
     \/ SameContext(c) /\ ~ Denied(c) /\ Move(c, "retrying") /\ UNCHANGED requests
     \/ ~ SameContext(c) /\ Move(c, "idle") /\ UNCHANGED requests
  /\ UNCHANGED <<tokens, answer, disturbed, left, cookies, expired, opened, observed>>

(* The refresh route replaces both token cookies and keeps the context.     *)
RenewalOfAccess(t) == [cookies EXCEPT !.access = t]
Renewal(t) == [cookies EXCEPT !.access = t, !.refresh = t]

Renewed(c) ==
  /\ stage[c] = "renewing"
  /\ answer[c] # NoAnswer
  /\ IF answer[c].status = "ok"
       THEN /\ cookies' = Renewal(answer[c].token) /\ expired' = FALSE
            /\ Move(c, IF SameContext(c) THEN "retrying" ELSE "idle")
       ELSE Move(c, "idle") /\ UNCHANGED <<cookies, expired>>
  /\ Consume(c)
  /\ UNCHANGED <<tokens, requests, disturbed, left, opened, observed>>

(* The one repetition of the call.                                          *)
Retried(c) ==
  /\ stage[c] = "retrying"
  /\ Move(c, "idle")
  /\ UNCHANGED <<server, cookies, expired, opened, observed>>

(* The login route sets all three cookies or none.                          *)
LoggedIn(c) ==
  /\ stage[c] = "entering"
  /\ answer[c] # NoAnswer
  /\ Move(c, "idle")
  /\ \/ /\ answer[c].status = "ok"
        /\ Len(opened) < MaxContexts
        /\ opened' = Append(opened, tokens[answer[c].token].family)
        /\ cookies' = [context |-> Len(opened'), access |-> answer[c].token,
                       refresh |-> answer[c].token]
        /\ expired' = FALSE
        /\ Observe(c)
     \/ /\ answer[c].status # "ok"
        /\ UNCHANGED <<opened, cookies, expired, observed>>
  /\ Consume(c)
  /\ UNCHANGED <<tokens, requests, disturbed, left>>

(* The logout route deletes the cookies when revocation is answered or its  *)
(* deadline has passed.                                                     *)
Cleared == NoCookies

LoggedOut(c) ==
  /\ stage[c] = "leaving"
  /\ Move(c, "idle")
  /\ cookies' = Cleared
  /\ expired' = FALSE
  /\ Observe(c)
  /\ left' = left \cup FamilyOf(cookies.refresh)
  /\ disturbed' = IF Waiting({c}) = {} THEN disturbed ELSE disturbed \cup Losing({c})
  /\ Abandon({c})
  /\ UNCHANGED <<tokens, opened>>

(* Another organization is another context of the same account; the same    *)
(* organization changes nothing.                                            *)
Chosen(c) ==
  /\ stage[c] = "choosing"
  /\ Move(c, "idle")
  /\ \/ /\ SameContext(c)
        /\ Len(opened) < MaxContexts
        /\ opened' = Append(opened, opened[cookies.context])
        /\ cookies' = [cookies EXCEPT !.context = Len(opened')]
        /\ Observe(c)
     \/ UNCHANGED <<opened, cookies, observed>>
  /\ UNCHANGED <<server, expired>>

-----------------------------------------------------------------------------
(* A deadline of the web server or of sessionRequest passes, or the         *)
(* connection fails: no answer, and the cookies stay.                       *)
TimesOutButRenewal(c) == stage[c] \in Locked \ {"renewing"}
TimesOut(c) == stage[c] \in Locked

GiveUp(c) ==
  /\ TimesOut(c)
  /\ Move(c, "idle")
  /\ disturbed' = disturbed \cup Losing({c})
  /\ Abandon({c})
  /\ UNCHANGED <<tokens, left, cookies, expired, opened, observed>>

(* A page is closed or loaded again; its locks are released.                *)
Reload(t) ==
  LET C == {c \in Clients : TabOf[c] = t}
  IN /\ stage' = [c \in Clients |-> IF c \in C THEN "idle" ELSE stage[c]]
     /\ expected' = [c \in Clients |-> IF c \in C THEN 0 ELSE expected[c]]
     /\ observed' = [observed EXCEPT ![t] = cookies.context]
     /\ disturbed' = disturbed \cup Losing(C)
     /\ Abandon(C)
     /\ UNCHANGED <<tokens, left, cookies, expired, opened>>

-----------------------------------------------------------------------------
(* The lifetimes that matter are those of the tokens in the cookies.        *)
ExpireAccess ==
  /\ cookies.access # 0
  /\ expired' = TRUE
  /\ UNCHANGED <<server, cookies, opened, observed, expected, stage>>

ExpireRefresh == cookies.refresh # 0 /\ Expire(cookies.refresh)

Proceed(c) == Probed(c) \/ Renewed(c) \/ Retried(c) \/ LoggedIn(c)
              \/ LoggedOut(c) \/ Chosen(c) \/ GiveUp(c)

Page(c) == Start(c) \/ Called(c) \/ StartLogin(c) \/ Acquire(c) \/ Proceed(c)

Next ==
  \/ \E c \in Clients : Page(c)
  \/ \E t \in Tabs : Reload(t)
  \/ (Serve \/ ExpireRefresh) /\ UNCHANGED browser
  \/ ExpireAccess

Spec == Init /\ [][Next]_vars

(* A page runs its own code and timers, and the browser grants the lock in  *)
(* the order of the requests; nothing is assumed of network and servers.    *)
Fairness == \A c \in Clients : WF_vars(Proceed(c)) /\ SF_vars(Acquire(c))

FairSpec == Spec /\ Fairness

-----------------------------------------------------------------------------
(* Properties *)

(* Every variable has its type, and the three cookies come and go together. *)
TypeOK ==
  /\ ServerTypeOK
  /\ expired \in BOOLEAN
  /\ opened \in Seq(Families) /\ Len(opened) <= MaxContexts
  /\ cookies = NoCookies
     \/ cookies \in [context : 1..Len(opened), access : Tokens, refresh : Tokens]
  /\ observed \in [Tabs -> 0..Len(opened)]
  /\ expected \in [Clients -> 0..Len(opened)]
  /\ stage \in [Clients -> Stages]

(* ADR 0007: concurrent tabs never sign one another out.  A renewal is only *)
(* rejected when an answer was lost, a logout failed, or the token expired. *)
NoNeedlessSignOut ==
  \A c \in Clients : stage[c] = "renewing" /\ answer[c].status = "rejected"
                       => FamilyOf(answer[c].token) \subseteq disturbed

(* The context a page compares names the account of the cookies that are    *)
(* sent with its calls: no call of one account runs for another.            *)
ContextNamesAccount ==
  cookies.context # 0 =>
    /\ tokens[cookies.access].family = opened[cookies.context]
    /\ tokens[cookies.refresh].family = opened[cookies.context]

(* Calls and session operations end, and the Web Lock is given back.        *)
CallsEnd == \A c \in Clients : []<>(stage[c] = "idle")
=============================================================================
