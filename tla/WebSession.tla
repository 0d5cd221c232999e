----------------------------- MODULE WebSession -----------------------------
(***************************************************************************)
(* The session of the web client: one value in localStorage, shared by     *)
(* every tab of the browser, refreshed under a browser lock against a      *)
(* provider that rotates refresh tokens (auth.ts, use-session.ts, the 401  *)
(* retry of authenticatedRequest).                                         *)
(*                                                                         *)
(* A tab runs one chain of awaits at a time.  A page that runs several at  *)
(* once is, towards the storage, the lock and the provider, several tabs.  *)
(* An access token and the refresh token issued with it are one number:    *)
(* the position of that answer among all the provider ever gave.           *)
(***************************************************************************)
EXTENDS Naturals, Sequences

CONSTANTS
  Tabs,             \* browsing contexts of this origin
  NoTab,            \* holder of a free lock
  LocksAvailable,   \* navigator.locks exists
  MaxLogins,        \* bounds: logins begun,
  MaxExpiries,      \*   access tokens that expire,
  MaxSignOuts,      \*   sign-outs,
  MaxFaults,        \*   exchanges with the provider that fail,
  MaxReloads        \*   reloads in the middle of a call

ASSUME TabsAssumption == NoTab \notin Tabs
ASSUME LocksAssumption == LocksAvailable \in BOOLEAN
ASSUME BoundsAssumption ==
  /\ MaxLogins \in Nat /\ MaxExpiries \in Nat /\ MaxSignOuts \in Nat
  /\ MaxFaults \in Nat /\ MaxReloads \in Nat

VARIABLES
  stored,     \* localStorage[SESSION_KEY]: a token, or NoSession
  expired,    \* isExpired(stored)
  writer,     \* history: the tab that wrote or cleared it last
  lock,       \* holder of "laundry-web-session-refresh"
  pc,         \* where the tab's chain of awaits stands
  phase,      \* which caller of validSession it is in
  session,    \* the session the chain works with
  answer,     \* what the provider answered to it
  shown,      \* useSession's state in the tab
  notified,   \* tabs with a session-changed event still to handle
  txn,        \* sessionStorage[LOGIN_KEY] of the tab
  url,        \* the login attempt named by the tab's callback URL
  attempts,   \* the tab of each login ever begun
  family,     \* provider: the login attempt each token descends from
  used,       \* provider: refresh tokens that have been redeemed
  revoked,    \* provider: attempts whose token family is revoked
  redeemed,   \* provider: attempts whose code has been redeemed
  expiries, signOuts, faults, reloads   \* counters for the bounds

storage  == <<stored, expired, writer>>
chain    == <<pc, phase, session, answer>>
page     == <<shown, notified>>
login    == <<txn, url, attempts>>
provider == <<family, used, revoked, redeemed>>
bounds   == <<expiries, signOuts, faults, reloads>>
vars == <<storage, lock, chain, page, login, provider, bounds>>

NoSession == 0

Init ==
  /\ stored = NoSession /\ expired = FALSE /\ writer = NoTab
  /\ lock = NoTab
  /\ pc = [t \in Tabs |-> "idle"]
  /\ phase = [t \in Tabs |-> "load"]
  /\ session = [t \in Tabs |-> NoSession]
  /\ answer = [t \in Tabs |-> NoSession]
  /\ shown = [t \in Tabs |-> NoSession] /\ notified = {}
  /\ txn = [t \in Tabs |-> 0] /\ url = [t \in Tabs |-> 0] /\ attempts = <<>>
  /\ family = <<>> /\ used = {} /\ revoked = {} /\ redeemed = {}
  /\ expiries = 0 /\ signOuts = 0 /\ faults = 0 /\ reloads = 0

Goto(t, label) == pc' = [pc EXCEPT ![t] = label]

\* The chain is over: its local variables are gone.
End(t) ==
  /\ Goto(t, "idle")
  /\ phase' = [phase EXCEPT ![t] = "load"]
  /\ session' = [session EXCEPT ![t] = NoSession]

-----------------------------------------------------------------------------
(* localStorage and its two notifications.                                 *)

\* Mutant: the other tabs are not told.
BroadcastToNobody(t) == UNCHANGED notified

\* The storage event and the broadcast channel reach every other tab.
Broadcast(t) == notified' = notified \cup (Tabs \ {t})

writeStored(t, token) ==
  /\ stored' = token /\ expired' = FALSE /\ writer' = t
  /\ Broadcast(t)

clearSession(t) ==
  /\ stored' = NoSession /\ expired' = FALSE /\ writer' = t
  /\ Broadcast(t)

\* useSession's listener.
Sync(t) ==
  /\ t \in notified
  /\ shown' = [shown EXCEPT ![t] = stored]
  /\ notified' = notified \ {t}
  /\ UNCHANGED <<storage, lock, chain, login, provider, bounds>>

\* Time passes until the stored access token is within the skew of its end.
Expire ==
  /\ stored # NoSession /\ ~expired /\ expiries < MaxExpiries
  /\ expired' = TRUE /\ expiries' = expiries + 1
  /\ UNCHANGED <<stored, writer, lock, chain, page, login, provider,
                 signOuts, faults, reloads>>

-----------------------------------------------------------------------------
(* The callers of validSession: useSession on mount ("load"), and          *)
(* authenticatedRequest before its first call of the API ("first"), after  *)
(* a 401 ("renew") and before the retry ("retry").                         *)

Begin(t, caller) ==
  /\ Goto(t, "read")
  /\ phase' = [phase EXCEPT ![t] = caller]
  /\ UNCHANGED <<session, answer>>

\* A page is opened: everything it showed is gone.
Mount(t) ==
  /\ Begin(t, "load")
  /\ shown' = [shown EXCEPT ![t] = NoSession]
  /\ notified' = notified \ {t}
  /\ url' = [url EXCEPT ![t] = 0]

OpenPage(t) ==
  /\ pc[t] \in {"idle", "at provider"}
  /\ Mount(t)
  /\ UNCHANGED <<storage, lock, txn, attempts, provider, bounds>>

\* Pages send requests only while useSession gives them a session.
StartRequest(t) ==
  /\ pc[t] = "idle" /\ shown[t] # NoSession
  /\ Begin(t, "first")
  /\ UNCHANGED <<storage, lock, page, login, provider, bounds>>

\* validSession returns a session, or null, to its caller.
Return(t, result) ==
  IF phase[t] \in {"first", "retry"} /\ result = NoSession
    THEN End(t)
    ELSE /\ session' = [session EXCEPT ![t] = result]
         /\ phase' = [phase EXCEPT ![t] = IF @ = "renew" THEN "retry" ELSE @]
         /\ Goto(t, CASE phase[t] = "load"  -> "show"
                      [] phase[t] = "renew" -> "read"
                      [] OTHER              -> "call")

\* validSession throws: useSession swallows it, a request fails.
Throw(t) ==
  IF phase[t] = "load" THEN Goto(t, "show") /\ UNCHANGED <<phase, session>>
                       ELSE End(t)

\* The second half of useSession's load.
Show(t) ==
  /\ pc[t] = "show"
  /\ shown' = [shown EXCEPT ![t] = stored]
  /\ End(t)
  /\ UNCHANGED <<storage, lock, answer, notified, login, provider, bounds>>

-----------------------------------------------------------------------------
(* validSession and refreshSession.                                        *)

Usable == stored # NoSession /\ ~expired

ReadSession(t) ==
  /\ pc[t] = "read"
  /\ IF stored = NoSession \/ Usable
       THEN Return(t, stored)
       ELSE /\ session' = [session EXCEPT ![t] = stored]
            /\ Goto(t, "wait")
            /\ UNCHANGED phase
  /\ UNCHANGED <<storage, lock, answer, page, login, provider, bounds>>

\* Whom refreshSession is called with: latest ?? session.
Existing(t) == IF stored # NoSession THEN stored ELSE session[t]

\* Mutant: the refresh does not wait for navigator.locks.
TakeNoLock(t) == UNCHANGED lock

TakeLock(t) == lock' = IF LocksAvailable THEN t ELSE lock
ReleaseLock(t) == lock' = IF lock = t THEN NoTab ELSE lock

\* The lock is granted and the session read again under it.
EnterRefresh(t) ==
  /\ pc[t] = "wait"
  /\ lock = NoTab
  /\ IF Usable
       THEN Return(t, stored) /\ UNCHANGED lock
       ELSE /\ session' = [session EXCEPT ![t] = Existing(t)]
            /\ Goto(t, "refresh")
            /\ TakeLock(t)
            /\ UNCHANGED phase
  /\ UNCHANGED <<storage, answer, page, login, provider, bounds>>

\* The token endpoint: a token used before revokes its whole family.
Accepts(token) == token \notin used /\ family[token] \notin revoked

RotateToken(t) ==
  /\ pc[t] = "refresh"
  /\ IF Accepts(session[t])
       THEN /\ family' = Append(family, family[session[t]])
            /\ answer' = [answer EXCEPT ![t] = Len(family')]
            /\ used' = used \cup {session[t]}
            /\ UNCHANGED revoked
       ELSE /\ answer' = [answer EXCEPT ![t] = NoSession]
            /\ revoked' = revoked \cup {family[session[t]]}
            /\ UNCHANGED <<family, used>>
  /\ Goto(t, "refreshed")
  /\ UNCHANGED <<storage, lock, phase, session, page, login, redeemed, bounds>>

FinishRefresh(t) ==
  /\ pc[t] = "refreshed" /\ answer[t] # NoSession
  /\ writeStored(t, answer[t])
  /\ ReleaseLock(t)
  /\ Return(t, answer[t])
  /\ answer' = [answer EXCEPT ![t] = NoSession]
  /\ UNCHANGED <<shown, login, provider, bounds>>

\* Mutant: a failed refresh leaves the session where it is.
RefreshFailsKeeping(t) ==
  /\ pc[t] = "refreshed" /\ answer[t] = NoSession
  /\ ReleaseLock(t)
  /\ Throw(t)
  /\ UNCHANGED <<storage, answer, page, login, provider, bounds>>

RefreshFails(t) ==
  /\ pc[t] = "refreshed" /\ answer[t] = NoSession
  /\ clearSession(t)
  /\ ReleaseLock(t)
  /\ Throw(t)
  /\ UNCHANGED <<answer, shown, login, provider, bounds>>

-----------------------------------------------------------------------------
(* authenticatedRequest.                                                   *)

\* A success, any other error, or the second 401: the call is over.
RequestEnds(t) ==
  /\ pc[t] = "call"
  /\ End(t)
  /\ UNCHANGED <<storage, lock, answer, page, login, provider, bounds>>

\* Mutant: the retry is not told that it is one.
RequestUnauthorisedAgain(t) ==
  /\ pc[t] = "call"
  /\ Begin(t, "renew")
  /\ UNCHANGED <<storage, lock, page, login, provider, bounds>>

RequestUnauthorised(t) ==
  /\ pc[t] = "call" /\ phase[t] = "first"
  /\ Begin(t, "renew")
  /\ UNCHANGED <<storage, lock, page, login, provider, bounds>>

-----------------------------------------------------------------------------
(* signOut.                                                                *)

StartSignOut(t) ==
  /\ pc[t] = "idle" /\ shown[t] # NoSession
  /\ signOuts < MaxSignOuts /\ signOuts' = signOuts + 1
  /\ session' = [session EXCEPT ![t] = stored]
  /\ Goto(t, "clear")
  /\ UNCHANGED <<storage, lock, phase, answer, page, login, provider,
                 expiries, faults, reloads>>

ClearOnSignOut(t) ==
  /\ pc[t] = "clear"
  /\ clearSession(t)
  /\ Goto(t, IF session[t] = NoSession THEN "idle" ELSE "revoke")
  /\ UNCHANGED <<lock, phase, session, answer, shown, login, provider, bounds>>

RevokeToken(t) ==
  /\ pc[t] = "revoke"
  /\ revoked' = revoked \cup {family[session[t]]}
  /\ End(t)
  /\ UNCHANGED <<storage, lock, answer, page, login, family, used, redeemed,
                 bounds>>

-----------------------------------------------------------------------------
(* beginLogin and completeLogin.  A login attempt stands for its state,    *)
(* nonce and verifier, and for the code the provider answers it with.      *)

BeginLogin(t) ==
  /\ pc[t] = "idle" /\ shown[t] = NoSession
  /\ Len(attempts) < MaxLogins
  /\ attempts' = Append(attempts, t)
  /\ txn' = [txn EXCEPT ![t] = Len(attempts')]
  /\ url' = [url EXCEPT ![t] = 0]
  /\ notified' = notified \ {t}
  /\ Goto(t, "at provider")
  /\ UNCHANGED <<storage, lock, phase, session, answer, shown, provider, bounds>>

\* The user may finish the sign-in page of an older attempt of the tab.
ReturnToCallback(t) ==
  /\ pc[t] = "at provider"
  /\ \E n \in DOMAIN attempts :
       attempts[n] = t /\ url' = [url EXCEPT ![t] = n]
  /\ Goto(t, "callback")
  /\ UNCHANGED <<storage, lock, phase, session, answer, page, txn, attempts,
                 provider, bounds>>

\* Mutant: the transaction is not removed.
ForgetNothing(t) == UNCHANGED txn

\* The transaction is removed before anything else is looked at.
ForgetTransaction(t) == txn' = [txn EXCEPT ![t] = 0]

CallbackAccepted(t) ==
  /\ pc[t] = "callback" /\ txn[t] = url[t]
  /\ ForgetTransaction(t)
  /\ Goto(t, "redeem")
  /\ UNCHANGED <<storage, lock, phase, session, answer, page, url, attempts,
                 provider, bounds>>

\* The provider reports an error, or the transaction is not the tab's.
CallbackRefused(t) ==
  /\ pc[t] = "callback"
  /\ ForgetTransaction(t)
  /\ Goto(t, "idle")
  /\ UNCHANGED <<storage, lock, phase, session, answer, page, url, attempts,
                 provider, bounds>>

RedeemCode(t) ==
  /\ pc[t] = "redeem"
  /\ IF url[t] \notin redeemed
       THEN /\ family' = Append(family, url[t])
            /\ answer' = [answer EXCEPT ![t] = Len(family')]
            /\ redeemed' = redeemed \cup {url[t]}
            /\ UNCHANGED revoked
       ELSE /\ answer' = [answer EXCEPT ![t] = NoSession]
            /\ revoked' = revoked \cup {url[t]}
            /\ UNCHANGED <<family, redeemed>>
  /\ Goto(t, "redeem answered")
  /\ UNCHANGED <<storage, lock, phase, session, page, login, used, bounds>>

\* The callback page moves on to the page the login started from.
FinishLogin(t) ==
  /\ pc[t] = "redeem answered" /\ answer[t] # NoSession
  /\ stored' = answer[t] /\ expired' = FALSE /\ writer' = t
  /\ notified' = (notified \cup Tabs) \ {t}
  /\ shown' = [shown EXCEPT ![t] = NoSession]
  /\ Goto(t, "read")
  /\ phase' = [phase EXCEPT ![t] = "load"]
  /\ url' = [url EXCEPT ![t] = 0]
  /\ answer' = [answer EXCEPT ![t] = NoSession]
  /\ UNCHANGED <<lock, session, txn, attempts, provider, bounds>>

LoginFails(t) ==
  /\ pc[t] = "redeem answered" /\ answer[t] = NoSession
  /\ Goto(t, "idle")
  /\ UNCHANGED <<storage, lock, phase, session, answer, page, login, provider,
                 bounds>>

-----------------------------------------------------------------------------
(* Faults.                                                                 *)

Fault ==
  /\ faults < MaxFaults /\ faults' = faults + 1
  /\ UNCHANGED <<expiries, signOuts, reloads>>

\* Discovery or the exchange fails before the provider acts on it.
ExchangeFails(t) ==
  /\ \/ pc[t] = "refresh" /\ Goto(t, "refreshed") /\ UNCHANGED <<phase, session>>
     \/ pc[t] = "redeem" /\ Goto(t, "redeem answered") /\ UNCHANGED <<phase, session>>
     \/ pc[t] = "revoke" /\ End(t)
  /\ Fault
  /\ UNCHANGED <<storage, lock, answer, page, login, provider>>

\* The answer is lost on its way, or its ID token is not accepted.
LoseAnswer(t) ==
  /\ answer[t] # NoSession
  /\ answer' = [answer EXCEPT ![t] = NoSession]
  /\ Fault
  /\ UNCHANGED <<storage, lock, pc, phase, session, page, login, provider>>

\* The tab is reloaded, or closed and opened again, in the middle of a call.
Reload(t) ==
  /\ pc[t] \notin {"idle", "at provider"}
  /\ reloads < MaxReloads /\ reloads' = reloads + 1
  /\ shown' = [shown EXCEPT ![t] = NoSession]
  /\ notified' = notified \ {t}
  /\ answer' = [answer EXCEPT ![t] = NoSession]
  /\ session' = [session EXCEPT ![t] = NoSession]
  /\ phase' = [phase EXCEPT ![t] = "load"]
  /\ Goto(t, IF url[t] = 0 THEN "read" ELSE "callback")
  /\ ReleaseLock(t)
  /\ UNCHANGED <<storage, login, provider, expiries, signOuts, faults>>

-----------------------------------------------------------------------------
\* What goes on by itself once a call has begun.
Progress(t) ==
  \/ ReadSession(t) \/ Show(t)
  \/ RotateToken(t) \/ FinishRefresh(t) \/ RefreshFails(t)
  \/ RequestEnds(t) \/ RequestUnauthorised(t)
  \/ ClearOnSignOut(t) \/ RevokeToken(t)
  \/ CallbackAccepted(t) \/ CallbackRefused(t)
  \/ RedeemCode(t) \/ FinishLogin(t) \/ LoginFails(t)

User(t) ==
  \/ OpenPage(t) \/ StartRequest(t) \/ StartSignOut(t)
  \/ BeginLogin(t) \/ ReturnToCallback(t)

Environment(t) == Sync(t) \/ ExchangeFails(t) \/ LoseAnswer(t) \/ Reload(t)

Next ==
  \/ Expire
  \/ \E t \in Tabs : Progress(t) \/ EnterRefresh(t) \/ User(t) \/ Environment(t)

Fairness ==
  \A t \in Tabs : WF_vars(Progress(t)) /\ SF_vars(EnterRefresh(t))

Spec == Init /\ [][Next]_vars

FairSpec == Spec /\ Fairness
=============================================================================
