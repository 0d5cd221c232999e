------------------------ MODULE WebSessionProperties ------------------------
(* What the web client's session promises.                                 *)
EXTENDS WebSession

Label == {"idle", "read", "show", "wait", "refresh", "refreshed", "call",
          "clear", "revoke", "at provider", "callback", "redeem",
          "redeem answered"}
Caller == {"load", "first", "renew", "retry"}

\* Tokens issued so far, with NoSession, and login attempts, with none.
Issued    == 0 .. Len(family)
Attempted == 0 .. Len(attempts)

StorageTypes ==
  /\ stored \in Issued /\ expired \in BOOLEAN
  /\ lock \in Tabs \cup {NoTab} /\ writer \in Tabs \cup {NoTab}
ChainTypes ==
  /\ pc \in [Tabs -> Label] /\ phase \in [Tabs -> Caller]
  /\ session \in [Tabs -> Issued] /\ answer \in [Tabs -> Issued]
PageTypes == shown \in [Tabs -> Issued] /\ notified \subseteq Tabs
LoginTypes ==
  /\ txn \in [Tabs -> Attempted] /\ url \in [Tabs -> Attempted]
  /\ attempts \in Seq(Tabs)
ProviderTypes ==
  /\ family \in Seq(Nat) /\ \A n \in 1 .. Len(family) : family[n] \in 1 .. Len(attempts)
  /\ used \subseteq 1 .. Len(family)
  /\ revoked \subseteq 1 .. Len(attempts) /\ redeemed \subseteq 1 .. Len(attempts)
BoundTypes == expiries \in Nat /\ signOuts \in Nat /\ faults \in Nat /\ reloads \in Nat

(* Types: every token is one the provider issued, every attempt was begun. *)
TypeOK ==
  StorageTypes /\ ChainTypes /\ PageTypes /\ LoginTypes /\ ProviderTypes /\ BoundTypes

-----------------------------------------------------------------------------
\* No refresh token is about to be presented that has been presented before.
NeverReplayed == \A t \in Tabs : pc[t] = "refresh" => session[t] \notin used

Undisturbed == LocksAvailable /\ signOuts = 0 /\ faults = 0 /\ reloads = 0

(* Tabs that refresh under the lock never present a refresh token twice,   *)
(* which would revoke its family and sign every tab out (refreshSession),  *)
(* as long as nobody signs out, every exchange succeeds and no tab is      *)
(* reloaded in the middle of one; NeverReplayed is false otherwise.        *)
CoordinatedRefresh == Undisturbed => NeverReplayed

(* The session in localStorage can still be refreshed: its refresh token   *)
(* has not been redeemed, unless a tab holds the answer that is about to   *)
(* replace or clear it (refreshSession, validSession).  Only a reload in   *)
(* the middle of an exchange loses that answer.                            *)
StoredIsUnused ==
  stored \in used => \E t \in Tabs : pc[t] = "refreshed" /\ session[t] = stored

StoredStaysRefreshable == reloads = 0 => StoredIsUnused

(* One state, nonce and verifier complete at most one login, whatever is   *)
(* reloaded and whichever sign-in page is finished (completeLogin).        *)
AttemptRedeemedOnce == \A t \in Tabs : pc[t] = "redeem" => url[t] \notin redeemed

\* An ordinary page whose useSession has loaded.
Loaded(t) ==
  /\ url[t] = 0 /\ pc[t] # "at provider"
  /\ ~(phase[t] = "load" /\ pc[t] \in {"read", "wait", "refresh", "refreshed", "show"})

Outdated(t) == Loaded(t) /\ t \notin notified /\ shown[t] # stored

(* Of the pages with no event left to handle only that of the tab which    *)
(* wrote or cleared the session last may show something else than what is  *)
(* in localStorage: it gets no event of its own write (writeStored,        *)
(* clearSession, useSession).                                              *)
OnlyWriterOutdated == \A t \in Tabs : Outdated(t) => t = writer

(* Every call comes to its end: no request is retried for ever, and no tab *)
(* waits for ever for the refresh lock (validSession, signOut,             *)
(* authenticatedRequest, completeLogin).                                   *)
CallsEnd ==
  \A t \in Tabs : pc[t] \notin {"idle", "at provider"} ~> pc[t] = "idle"

-----------------------------------------------------------------------------
(* The inductive invariant.                                                *)

\* A chain that refreshes or revokes has a token, a callback has an attempt.
ChainOK ==
  \A t \in Tabs :
    /\ pc[t] \in {"wait", "refresh", "refreshed", "revoke"} => session[t] # NoSession
    /\ pc[t] \in {"callback", "redeem", "redeem answered"} => url[t] # 0
    /\ answer[t] # NoSession => pc[t] \in {"refreshed", "redeem answered"}

\* An answer on its way is a token nobody has seen yet.
FreshOK ==
  \A t \in Tabs : answer[t] # NoSession =>
    /\ answer[t] \notin used /\ answer[t] # stored
    /\ \A u \in Tabs : session[u] # answer[t] /\ (u # t => answer[u] # answer[t])

LockOK ==
  LocksAvailable =>
    \A t \in Tabs : pc[t] \in {"refresh", "refreshed"} <=> lock = t

\* A transaction and a callback belong to the tab; a transaction is unused.
AttemptOK ==
  \A t \in Tabs :
    /\ url[t] # 0 => attempts[url[t]] = t
    /\ txn[t] # 0 => attempts[txn[t]] = t /\ txn[t] \notin redeemed
    /\ pc[t] = "redeem" => txn[t] = 0 /\ url[t] \notin redeemed

\* While nothing disturbs the tabs no refresh fails and no session is cleared.
QuietOK ==
  Undisturbed =>
    /\ NeverReplayed /\ revoked = {}
    /\ \A t \in Tabs : /\ pc[t] = "wait" => stored # NoSession
                       /\ pc[t] = "refreshed" => answer[t] # NoSession
                       /\ pc[t] \notin {"clear", "revoke"}

IInv ==
  /\ TypeOK /\ ChainOK /\ FreshOK /\ LockOK /\ AttemptOK
  /\ StoredStaysRefreshable /\ QuietOK

-----------------------------------------------------------------------------
(* What the documents say and the code does not do.                        *)

(* Signing out removes the whole session: one appears in localStorage only *)
(* when a login is completed (signOut, refreshSession).                    *)
OnlyLoginSignsIn ==
  [][stored = NoSession /\ stored' # NoSession =>
       \E t \in Tabs : pc[t] = "redeem answered" /\ pc'[t] = "read"]_vars
=============================================================================
