-------------------------- MODULE WebSessionProofs --------------------------
(* The theorems about the web session, for every number of tabs and every  *)
(* value of the bounds.                                                    *)
EXTENDS WebSessionProperties, TLAPS

LEMMA InitInv == Init => IInv
<1> SUFFICES ASSUME Init PROVE IInv
  OBVIOUS
<1> USE DEF Init, NoSession
<1>1. TypeOK
  <2>1. Issued = 0 .. 0 /\ Attempted = 0 .. 0
    BY DEF Issued, Attempted
  <2>2. StorageTypes
    <3>1. expired \in BOOLEAN
      BY Zenon
    <3>2. stored \in Issued /\ lock \in Tabs \cup {NoTab} /\ writer \in Tabs \cup {NoTab}
      BY <2>1
    <3> QED
      BY <3>1, <3>2 DEF StorageTypes
  <2>3. PageTypes /\ BoundTypes
    BY <2>1 DEF PageTypes, BoundTypes
  <2>4. ChainTypes
    BY <2>1 DEF ChainTypes, Label, Caller
  <2>5. LoginTypes /\ ProviderTypes
    BY <2>1 DEF LoginTypes, ProviderTypes
  <2> QED
    BY <2>2, <2>3, <2>4, <2>5 DEF TypeOK
<1>2. ChainOK /\ FreshOK /\ AttemptOK /\ StoredStaysRefreshable
  BY DEF ChainOK, FreshOK, AttemptOK, StoredStaysRefreshable, StoredIsUnused
<1>3. LockOK
  BY TabsAssumption DEF LockOK
<1>4. QuietOK
  BY DEF QuietOK, NeverReplayed
<1> QED
  BY <1>1, <1>2, <1>3, <1>4 DEF IInv

LEMMA Domains ==
  ASSUME TypeOK
  PROVE  /\ DOMAIN pc = Tabs /\ DOMAIN phase = Tabs /\ DOMAIN session = Tabs
         /\ DOMAIN answer = Tabs /\ DOMAIN txn = Tabs /\ DOMAIN url = Tabs
  BY DEF TypeOK, ChainTypes, LoginTypes

LEMMA Positive ==
  ASSUME NEW m \in Nat, NEW n \in 1 .. m
  PROVE  n # 0
  OBVIOUS

LEMMA Ranges ==
  ASSUME TypeOK
  PROVE  /\ Len(family) + 1 # NoSession /\ Len(family) + 1 # stored
         /\ Len(family) + 1 \notin used /\ NoSession \notin used
         /\ \A t \in Tabs : Len(family) + 1 # session[t] /\ Len(family) + 1 # answer[t]
<1>1. Len(family) \in Nat /\ stored \in 0 .. Len(family) /\ used \subseteq 1 .. Len(family)
  BY DEF TypeOK, StorageTypes, ProviderTypes, Issued
<1>2. ASSUME NEW t \in Tabs
      PROVE  session[t] \in 0 .. Len(family) /\ answer[t] \in 0 .. Len(family)
  BY DEF TypeOK, ChainTypes, Issued
<1> QED
  BY <1>1, <1>2 DEF NoSession

LEMMA Lengths ==
  ASSUME TypeOK
  PROVE  /\ Len(family) \in Nat /\ Len(attempts) \in Nat
         /\ NoSession \in Issued /\ 0 \in Attempted
         /\ DOMAIN attempts = 1 .. Len(attempts)
  BY DEF TypeOK, LoginTypes, ProviderTypes, Issued, Attempted, NoSession

LEMMA TokenOf ==
  ASSUME TypeOK, NEW t \in Tabs, session[t] # NoSession
  PROVE  session[t] \in 1 .. Len(family) /\ family[session[t]] \in 1 .. Len(attempts)
<1>1. session[t] \in 0 .. Len(family) /\ Len(family) \in Nat
  BY Lengths DEF TypeOK, ChainTypes, Issued
<1>2. session[t] \in 1 .. Len(family)
  BY <1>1 DEF NoSession
<1> QED
  BY <1>2 DEF TypeOK, ProviderTypes

LEMMA AttemptOf ==
  ASSUME TypeOK, NEW t \in Tabs
  PROVE  /\ url[t] # 0 => url[t] \in 1 .. Len(attempts)
         /\ txn[t] # 0 => txn[t] \in 1 .. Len(attempts)
<1>1. url[t] \in 0 .. Len(attempts) /\ txn[t] \in 0 .. Len(attempts) /\ Len(attempts) \in Nat
  BY Lengths DEF TypeOK, LoginTypes, Attempted
<1> QED
  BY <1>1

LEMMA Grow ==
  ASSUME NEW n \in Nat
  PROVE  0 .. n \subseteq 0 .. (n + 1) /\ n + 1 \in 0 .. (n + 1) /\ 1 .. n \subseteq 1 .. (n + 1)
  OBVIOUS

LEMMA TypeStep ==
  ASSUME TypeOK, ChainOK, [Next]_vars
  PROVE  TypeOK'
<1> USE DEF storage, chain, page, login, provider, bounds, vars
<1> USE Lengths DEF TypeOK, StorageTypes, ChainTypes, PageTypes, LoginTypes, ProviderTypes, BoundTypes
<1>1. CASE UNCHANGED vars
  BY <1>1 DEF Issued, Attempted
<1>2. CASE Expire
  <2>1. BoundTypes'
    BY <1>2 DEF Expire
  <2>2. Issued' = Issued /\ Attempted' = Attempted
    BY <1>2 DEF Expire, Issued, Attempted
  <2> QED
    BY <2>1, <2>2, <1>2 DEF Expire
<1>3. ASSUME NEW t \in Tabs, ReadSession(t) PROVE TypeOK'
  <2>1. Issued' = Issued /\ Attempted' = Attempted
    BY <1>3 DEF ReadSession, Issued, Attempted
  <2> QED
    BY <2>1, <1>3 DEF ReadSession, Return, End, Goto, Usable, Label, Caller
<1>4. ASSUME NEW t \in Tabs, Show(t) PROVE TypeOK'
  <2>1. Issued' = Issued /\ Attempted' = Attempted
    BY <1>4 DEF Show, Issued, Attempted
  <2> QED
    BY <2>1, <1>4 DEF Show, End, Goto, Label, Caller
<1>5. ASSUME NEW t \in Tabs, RotateToken(t) PROVE TypeOK'
  <2> DEFINE f == family[session[t]]
  <2>1. f \in 1 .. Len(attempts)
    <3>1. session[t] # NoSession
      BY <1>5 DEF RotateToken, ChainOK
    <3> QED
      BY <3>1, TokenOf
  <2>2. CASE Accepts(session[t])
    <3>1. family' = Append(family, f) /\ answer' = [answer EXCEPT ![t] = Len(family')]
      BY <2>2, <1>5 DEF RotateToken
    <3>2. /\ family' \in Seq(Nat) /\ Len(family') = Len(family) + 1
          /\ \A n \in 1 .. Len(family') : family'[n] \in 1 .. Len(attempts)
      <4> HIDE DEF f
      <4> QED BY <2>1, <3>1
    <3>3. Issued \subseteq Issued' /\ Attempted' = Attempted /\ Len(family') \in Issued'
      BY <3>2, <1>5, Grow DEF RotateToken, Issued, Attempted
    <3>4. StorageTypes' /\ PageTypes' /\ LoginTypes' /\ BoundTypes'
      BY <3>3, <1>5 DEF RotateToken
    <3>5. ChainTypes'
      BY <3>1, <3>3, <1>5 DEF RotateToken, Goto, Label
    <3>6. ProviderTypes'
      <4>1. attempts' = attempts
        BY <1>5 DEF RotateToken
      <4>2. used' \subseteq 1 .. Len(family')
        <5>1. session[t] \in 1 .. Len(family)
          BY TokenOf, <1>5 DEF RotateToken, ChainOK
        <5>2. used' = used \cup {session[t]}
          BY <2>2, <1>5 DEF RotateToken
        <5>3. 1 .. Len(family) \subseteq 1 .. Len(family')
          BY <3>2, Grow
        <5> QED
          BY <5>1, <5>2, <5>3
      <4>3. revoked' \subseteq 1 .. Len(attempts) /\ redeemed' \subseteq 1 .. Len(attempts)
        BY <2>1, <2>2, <1>5 DEF RotateToken
      <4> QED
        BY <4>1, <4>2, <4>3, <3>2
    <3> QED
      BY <3>4, <3>5, <3>6
  <2>3. CASE ~(Accepts(session[t]))
    <3>1. Issued' = Issued /\ Attempted' = Attempted
      BY <2>3, <1>5 DEF RotateToken, Issued, Attempted
    <3> QED
      BY <2>1, <2>3, <3>1, <1>5 DEF RotateToken, Goto, Label
  <2> QED
    BY <2>2, <2>3
<1>6. ASSUME NEW t \in Tabs, FinishRefresh(t) PROVE TypeOK'
  <2>1. Issued' = Issued /\ Attempted' = Attempted
    BY <1>6 DEF FinishRefresh, Issued, Attempted
  <2> QED
    BY <2>1, <1>6 DEF FinishRefresh, writeStored, Broadcast, ReleaseLock, Return, End, Goto, Label, Caller
<1>7. ASSUME NEW t \in Tabs, RefreshFails(t) PROVE TypeOK'
  <2>1. Issued' = Issued /\ Attempted' = Attempted
    BY <1>7 DEF RefreshFails, Issued, Attempted
  <2> QED
    BY <2>1, <1>7 DEF RefreshFails, clearSession, Broadcast, ReleaseLock, Throw, End, Goto, Label, Caller
<1>8. ASSUME NEW t \in Tabs, RequestEnds(t) PROVE TypeOK'
  <2>1. Issued' = Issued /\ Attempted' = Attempted
    BY <1>8 DEF RequestEnds, Issued, Attempted
  <2> QED
    BY <2>1, <1>8 DEF RequestEnds, End, Goto, Label, Caller
<1>9. ASSUME NEW t \in Tabs, RequestUnauthorised(t) PROVE TypeOK'
  <2>1. Issued' = Issued /\ Attempted' = Attempted
    BY <1>9 DEF RequestUnauthorised, Issued, Attempted
  <2> QED
    BY <2>1, <1>9 DEF RequestUnauthorised, Begin, Goto, Label, Caller
<1>10. ASSUME NEW t \in Tabs, ClearOnSignOut(t) PROVE TypeOK'
  <2>1. Issued' = Issued /\ Attempted' = Attempted
    BY <1>10 DEF ClearOnSignOut, Issued, Attempted
  <2> QED
    BY <2>1, <1>10 DEF ClearOnSignOut, clearSession, Broadcast, Goto, Label, Caller
<1>11. ASSUME NEW t \in Tabs, RevokeToken(t) PROVE TypeOK'
  <2>1. Issued' = Issued /\ Attempted' = Attempted
    BY <1>11 DEF RevokeToken, Issued, Attempted
  <2>2. session[t] # NoSession
    BY <1>11 DEF RevokeToken, ChainOK
  <2>3. family[session[t]] \in 1 .. Len(attempts)
    BY <2>2, TokenOf
  <2> QED
    BY <2>1, <2>3, <1>11 DEF RevokeToken, End, Goto, Label, Caller
<1>12. ASSUME NEW t \in Tabs, CallbackAccepted(t) PROVE TypeOK'
  <2>1. Issued' = Issued /\ Attempted' = Attempted
    BY <1>12 DEF CallbackAccepted, Issued, Attempted
  <2> QED
    BY <2>1, <1>12 DEF CallbackAccepted, ForgetTransaction, Goto, Label, Caller
<1>13. ASSUME NEW t \in Tabs, CallbackRefused(t) PROVE TypeOK'
  <2>1. Issued' = Issued /\ Attempted' = Attempted
    BY <1>13 DEF CallbackRefused, Issued, Attempted
  <2> QED
    BY <2>1, <1>13 DEF CallbackRefused, ForgetTransaction, Goto, Label, Caller
<1>14. ASSUME NEW t \in Tabs, RedeemCode(t) PROVE TypeOK'
  <2> DEFINE f == url[t]
  <2>1. f \in 1 .. Len(attempts)
    BY <1>14, AttemptOf DEF RedeemCode, ChainOK
  <2>2. CASE url[t] \notin redeemed
    <3>1. family' = Append(family, f) /\ answer' = [answer EXCEPT ![t] = Len(family')]
      BY <2>2, <1>14 DEF RedeemCode
    <3>2. /\ family' \in Seq(Nat) /\ Len(family') = Len(family) + 1
          /\ \A n \in 1 .. Len(family') : family'[n] \in 1 .. Len(attempts)
      <4> HIDE DEF f
      <4> QED BY <2>1, <3>1
    <3>3. Issued \subseteq Issued' /\ Attempted' = Attempted /\ Len(family') \in Issued'
      BY <3>2, <1>14, Grow DEF RedeemCode, Issued, Attempted
    <3>4. StorageTypes' /\ PageTypes' /\ LoginTypes' /\ BoundTypes'
      BY <3>3, <1>14 DEF RedeemCode
    <3>5. ChainTypes'
      BY <3>1, <3>3, <1>14 DEF RedeemCode, Goto, Label
    <3>6. ProviderTypes'
      <4>1. attempts' = attempts
        BY <1>14 DEF RedeemCode
      <4>2. used' \subseteq 1 .. Len(family')
        BY <3>2, Grow, <2>2, <1>14 DEF RedeemCode
      <4>3. revoked' \subseteq 1 .. Len(attempts) /\ redeemed' \subseteq 1 .. Len(attempts)
        BY <2>1, <2>2, <1>14 DEF RedeemCode
      <4> QED
        BY <4>1, <4>2, <4>3, <3>2
    <3> QED
      BY <3>4, <3>5, <3>6
  <2>3. CASE ~(url[t] \notin redeemed)
    <3>1. Issued' = Issued /\ Attempted' = Attempted
      BY <2>3, <1>14 DEF RedeemCode, Issued, Attempted
    <3> QED
      BY <2>1, <2>3, <3>1, <1>14 DEF RedeemCode, Goto, Label
  <2> QED
    BY <2>2, <2>3
<1>15. ASSUME NEW t \in Tabs, FinishLogin(t) PROVE TypeOK'
  <2>1. Issued' = Issued /\ Attempted' = Attempted
    BY <1>15 DEF FinishLogin, Issued, Attempted
  <2> QED
    BY <2>1, <1>15 DEF FinishLogin, Goto, Label, Caller
<1>16. ASSUME NEW t \in Tabs, LoginFails(t) PROVE TypeOK'
  <2>1. Issued' = Issued /\ Attempted' = Attempted
    BY <1>16 DEF LoginFails, Issued, Attempted
  <2> QED
    BY <2>1, <1>16 DEF LoginFails, Goto, Label, Caller
<1>17. ASSUME NEW t \in Tabs, EnterRefresh(t) PROVE TypeOK'
  <2>1. Issued' = Issued /\ Attempted' = Attempted
    BY <1>17 DEF EnterRefresh, Issued, Attempted
  <2> QED
    BY <2>1, <1>17 DEF EnterRefresh, Return, End, Goto, Usable, Existing, TakeLock, Label, Caller
<1>18. ASSUME NEW t \in Tabs, OpenPage(t) PROVE TypeOK'
  <2>1. Issued' = Issued /\ Attempted' = Attempted
    BY <1>18 DEF OpenPage, Issued, Attempted
  <2> QED
    BY <2>1, <1>18 DEF OpenPage, Mount, Begin, Goto, Label, Caller
<1>19. ASSUME NEW t \in Tabs, StartRequest(t) PROVE TypeOK'
  <2>1. Issued' = Issued /\ Attempted' = Attempted
    BY <1>19 DEF StartRequest, Issued, Attempted
  <2> QED
    BY <2>1, <1>19 DEF StartRequest, Begin, Goto, Label, Caller
<1>20. ASSUME NEW t \in Tabs, StartSignOut(t) PROVE TypeOK'
  <2>1. Issued' = Issued /\ Attempted' = Attempted
    BY <1>20 DEF StartSignOut, Issued, Attempted
  <2>2. BoundTypes'
    BY <1>20, BoundsAssumption DEF StartSignOut
  <2>3. StorageTypes' /\ LoginTypes' /\ ProviderTypes' /\ PageTypes'
    BY <2>1, <1>20 DEF StartSignOut, Goto
  <2>4. ChainTypes'
    BY <2>1, <1>20 DEF StartSignOut, Goto, Label, Caller
  <2> QED
    BY <2>2, <2>3, <2>4
<1>21. ASSUME NEW t \in Tabs, BeginLogin(t) PROVE TypeOK'
  <2>1. /\ attempts' \in Seq(Tabs) /\ Len(attempts') = Len(attempts) + 1
    <3>1. attempts' = Append(attempts, t)
      BY <1>21 DEF BeginLogin
    <3> QED
      BY <3>1
  <2>2. /\ Issued' = Issued /\ Attempted \subseteq Attempted'
        /\ Len(attempts') \in Attempted' /\ 0 \in Attempted'
    <3>1. family' = family
      BY <1>21 DEF BeginLogin
    <3> QED
      BY <3>1, <2>1, Grow DEF Issued, Attempted
  <2>3. StorageTypes' /\ PageTypes' /\ BoundTypes'
    BY <2>2, <1>21 DEF BeginLogin
  <2>4. ChainTypes'
    BY <2>2, <1>21 DEF BeginLogin, Goto, Label
  <2>5. LoginTypes'
    BY <2>1, <2>2, <1>21 DEF BeginLogin
  <2>6. ProviderTypes'
    <3>1. family' = family /\ used' = used /\ revoked' = revoked /\ redeemed' = redeemed
      BY <1>21 DEF BeginLogin
    <3>2. 1 .. Len(attempts) \subseteq 1 .. Len(attempts')
      BY <2>1, Grow
    <3> QED
      BY <3>1, <3>2
  <2> QED
    BY <2>3, <2>4, <2>5, <2>6
<1>22. ASSUME NEW t \in Tabs, ReturnToCallback(t) PROVE TypeOK'
  <2>1. Issued' = Issued /\ Attempted' = Attempted
    BY <1>22 DEF ReturnToCallback, Issued, Attempted
  <2>2. PICK n \in DOMAIN attempts : url' = [url EXCEPT ![t] = n]
    BY <1>22 DEF ReturnToCallback
  <2>3. n \in Attempted
    <3>1. n \in 1 .. Len(attempts)
      BY <2>2, Lengths
    <3> QED
      BY <3>1 DEF Attempted
  <2>4. LoginTypes'
    BY <2>1, <2>2, <2>3, <1>22 DEF ReturnToCallback
  <2> QED
    BY <2>1, <2>4, <1>22 DEF ReturnToCallback, Goto, Label
<1>23. ASSUME NEW t \in Tabs, Sync(t) PROVE TypeOK'
  <2>1. Issued' = Issued /\ Attempted' = Attempted
    BY <1>23 DEF Sync, Issued, Attempted
  <2> QED
    BY <2>1, <1>23 DEF Sync, Label, Caller
<1>24. ASSUME NEW t \in Tabs, ExchangeFails(t) PROVE TypeOK'
  <2>1. Issued' = Issued /\ Attempted' = Attempted
    BY <1>24 DEF ExchangeFails, Issued, Attempted
  <2>2. BoundTypes'
    <3>1. Fault
      BY <1>24 DEF ExchangeFails
    <3> QED
      BY <3>1 DEF Fault
  <2>3. StorageTypes' /\ LoginTypes' /\ ProviderTypes' /\ PageTypes'
    BY <2>1, <1>24 DEF ExchangeFails
  <2>4. ChainTypes'
    <3>1. CASE pc[t] = "revoke"
      <4>1. End(t) /\ answer' = answer
        BY <3>1, <1>24 DEF ExchangeFails
      <4> QED
        BY <4>1, <2>1 DEF End, Goto, Label, Caller
    <3>2. CASE pc[t] # "revoke"
      BY <3>2, <2>1, <1>24 DEF ExchangeFails, Goto, Label, Caller
    <3> QED
      BY <3>1, <3>2
  <2> QED
    BY <2>2, <2>3, <2>4
<1>25. ASSUME NEW t \in Tabs, LoseAnswer(t) PROVE TypeOK'
  <2>1. Issued' = Issued /\ Attempted' = Attempted
    BY <1>25 DEF LoseAnswer, Issued, Attempted
  <2>2. BoundTypes'
    BY <1>25, BoundsAssumption DEF LoseAnswer, Fault
  <2>3. StorageTypes' /\ LoginTypes' /\ ProviderTypes' /\ PageTypes'
    BY <2>1, <1>25 DEF LoseAnswer, Fault
  <2>4. ChainTypes'
    BY <2>1, <1>25 DEF LoseAnswer, Fault, Label, Caller
  <2> QED
    BY <2>2, <2>3, <2>4
<1>26. ASSUME NEW t \in Tabs, Reload(t) PROVE TypeOK'
  <2>1. Issued' = Issued /\ Attempted' = Attempted
    BY <1>26 DEF Reload, Issued, Attempted
  <2>2. BoundTypes'
    <3>1. /\ reloads' = reloads + 1
          /\ expiries' = expiries /\ signOuts' = signOuts /\ faults' = faults
      BY <1>26 DEF Reload
    <3> QED
      BY <3>1
  <2>3. StorageTypes' /\ LoginTypes' /\ ProviderTypes' /\ PageTypes'
    BY <2>1, <1>26 DEF Reload, ReleaseLock
  <2>4. ChainTypes'
    BY <2>1, <1>26 DEF Reload, Goto, Label, Caller
  <2> QED
    BY <2>2, <2>3, <2>4
<1> QED
  BY <1>1, <1>2, <1>3, <1>4, <1>5, <1>6, <1>7, <1>8, <1>9, <1>10, <1>11, <1>12, <1>13, <1>14, <1>15, <1>16, <1>17, <1>18, <1>19, <1>20, <1>21, <1>22, <1>23, <1>24, <1>25, <1>26 DEF Next, Progress, User, Environment

LEMMA ChainStep ==
  ASSUME TypeOK, ChainOK, [Next]_vars
  PROVE  ChainOK'
<1> USE DEF ChainOK, NoSession, storage, chain, page, login, provider, bounds, vars
<1>1. CASE UNCHANGED vars
  BY <1>1, Domains, Lengths
<1>2. CASE Expire
  BY <1>2, Domains, Lengths DEF Expire
<1>3. ASSUME NEW t \in Tabs, ReadSession(t) PROVE ChainOK'
  BY <1>3, Domains, Lengths DEF ReadSession, Return, End, Goto, Usable
<1>4. ASSUME NEW t \in Tabs, Show(t) PROVE ChainOK'
  BY <1>4, Domains, Lengths DEF Show, End, Goto
<1>5. ASSUME NEW t \in Tabs, RotateToken(t) PROVE ChainOK'
  BY <1>5, Domains, Lengths DEF RotateToken, Goto, Accepts
<1>6. ASSUME NEW t \in Tabs, FinishRefresh(t) PROVE ChainOK'
  BY <1>6, Domains, Lengths DEF FinishRefresh, writeStored, Broadcast, ReleaseLock, Return, End, Goto
<1>7. ASSUME NEW t \in Tabs, RefreshFails(t) PROVE ChainOK'
  BY <1>7, Domains, Lengths DEF RefreshFails, clearSession, Broadcast, ReleaseLock, Throw, End, Goto
<1>8. ASSUME NEW t \in Tabs, RequestEnds(t) PROVE ChainOK'
  BY <1>8, Domains, Lengths DEF RequestEnds, End, Goto
<1>9. ASSUME NEW t \in Tabs, RequestUnauthorised(t) PROVE ChainOK'
  BY <1>9, Domains, Lengths DEF RequestUnauthorised, Begin, Goto
<1>10. ASSUME NEW t \in Tabs, ClearOnSignOut(t) PROVE ChainOK'
  BY <1>10, Domains, Lengths DEF ClearOnSignOut, clearSession, Broadcast, Goto
<1>11. ASSUME NEW t \in Tabs, RevokeToken(t) PROVE ChainOK'
  BY <1>11, Domains, Lengths DEF RevokeToken, End, Goto
<1>12. ASSUME NEW t \in Tabs, CallbackAccepted(t) PROVE ChainOK'
  BY <1>12, Domains, Lengths DEF CallbackAccepted, ForgetTransaction, Goto
<1>13. ASSUME NEW t \in Tabs, CallbackRefused(t) PROVE ChainOK'
  BY <1>13, Domains, Lengths DEF CallbackRefused, ForgetTransaction, Goto
<1>14. ASSUME NEW t \in Tabs, RedeemCode(t) PROVE ChainOK'
  BY <1>14, Domains, Lengths DEF RedeemCode, Goto
<1>15. ASSUME NEW t \in Tabs, FinishLogin(t) PROVE ChainOK'
  BY <1>15, Domains, Lengths DEF FinishLogin, Goto
<1>16. ASSUME NEW t \in Tabs, LoginFails(t) PROVE ChainOK'
  BY <1>16, Domains, Lengths DEF LoginFails, Goto
<1>17. ASSUME NEW t \in Tabs, EnterRefresh(t) PROVE ChainOK'
  BY <1>17, Domains, Lengths DEF EnterRefresh, Return, End, Goto, Usable, Existing, TakeLock
<1>18. ASSUME NEW t \in Tabs, OpenPage(t) PROVE ChainOK'
  BY <1>18, Domains, Lengths DEF OpenPage, Mount, Begin, Goto
<1>19. ASSUME NEW t \in Tabs, StartRequest(t) PROVE ChainOK'
  BY <1>19, Domains, Lengths DEF StartRequest, Begin, Goto
<1>20. ASSUME NEW t \in Tabs, StartSignOut(t) PROVE ChainOK'
  BY <1>20, Domains, Lengths DEF StartSignOut, Goto
<1>21. ASSUME NEW t \in Tabs, BeginLogin(t) PROVE ChainOK'
  BY <1>21, Domains, Lengths DEF BeginLogin, Goto
<1>22. ASSUME NEW t \in Tabs, ReturnToCallback(t) PROVE ChainOK'
  <2>1. PICK n \in DOMAIN attempts : url' = [url EXCEPT ![t] = n]
    BY <1>22 DEF ReturnToCallback
  <2>2. n # 0
    <3>1. n \in 1 .. Len(attempts)
      BY <2>1, Lengths
    <3> QED
      BY <3>1, Lengths, Positive
  <2> QED
    BY <2>1, <2>2, <1>22, Domains DEF ReturnToCallback, Goto
<1>23. ASSUME NEW t \in Tabs, Sync(t) PROVE ChainOK'
  BY <1>23, Domains, Lengths DEF Sync
<1>24. ASSUME NEW t \in Tabs, ExchangeFails(t) PROVE ChainOK'
  BY <1>24, Domains, Lengths DEF ExchangeFails, Fault, End, Goto
<1>25. ASSUME NEW t \in Tabs, LoseAnswer(t) PROVE ChainOK'
  BY <1>25, Domains, Lengths DEF LoseAnswer, Fault
<1>26. ASSUME NEW t \in Tabs, Reload(t) PROVE ChainOK'
  BY <1>26, Domains, Lengths DEF Reload, ReleaseLock, Goto
<1> QED
  BY <1>1, <1>2, <1>3, <1>4, <1>5, <1>6, <1>7, <1>8, <1>9, <1>10, <1>11, <1>12, <1>13, <1>14, <1>15, <1>16, <1>17, <1>18, <1>19, <1>20, <1>21, <1>22, <1>23, <1>24, <1>25, <1>26 DEF Next, Progress, User, Environment

LEMMA FreshStep ==
  ASSUME TypeOK, ChainOK, FreshOK, [Next]_vars
  PROVE  FreshOK'
<1> USE DEF FreshOK, NoSession, storage, chain, page, login, provider, bounds, vars
<1>1. CASE UNCHANGED vars
  BY <1>1, Domains, Lengths
<1>2. CASE Expire
  BY <1>2, Domains, Lengths DEF Expire
<1>3. ASSUME NEW t \in Tabs, ReadSession(t) PROVE FreshOK'
  BY <1>3, Domains, Lengths DEF ReadSession, Return, End, Goto, Usable
<1>4. ASSUME NEW t \in Tabs, Show(t) PROVE FreshOK'
  BY <1>4, Domains, Lengths DEF Show, End, Goto
<1>5. ASSUME NEW t \in Tabs, RotateToken(t) PROVE FreshOK'
  <2>1. CASE Accepts(session[t])
    <3>1. answer' = [answer EXCEPT ![t] = Len(family) + 1]
      <4>1. family' = Append(family, family[session[t]]) /\ answer' = [answer EXCEPT ![t] = Len(family')]
        BY <2>1, <1>5 DEF RotateToken
      <4>2. Len(family') = Len(family) + 1
        BY <4>1 DEF TypeOK, ProviderTypes
      <4> QED
        BY <4>1, <4>2
    <3> QED
      BY <2>1, <3>1, <1>5, Domains, Ranges DEF RotateToken, Goto, ChainOK
  <2>2. CASE ~(Accepts(session[t]))
    BY <2>2, <1>5, Domains DEF RotateToken, Goto
  <2> QED
    BY <2>1, <2>2
<1>6. ASSUME NEW t \in Tabs, FinishRefresh(t) PROVE FreshOK'
  BY <1>6, Domains, Lengths DEF FinishRefresh, writeStored, Broadcast, ReleaseLock, Return, End, Goto
<1>7. ASSUME NEW t \in Tabs, RefreshFails(t) PROVE FreshOK'
  BY <1>7, Domains, Lengths DEF RefreshFails, clearSession, Broadcast, ReleaseLock, Throw, End, Goto
<1>8. ASSUME NEW t \in Tabs, RequestEnds(t) PROVE FreshOK'
  BY <1>8, Domains, Lengths DEF RequestEnds, End, Goto
<1>9. ASSUME NEW t \in Tabs, RequestUnauthorised(t) PROVE FreshOK'
  BY <1>9, Domains, Lengths DEF RequestUnauthorised, Begin, Goto
<1>10. ASSUME NEW t \in Tabs, ClearOnSignOut(t) PROVE FreshOK'
  BY <1>10, Domains, Lengths DEF ClearOnSignOut, clearSession, Broadcast, Goto
<1>11. ASSUME NEW t \in Tabs, RevokeToken(t) PROVE FreshOK'
  BY <1>11, Domains, Lengths DEF RevokeToken, End, Goto
<1>12. ASSUME NEW t \in Tabs, CallbackAccepted(t) PROVE FreshOK'
  BY <1>12, Domains, Lengths DEF CallbackAccepted, ForgetTransaction, Goto
<1>13. ASSUME NEW t \in Tabs, CallbackRefused(t) PROVE FreshOK'
  BY <1>13, Domains, Lengths DEF CallbackRefused, ForgetTransaction, Goto
<1>14. ASSUME NEW t \in Tabs, RedeemCode(t) PROVE FreshOK'
  <2>1. CASE url[t] \notin redeemed
    <3>1. answer' = [answer EXCEPT ![t] = Len(family) + 1]
      <4>1. family' = Append(family, url[t]) /\ answer' = [answer EXCEPT ![t] = Len(family')]
        BY <2>1, <1>14 DEF RedeemCode
      <4>2. Len(family') = Len(family) + 1
        BY <4>1 DEF TypeOK, ProviderTypes
      <4> QED
        BY <4>1, <4>2
    <3> QED
      BY <2>1, <3>1, <1>14, Domains, Ranges DEF RedeemCode, Goto, ChainOK
  <2>2. CASE ~(url[t] \notin redeemed)
    BY <2>2, <1>14, Domains DEF RedeemCode, Goto
  <2> QED
    BY <2>1, <2>2
<1>15. ASSUME NEW t \in Tabs, FinishLogin(t) PROVE FreshOK'
  BY <1>15, Domains, Lengths DEF FinishLogin, Goto
<1>16. ASSUME NEW t \in Tabs, LoginFails(t) PROVE FreshOK'
  BY <1>16, Domains, Lengths DEF LoginFails, Goto
<1>17. ASSUME NEW t \in Tabs, EnterRefresh(t) PROVE FreshOK'
  BY <1>17, Domains, Lengths DEF EnterRefresh, Return, End, Goto, Usable, Existing, TakeLock
<1>18. ASSUME NEW t \in Tabs, OpenPage(t) PROVE FreshOK'
  BY <1>18, Domains, Lengths DEF OpenPage, Mount, Begin, Goto
<1>19. ASSUME NEW t \in Tabs, StartRequest(t) PROVE FreshOK'
  BY <1>19, Domains, Lengths DEF StartRequest, Begin, Goto
<1>20. ASSUME NEW t \in Tabs, StartSignOut(t) PROVE FreshOK'
  BY <1>20, Domains, Lengths DEF StartSignOut, Goto
<1>21. ASSUME NEW t \in Tabs, BeginLogin(t) PROVE FreshOK'
  BY <1>21, Domains, Lengths DEF BeginLogin, Goto
<1>22. ASSUME NEW t \in Tabs, ReturnToCallback(t) PROVE FreshOK'
  BY <1>22, Domains, Lengths DEF ReturnToCallback, Goto
<1>23. ASSUME NEW t \in Tabs, Sync(t) PROVE FreshOK'
  BY <1>23, Domains, Lengths DEF Sync
<1>24. ASSUME NEW t \in Tabs, ExchangeFails(t) PROVE FreshOK'
  BY <1>24, Domains, Lengths DEF ExchangeFails, Fault, End, Goto
<1>25. ASSUME NEW t \in Tabs, LoseAnswer(t) PROVE FreshOK'
  BY <1>25, Domains, Lengths DEF LoseAnswer, Fault
<1>26. ASSUME NEW t \in Tabs, Reload(t) PROVE FreshOK'
  BY <1>26, Domains, Lengths DEF Reload, ReleaseLock, Goto
<1> QED
  BY <1>1, <1>2, <1>3, <1>4, <1>5, <1>6, <1>7, <1>8, <1>9, <1>10, <1>11, <1>12, <1>13, <1>14, <1>15, <1>16, <1>17, <1>18, <1>19, <1>20, <1>21, <1>22, <1>23, <1>24, <1>25, <1>26 DEF Next, Progress, User, Environment

LEMMA LockStep ==
  ASSUME TypeOK, ChainOK, LockOK, [Next]_vars
  PROVE  LockOK'
<1> USE DEF LockOK, NoSession, storage, chain, page, login, provider, bounds, vars
<1>1. CASE UNCHANGED vars
  BY <1>1, Domains, TabsAssumption, LocksAssumption
<1>2. CASE Expire
  BY <1>2, Domains, TabsAssumption, LocksAssumption DEF Expire
<1>3. ASSUME NEW t \in Tabs, ReadSession(t) PROVE LockOK'
  BY <1>3, Domains, TabsAssumption, LocksAssumption DEF ReadSession, Return, End, Goto, Usable
<1>4. ASSUME NEW t \in Tabs, Show(t) PROVE LockOK'
  BY <1>4, Domains, TabsAssumption, LocksAssumption DEF Show, End, Goto
<1>5. ASSUME NEW t \in Tabs, RotateToken(t) PROVE LockOK'
  BY <1>5, Domains, TabsAssumption, LocksAssumption DEF RotateToken, Goto, Accepts
<1>6. ASSUME NEW t \in Tabs, FinishRefresh(t) PROVE LockOK'
  BY <1>6, Domains, TabsAssumption, LocksAssumption DEF FinishRefresh, writeStored, Broadcast, ReleaseLock, Return, End, Goto
<1>7. ASSUME NEW t \in Tabs, RefreshFails(t) PROVE LockOK'
  BY <1>7, Domains, TabsAssumption, LocksAssumption DEF RefreshFails, clearSession, Broadcast, ReleaseLock, Throw, End, Goto
<1>8. ASSUME NEW t \in Tabs, RequestEnds(t) PROVE LockOK'
  BY <1>8, Domains, TabsAssumption, LocksAssumption DEF RequestEnds, End, Goto
<1>9. ASSUME NEW t \in Tabs, RequestUnauthorised(t) PROVE LockOK'
  BY <1>9, Domains, TabsAssumption, LocksAssumption DEF RequestUnauthorised, Begin, Goto
<1>10. ASSUME NEW t \in Tabs, ClearOnSignOut(t) PROVE LockOK'
  BY <1>10, Domains, TabsAssumption, LocksAssumption DEF ClearOnSignOut, clearSession, Broadcast, Goto
<1>11. ASSUME NEW t \in Tabs, RevokeToken(t) PROVE LockOK'
  BY <1>11, Domains, TabsAssumption, LocksAssumption DEF RevokeToken, End, Goto
<1>12. ASSUME NEW t \in Tabs, CallbackAccepted(t) PROVE LockOK'
  BY <1>12, Domains, TabsAssumption, LocksAssumption DEF CallbackAccepted, ForgetTransaction, Goto
<1>13. ASSUME NEW t \in Tabs, CallbackRefused(t) PROVE LockOK'
  BY <1>13, Domains, TabsAssumption, LocksAssumption DEF CallbackRefused, ForgetTransaction, Goto
<1>14. ASSUME NEW t \in Tabs, RedeemCode(t) PROVE LockOK'
  BY <1>14, Domains, TabsAssumption, LocksAssumption DEF RedeemCode, Goto
<1>15. ASSUME NEW t \in Tabs, FinishLogin(t) PROVE LockOK'
  BY <1>15, Domains, TabsAssumption, LocksAssumption DEF FinishLogin, Goto
<1>16. ASSUME NEW t \in Tabs, LoginFails(t) PROVE LockOK'
  BY <1>16, Domains, TabsAssumption, LocksAssumption DEF LoginFails, Goto
<1>17. ASSUME NEW t \in Tabs, EnterRefresh(t) PROVE LockOK'
  BY <1>17, Domains, TabsAssumption, LocksAssumption DEF EnterRefresh, Return, End, Goto, Usable, Existing, TakeLock
<1>18. ASSUME NEW t \in Tabs, OpenPage(t) PROVE LockOK'
  BY <1>18, Domains, TabsAssumption, LocksAssumption DEF OpenPage, Mount, Begin, Goto
<1>19. ASSUME NEW t \in Tabs, StartRequest(t) PROVE LockOK'
  BY <1>19, Domains, TabsAssumption, LocksAssumption DEF StartRequest, Begin, Goto
<1>20. ASSUME NEW t \in Tabs, StartSignOut(t) PROVE LockOK'
  BY <1>20, Domains, TabsAssumption, LocksAssumption DEF StartSignOut, Goto
<1>21. ASSUME NEW t \in Tabs, BeginLogin(t) PROVE LockOK'
  BY <1>21, Domains, TabsAssumption, LocksAssumption DEF BeginLogin, Goto
<1>22. ASSUME NEW t \in Tabs, ReturnToCallback(t) PROVE LockOK'
  BY <1>22, Domains, TabsAssumption, LocksAssumption DEF ReturnToCallback, Goto
<1>23. ASSUME NEW t \in Tabs, Sync(t) PROVE LockOK'
  BY <1>23, Domains, TabsAssumption, LocksAssumption DEF Sync
<1>24. ASSUME NEW t \in Tabs, ExchangeFails(t) PROVE LockOK'
  BY <1>24, Domains, TabsAssumption, LocksAssumption DEF ExchangeFails, Fault, End, Goto
<1>25. ASSUME NEW t \in Tabs, LoseAnswer(t) PROVE LockOK'
  BY <1>25, Domains, TabsAssumption, LocksAssumption DEF LoseAnswer, Fault
<1>26. ASSUME NEW t \in Tabs, Reload(t) PROVE LockOK'
  BY <1>26, Domains, TabsAssumption, LocksAssumption DEF Reload, ReleaseLock, Goto
<1> QED
  BY <1>1, <1>2, <1>3, <1>4, <1>5, <1>6, <1>7, <1>8, <1>9, <1>10, <1>11, <1>12, <1>13, <1>14, <1>15, <1>16, <1>17, <1>18, <1>19, <1>20, <1>21, <1>22, <1>23, <1>24, <1>25, <1>26 DEF Next, Progress, User, Environment

LEMMA AttemptStep ==
  ASSUME TypeOK, ChainOK, AttemptOK, [Next]_vars
  PROVE  AttemptOK'
<1> USE DEF AttemptOK, NoSession, storage, chain, page, login, provider, bounds, vars
<1>1. CASE UNCHANGED vars
  BY <1>1, Domains
<1>2. CASE Expire
  BY <1>2, Domains DEF Expire
<1>3. ASSUME NEW t \in Tabs, ReadSession(t) PROVE AttemptOK'
  BY <1>3, Domains DEF ReadSession, Return, End, Goto, Usable
<1>4. ASSUME NEW t \in Tabs, Show(t) PROVE AttemptOK'
  BY <1>4, Domains DEF Show, End, Goto
<1>5. ASSUME NEW t \in Tabs, RotateToken(t) PROVE AttemptOK'
  BY <1>5, Domains DEF RotateToken, Goto, Accepts
<1>6. ASSUME NEW t \in Tabs, FinishRefresh(t) PROVE AttemptOK'
  BY <1>6, Domains DEF FinishRefresh, writeStored, Broadcast, ReleaseLock, Return, End, Goto
<1>7. ASSUME NEW t \in Tabs, RefreshFails(t) PROVE AttemptOK'
  BY <1>7, Domains DEF RefreshFails, clearSession, Broadcast, ReleaseLock, Throw, End, Goto
<1>8. ASSUME NEW t \in Tabs, RequestEnds(t) PROVE AttemptOK'
  BY <1>8, Domains DEF RequestEnds, End, Goto
<1>9. ASSUME NEW t \in Tabs, RequestUnauthorised(t) PROVE AttemptOK'
  BY <1>9, Domains DEF RequestUnauthorised, Begin, Goto
<1>10. ASSUME NEW t \in Tabs, ClearOnSignOut(t) PROVE AttemptOK'
  BY <1>10, Domains DEF ClearOnSignOut, clearSession, Broadcast, Goto
<1>11. ASSUME NEW t \in Tabs, RevokeToken(t) PROVE AttemptOK'
  BY <1>11, Domains DEF RevokeToken, End, Goto
<1>12. ASSUME NEW t \in Tabs, CallbackAccepted(t) PROVE AttemptOK'
  BY <1>12, Domains DEF CallbackAccepted, ForgetTransaction, Goto, ChainOK
<1>13. ASSUME NEW t \in Tabs, CallbackRefused(t) PROVE AttemptOK'
  BY <1>13, Domains DEF CallbackRefused, ForgetTransaction, Goto
<1>14. ASSUME NEW t \in Tabs, RedeemCode(t) PROVE AttemptOK'
  <2>1. url[t] # 0 /\ attempts[url[t]] = t /\ txn[t] = 0
    BY <1>14 DEF RedeemCode, ChainOK
  <2>2. /\ txn' = txn /\ url' = url /\ attempts' = attempts
        /\ redeemed' \subseteq redeemed \cup {url[t]}
        /\ pc' = [pc EXCEPT ![t] = "redeem answered"]
    BY <1>14 DEF RedeemCode, Goto
  <2>3. ASSUME NEW u \in Tabs
        PROVE  /\ txn[u] # 0 => txn[u] \notin redeemed'
               /\ pc'[u] = "redeem" => url[u] \notin redeemed'
    <3>1. CASE u = t
      <4>1. pc'[t] = "redeem answered"
        BY <2>2, Domains
      <4> QED
        BY <2>1, <3>1, <4>1
    <3>2. CASE u # t
      <4>1. /\ txn[u] # 0 => txn[u] # url[t]
            /\ url[u] # 0 => url[u] # url[t]
        BY <2>1, <3>2
      <4>2. pc'[u] = "redeem" => pc[u] = "redeem" /\ url[u] # 0
        BY <2>2, <3>2, Domains DEF ChainOK
      <4> QED
        BY <2>2, <4>1, <4>2
    <3> QED
      BY <3>1, <3>2
  <2>4. \A u \in Tabs : pc'[u] = "redeem" => pc[u] = "redeem"
    BY <2>2, Domains
  <2> QED
    BY <2>2, <2>3, <2>4
<1>15. ASSUME NEW t \in Tabs, FinishLogin(t) PROVE AttemptOK'
  BY <1>15, Domains DEF FinishLogin, Goto
<1>16. ASSUME NEW t \in Tabs, LoginFails(t) PROVE AttemptOK'
  BY <1>16, Domains DEF LoginFails, Goto
<1>17. ASSUME NEW t \in Tabs, EnterRefresh(t) PROVE AttemptOK'
  BY <1>17, Domains DEF EnterRefresh, Return, End, Goto, Usable, Existing, TakeLock
<1>18. ASSUME NEW t \in Tabs, OpenPage(t) PROVE AttemptOK'
  BY <1>18, Domains DEF OpenPage, Mount, Begin, Goto
<1>19. ASSUME NEW t \in Tabs, StartRequest(t) PROVE AttemptOK'
  BY <1>19, Domains DEF StartRequest, Begin, Goto
<1>20. ASSUME NEW t \in Tabs, StartSignOut(t) PROVE AttemptOK'
  BY <1>20, Domains DEF StartSignOut, Goto
<1>21. ASSUME NEW t \in Tabs, BeginLogin(t) PROVE AttemptOK'
  <2>1. attempts' = Append(attempts, t) /\ redeemed' = redeemed
    BY <1>21 DEF BeginLogin
  <2>2. /\ Len(attempts') = Len(attempts) + 1 /\ attempts'[Len(attempts) + 1] = t
        /\ \A n \in 1 .. Len(attempts) : attempts'[n] = attempts[n]
        /\ Len(attempts) + 1 # 0 /\ Len(attempts) + 1 \notin redeemed
    <3>1. attempts \in Seq(Tabs) /\ redeemed \subseteq 1 .. Len(attempts)
      BY DEF TypeOK, LoginTypes, ProviderTypes
    <3> QED
      BY <2>1, <3>1
  <2>3. /\ txn' = [txn EXCEPT ![t] = Len(attempts) + 1] /\ url' = [url EXCEPT ![t] = 0]
        /\ pc' = [pc EXCEPT ![t] = "at provider"]
    BY <2>2, <1>21 DEF BeginLogin, Goto
  <2> QED
    BY <2>1, <2>2, <2>3, Domains, AttemptOf
<1>22. ASSUME NEW t \in Tabs, ReturnToCallback(t) PROVE AttemptOK'
  BY <1>22, Domains DEF ReturnToCallback, Goto
<1>23. ASSUME NEW t \in Tabs, Sync(t) PROVE AttemptOK'
  BY <1>23, Domains DEF Sync
<1>24. ASSUME NEW t \in Tabs, ExchangeFails(t) PROVE AttemptOK'
  BY <1>24, Domains DEF ExchangeFails, Fault, End, Goto
<1>25. ASSUME NEW t \in Tabs, LoseAnswer(t) PROVE AttemptOK'
  BY <1>25, Domains DEF LoseAnswer, Fault
<1>26. ASSUME NEW t \in Tabs, Reload(t) PROVE AttemptOK'
  BY <1>26, Domains DEF Reload, ReleaseLock, Goto
<1> QED
  BY <1>1, <1>2, <1>3, <1>4, <1>5, <1>6, <1>7, <1>8, <1>9, <1>10, <1>11, <1>12, <1>13, <1>14, <1>15, <1>16, <1>17, <1>18, <1>19, <1>20, <1>21, <1>22, <1>23, <1>24, <1>25, <1>26 DEF Next, Progress, User, Environment

LEMMA RefreshableStep ==
  ASSUME TypeOK, ChainOK, FreshOK, StoredStaysRefreshable, [Next]_vars
  PROVE  StoredStaysRefreshable'
<1> USE DEF StoredStaysRefreshable, StoredIsUnused, NoSession, storage, chain, page, login, provider, bounds, vars
<1>1. CASE UNCHANGED vars
  BY <1>1, Domains
<1>2. CASE Expire
  BY <1>2, Domains DEF Expire
<1>3. ASSUME NEW t \in Tabs, ReadSession(t) PROVE StoredStaysRefreshable'
  BY <1>3, Domains DEF ReadSession, Return, End, Goto, Usable
<1>4. ASSUME NEW t \in Tabs, Show(t) PROVE StoredStaysRefreshable'
  BY <1>4, Domains DEF Show, End, Goto
<1>5. ASSUME NEW t \in Tabs, RotateToken(t) PROVE StoredStaysRefreshable'
  BY <1>5, Domains DEF RotateToken, Goto, Accepts
<1>6. ASSUME NEW t \in Tabs, FinishRefresh(t) PROVE StoredStaysRefreshable'
  <2>1. stored' = answer[t] /\ answer[t] \notin used /\ used' = used
    BY <1>6 DEF FinishRefresh, writeStored, FreshOK
  <2> QED
    BY <2>1
<1>7. ASSUME NEW t \in Tabs, RefreshFails(t) PROVE StoredStaysRefreshable'
  <2>1. stored' = NoSession /\ used' = used
    BY <1>7 DEF RefreshFails, clearSession
  <2> QED
    BY <2>1, Ranges
<1>8. ASSUME NEW t \in Tabs, RequestEnds(t) PROVE StoredStaysRefreshable'
  BY <1>8, Domains DEF RequestEnds, End, Goto
<1>9. ASSUME NEW t \in Tabs, RequestUnauthorised(t) PROVE StoredStaysRefreshable'
  BY <1>9, Domains DEF RequestUnauthorised, Begin, Goto
<1>10. ASSUME NEW t \in Tabs, ClearOnSignOut(t) PROVE StoredStaysRefreshable'
  <2>1. stored' = NoSession /\ used' = used
    BY <1>10 DEF ClearOnSignOut, clearSession
  <2> QED
    BY <2>1, Ranges
<1>11. ASSUME NEW t \in Tabs, RevokeToken(t) PROVE StoredStaysRefreshable'
  BY <1>11, Domains DEF RevokeToken, End, Goto
<1>12. ASSUME NEW t \in Tabs, CallbackAccepted(t) PROVE StoredStaysRefreshable'
  BY <1>12, Domains DEF CallbackAccepted, ForgetTransaction, Goto
<1>13. ASSUME NEW t \in Tabs, CallbackRefused(t) PROVE StoredStaysRefreshable'
  BY <1>13, Domains DEF CallbackRefused, ForgetTransaction, Goto
<1>14. ASSUME NEW t \in Tabs, RedeemCode(t) PROVE StoredStaysRefreshable'
  BY <1>14, Domains DEF RedeemCode, Goto
<1>15. ASSUME NEW t \in Tabs, FinishLogin(t) PROVE StoredStaysRefreshable'
  <2>1. stored' = answer[t] /\ answer[t] \notin used /\ used' = used
    BY <1>15 DEF FinishLogin, FreshOK
  <2> QED
    BY <2>1
<1>16. ASSUME NEW t \in Tabs, LoginFails(t) PROVE StoredStaysRefreshable'
  BY <1>16, Domains DEF LoginFails, Goto
<1>17. ASSUME NEW t \in Tabs, EnterRefresh(t) PROVE StoredStaysRefreshable'
  BY <1>17, Domains DEF EnterRefresh, Return, End, Goto, Usable, Existing, TakeLock
<1>18. ASSUME NEW t \in Tabs, OpenPage(t) PROVE StoredStaysRefreshable'
  BY <1>18, Domains DEF OpenPage, Mount, Begin, Goto
<1>19. ASSUME NEW t \in Tabs, StartRequest(t) PROVE StoredStaysRefreshable'
  BY <1>19, Domains DEF StartRequest, Begin, Goto
<1>20. ASSUME NEW t \in Tabs, StartSignOut(t) PROVE StoredStaysRefreshable'
  BY <1>20, Domains DEF StartSignOut, Goto
<1>21. ASSUME NEW t \in Tabs, BeginLogin(t) PROVE StoredStaysRefreshable'
  BY <1>21, Domains DEF BeginLogin, Goto
<1>22. ASSUME NEW t \in Tabs, ReturnToCallback(t) PROVE StoredStaysRefreshable'
  BY <1>22, Domains DEF ReturnToCallback, Goto
<1>23. ASSUME NEW t \in Tabs, Sync(t) PROVE StoredStaysRefreshable'
  BY <1>23, Domains DEF Sync
<1>24. ASSUME NEW t \in Tabs, ExchangeFails(t) PROVE StoredStaysRefreshable'
  BY <1>24, Domains DEF ExchangeFails, Fault, End, Goto
<1>25. ASSUME NEW t \in Tabs, LoseAnswer(t) PROVE StoredStaysRefreshable'
  BY <1>25, Domains DEF LoseAnswer, Fault
<1>26. ASSUME NEW t \in Tabs, Reload(t) PROVE StoredStaysRefreshable'
  <2>1. reloads' # 0
    <3>1. reloads' = reloads + 1
      BY <1>26 DEF Reload
    <3> QED
      BY <3>1 DEF TypeOK, BoundTypes
  <2> QED
    BY <2>1
<1> QED
  BY <1>1, <1>2, <1>3, <1>4, <1>5, <1>6, <1>7, <1>8, <1>9, <1>10, <1>11, <1>12, <1>13, <1>14, <1>15, <1>16, <1>17, <1>18, <1>19, <1>20, <1>21, <1>22, <1>23, <1>24, <1>25, <1>26 DEF Next, Progress, User, Environment

LEMMA QuietStep ==
  ASSUME TypeOK, ChainOK, LockOK, AttemptOK, StoredStaysRefreshable, QuietOK, [Next]_vars
  PROVE  QuietOK'
<1> USE DEF LockOK, StoredStaysRefreshable, StoredIsUnused, QuietOK, NeverReplayed, Undisturbed, NoSession, storage, chain, page, login, provider, bounds, vars
<1>1. CASE UNCHANGED vars
  BY <1>1, Domains, TabsAssumption, LocksAssumption
<1>2. CASE Expire
  BY <1>2, Domains, TabsAssumption, LocksAssumption DEF Expire
<1>3. ASSUME NEW t \in Tabs, ReadSession(t) PROVE QuietOK'
  BY <1>3, Domains, TabsAssumption, LocksAssumption DEF ReadSession, Return, End, Goto, Usable
<1>4. ASSUME NEW t \in Tabs, Show(t) PROVE QuietOK'
  BY <1>4, Domains, TabsAssumption, LocksAssumption DEF Show, End, Goto
<1>5. ASSUME NEW t \in Tabs, RotateToken(t) PROVE QuietOK'
  BY <1>5, Domains, TabsAssumption, LocksAssumption DEF RotateToken, Goto, Accepts
<1>6. ASSUME NEW t \in Tabs, FinishRefresh(t) PROVE QuietOK'
  BY <1>6, Domains, TabsAssumption, LocksAssumption DEF FinishRefresh, writeStored, Broadcast, ReleaseLock, Return, End, Goto
<1>7. ASSUME NEW t \in Tabs, RefreshFails(t) PROVE QuietOK'
  BY <1>7, Domains, TabsAssumption, LocksAssumption DEF RefreshFails, clearSession, Broadcast, ReleaseLock, Throw, End, Goto
<1>8. ASSUME NEW t \in Tabs, RequestEnds(t) PROVE QuietOK'
  BY <1>8, Domains, TabsAssumption, LocksAssumption DEF RequestEnds, End, Goto
<1>9. ASSUME NEW t \in Tabs, RequestUnauthorised(t) PROVE QuietOK'
  BY <1>9, Domains, TabsAssumption, LocksAssumption DEF RequestUnauthorised, Begin, Goto
<1>10. ASSUME NEW t \in Tabs, ClearOnSignOut(t) PROVE QuietOK'
  BY <1>10, Domains, TabsAssumption, LocksAssumption DEF ClearOnSignOut, clearSession, Broadcast, Goto
<1>11. ASSUME NEW t \in Tabs, RevokeToken(t) PROVE QuietOK'
  BY <1>11, Domains, TabsAssumption, LocksAssumption DEF RevokeToken, End, Goto
<1>12. ASSUME NEW t \in Tabs, CallbackAccepted(t) PROVE QuietOK'
  BY <1>12, Domains, TabsAssumption, LocksAssumption DEF CallbackAccepted, ForgetTransaction, Goto
<1>13. ASSUME NEW t \in Tabs, CallbackRefused(t) PROVE QuietOK'
  BY <1>13, Domains, TabsAssumption, LocksAssumption DEF CallbackRefused, ForgetTransaction, Goto
<1>14. ASSUME NEW t \in Tabs, RedeemCode(t) PROVE QuietOK'
  <2>1. url[t] \notin redeemed
    BY <1>14 DEF RedeemCode, AttemptOK
  <2> QED
    BY <2>1, <1>14, Domains DEF RedeemCode, Goto
<1>15. ASSUME NEW t \in Tabs, FinishLogin(t) PROVE QuietOK'
  BY <1>15, Domains, TabsAssumption, LocksAssumption DEF FinishLogin, Goto
<1>16. ASSUME NEW t \in Tabs, LoginFails(t) PROVE QuietOK'
  BY <1>16, Domains, TabsAssumption, LocksAssumption DEF LoginFails, Goto
<1>17. ASSUME NEW t \in Tabs, EnterRefresh(t) PROVE QuietOK'
  BY <1>17, Domains, TabsAssumption, LocksAssumption DEF EnterRefresh, Return, End, Goto, Usable, Existing, TakeLock
<1>18. ASSUME NEW t \in Tabs, OpenPage(t) PROVE QuietOK'
  BY <1>18, Domains, TabsAssumption, LocksAssumption DEF OpenPage, Mount, Begin, Goto
<1>19. ASSUME NEW t \in Tabs, StartRequest(t) PROVE QuietOK'
  BY <1>19, Domains, TabsAssumption, LocksAssumption DEF StartRequest, Begin, Goto
<1>20. ASSUME NEW t \in Tabs, StartSignOut(t) PROVE QuietOK'
  <2>1. signOuts' # 0
    <3>1. signOuts' = signOuts + 1
      BY <1>20 DEF StartSignOut
    <3> QED
      BY <3>1 DEF TypeOK, BoundTypes
  <2> QED
    BY <2>1
<1>21. ASSUME NEW t \in Tabs, BeginLogin(t) PROVE QuietOK'
  BY <1>21, Domains, TabsAssumption, LocksAssumption DEF BeginLogin, Goto
<1>22. ASSUME NEW t \in Tabs, ReturnToCallback(t) PROVE QuietOK'
  BY <1>22, Domains, TabsAssumption, LocksAssumption DEF ReturnToCallback, Goto
<1>23. ASSUME NEW t \in Tabs, Sync(t) PROVE QuietOK'
  BY <1>23, Domains, TabsAssumption, LocksAssumption DEF Sync
<1>24. ASSUME NEW t \in Tabs, ExchangeFails(t) PROVE QuietOK'
  <2>1. faults' # 0
    <3>1. faults' = faults + 1
      BY <1>24 DEF ExchangeFails, Fault
    <3> QED
      BY <3>1 DEF TypeOK, BoundTypes
  <2> QED
    BY <2>1
<1>25. ASSUME NEW t \in Tabs, LoseAnswer(t) PROVE QuietOK'
  <2>1. faults' # 0
    <3>1. faults' = faults + 1
      BY <1>25 DEF LoseAnswer, Fault
    <3> QED
      BY <3>1 DEF TypeOK, BoundTypes
  <2> QED
    BY <2>1
<1>26. ASSUME NEW t \in Tabs, Reload(t) PROVE QuietOK'
  <2>1. reloads' # 0
    <3>1. reloads' = reloads + 1
      BY <1>26 DEF Reload
    <3> QED
      BY <3>1 DEF TypeOK, BoundTypes
  <2> QED
    BY <2>1
<1> QED
  BY <1>1, <1>2, <1>3, <1>4, <1>5, <1>6, <1>7, <1>8, <1>9, <1>10, <1>11, <1>12, <1>13, <1>14, <1>15, <1>16, <1>17, <1>18, <1>19, <1>20, <1>21, <1>22, <1>23, <1>24, <1>25, <1>26 DEF Next, Progress, User, Environment

(* Whoever writes the session tells every other page, and a page that is   *)
(* told, or loads, reads what is stored.                                   *)
LEMMA OutdatedStep ==
  ASSUME TypeOK, ChainOK, OnlyWriterOutdated, [Next]_vars
  PROVE  OnlyWriterOutdated'
<1> USE DEF OnlyWriterOutdated, Outdated, Loaded, storage, chain, page, login, provider, bounds, vars
<1>d. DOMAIN shown = Tabs /\ notified \subseteq Tabs /\ DOMAIN attempts = 1 .. Len(attempts)
      /\ Len(attempts) \in Nat
  BY Lengths DEF TypeOK, PageTypes
<1>1. CASE UNCHANGED vars
  BY <1>1
<1>2. CASE Expire
  BY <1>2 DEF Expire
<1>3. ASSUME NEW t \in Tabs, ReadSession(t) PROVE OnlyWriterOutdated'
  <2>1. /\ \A u \in Tabs \ {t} : pc'[u] = pc[u] /\ phase'[u] = phase[u]
        /\ pc[t] = "read"
        /\ phase[t] = "load" => phase'[t] = "load" /\ pc'[t] \in {"show", "wait", "refresh"}
    BY <1>3, Domains DEF ReadSession, Return, End, Goto, Usable
  <2>2. UNCHANGED <<stored, writer, shown, notified, url>>
    BY <1>3 DEF ReadSession
  <2> QED
    BY <2>1, <2>2
<1>4. ASSUME NEW t \in Tabs, Show(t) PROVE OnlyWriterOutdated'
  BY <1>4, <1>d, Domains DEF Show, End, Goto
<1>5. ASSUME NEW t \in Tabs, RotateToken(t) PROVE OnlyWriterOutdated'
  BY <1>5, <1>d, Domains DEF RotateToken, Goto
<1>6. ASSUME NEW t \in Tabs, FinishRefresh(t) PROVE OnlyWriterOutdated'
  BY <1>6, <1>d, Domains DEF FinishRefresh, writeStored, Broadcast, Return, End, Goto
<1>7. ASSUME NEW t \in Tabs, RefreshFails(t) PROVE OnlyWriterOutdated'
  BY <1>7, <1>d, Domains DEF RefreshFails, clearSession, Broadcast, Throw, End, Goto
<1>8. ASSUME NEW t \in Tabs, RequestEnds(t) PROVE OnlyWriterOutdated'
  BY <1>8, <1>d, Domains DEF RequestEnds, End, Goto
<1>9. ASSUME NEW t \in Tabs, RequestUnauthorised(t) PROVE OnlyWriterOutdated'
  BY <1>9, <1>d, Domains DEF RequestUnauthorised, Begin, Goto
<1>10. ASSUME NEW t \in Tabs, ClearOnSignOut(t) PROVE OnlyWriterOutdated'
  BY <1>10, <1>d, Domains DEF ClearOnSignOut, clearSession, Broadcast, Goto
<1>11. ASSUME NEW t \in Tabs, RevokeToken(t) PROVE OnlyWriterOutdated'
  BY <1>11, <1>d, Domains DEF RevokeToken, End, Goto
<1>12. ASSUME NEW t \in Tabs, CallbackAccepted(t) PROVE OnlyWriterOutdated'
  BY <1>12, <1>d, Domains DEF CallbackAccepted, ForgetTransaction, Goto
<1>13. ASSUME NEW t \in Tabs, CallbackRefused(t) PROVE OnlyWriterOutdated'
  BY <1>13, <1>d, Domains DEF CallbackRefused, ForgetTransaction, Goto
<1>14. ASSUME NEW t \in Tabs, RedeemCode(t) PROVE OnlyWriterOutdated'
  BY <1>14, <1>d, Domains DEF RedeemCode, Goto
<1>15. ASSUME NEW t \in Tabs, FinishLogin(t) PROVE OnlyWriterOutdated'
  BY <1>15, <1>d, Domains DEF FinishLogin, Goto
<1>16. ASSUME NEW t \in Tabs, LoginFails(t) PROVE OnlyWriterOutdated'
  BY <1>16, <1>d, Domains DEF LoginFails, Goto
<1>17. ASSUME NEW t \in Tabs, EnterRefresh(t) PROVE OnlyWriterOutdated'
  <2>1. /\ \A u \in Tabs \ {t} : pc'[u] = pc[u] /\ phase'[u] = phase[u]
        /\ pc[t] = "wait"
        /\ phase[t] = "load" => phase'[t] = "load" /\ pc'[t] \in {"show", "wait", "refresh"}
    BY <1>17, Domains DEF EnterRefresh, Return, End, Goto
  <2>2. UNCHANGED <<stored, writer, shown, notified, url>>
    BY <1>17 DEF EnterRefresh
  <2> QED
    BY <2>1, <2>2
<1>18. ASSUME NEW t \in Tabs, OpenPage(t) PROVE OnlyWriterOutdated'
  BY <1>18, <1>d, Domains DEF OpenPage, Mount, Begin, Goto
<1>19. ASSUME NEW t \in Tabs, StartRequest(t) PROVE OnlyWriterOutdated'
  BY <1>19, <1>d, Domains DEF StartRequest, Begin, Goto
<1>20. ASSUME NEW t \in Tabs, StartSignOut(t) PROVE OnlyWriterOutdated'
  BY <1>20, <1>d, Domains DEF StartSignOut, Goto
<1>21. ASSUME NEW t \in Tabs, BeginLogin(t) PROVE OnlyWriterOutdated'
  BY <1>21, <1>d, Domains DEF BeginLogin, Goto
<1>22. ASSUME NEW t \in Tabs, ReturnToCallback(t) PROVE OnlyWriterOutdated'
  <2>1. PICK n \in 1 .. Len(attempts) : url' = [url EXCEPT ![t] = n]
    BY <1>22, <1>d DEF ReturnToCallback
  <2>2. url'[t] # 0 /\ \A u \in Tabs \ {t} : url'[u] = url[u]
    <3>1. n # 0
      BY <1>d, Positive
    <3> QED
      BY <2>1, <3>1, Domains
  <2> QED
    BY <1>22, <2>2, Domains DEF ReturnToCallback, Goto
<1>23. ASSUME NEW t \in Tabs, Sync(t) PROVE OnlyWriterOutdated'
  BY <1>23, <1>d, Domains DEF Sync
<1>24. ASSUME NEW t \in Tabs, ExchangeFails(t) PROVE OnlyWriterOutdated'
  <2>0. UNCHANGED <<stored, writer, shown, notified, url>>
    BY <1>24 DEF ExchangeFails
  <2>1. CASE pc[t] = "refresh" /\ Goto(t, "refreshed") /\ UNCHANGED <<phase, session>>
    BY <2>0, <2>1, Domains DEF Goto
  <2>2. CASE pc[t] = "redeem" /\ Goto(t, "redeem answered") /\ UNCHANGED <<phase, session>>
    BY <2>0, <2>2, Domains DEF Goto
  <2>3. CASE pc[t] = "revoke" /\ End(t)
    <3>1. /\ pc'[t] = "idle" /\ pc[t] = "revoke"
          /\ \A u \in Tabs \ {t} : pc'[u] = pc[u] /\ phase'[u] = phase[u]
      BY <2>3, Domains DEF End, Goto
    <3>2. \A u \in Tabs : Outdated(u)' => Outdated(u)
      BY <2>0, <3>1
    <3> QED
      BY <2>0, <3>2
  <2> QED
    BY <1>24, <2>1, <2>2, <2>3 DEF ExchangeFails
<1>25. ASSUME NEW t \in Tabs, LoseAnswer(t) PROVE OnlyWriterOutdated'
  BY <1>25, <1>d, Domains DEF LoseAnswer
<1>26. ASSUME NEW t \in Tabs, Reload(t) PROVE OnlyWriterOutdated'
  <2>1. /\ phase'[t] = "load" /\ pc'[t] = IF url[t] = 0 THEN "read" ELSE "callback"
        /\ \A u \in Tabs \ {t} : /\ pc'[u] = pc[u] /\ phase'[u] = phase[u]
                                /\ shown'[u] = shown[u]
    BY <1>26, <1>d, Domains DEF Reload, Goto
  <2>2. url' = url /\ stored' = stored /\ writer' = writer /\ notified' = notified \ {t}
    BY <1>26 DEF Reload
  <2> QED
    BY <2>1, <2>2
<1> QED
  BY <1>1, <1>2, <1>3, <1>4, <1>5, <1>6, <1>7, <1>8, <1>9, <1>10, <1>11, <1>12, <1>13, <1>14, <1>15, <1>16, <1>17, <1>18, <1>19, <1>20, <1>21, <1>22, <1>23, <1>24, <1>25, <1>26 DEF Next, Progress, User, Environment

(* The inductive invariant holds in every reachable state. *)
THEOREM SessionInvariance == Spec => []IInv
<1>1. IInv /\ [Next]_vars => IInv'
  BY TypeStep, ChainStep, FreshStep, LockStep, AttemptStep, RefreshableStep, QuietStep DEF IInv
<1> QED
  BY InitInv, <1>1, PTL DEF Spec

(* The tables of tabs, tokens and attempts keep their types. *)
THEOREM SessionTypes == Spec => []TypeOK
<1>1. IInv => TypeOK
  BY DEF IInv
<1> QED
  BY <1>1, SessionInvariance, PTL

(* Whatever else happens, a session in localStorage stays refreshable      *)
(* unless a tab is reloaded in the middle of an exchange (refreshSession). *)
THEOREM SessionStaysRefreshable == Spec => []StoredStaysRefreshable
<1>1. IInv => StoredStaysRefreshable
  BY DEF IInv
<1> QED
  BY <1>1, SessionInvariance, PTL

(* Any number of tabs that refresh under the lock, undisturbed, never      *)
(* present a refresh token twice (validSession, refreshSession).           *)
THEOREM RefreshIsCoordinated == Spec => []CoordinatedRefresh
<1>1. IInv => CoordinatedRefresh
  BY DEF IInv, QuietOK, CoordinatedRefresh
<1> QED
  BY <1>1, SessionInvariance, PTL

(* A login transaction is redeemed at most once (completeLogin). *)
THEOREM AttemptsRedeemedOnce == Spec => []AttemptRedeemedOnce
<1>1. IInv => AttemptRedeemedOnce
  BY DEF IInv, AttemptOK, AttemptRedeemedOnce
<1> QED
  BY <1>1, SessionInvariance, PTL

(* Of the pages with no event left to handle only the one that wrote last  *)
(* may show an old session (writeStored, useSession).                      *)
THEOREM OnlyTheWriterIsOutdated == Spec => []OnlyWriterOutdated
<1>1. Init => OnlyWriterOutdated
  BY DEF Init, OnlyWriterOutdated, Outdated
<1>2. IInv /\ OnlyWriterOutdated /\ [Next]_vars => OnlyWriterOutdated'
  BY OutdatedStep DEF IInv
<1> QED
  BY <1>1, <1>2, SessionInvariance, PTL DEF Spec
=============================================================================
