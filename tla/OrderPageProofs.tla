-------------------------- MODULE OrderPageProofs --------------------------
(***************************************************************************)
(* Proofs about OrderPage, for any number of requests under way, presses,  *)
(* sessions, other writers and faults.                                     *)
(***************************************************************************)
EXTENDS OrderPage, TLAPS

\* The tag is the version of the order on the screen.
ShownOK ==
  /\ shown = Null <=> etag = Null
  /\ shown # Null => etag = shown.version

\* A success that was told has happened; a press generates at most one key.
CountsOK == told <= order.version /\ issued <= presses /\ presses <= MaxPresses

\* A load that is not behind is answered with what was told or later; a write
\* carries the version that was on the screen.
CallOK(s) ==
  LET c == calls[s] IN
  /\ c.op = "load" =>
       /\ c.tag # Null => shown # Null
       /\ c.answer # Null /\ c.answer.status \in {"200", "304"} =>
            /\ c.answer.status = "304" => c.tag = c.answer.order.version
            /\ ~c.behind => told <= c.answer.order.version
  /\ c.op # "load" =>
       /\ c.tag \in Nat /\ c.saw = c.tag
       /\ c.answer # Null /\ c.answer.status = "200" => c.answer.order.version <= order.version

CallsOK == \A s \in Slots : ~Free(s) => CallOK(s)

\* What is on the screen is what was told, or later, or crossed; or every load
\* that is not behind still sends its tag.
Good == shown # Null /\ (crossed \/ told <= shown.version)
GoodOK == Good \/ \A s \in Slots : ~Free(s) /\ calls[s].op = "load" /\ ~calls[s].behind
                                     => calls[s].tag = etag

\* A page in its loading state waits for a load.
LoadingOK == state = "loading" => \E s \in Slots : Waits(s) /\ calls[s].op = "load"

IInv == TypeOK /\ ShownOK /\ CountsOK /\ CallsOK /\ GoodOK /\ ShowsWhatItDid /\ LoadingOK

-----------------------------------------------------------------------------
LEMMA OrderType ==
  ASSUME TypeOK
  PROVE  /\ order.version \in Nat /\ told \in Nat
         /\ shown # Null => shown.version \in Nat
         /\ presses \in Nat /\ issued \in Nat /\ key \in Nat
BY DEF TypeOK, Order

LEMMA CallType ==
  ASSUME TypeOK, NEW s \in Slots, ~Free(s)
  PROVE  /\ calls[s] \in Request /\ calls[s].tag \in Tag /\ calls[s].behind \in BOOLEAN
         /\ calls[s].heard \in BOOLEAN /\ calls[s].op \in {"load", "claim", "cancel"}
         /\ calls[s].answer # Null =>
              calls[s].answer.order \in Order /\ calls[s].answer.order.version \in Nat
<1>1. calls[s] \in Request
  BY DEF TypeOK, Free
<1> QED
  BY <1>1 DEF Request, Order

LEMMA NewCall ==
  ASSUME TypeOK, NEW op \in {"load", "claim", "cancel"}, NEW tag \in Tag, NEW k \in Nat
  PROVE  /\ Call(op, tag, k) \in Request /\ Call(op, tag, k) # NoCall
         /\ Call(op, tag, k).op = op /\ Call(op, tag, k).tag = tag
         /\ Call(op, tag, k).answer = Null /\ Call(op, tag, k).heard
         /\ ~Call(op, tag, k).behind
         /\ shown # Null => Call(op, tag, k).saw = shown.version
<1>1. (IF shown = Null THEN 0 ELSE shown.version) \in Nat
  BY OrderType
<1>2. Call(op, tag, k) \in Request
  BY <1>1 DEF Call, Request
<1> QED
  BY <1>2 DEF Call, Request, NoCall

LEMMA InitOK == Init => IInv
<1> SUFFICES ASSUME Init PROVE IInv
  OBVIOUS
<1> USE DEF Init
<1>1. PICK s \in Slots : calls = [t \in Slots |->
        IF t = s THEN Call("load", Null, NoKey) ELSE NoCall]
  OBVIOUS
<1> DEFINE c == Call("load", Null, NoKey)
<1>2. /\ c \in Request /\ c # NoCall /\ c.op = "load" /\ c.tag = Null
      /\ c.answer = Null /\ c.heard
  BY DEF Call, Request, NoCall, NoKey, Tag
<1> HIDE DEF c
<1>3. calls = [t \in Slots |-> IF t = s THEN c ELSE NoCall]
  BY <1>1 DEF c
<1>4. order \in Order /\ order.version = 1
  BY DEF Order
<1>5. TypeOK
  <2>1. NoKey \in 0..0 /\ 0 \in 0..MaxPresses /\ 0 \in Nat
    BY BoundsAssumption DEF NoKey
  <2> QED
    BY <1>2, <1>3, <1>4, <2>1 DEF TypeOK, Tag
<1>6. ShownOK /\ CountsOK
  BY <1>4, BoundsAssumption DEF ShownOK, CountsOK
<1>7. CallsOK /\ GoodOK
  BY <1>2, <1>3 DEF CallsOK, CallOK, GoodOK, Free
<1>8. ShowsWhatItDid /\ LoadingOK
  BY <1>2, <1>3 DEF ShowsWhatItDid, LoadingOK, Waits, Free
<1> QED
  BY <1>5, <1>6, <1>7, <1>8 DEF IInv

-----------------------------------------------------------------------------
(***************************************************************************)
(* The page.                                                               *)
(***************************************************************************)
\* A load sends the tag of what is on the screen.
LEMMA LoadOK ==
  ASSUME IInv, NEW s \in Slots, Free(s), load(s),
         role' = role, service' = service,
         <<shown, etag, said, key, issued, told, crossed>>'
           = <<shown, etag, said, key, issued, told, crossed>>,
         presses' \in Nat, presses <= presses', presses' <= MaxPresses,
         sessions' \in Nat, others' \in Nat, faults' \in Nat
  PROVE  IInv'
<1> USE DEF IInv
<1> DEFINE c == Call("load", etag, NoKey)
<1>1. etag \in Tag /\ NoKey \in Nat
  BY DEF TypeOK, NoKey
<1>2. /\ c \in Request /\ c # NoCall /\ c.op = "load" /\ c.tag = etag
      /\ c.answer = Null /\ c.heard
  BY <1>1, NewCall
<1> HIDE DEF c
<1>3. calls' = [calls EXCEPT ![s] = c] /\ state' = "loading"
  BY DEF load, c
<1>4. calls'[s] = c /\ \A t \in Slots \ {s} : calls'[t] = calls[t]
  BY <1>3 DEF TypeOK
<1>5. TypeOK'
  BY <1>2, <1>3 DEF TypeOK, service
<1>6. ShownOK' /\ CountsOK'
  <2>1. issued' <= presses'
    BY OrderType DEF CountsOK
  <2> QED
    BY <2>1 DEF ShownOK, CountsOK, service
<1>7. CallsOK'
  <2> SUFFICES ASSUME NEW t \in Slots, ~Free(t)' PROVE CallOK(t)'
    BY DEF CallsOK
  <2>1. CASE t = s
    BY <1>2, <1>4, <2>1 DEF CallOK, ShownOK
  <2>2. CASE t # s
    BY <1>4, <2>2 DEF CallsOK, CallOK, Free, service
  <2> QED
    BY <2>1, <2>2
<1>8. GoodOK'
  BY <1>2, <1>4 DEF GoodOK, Good, Free
<1>9. ShowsWhatItDid' /\ LoadingOK'
  BY <1>2, <1>3, <1>4 DEF ShowsWhatItDid, LoadingOK, Waits, Free
<1> QED
  BY <1>5, <1>6, <1>7, <1>8, <1>9

LEMMA RefreshOK ==
  ASSUME IInv, NEW s \in Slots, Refresh(s)
  PROVE  IInv'
<1>1. presses \in Nat /\ MaxPresses \in Nat
  BY BoundsAssumption DEF IInv, TypeOK
<1>2. presses' \in Nat /\ presses <= presses' /\ presses' <= MaxPresses
  BY <1>1 DEF Refresh, Press
<1> QED
  BY <1>2, LoadOK DEF Refresh, Press, IInv, TypeOK, service

LEMMA SessionChangedOK ==
  ASSUME IInv, NEW s \in Slots, SessionChanged(s)
  PROVE  IInv'
<1>1. presses \in Nat /\ presses <= presses /\ presses <= MaxPresses
  BY DEF IInv, TypeOK, CountsOK
<1>2. sessions' \in Nat
  BY DEF SessionChanged, IInv, TypeOK
<1> QED
  BY <1>1, <1>2, LoadOK DEF SessionChanged, IInv, TypeOK, service

\* A write is sent while the order is on the screen: it carries its version.
LEMMA SendOK ==
  ASSUME IInv, NEW s \in Slots, Free(s), NEW op \in {"claim", "cancel"},
         NEW k \in Nat, Press, shown # Null,
         calls' = [calls EXCEPT ![s] = Call(op, etag, k)],
         <<shown, etag, state, said, told, crossed>>'
           = <<shown, etag, state, said, told, crossed>>,
         key' \in 0..issued', issued' \in Nat, issued' <= presses'
  PROVE  IInv'
<1> USE DEF IInv
<1> DEFINE c == Call(op, etag, k)
<1>1. etag \in Tag
  BY DEF TypeOK
<1>2. /\ c \in Request /\ c # NoCall /\ c.op = op /\ c.tag = etag
      /\ c.answer = Null /\ c.saw = shown.version
  BY <1>1, NewCall
<1> HIDE DEF c
<1>3. calls' = [calls EXCEPT ![s] = c]
  BY DEF c
<1>4. calls'[s] = c /\ \A t \in Slots \ {s} : calls'[t] = calls[t]
  BY <1>3 DEF TypeOK
<1>5. presses \in Nat /\ MaxPresses \in Nat
  BY BoundsAssumption DEF TypeOK
<1>6. presses' \in Nat /\ presses' <= MaxPresses
  BY <1>5 DEF Press
<1>7. issued' \in 0..MaxPresses
  BY <1>5, <1>6
<1>8. TypeOK'
  BY <1>2, <1>3, <1>6, <1>7 DEF TypeOK, service, Press
<1>9. ShownOK' /\ CountsOK'
  BY <1>6 DEF ShownOK, CountsOK, service, Press
<1>10. CallsOK'
  <2> SUFFICES ASSUME NEW t \in Slots, ~Free(t)' PROVE CallOK(t)'
    BY DEF CallsOK
  <2>1. CASE t = s
    <3>1. etag \in Nat /\ shown.version = etag
      BY OrderType DEF ShownOK
    <3> QED
      BY <1>2, <1>4, <2>1, <3>1 DEF CallOK
  <2>2. CASE t # s
    BY <1>4, <2>2 DEF CallsOK, CallOK, Free, service, Press
  <2> QED
    BY <2>1, <2>2
<1>11. GoodOK'
  BY <1>2, <1>4 DEF GoodOK, Good, Free
<1>12. ShowsWhatItDid'
  BY DEF ShowsWhatItDid
<1>13. LoadingOK'
  BY <1>4 DEF LoadingOK, Waits, Free
<1> QED
  BY <1>8, <1>9, <1>10, <1>11, <1>12, <1>13

LEMMA ClaimOK ==
  ASSUME IInv, NEW s \in Slots, claim(s)
  PROVE  IInv'
<1>1. presses \in Nat /\ issued \in Nat /\ key \in 0..issued /\ issued <= presses
  BY DEF IInv, TypeOK, CountsOK
<1>2. key' \in 0..issued' /\ issued' \in Nat /\ issued' <= presses'
  BY <1>1 DEF claim, page, Press
<1> QED
  BY <1>2, SendOK DEF claim, page, Offered, NoKey

LEMMA CancelOK ==
  ASSUME IInv, NEW s \in Slots, cancel(s)
  PROVE  IInv'
<1>1. presses \in Nat /\ issued \in Nat /\ key \in 0..issued /\ issued <= presses
  BY DEF IInv, TypeOK, CountsOK
<1>2. presses' = presses + 1
  BY DEF cancel, Press
<1>3. key' \in Nat /\ key' \in 0..issued' /\ issued' \in Nat /\ issued' <= presses'
  BY <1>1, <1>2 DEF cancel
<1> QED
  BY <1>3, SendOK DEF cancel, Offered

\* Giving up a call: the others are as they were.
LEMMA Removed ==
  ASSUME IInv, NEW s \in Slots, calls' = [calls EXCEPT ![s] = NoCall],
         told' = told, service' = service
  PROVE  /\ calls' \in [Slots -> Request \cup {NoCall}]
         /\ Free(s)' /\ \A t \in Slots \ {s} : calls'[t] = calls[t]
         /\ CallsOK' <=> \A t \in Slots \ {s} : ~Free(t) => CallOK(t)'
<1>1. Free(s)' /\ \A t \in Slots \ {s} : calls'[t] = calls[t]
  BY DEF IInv, TypeOK, Free
<1>2. calls' \in [Slots -> Request \cup {NoCall}]
  BY DEF IInv, TypeOK
<1>3. CallsOK' <=> \A t \in Slots \ {s} : ~Free(t) => CallOK(t)'
  BY <1>1 DEF CallsOK, Free
<1> QED
  BY <1>1, <1>2, <1>3

\* An error shown: nothing on the screen changes.
LEMMA FailedOK ==
  ASSUME IInv, NEW s \in Slots, Waits(s), Failed(s),
         calls' = [calls EXCEPT ![s] = NoCall],
         UNCHANGED <<role, service, presses, sessions, others>>, faults' \in Nat
  PROVE  IInv'
<1> USE DEF IInv
<1>1. UNCHANGED <<shown, etag, key, issued, told, crossed, order, records>>
  BY DEF Failed, service
<1>2. /\ calls' \in [Slots -> Request \cup {NoCall}]
      /\ Free(s)' /\ \A t \in Slots \ {s} : calls'[t] = calls[t]
  BY <1>1, Removed
<1>3. TypeOK'
  BY <1>1, <1>2 DEF TypeOK, Failed
<1>4. ShownOK' /\ CountsOK'
  BY <1>1 DEF ShownOK, CountsOK
<1>5. CallsOK'
  BY <1>1, <1>2 DEF CallsOK, CallOK, Free
<1>6. GoodOK'
  BY <1>1, <1>2 DEF GoodOK, Good, Free
<1>7. ShowsWhatItDid'
  BY <1>1 DEF ShowsWhatItDid, Failed
<1>8. LoadingOK'
  <2>1. CASE calls[s].op = "load"
    BY <2>1 DEF LoadingOK, Failed
  <2>2. CASE calls[s].op # "load"
    BY <1>2, <2>2 DEF LoadingOK, Failed, Waits, Free
  <2> QED
    BY <2>1, <2>2
<1> QED
  BY <1>3, <1>4, <1>5, <1>6, <1>7, <1>8

\* What a load brings: it was told or is later, or the load was behind.
LEMMA ReceiveLoadOK ==
  ASSUME IInv, NEW s \in Slots, ReceiveLoad(s)
  PROVE  IInv'
<1> USE DEF IInv
<1> DEFINE c == calls[s]
<1>1. /\ Waits(s) /\ c.op = "load" /\ c.answer # Null
      /\ calls' = [calls EXCEPT ![s] = NoCall]
      /\ UNCHANGED <<role, service, counts>>
  BY DEF ReceiveLoad
<1>2. c.answer.order \in Order /\ c.answer.order.version \in Nat /\ c.behind \in BOOLEAN
  BY <1>1, CallType DEF Waits
<1>3. CASE c.answer.status \notin {"200", "304"}
  BY <1>1, <1>3, FailedOK DEF ReceiveLoad, counts, TypeOK
<1>4. CASE c.answer.status \in {"200", "304"}
  <2>1. /\ state' = "content" /\ UNCHANGED <<said, key, issued, told, order, records>>
        /\ UNCHANGED <<presses, sessions, others, faults>>
    BY <1>1, <1>4 DEF ReceiveLoad, service, counts
  <2>2. /\ calls' \in [Slots -> Request \cup {NoCall}]
        /\ Free(s)' /\ \A t \in Slots \ {s} : calls'[t] = calls[t]
    BY <1>1, <2>1, Removed
  <2>3. /\ c.tag # Null => shown # Null
        /\ c.answer.status = "304" => c.tag = c.answer.order.version
        /\ ~c.behind => told <= c.answer.order.version
    BY <1>1, <1>4 DEF CallsOK, CallOK, Waits
  <2>4. \/ /\ c.answer.status = "304"
           /\ crossed' = (crossed \/ c.behind) /\ UNCHANGED <<shown, etag>>
        \/ /\ shown' = c.answer.order /\ etag' = c.answer.order.version
           /\ crossed' = c.behind
    BY <1>4 DEF ReceiveLoad
  <2>5. Good'
    <3>1. CASE c.answer.status = "304" /\ crossed' = (crossed \/ c.behind)
                 /\ UNCHANGED <<shown, etag>>
      <4>1. c.tag \in Nat /\ c.tag # Null /\ shown # Null
        BY <1>2, <2>3, <3>1, NullAssumption
      <4>2. CASE Good \/ c.behind
        BY <2>1, <3>1, <4>1, <4>2 DEF Good
      <4>3. CASE ~Good /\ ~c.behind
        <5>1. c.tag = etag
          BY <1>1, <4>3 DEF GoodOK, Waits
        <5>2. shown.version = c.answer.order.version
          BY <2>3, <3>1, <4>1, <5>1 DEF ShownOK
        <5> QED
          BY <2>1, <2>3, <3>1, <4>1, <4>3, <5>2 DEF Good
      <4> QED
        BY <4>2, <4>3
    <3>2. CASE shown' = c.answer.order /\ etag' = c.answer.order.version
                 /\ crossed' = c.behind
      BY <1>2, <2>1, <2>3, <3>2, NullAssumption DEF Good
    <3> QED
      BY <2>4, <3>1, <3>2
  <2>6. TypeOK'
    <3>1. shown' \in Order \cup {Null} /\ etag' \in Tag /\ crossed' \in BOOLEAN
      BY <1>2, <2>4 DEF TypeOK, Tag
    <3> QED
      BY <1>1, <2>1, <2>2, <3>1 DEF TypeOK
  <2>7. ShownOK' /\ CountsOK'
    <3>1. ShownOK'
      BY <1>2, <2>4, NullAssumption DEF ShownOK
    <3> QED
      BY <2>1, <3>1 DEF CountsOK
  <2>8. CallsOK'
    <3>1. shown' # Null
      BY <2>5 DEF Good
    <3> QED
      BY <2>1, <2>2, <3>1 DEF CallsOK, CallOK, Free
  <2>9. GoodOK' /\ ShowsWhatItDid' /\ LoadingOK'
    <3>1. ShowsWhatItDid'
      <4>1. shown' \in Order \cup {Null} /\ told' \in Nat
        BY <2>6 DEF TypeOK
      <4>2. shown' # Null => shown'.version \in Nat
        BY <4>1 DEF Order
      <4> QED
        BY <2>5, <4>1, <4>2 DEF Good, ShowsWhatItDid
    <3> QED
      BY <2>1, <2>5, <3>1 DEF GoodOK, LoadingOK
  <2> QED
    BY <2>6, <2>7, <2>8, <2>9
<1> QED
  BY <1>3, <1>4

\* A success heard: every load on its way is behind, and a new one is sent.
LEMMA ReceiveWriteOK ==
  ASSUME IInv, NEW s \in Slots, ReceiveWrite(s)
  PROVE  IInv'
<1> USE DEF IInv
<1> DEFINE c == calls[s]
           n == Call("load", etag, NoKey)
<1>1. /\ Waits(s) /\ c.op # "load" /\ c.answer # Null
      /\ UNCHANGED <<role, service, counts>>
  BY DEF ReceiveWrite
<1>2. CASE c.answer.status # "200"
  BY <1>1, <1>2, FailedOK DEF ReceiveWrite, counts, TypeOK
<1>3. CASE c.answer.status = "200"
  <2>1. /\ told' = c.answer.order.version /\ state' = "loading"
        /\ UNCHANGED <<shown, etag, issued, crossed, order, records>>
        /\ UNCHANGED <<presses, sessions, others, faults>>
        /\ said' \in {said, "cancelled"} /\ key' \in {key, NoKey}
    BY <1>1, <1>3 DEF ReceiveWrite, service, counts
  <2>2. calls' = [t \in Slots |->
          IF t = s THEN n
          ELSE IF Free(t) THEN NoCall ELSE [calls[t] EXCEPT !.behind = TRUE]]
    BY <1>3 DEF ReceiveWrite
  <2>3. /\ n \in Request /\ n # NoCall /\ n.op = "load" /\ n.tag = etag
        /\ n.answer = Null /\ n.heard
    <3>1. etag \in Tag /\ NoKey \in Nat
      BY DEF TypeOK, NoKey
    <3> QED
      BY <3>1, NewCall
  <2> HIDE DEF n
  <2>4. calls'[s] = n
    BY <2>2
  <2>5. ASSUME NEW t \in Slots \ {s}
        PROVE  /\ Free(t) => calls'[t] = NoCall
               /\ ~Free(t) => /\ calls'[t] \in Request /\ calls'[t].behind = TRUE
                              /\ calls'[t].op = calls[t].op /\ calls'[t].tag = calls[t].tag
                              /\ calls'[t].answer = calls[t].answer
                              /\ calls'[t].saw = calls[t].saw
    <3>1. CASE Free(t)
      BY <2>2, <3>1
    <3>2. CASE ~Free(t)
      <4>1. calls[t] \in Request /\ calls'[t] = [calls[t] EXCEPT !.behind = TRUE]
        BY <2>2, <3>2, CallType
      <4> QED
        BY <3>2, <4>1 DEF Request
    <3> QED
      BY <3>1, <3>2
  <2>6. told' \in Nat /\ told' <= order.version
    BY <1>1, <1>3, <2>1, CallType DEF CallsOK, CallOK, Waits
  <2>7. TypeOK'
    <3>1. calls' \in [Slots -> Request \cup {NoCall}]
      BY <2>2, <2>3, <2>4, <2>5
    <3>2. key' \in 0..issued'
      BY <2>1, OrderType DEF TypeOK, NoKey
    <3> QED
      BY <1>1, <2>1, <2>6, <3>1, <3>2 DEF TypeOK
  <2>8. ShownOK' /\ CountsOK'
    BY <2>1, <2>6 DEF ShownOK, CountsOK
  <2>9. CallsOK'
    <3> SUFFICES ASSUME NEW t \in Slots, ~Free(t)' PROVE CallOK(t)'
      BY DEF CallsOK
    <3>1. CASE t = s
      BY <2>1, <2>3, <2>4, <3>1 DEF CallOK, ShownOK
    <3>2. CASE t # s
      <4>1. ~Free(t) /\ CallOK(t)
        BY <2>5, <3>2 DEF CallsOK, Free
      <4> QED
        BY <2>1, <2>5, <3>2, <4>1 DEF CallOK
    <3> QED
      BY <3>1, <3>2
  <2>10. GoodOK'
    BY <2>1, <2>3, <2>4, <2>5 DEF GoodOK, Free
  <2>11. ShowsWhatItDid' /\ LoadingOK'
    BY <2>1, <2>3, <2>4 DEF ShowsWhatItDid, LoadingOK, Waits, Free
  <2> QED
    BY <2>7, <2>8, <2>9, <2>10, <2>11
<1> QED
  BY <1>2, <1>3

\* A broken connection: the call is not heard, and the rest as in FailedOK.
LEMMA BreakOK ==
  ASSUME IInv, NEW s \in Slots, Break(s)
  PROVE  IInv'
<1> USE DEF IInv
<1>1. /\ Waits(s) /\ calls' = [calls EXCEPT ![s].heard = FALSE]
      /\ UNCHANGED <<shown, etag, key, issued, told, crossed, order, records>>
      /\ UNCHANGED <<role, presses, sessions, others>> /\ faults' \in Nat
  BY DEF Break, Failed, service, TypeOK
<1>2. /\ \A t \in Slots \ {s} : calls'[t] = calls[t]
      /\ calls'[s] = [calls[s] EXCEPT !.heard = FALSE]
  BY <1>1 DEF TypeOK
<1>3. /\ calls[s] \in Request /\ calls'[s] \in Request
      /\ calls'[s].op = calls[s].op /\ calls'[s].tag = calls[s].tag
      /\ calls'[s].answer = calls[s].answer /\ calls'[s].behind = calls[s].behind
      /\ calls'[s].saw = calls[s].saw
  <2>1. calls[s] \in Request
    BY <1>1, CallType DEF Waits
  <2> QED
    BY <1>2, <2>1 DEF Request
<1>4. TypeOK'
  BY <1>1, <1>3 DEF TypeOK, Break, Failed
<1>5. ShownOK' /\ CountsOK'
  BY <1>1 DEF ShownOK, CountsOK
<1>6. CallsOK'
  <2> SUFFICES ASSUME NEW t \in Slots, ~Free(t)' PROVE CallOK(t)'
    BY DEF CallsOK
  <2>1. CallOK(t)
    BY <1>1, <1>2 DEF CallsOK, Free, Waits
  <2> QED
    BY <1>1, <1>2, <1>3, <2>1 DEF CallOK
<1>7. GoodOK'
  BY <1>1, <1>2, <1>3 DEF GoodOK, Good, Free, Waits
<1>8. ShowsWhatItDid'
  BY <1>1 DEF ShowsWhatItDid, Break, Failed
<1>9. LoadingOK'
  <2>1. CASE calls[s].op = "load"
    BY <2>1 DEF LoadingOK, Break, Failed
  <2>2. CASE calls[s].op # "load"
    BY <1>2, <2>2 DEF LoadingOK, Break, Failed, Waits, Free
  <2> QED
    BY <2>1, <2>2
<1> QED
  BY <1>4, <1>5, <1>6, <1>7, <1>8, <1>9

LEMMA VanishOK ==
  ASSUME IInv, NEW s \in Slots, Vanish(s)
  PROVE  IInv'
<1> USE DEF IInv
<1>1. /\ ~Free(s) /\ ~calls[s].heard /\ calls' = [calls EXCEPT ![s] = NoCall]
      /\ UNCHANGED <<shown, etag, state, said, key, issued, told, crossed, order, records>>
      /\ UNCHANGED <<role, presses, sessions, others, faults>>
  BY DEF Vanish, page, service, counts
<1>2. /\ calls' \in [Slots -> Request \cup {NoCall}]
      /\ Free(s)' /\ \A t \in Slots \ {s} : calls'[t] = calls[t]
  BY <1>1, Removed DEF service
<1>3. TypeOK' /\ ShownOK' /\ CountsOK'
  BY <1>1, <1>2 DEF TypeOK, ShownOK, CountsOK
<1>4. CallsOK' /\ GoodOK'
  BY <1>1, <1>2 DEF CallsOK, CallOK, GoodOK, Good, Free
<1>5. ShowsWhatItDid' /\ LoadingOK'
  BY <1>1, <1>2 DEF ShowsWhatItDid, LoadingOK, Waits, Free
<1> QED
  BY <1>3, <1>4, <1>5

-----------------------------------------------------------------------------
(***************************************************************************)
(* The service.                                                            *)
(***************************************************************************)
\* What every answer of the service leaves alone: it is of the row as it is,
\* which is no older than before.
LEMMA AnswerOK ==
  ASSUME IInv, NEW s \in Slots, Unserved(s),
         NEW status \in {"200", "304", "404", "409", "412", "500"},
         NEW row \in {order, order'}, Answer(s, status, row),
         order' \in Order, order.version <= order'.version,
         records' \in [1..MaxPresses -> {"none", "processing", "completed"}],
         UNCHANGED <<role, page, presses, sessions, others>>, faults' \in Nat,
         calls[s].op = "load" /\ status = "304" => calls[s].tag = row.version
  PROVE  IInv'
<1> USE DEF IInv
<1>1. UNCHANGED <<shown, etag, state, said, key, issued, told, crossed>>
  BY DEF page
<1> DEFINE a == [status |-> status, order |-> row]
<1>2. /\ order \in Order /\ row \in Order /\ row.version \in Nat /\ order.version \in Nat
      /\ order'.version \in Nat /\ told \in Nat /\ told <= order.version
      /\ row.version <= order'.version /\ order.version <= row.version
  BY OrderType DEF TypeOK, Order, CountsOK
<1>3. /\ a.status = status /\ a.order = row
      /\ a \in [status : {"200", "304", "404", "409", "412", "500"}, order : Order]
  BY <1>2
<1>4. calls' = [calls EXCEPT ![s].answer = a]
  BY DEF Answer
<1> HIDE DEF a
<1>5. /\ \A t \in Slots \ {s} : calls'[t] = calls[t]
      /\ calls'[s] = [calls[s] EXCEPT !.answer = a]
  BY <1>4 DEF TypeOK
<1>6. /\ calls[s] \in Request /\ calls'[s] \in Request
      /\ calls'[s].op = calls[s].op /\ calls'[s].tag = calls[s].tag
      /\ calls'[s].answer = a /\ calls'[s].behind = calls[s].behind
      /\ calls'[s].saw = calls[s].saw /\ calls'[s].heard = calls[s].heard
  BY <1>3, <1>5, CallType DEF Unserved, Request
<1>7. TypeOK'
  BY <1>1, <1>4, <1>6 DEF TypeOK
<1>8. ShownOK' /\ CountsOK'
  BY <1>1, <1>2 DEF ShownOK, CountsOK
<1>9. CallsOK'
  <2> SUFFICES ASSUME NEW t \in Slots, ~Free(t)' PROVE CallOK(t)'
    BY DEF CallsOK
  <2>1. CASE t = s
    <3>1. CallOK(s) /\ told <= row.version
      BY <1>2 DEF CallsOK, Unserved
    <3> QED
      BY <1>1, <1>2, <1>3, <1>6, <2>1, <3>1 DEF CallOK
  <2>2. CASE t # s
    <3>1. ~Free(t) /\ CallOK(t) /\ calls'[t] = calls[t]
      BY <1>5, <2>2 DEF CallsOK, Free
    <3>2. calls[t].answer # Null => calls[t].answer.order.version \in Nat
      BY <3>1, CallType
    <3> QED
      BY <1>1, <1>2, <3>1, <3>2 DEF CallOK
  <2> QED
    BY <2>1, <2>2
<1>10. GoodOK'
  BY <1>1, <1>5, <1>6 DEF GoodOK, Good, Free, Unserved
<1>11. ShowsWhatItDid'
  BY <1>1 DEF ShowsWhatItDid
<1>12. LoadingOK'
  BY <1>1, <1>5, <1>6 DEF LoadingOK, Waits, Free, NoCall, Request
<1> QED
  BY <1>7, <1>8, <1>9, <1>10, <1>11, <1>12

LEMMA WriteType ==
  ASSUME TypeOK, NEW status \in {"pending", "processing", "cancelled"},
         NEW outlet \in {"none", "ours", "theirs"}
  PROVE  /\ Write(status, outlet) \in Order
         /\ Write(status, outlet).version = order.version + 1
         /\ order.version <= Write(status, outlet).version
<1>1. order.version \in Nat
  BY OrderType
<1> QED
  BY <1>1 DEF Write, Order

LEMMA FulfilledType ==
  ASSUME TypeOK
  PROVE  /\ Fulfilled \in Order /\ order.version <= Fulfilled.version
         /\ [Fulfilled EXCEPT !.status = order.status] \in Order
         /\ [Fulfilled EXCEPT !.status = order.status].version = Fulfilled.version
<1>1. order \in Order /\ order.version \in Nat
      /\ order.status \in {"pending", "processing", "cancelled"}
  BY DEF TypeOK, Order
<1>2. Fulfilled \in Order /\ order.version <= Fulfilled.version
  BY <1>1, WriteType DEF Fulfilled
<1> QED
  BY <1>1, <1>2 DEF Order

LEMMA ServeLoadOK ==
  ASSUME IInv, NEW s \in Slots, ServeLoad(s)
  PROVE  IInv'
<1> DEFINE status == IF ~Reach THEN "404"
                     ELSE IF calls[s].tag = order.version THEN "304" ELSE "200"
<1>1. Unserved(s) /\ Answer(s, status, order) /\ UNCHANGED <<role, page, order, records, counts>>
  BY DEF ServeLoad, service
<1>2. /\ status \in {"200", "304", "404", "409", "412", "500"}
      /\ status = "304" => calls[s].tag = order.version
  OBVIOUS
<1> HIDE DEF status
<1>3. order \in Order /\ order.version \in Nat /\ faults \in Nat
      /\ records \in [1..MaxPresses -> {"none", "processing", "completed"}]
  BY OrderType DEF IInv, TypeOK
<1> QED
  BY <1>1, <1>2, <1>3, AnswerOK DEF counts

LEMMA ServeClaimOK ==
  ASSUME IInv, NEW s \in Slots, ServeClaim(s)
  PROVE  IInv'
<1>1. order \in Order /\ order.version \in Nat /\ faults \in Nat
      /\ records \in [1..MaxPresses -> {"none", "processing", "completed"}]
  BY OrderType DEF IInv, TypeOK
<1>2. /\ Unserved(s) /\ calls[s].op # "load"
      /\ UNCHANGED <<role, page, records, presses, sessions, others, faults>>
  BY DEF ServeClaim, counts
<1>3. order' \in Order /\ order.version <= order'.version
  BY <1>1, FulfilledType DEF ServeClaim, IInv
<1>4. \/ Answer(s, "404", order) \/ Answer(s, "412", order) \/ Answer(s, "200", order')
  BY DEF ServeClaim
<1> QED
  BY <1>1, <1>2, <1>3, <1>4, AnswerOK

LEMMA ServeCancelOK ==
  ASSUME IInv, NEW s \in Slots, ServeCancel(s)
  PROVE  IInv'
<1>1. order \in Order /\ order.version \in Nat /\ faults \in Nat
      /\ order.outlet \in {"none", "ours", "theirs"}
      /\ records \in [1..MaxPresses -> {"none", "processing", "completed"}]
  BY OrderType DEF IInv, TypeOK, Order
<1>2. /\ Unserved(s) /\ calls[s].op # "load"
      /\ UNCHANGED <<role, page, presses, sessions, others, faults>>
  BY DEF ServeCancel, counts
<1>3. CASE CancelVerdict(s) = "proceed"
  <2>1. /\ order' = Write("cancelled", order.outlet) /\ Answer(s, "200", order')
        /\ records' = [records EXCEPT ![calls[s].key] = "completed"]
    BY <1>3 DEF ServeCancel
  <2>2. order' \in Order /\ order.version <= order'.version
    BY <1>1, <2>1, WriteType DEF IInv
  <2>3. records' \in [1..MaxPresses -> {"none", "processing", "completed"}]
    BY <1>1, <2>1
  <2> QED
    BY <1>1, <1>2, <2>1, <2>2, <2>3, AnswerOK
<1>4. CASE CancelVerdict(s) = "replay"
  BY <1>1, <1>2, <1>4, AnswerOK DEF ServeCancel, service
<1>5. CASE CancelVerdict(s) \notin {"proceed", "replay"}
  <2>1. CancelVerdict(s) \in {"409", "412"}
    BY <1>5 DEF CancelVerdict
  <2>2. Answer(s, CancelVerdict(s), order) /\ UNCHANGED <<order, records>>
    BY <1>5 DEF ServeCancel, service
  <2> QED
    BY <1>1, <1>2, <2>1, <2>2, AnswerOK
<1> QED
  BY <1>3, <1>4, <1>5

LEMMA CrashOK ==
  ASSUME IInv, NEW s \in Slots, Crash(s)
  PROVE  IInv'
<1>1. order \in Order /\ order.version \in Nat /\ faults \in Nat
      /\ order.outlet \in {"none", "ours", "theirs"}
      /\ records \in [1..MaxPresses -> {"none", "processing", "completed"}]
  BY OrderType DEF IInv, TypeOK, Order
<1>2. /\ Unserved(s) /\ calls[s].op # "load" /\ faults' \in Nat /\ Answer(s, "500", order)
      /\ UNCHANGED <<role, page, presses, sessions, others>>
  BY <1>1 DEF Crash
<1>3. /\ order' \in Order /\ order.version <= order'.version
      /\ records' \in [1..MaxPresses -> {"none", "processing", "completed"}]
  <2>1. CASE /\ order' \in {order, Fulfilled, [Fulfilled EXCEPT !.status = order.status]}
             /\ UNCHANGED records
    <3> DEFINE half == [Fulfilled EXCEPT !.status = order.status]
    <3>1. /\ Fulfilled \in Order /\ order.version <= Fulfilled.version
          /\ half \in Order /\ order.version <= half.version
      BY FulfilledType DEF IInv
    <3>2. order' \in {order, Fulfilled, half}
      BY <2>1
    <3> HIDE DEF half
    <3>3. order' \in Order /\ order.version <= order'.version
      BY <1>1, <3>1, <3>2
    <3> QED
      BY <1>1, <2>1, <3>3
  <2>2. CASE /\ order' \in {order, Write("cancelled", order.outlet)}
             /\ records' = [records EXCEPT ![calls[s].key] = "processing"]
    <3>1. order' \in Order /\ order.version <= order'.version
      BY <1>1, <2>2, WriteType DEF IInv
    <3> QED
      BY <1>1, <2>2, <3>1
  <2> QED
    BY <2>1, <2>2 DEF Crash
<1> QED
  BY <1>1, <1>2, <1>3, AnswerOK

\* Somebody else writes: what was told stays behind the row.
LEMMA OtherWritesOK ==
  ASSUME IInv, OtherWrites
  PROVE  IInv'
<1> USE DEF IInv
<1>1. /\ UNCHANGED <<role, records, calls, presses, sessions, faults>> /\ others' \in Nat
      /\ UNCHANGED <<shown, etag, state, said, key, issued, told, crossed>>
  BY DEF OtherWrites, page, TypeOK
<1>2. order.outlet \in {"none", "ours", "theirs"} /\ order.version \in Nat /\ told \in Nat
      /\ told <= order.version
  BY OrderType DEF TypeOK, Order, CountsOK
<1>3. order' \in Order /\ order'.version = order.version + 1
  BY <1>2, WriteType DEF OtherWrites
<1>4. TypeOK' /\ ShownOK' /\ CountsOK'
  <2>1. told <= order'.version
    BY <1>2, <1>3
  <2> QED
    BY <1>1, <1>3, <2>1 DEF TypeOK, ShownOK, CountsOK
<1>5. CallsOK'
  <2> SUFFICES ASSUME NEW t \in Slots, ~Free(t) PROVE CallOK(t)'
    BY <1>1 DEF CallsOK, Free
  <2>1. CallOK(t)
    BY DEF CallsOK
  <2>2. calls[t].answer # Null => calls[t].answer.order.version \in Nat
    BY CallType
  <2> QED
    BY <1>1, <1>2, <1>3, <2>1, <2>2 DEF CallOK
<1>6. GoodOK' /\ ShowsWhatItDid' /\ LoadingOK'
  BY <1>1 DEF GoodOK, Good, Free, ShowsWhatItDid, LoadingOK, Waits
<1> QED
  BY <1>4, <1>5, <1>6

-----------------------------------------------------------------------------
LEMMA NextStep == IInv /\ [Next]_vars => IInv'
<1> SUFFICES ASSUME IInv, [Next]_vars PROVE IInv'
  OBVIOUS
<1>1. CASE OtherWrites
  BY <1>1, OtherWritesOK
<1>2. ASSUME NEW s \in Slots,
             Refresh(s) \/ SessionChanged(s) \/ claim(s) \/ cancel(s)
      PROVE  IInv'
  BY <1>2, RefreshOK, SessionChangedOK, ClaimOK, CancelOK
<1>3. ASSUME NEW s \in Slots,
             ReceiveLoad(s) \/ ReceiveWrite(s) \/ Break(s) \/ Vanish(s)
      PROVE  IInv'
  BY <1>3, ReceiveLoadOK, ReceiveWriteOK, BreakOK, VanishOK
<1>4. ASSUME NEW s \in Slots,
             ServeLoad(s) \/ ServeClaim(s) \/ ServeCancel(s) \/ Crash(s)
      PROVE  IInv'
  BY <1>4, ServeLoadOK, ServeClaimOK, ServeCancelOK, CrashOK
<1>5. CASE UNCHANGED vars
  <2>1. UNCHANGED <<role, order, records, shown, etag, state, said, key, issued, told,
                    crossed, calls, presses, sessions, others, faults>>
    BY <1>5 DEF vars, service, page, counts
  <2>2. TypeOK' /\ ShownOK' /\ CountsOK'
    BY <2>1 DEF IInv, TypeOK, ShownOK, CountsOK
  <2>3. CallsOK' /\ GoodOK'
    BY <2>1 DEF IInv, CallsOK, CallOK, GoodOK, Good, Free
  <2>4. ShowsWhatItDid' /\ LoadingOK'
    BY <2>1 DEF IInv, ShowsWhatItDid, LoadingOK, Waits, Free
  <2> QED
    BY <2>2, <2>3, <2>4 DEF IInv
<1> QED
  BY <1>1, <1>2, <1>3, <1>4, <1>5 DEF Next

(* The inductive invariant of the page of an order holds in every state. *)
THEOREM OrderPageInvariance == Spec => []IInv
BY InitOK, NextStep, PTL DEF Spec

(* The page, its requests and the row keep the shapes the code gives them. *)
THEOREM OrderPageTypes == Spec => []TypeOK
<1>1. IInv => TypeOK
  BY DEF IInv
<1> QED
  BY <1>1, OrderPageInvariance, PTL

-----------------------------------------------------------------------------
(***************************************************************************)
(* Where a page that never had its order ends.                             *)
(***************************************************************************)
\* A load that was answered with an error found the order at another outlet.
LoadAnswerOK(s) ==
  calls[s].op = "load" /\ calls[s].answer # Null =>
    calls[s].answer.status \in {"200", "304"} \/ ~Reach

FailureOK ==
  /\ \A s \in Slots : ~Free(s) => LoadAnswerOK(s)
  /\ state = "content" => shown # Null
  /\ state = "error" => faults > 0 \/ ~Reach

LEMMA FailureInit == Init => FailureOK
<1> SUFFICES ASSUME Init PROVE FailureOK
  OBVIOUS
<1> USE DEF Init
<1>1. PICK s \in Slots : calls = [t \in Slots |->
        IF t = s THEN Call("load", Null, NoKey) ELSE NoCall]
  OBVIOUS
<1>2. Call("load", Null, NoKey).answer = Null
  BY DEF Call
<1> QED
  BY <1>1, <1>2 DEF FailureOK, LoadAnswerOK, Free

\* An order that is another outlet's stays with it.
LEMMA OutOfReach ==
  ASSUME IInv, [Next]_vars
  PROVE  ~Reach => ~Reach'
<1> SUFFICES ASSUME ~Reach PROVE ~Reach'
  OBVIOUS
<1>1. order.outlet = "theirs" /\ role # "customer" /\ order \in Order
  BY DEF Reach, IInv, TypeOK, Order
<1>2. role' = role
  BY DEF Next, OtherWrites, Refresh, SessionChanged, claim, cancel, ReceiveLoad, ReceiveWrite,
         Break, Vanish, ServeLoad, ServeClaim, ServeCancel, Crash, Press, vars
<1>3. order'.outlet = "theirs"
  <2>1. CASE OtherWrites
    BY <1>1, <2>1 DEF OtherWrites, Write
  <2>2. ASSUME NEW s \in Slots, ServeClaim(s) \/ ServeCancel(s) \/ Crash(s)
        PROVE  order'.outlet = "theirs"
    BY <1>1, <2>2 DEF ServeClaim, ServeCancel, Crash, Write, service
  <2>3. ASSUME NEW s \in Slots,
               \/ Refresh(s) \/ SessionChanged(s) \/ claim(s) \/ cancel(s) \/ ReceiveLoad(s)
               \/ ReceiveWrite(s) \/ Break(s) \/ Vanish(s) \/ ServeLoad(s)
        PROVE  order'.outlet = "theirs"
    BY <1>1, <2>3 DEF Refresh, SessionChanged, claim, cancel, ReceiveLoad, ReceiveWrite, Break,
                      Vanish, ServeLoad, Press, service
  <2>4. CASE UNCHANGED vars
    BY <1>1, <2>4 DEF vars, service
  <2> QED
    BY <2>1, <2>2, <2>3, <2>4 DEF Next
<1> QED
  BY <1>1, <1>2, <1>3 DEF Reach

\* A call that is new, or keeps its answer, keeps the invariant.
LEMMA AnswersKept ==
  ASSUME IInv, FailureOK, ~Reach => ~Reach',
         \A t \in Slots : ~Free(t)' => \/ calls'[t].answer = Null
                                       \/ calls'[t].op # "load"
                                       \/ /\ ~Free(t) /\ calls'[t].op = calls[t].op
                                          /\ calls'[t].answer = calls[t].answer
  PROVE  \A t \in Slots : ~Free(t)' => LoadAnswerOK(t)'
<1> SUFFICES ASSUME NEW t \in Slots, ~Free(t)' PROVE LoadAnswerOK(t)'
  OBVIOUS
<1> QED
  BY DEF FailureOK, LoadAnswerOK

LEMMA FailureStep ==
  ASSUME IInv, FailureOK, [Next]_vars
  PROVE  FailureOK'
<1>1. ~Reach => ~Reach'
  BY OutOfReach
<1>2. faults \in Nat /\ calls \in [Slots -> Request \cup {NoCall}]
  BY DEF IInv, TypeOK
<1>3. ASSUME NEW s \in Slots, Refresh(s) \/ SessionChanged(s) \/ claim(s) \/ cancel(s)
      PROVE  FailureOK'
  <2>1. PICK op, tag, k : calls' = [calls EXCEPT ![s] = Call(op, tag, k)]
    BY <1>3 DEF Refresh, SessionChanged, claim, cancel, load
  <2>2. Call(op, tag, k).answer = Null
    BY DEF Call
  <2>3. /\ state' \in {"loading", state} /\ shown' = shown /\ faults' = faults
    BY <1>3 DEF Refresh, SessionChanged, claim, cancel, load, page, Press
  <2>4. \A t \in Slots : calls'[t] = IF t = s THEN Call(op, tag, k) ELSE calls[t]
    BY <1>2, <2>1
  <2>5. \A t \in Slots : ~Free(t)' => LoadAnswerOK(t)'
    BY <1>1, <2>2, <2>4, AnswersKept DEF Free
  <2> QED
    BY <1>1, <2>3, <2>5 DEF FailureOK
<1>4. ASSUME NEW s \in Slots, ReceiveLoad(s)
      PROVE  FailureOK'
  <2>1. /\ calls' = [calls EXCEPT ![s] = NoCall] /\ faults' = faults
        /\ ~Free(s) /\ calls[s].op = "load" /\ calls[s].answer # Null
    BY <1>4 DEF ReceiveLoad, Waits, counts
  <2>2. \A t \in Slots : calls'[t] = IF t = s THEN NoCall ELSE calls[t]
    BY <1>2, <2>1
  <2>3. \A t \in Slots : ~Free(t)' => LoadAnswerOK(t)'
    BY <1>1, <2>2, AnswersKept DEF Free
  <2>4. CASE calls[s].answer.status \notin {"200", "304"}
    <3>1. ~Reach
      BY <2>1, <2>4 DEF FailureOK, LoadAnswerOK
    <3>2. state' = "error"
      BY <1>4, <2>4 DEF ReceiveLoad, Failed
    <3> QED
      BY <1>1, <2>3, <3>1, <3>2 DEF FailureOK
  <2>5. CASE calls[s].answer.status \in {"200", "304"}
    <3>1. state' = "content"
      BY <1>4, <2>5 DEF ReceiveLoad
    <3>2. calls[s].answer.order \in Order /\ calls[s].answer.order.version \in Nat
      BY <2>1, CallType DEF IInv
    <3>3. CASE calls[s].answer.status = "304"
      <4>1. calls[s].tag # Null
        BY <2>1, <3>2, <3>3, NullAssumption DEF IInv, CallsOK, CallOK
      <4>2. shown # Null
        BY <2>1, <4>1 DEF IInv, CallsOK, CallOK
      <4> QED
        BY <1>4, <2>3, <3>1, <3>3, <4>2 DEF ReceiveLoad, FailureOK
    <3>4. CASE calls[s].answer.status = "200"
      BY <1>4, <2>3, <3>1, <3>2, <3>4, NullAssumption DEF ReceiveLoad, FailureOK
    <3> QED
      BY <2>5, <3>3, <3>4
  <2> QED
    BY <2>4, <2>5
<1>5. ASSUME NEW s \in Slots, ReceiveWrite(s)
      PROVE  FailureOK'
  <2>1. /\ ~Free(s) /\ calls[s].op # "load" /\ shown' = shown /\ faults' = faults
        /\ state' \in {"loading", state}
    BY <1>5 DEF ReceiveWrite, Waits, counts, Failed
  <2>2. CASE calls[s].answer.status = "200"
    <3> DEFINE n == Call("load", etag, NoKey)
    <3>1. n.answer = Null
      BY DEF Call
    <3>2. calls' = [t \in Slots |->
            IF t = s THEN n
            ELSE IF Free(t) THEN NoCall ELSE [calls[t] EXCEPT !.behind = TRUE]]
      BY <1>5, <2>2 DEF ReceiveWrite
    <3> HIDE DEF n
    <3>3. ASSUME NEW t \in Slots \ {s}, ~Free(t)'
          PROVE  /\ ~Free(t) /\ calls'[t].op = calls[t].op
                 /\ calls'[t].answer = calls[t].answer
      <4>1. ~Free(t)
        BY <3>2, <3>3 DEF Free
      <4>2. calls[t] \in Request /\ calls'[t] = [calls[t] EXCEPT !.behind = TRUE]
        BY <3>2, <4>1, CallType DEF IInv
      <4> QED
        BY <4>1, <4>2 DEF Request
    <3>4. calls'[s].answer = Null
      BY <3>1, <3>2
    <3>5. \A t \in Slots : ~Free(t)' => LoadAnswerOK(t)'
      BY <1>1, <3>3, <3>4, AnswersKept
    <3> QED
      BY <1>1, <2>1, <3>5 DEF FailureOK
  <2>3. CASE calls[s].answer.status # "200"
    <3>1. calls' = [calls EXCEPT ![s] = NoCall]
      BY <1>5, <2>3 DEF ReceiveWrite
    <3>2. \A t \in Slots : calls'[t] = IF t = s THEN NoCall ELSE calls[t]
      BY <1>2, <3>1
    <3>3. \A t \in Slots : ~Free(t)' => LoadAnswerOK(t)'
      BY <1>1, <3>2, AnswersKept DEF Free
    <3> QED
      BY <1>1, <2>1, <3>3 DEF FailureOK
  <2> QED
    BY <2>2, <2>3
<1>6. ASSUME NEW s \in Slots, Break(s)
      PROVE  FailureOK'
  <2>1. /\ ~Free(s) /\ calls' = [calls EXCEPT ![s].heard = FALSE] /\ shown' = shown
        /\ faults' = faults + 1 /\ state' \in {"error", state}
    BY <1>6 DEF Break, Failed, Waits
  <2>2. calls[s] \in Request
    BY <2>1, CallType DEF IInv
  <2>3. \A t \in Slots : /\ t # s => calls'[t] = calls[t]
                         /\ t = s => calls'[t] = [calls[s] EXCEPT !.heard = FALSE]
    BY <1>2, <2>1
  <2>4. \A t \in Slots : ~Free(t)' => /\ ~Free(t) /\ calls'[t].op = calls[t].op
                                      /\ calls'[t].answer = calls[t].answer
    BY <2>1, <2>2, <2>3 DEF Free, Request
  <2>5. \A t \in Slots : ~Free(t)' => LoadAnswerOK(t)'
    BY <1>1, <2>4, AnswersKept
  <2> QED
    BY <1>2, <2>1, <2>5 DEF FailureOK
<1>7. ASSUME NEW s \in Slots, Vanish(s)
      PROVE  FailureOK'
  <2>1. calls' = [calls EXCEPT ![s] = NoCall] /\ UNCHANGED <<state, shown, faults>>
    BY <1>7 DEF Vanish, page, counts
  <2>2. \A t \in Slots : calls'[t] = IF t = s THEN NoCall ELSE calls[t]
    BY <1>2, <2>1
  <2>3. \A t \in Slots : ~Free(t)' => LoadAnswerOK(t)'
    BY <1>1, <2>2, AnswersKept DEF Free
  <2> QED
    BY <1>1, <2>1, <2>3 DEF FailureOK
<1>8. ASSUME NEW s \in Slots, ServeLoad(s)
      PROVE  FailureOK'
  <2> DEFINE status == IF ~Reach THEN "404"
                       ELSE IF calls[s].tag = order.version THEN "304" ELSE "200"
             a == [status |-> status, order |-> order]
  <2>1. /\ calls' = [calls EXCEPT ![s].answer = a] /\ UNCHANGED <<state, shown, faults>>
        /\ ~Free(s)
    BY <1>8 DEF ServeLoad, Answer, Unserved, page, counts
  <2>2. a.status \in {"200", "304"} \/ ~Reach
    OBVIOUS
  <2> HIDE DEF a
  <2>3. calls[s] \in Request
    BY <2>1, CallType DEF IInv
  <2>4. calls'[s].answer = a /\ \A t \in Slots \ {s} : calls'[t] = calls[t]
    BY <1>2, <2>1, <2>3 DEF Request
  <2>5. ASSUME NEW t \in Slots, ~Free(t)' PROVE LoadAnswerOK(t)'
    <3>1. CASE t = s
      BY <1>1, <2>2, <2>4, <3>1 DEF LoadAnswerOK
    <3>2. CASE t # s
      BY <1>1, <2>4, <2>5, <3>2 DEF LoadAnswerOK, FailureOK, Free
    <3> QED
      BY <3>1, <3>2
  <2> QED
    BY <1>1, <2>1, <2>5 DEF FailureOK
<1>9. ASSUME NEW s \in Slots, ServeClaim(s) \/ ServeCancel(s) \/ Crash(s)
      PROVE  FailureOK'
  <2>1. PICK status, row : Answer(s, status, row)
    BY <1>9 DEF ServeClaim, ServeCancel, Crash
  <2>2. /\ ~Free(s) /\ calls[s].op # "load" /\ UNCHANGED <<state, shown>>
        /\ faults' \in {faults, faults + 1}
    BY <1>9 DEF ServeClaim, ServeCancel, Crash, Unserved, page, counts
  <2>3. calls[s] \in Request
    BY <2>2, CallType DEF IInv
  <2>4. calls'[s].op = calls[s].op /\ \A t \in Slots \ {s} : calls'[t] = calls[t]
    BY <1>2, <2>1, <2>3 DEF Answer, Request
  <2>5. \A t \in Slots : ~Free(t)' => LoadAnswerOK(t)'
    BY <1>1, <2>2, <2>4, AnswersKept DEF Free
  <2>6. faults > 0 => faults' > 0
    BY <1>2, <2>2
  <2> QED
    BY <1>1, <2>2, <2>5, <2>6 DEF FailureOK
<1>10. CASE OtherWrites \/ UNCHANGED vars
  <2>1. UNCHANGED <<calls, state, shown, faults>>
    BY <1>10 DEF OtherWrites, vars, page, counts
  <2>2. \A t \in Slots : ~Free(t)' => LoadAnswerOK(t)'
    BY <1>1, <2>1, AnswersKept DEF Free
  <2> QED
    BY <1>1, <2>1, <2>2 DEF FailureOK
<1> QED
  BY <1>3, <1>4, <1>5, <1>6, <1>7, <1>8, <1>9, <1>10 DEF Next

(* However many loads, presses, writers and faults there are, a page that says
   it is loading waits for a load, or never had the order and will not get it:
   something was lost on the way, or another outlet has the order (setState of
   load and of its answers; what is rendered while there is no order). *)
THEOREM LoadingIsAlwaysTrue == Spec => []LoadingIsTrue
<1>1. IInv /\ FailureOK => LoadingIsTrue
  BY DEF IInv, TypeOK, LoadingOK, FailureOK, LoadingIsTrue, SaysLoading
<1>2. IInv /\ FailureOK /\ [Next]_vars => (IInv /\ FailureOK)'
  BY NextStep, FailureStep
<1> QED
  BY <1>1, <1>2, InitOK, FailureInit, PTL DEF Spec

(* However many loads overlap, an order on the screen older than a success that
   was told was brought by a load asked for before it (nothing gives up a load
   that is on its way when a success is heard). *)
THEOREM ShowsWhatWasTold == Spec => []ShowsWhatItDid
<1>1. IInv => ShowsWhatItDid
  BY DEF IInv
<1> QED
  BY <1>1, OrderPageInvariance, PTL

\* The step of the service for one request touches that request alone, and
\* writes only in the version the request carries.
LEMMA NoBlindStep ==
  ASSUME IInv, [Next]_vars, NEW s \in Slots, order' # order, Unserved(s),
         calls'[s] # calls[s]
  PROVE  calls[s].saw = order.version
<1>1. /\ calls[s].op # "load" => calls[s].tag \in Nat /\ calls[s].saw = calls[s].tag
      /\ Matches(s) /\ calls[s].tag \in Nat => calls[s].tag = order.version
  BY NullAssumption DEF IInv, CallsOK, CallOK, Unserved, Matches
<1>2. CASE OtherWrites
  BY <1>2 DEF OtherWrites
<1>3. ASSUME NEW t \in Slots,
             \/ Refresh(t) \/ SessionChanged(t) \/ claim(t) \/ cancel(t) \/ ReceiveLoad(t)
             \/ ReceiveWrite(t) \/ Break(t) \/ Vanish(t) \/ ServeLoad(t)
      PROVE  FALSE
  BY <1>3 DEF Refresh, SessionChanged, claim, cancel, ReceiveLoad, ReceiveWrite, Break,
              Vanish, ServeLoad, Press, service
<1>4. ASSUME NEW t \in Slots, ServeClaim(t) \/ ServeCancel(t) \/ Crash(t)
      PROVE  t = s
  <2>1. \E status, row : Answer(t, status, row)
    BY <1>4 DEF ServeClaim, ServeCancel, Crash
  <2>2. PICK status, row : calls' = [calls EXCEPT ![t].answer = [status |-> status, order |-> row]]
    BY <2>1 DEF Answer
  <2> QED
    BY <2>2 DEF IInv, TypeOK
<1>5. ASSUME NEW t \in Slots, ServeClaim(t) \/ ServeCancel(t) \/ Crash(t)
      PROVE  Matches(t) /\ calls[t].op # "load"
  <2>1. CancelVerdict(t) = "proceed" => Matches(t)
    BY DEF CancelVerdict
  <2> QED
    BY <1>5, <2>1 DEF ServeClaim, ServeCancel, Crash, service
<1>6. CASE UNCHANGED vars
  BY <1>6 DEF vars, service
<1>7. CASE \E t \in Slots : ServeClaim(t) \/ ServeCancel(t) \/ Crash(t)
  BY <1>1, <1>4, <1>5, <1>7
<1> QED
  BY <1>2, <1>3, <1>6, <1>7 DEF Next

(* However late a request arrives and whichever load answered last, a claim or a
   cancellation changes the order only in the version that was on the screen
   when the button was pressed (etag.current of order-detail-section.tsx and the
   If-Match checks of orders.js). *)
THEOREM WritesWhatWasSeen == Spec => NoBlindWrite
<1>1. IInv /\ [Next]_vars =>
        [\A s \in Slots :
           order' # order /\ Unserved(s) /\ calls'[s] # calls[s] =>
             calls[s].saw = order.version]_<<order, calls>>
  BY NoBlindStep
<1> QED
  BY <1>1, OrderPageInvariance, PTL DEF NoBlindWrite, Spec
=============================================================================
