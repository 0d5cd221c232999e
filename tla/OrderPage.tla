----------------------------- MODULE OrderPage -----------------------------
(***************************************************************************)
(* The page of one order in the web client: it loads the order, lets staff *)
(* take it in and the customer cancel it under the ETag of what it shows,  *)
(* and loads again after a success (order-detail-section.tsx, and what the *)
(* cancellation and fulfilment handlers of orders.js do with such a        *)
(* request).  Loads and writes overlap, answers arrive in any order or not *)
(* at all, and other people write the order meanwhile.                     *)
(*                                                                         *)
(* That a version never comes back is NoLostUpdate of LaundryProperties;   *)
(* here it is a number.                                                    *)
(***************************************************************************)
EXTENDS Naturals

CONSTANTS
  Slots,       \* requests of the page that may be under way together
  Null,
  MaxPresses,  \* bounds: buttons pressed,
  MaxSessions, \*   sessions stored by other tabs, each of which loads again,
  MaxOthers,   \*   writes of other people,
  MaxFaults    \*   requests or answers lost, handlers that crash

ASSUME BoundsAssumption ==
  /\ MaxPresses \in Nat /\ MaxSessions \in Nat /\ MaxOthers \in Nat /\ MaxFaults \in Nat

Order == [version : Nat, status : {"pending", "processing", "cancelled"},
          outlet : {"none", "ours", "theirs"}]

ASSUME NullAssumption == Null \notin Order \cup Nat

VARIABLES
  role,      \* "staff" or "customer"
  order,     \* service: the row
  records,   \* service: cancellation keys, "processing" or "completed"
  shown, etag, state, said,   \* the page: order, ref, state and message
  key, issued,                \* cancellationKey, and keys generated so far
  calls,     \* the requests under way
  told,      \* history: the version of the row when the last success was answered
  crossed,   \* history: the last load answer shown was asked for before it
  presses, sessions, others, faults

page    == <<shown, etag, state, said, key, issued, told, crossed>>
service == <<order, records>>
counts  == <<presses, sessions, others, faults>>
vars    == <<role, service, page, calls, counts>>

NoKey  == 0
NoCall == [op |-> "none"]

\* What the page sends; saw is the version on the screen, behind whether a
\* success was heard since.
Call(op, tag, k) ==
  [op |-> op, tag |-> tag, key |-> k, heard |-> TRUE, behind |-> FALSE, answer |-> Null,
   saw |-> IF shown = Null THEN 0 ELSE shown.version]

Free(s)    == calls[s] = NoCall
Waits(s)   == ~Free(s) /\ calls[s].heard
Unserved(s) == ~Free(s) /\ calls[s].answer = Null

Init ==
  /\ role \in {"staff", "customer"}
  /\ order = [version |-> 1, status |-> "pending", outlet |-> "none"]
  /\ records = [k \in 1..MaxPresses |-> "none"]
  /\ shown = Null /\ etag = Null /\ state = "loading" /\ said = "nothing"
  /\ key = NoKey /\ issued = 0 /\ told = 0 /\ crossed = FALSE
  \* the load of the effect
  /\ \E s \in Slots : calls = [t \in Slots |->
       IF t = s THEN Call("load", Null, NoKey) ELSE NoCall]
  /\ presses = 0 /\ sessions = 0 /\ others = 0 /\ faults = 0

(***************************************************************************)
(* The page.                                                               *)
(***************************************************************************)
load(s) ==
  /\ state' = "loading"
  /\ calls' = [calls EXCEPT ![s] = Call("load", etag, NoKey)]

Press == presses < MaxPresses /\ presses' = presses + 1
           /\ UNCHANGED <<role, service, sessions, others, faults>>

\* "Segarkan", or "Coba lagi"; a page that has no order yet offers neither.
Refresh(s) ==
  /\ Free(s) /\ Press
  /\ shown # Null /\ state \in {"content", "error"}
  /\ load(s)
  /\ UNCHANGED <<shown, etag, said, key, issued, told, crossed>>

\* Another tab stores a session: load is a new function, and its effect runs.
SessionChanged(s) ==
  /\ Free(s) /\ sessions < MaxSessions /\ sessions' = sessions + 1
  /\ load(s)
  /\ UNCHANGED <<role, service, shown, etag, said, key, issued, told, crossed,
                 presses, others, faults>>

Offered(to) == role = to /\ shown # Null /\ state = "content" /\ shown.status = "pending"

\* Mutant: the claim is sent without If-Match.
claimUnconditionally(s) ==
  /\ Free(s) /\ Press /\ Offered("staff")
  /\ calls' = [calls EXCEPT ![s] = Call("claim", Null, NoKey)]
  /\ UNCHANGED page

claim(s) ==
  /\ Free(s) /\ Press /\ Offered("staff")
  /\ calls' = [calls EXCEPT ![s] = Call("claim", etag, NoKey)]
  /\ UNCHANGED page

cancel(s) ==
  /\ Free(s) /\ Press /\ Offered("customer")
  /\ IF key = NoKey THEN key' = issued + 1 /\ issued' = issued + 1
                    ELSE UNCHANGED <<key, issued>>
  /\ calls' = [calls EXCEPT ![s] = Call("cancel", etag, key')]
  /\ UNCHANGED <<shown, etag, state, said, told, crossed>>

\* Mutant: the message of a failed load replaces its state.
FailedSilently(s) ==
  /\ said' = "error"
  /\ UNCHANGED <<state, shown, etag, key, issued, told, crossed>>

\* An error: of a load it is the state of the page, of a write its message.
Failed(s) ==
  /\ IF calls[s].op = "load" THEN state' = "error" /\ UNCHANGED said
                             ELSE said' = "error" /\ UNCHANGED state
  /\ UNCHANGED <<shown, etag, key, issued, told, crossed>>

ReceiveLoad(s) ==
  LET c == calls[s] IN
  /\ Waits(s) /\ c.op = "load" /\ c.answer # Null
  /\ IF c.answer.status \in {"200", "304"}
       THEN /\ state' = "content"
            /\ IF c.answer.status = "304"
               THEN crossed' = (crossed \/ c.behind) /\ UNCHANGED <<shown, etag>>
               ELSE /\ shown' = c.answer.order /\ etag' = c.answer.order.version
                    /\ crossed' = c.behind
            /\ UNCHANGED <<said, key, issued, told>>
       ELSE Failed(s)
  /\ calls' = [calls EXCEPT ![s] = NoCall]
  /\ UNCHANGED <<role, service, counts>>

\* Mutant: the page does not load the order again.
ReceiveWriteOnly(s) ==
  LET c == calls[s] IN
  /\ Waits(s) /\ c.op # "load" /\ c.answer # Null
  /\ calls' = [calls EXCEPT ![s] = NoCall]
  /\ IF c.answer.status = "200"
       THEN /\ told' = c.answer.order.version /\ UNCHANGED <<shown, etag, state, crossed>>
            /\ IF c.op = "cancel" THEN key' = NoKey /\ said' = "cancelled"
                                  ELSE UNCHANGED <<key, said>>
            /\ UNCHANGED issued
       ELSE Failed(s)
  /\ UNCHANGED <<role, service, counts>>

\* A success loads the order again; loads on their way by then are behind.
ReceiveWrite(s) ==
  LET c == calls[s] IN
  /\ Waits(s) /\ c.op # "load" /\ c.answer # Null
  /\ IF c.answer.status = "200"
       THEN /\ told' = c.answer.order.version /\ state' = "loading"
            /\ calls' = [t \in Slots |->
                 IF t = s THEN Call("load", etag, NoKey)
                 ELSE IF Free(t) THEN NoCall ELSE [calls[t] EXCEPT !.behind = TRUE]]
            /\ IF c.op = "cancel" THEN key' = NoKey /\ said' = "cancelled"
                                  ELSE UNCHANGED <<key, said>>
            /\ UNCHANGED <<shown, etag, issued, crossed>>
       ELSE Failed(s) /\ calls' = [calls EXCEPT ![s] = NoCall]
  /\ UNCHANGED <<role, service, counts>>

(***************************************************************************)
(* The service.                                                            *)
(***************************************************************************)
Reach == role = "customer" \/ order.outlet \in {"none", "ours"}

Write(status, outlet) ==
  [version |-> order.version + 1, status |-> status, outlet |-> outlet]

Answer(s, status, row) ==
  calls' = [calls EXCEPT ![s].answer = [status |-> status, order |-> row]]

ServeLoad(s) ==
  /\ Unserved(s) /\ calls[s].op = "load"
  /\ Answer(s, IF ~Reach THEN "404"
               ELSE IF calls[s].tag = order.version THEN "304" ELSE "200", order)
  /\ UNCHANGED <<role, service, page, counts>>

Matches(s) == calls[s].tag \in {Null, order.version}

\* A fulfilment of an order that is ours and in process writes nothing.
Fulfilled == IF order.status = "processing" /\ order.outlet = "ours" THEN order
             ELSE Write("processing", "ours")

ServeClaim(s) ==
  /\ Unserved(s) /\ calls[s].op = "claim"
  /\ IF ~Reach THEN Answer(s, "404", order) /\ UNCHANGED order
     ELSE IF ~Matches(s) THEN Answer(s, "412", order) /\ UNCHANGED order
     ELSE order' = Fulfilled /\ Answer(s, "200", order')
  /\ UNCHANGED <<role, records, page, counts>>

CancelVerdict(s) ==
  LET record == records[calls[s].key] IN
  IF record = "completed"             THEN "replay"
  ELSE IF record = "processing"       THEN "409"
  ELSE IF ~Matches(s)                 THEN "412"
  ELSE IF order.status # "pending"    THEN "409"
  ELSE "proceed"

ServeCancel(s) ==
  /\ Unserved(s) /\ calls[s].op = "cancel"
  /\ CASE CancelVerdict(s) = "proceed" ->
            /\ order' = Write("cancelled", order.outlet)
            /\ records' = [records EXCEPT ![calls[s].key] = "completed"]
            /\ Answer(s, "200", order')
       [] CancelVerdict(s) = "replay" -> Answer(s, "200", order) /\ UNCHANGED service
       [] OTHER -> Answer(s, CancelVerdict(s), order) /\ UNCHANGED service
  /\ UNCHANGED <<role, page, counts>>

\* A statement fails or the process dies in the middle of a write.
Crash(s) ==
  /\ Unserved(s) /\ faults < MaxFaults /\ faults' = faults + 1
  /\ \/ /\ calls[s].op = "claim" /\ Reach /\ Matches(s)
        /\ order' \in {order, Fulfilled, [Fulfilled EXCEPT !.status = order.status]}
        /\ UNCHANGED records
     \/ /\ calls[s].op = "cancel" /\ CancelVerdict(s) = "proceed"
        /\ order' \in {order, Write("cancelled", order.outlet)}
        /\ records' = [records EXCEPT ![calls[s].key] = "processing"]
  /\ Answer(s, "500", order)
  /\ UNCHANGED <<role, page, presses, sessions, others>>

(***************************************************************************)
(* Everything else.                                                        *)
(***************************************************************************)
\* The connection breaks; the service may still get, or have got, the request.
Break(s) ==
  /\ Waits(s) /\ faults < MaxFaults /\ faults' = faults + 1
  /\ calls' = [calls EXCEPT ![s].heard = FALSE]
  /\ Failed(s)
  /\ UNCHANGED <<role, service, presses, sessions, others>>

Vanish(s) ==
  /\ ~Free(s) /\ ~calls[s].heard
  /\ calls' = [calls EXCEPT ![s] = NoCall]
  /\ UNCHANGED <<role, service, page, counts>>

\* Staff of an outlet take the order in, the customer cancels it elsewhere.
OtherWrites ==
  /\ others < MaxOthers /\ others' = others + 1
  /\ \/ \E outlet \in {"ours", "theirs"} :
          /\ order.outlet \in {"none", outlet}
          /\ order' = Write("processing", outlet)
     \/ order.status = "pending" /\ order' = Write("cancelled", order.outlet)
  /\ UNCHANGED <<role, records, page, calls, presses, sessions, faults>>

Next ==
  \/ OtherWrites
  \/ \E s \in Slots :
       \/ Refresh(s) \/ SessionChanged(s) \/ claim(s) \/ cancel(s)
       \/ ReceiveLoad(s) \/ ReceiveWrite(s) \/ Break(s) \/ Vanish(s)
       \/ ServeLoad(s) \/ ServeClaim(s) \/ ServeCancel(s) \/ Crash(s)

Spec == Init /\ [][Next]_vars

-----------------------------------------------------------------------------
Tag == Nat \cup {Null}

Request ==
  [op : {"load", "claim", "cancel"}, tag : Tag, key : Nat, heard : BOOLEAN,
   behind : BOOLEAN, saw : Nat,
   answer : {Null} \cup [status : {"200", "304", "404", "409", "412", "500"},
                         order : Order]]

\* The page, its requests and the row have the shapes the code gives them.
TypeOK ==
  /\ role \in {"staff", "customer"} /\ order \in Order
  /\ records \in [1..MaxPresses -> {"none", "processing", "completed"}]
  /\ shown \in Order \cup {Null} /\ etag \in Tag
  /\ state \in {"loading", "error", "content"}
  /\ said \in {"nothing", "cancelled", "error"}
  /\ key \in 0..issued /\ issued \in 0..MaxPresses
  /\ told \in Nat /\ crossed \in BOOLEAN
  /\ calls \in [Slots -> Request \cup {NoCall}]
  /\ presses \in Nat /\ sessions \in Nat /\ others \in Nat /\ faults \in Nat

(* A claim or a cancellation changes the order only in the version that was on
   the screen when the button was pressed, whichever of several loads answered
   last and however late the request arrives (etag.current and If-Match). *)
NoBlindWrite ==
  [][\A s \in Slots :
       order' # order /\ Unserved(s) /\ calls'[s] # calls[s] =>
         calls[s].saw = order.version]_<<order, calls>>

(* After a success the page shows the order as that success left it or later,
   unless a load that was already on its way when the success was heard answers
   after the one that follows it (no load is ever given up). *)
ShowsWhatItDid ==
  state = "content" /\ shown # Null /\ shown.version < told => crossed

\* What is rendered: `state === 'loading' || !order` comes before the error.
SaysLoading == state = "loading" \/ shown = Null

(* The page says it is loading while a load is on its way; or in vain, with no
   button to press, when it never had the order: its first loads failed, because
   something was lost on the way or because the order has gone to another outlet.
   A page that has the order never says so in vain. *)
LoadingIsTrue ==
  SaysLoading /\ ~(\E s \in Slots : Waits(s) /\ calls[s].op = "load") =>
    shown = Null /\ state = "error" /\ (faults > 0 \/ ~Reach)
=============================================================================
