------------------------ MODULE LaundryServiceProofs ------------------------
(***************************************************************************)
(* Theorems about LaundryService for every set of callers, orders, pickups,*)
(* keys and screens and every retention period.  The invariant IInv of     *)
(* LaundryProperties is inductive; each of its parts has a lemma that says *)
(* that no step breaks it, with one step per action.                       *)
(***************************************************************************)
EXTENDS LaundryProperties, FiniteSetTheorems, TLAPS

(***************************************************************************)
(* What a request of each operation carries: what every request that is    *)
(* sent has, and what one has that is admitted.                            *)
(***************************************************************************)
Sent(r) ==
  /\ r \in Request
  /\ r.op = "create"   => r.key \in Keys /\ r.order = Null
  /\ r.op = "cancel"   => r.key \in Keys /\ r.order \in OrderIds
  /\ r.op = "fulfil"   => r.key = Null /\ r.order \in OrderIds
  /\ r.op = "dispatch" => r.key \in Keys /\ r.order = r.body.order
  /\ r.op = "collect"  => r.key = Null /\ r.order = Null /\ r.pickup \in PickupIds

Shape(r) ==
  /\ Sent(r)
  /\ r.op = "create"   => r.body.customer \in DomainIds
  /\ r.op = "dispatch" => r.order \in OrderIds /\ r.body.driver \in Drivers

(* Every request a client can send has the parts of its operation. *)
LEMMA RequestSent ==
  ASSUME NEW r \in Requests
  PROVE  Sent(r)
<1> USE PrincipalsAssumption, BodiesAssumption
    DEF Sent, Request, Op, BlankRequest, Principal
<1>0. NoBody \in Body /\ \A b \in Bodies : b.order \in OrderIds \cup {Null}
  BY DEF NoBody, Body
<1>1. CASE \E p \in Principals, k \in Keys, b \in Bodies : r = CreateRequest(p, k, b)
  BY <1>1 DEF CreateRequest
<1>2. CASE \E p \in Principals, k \in Keys, b \in Bodies, o \in OrderIds,
             w \in Windows \cup {Null} : r = CancelRequest(p, k, b, o, w)
  BY <1>2 DEF CancelRequest
<1>3. CASE \E p \in Principals, o \in OrderIds, w \in Windows \cup {Null} :
             r = FulfilRequest(p, o, w)
  BY <1>0, <1>3 DEF FulfilRequest
<1>4. CASE \E p \in Principals, k \in Keys, b \in Bodies : r = DispatchRequest(p, k, b)
  BY <1>0, <1>4 DEF DispatchRequest
<1>5. CASE \E p \in Principals, u \in PickupIds : r = CollectRequest(p, u)
  BY <1>0, <1>5 DEF CollectRequest
<1> QED  BY <1>1, <1>2, <1>3, <1>4, <1>5 DEF Requests

(* One that names what its operation is about has the shape of it. *)
LEMMA RequestShape ==
  ASSUME NEW r, Sent(r),
         r.op = "create" => r.body.customer # Null,
         r.op = "dispatch" => Null \notin {r.order, r.body.driver}
  PROVE  Shape(r)
BY DEF Sent, Shape, Request, Body

(* The empty tables, with nobody at work, satisfy the invariant. *)
LEMMA InitInv == Init => IInv
<1> SUFFICES ASSUME Init PROVE IInv
  OBVIOUS
<1> USE DEF Init, NoJob, NoReply, Refusal, NothingRead
<1>1. TypeOK
  BY DEF TypeOK, Job, Reply, Held, Pc, ReplyStatus, NoBody, Body
<1>2. HandlerOK /\ SnapshotOK /\ ClaimOK /\ LedgerOK
  BY DEF HandlerOK, SnapshotOK, ClaimOK, LedgerOK, Keyed, Claimed
<1>3. KeyOK /\ AtMostOncePerKey
  BY DEF KeyOK, AtMostOncePerKey
<1>4. TagOK /\ NothingHeld
  BY DEF TagOK, NothingHeld
<1>5. CancellationLedger
  BY DEF CancellationLedger
<1> QED  BY <1>1, <1>2, <1>3, <1>4, <1>5 DEF IInv
-----------------------------------------------------------------------------
(***************************************************************************)
(* Types.                                                                  *)
(***************************************************************************)

(* A refusal carries one of the status codes of the API. *)
LEMMA VerdictIsStatus ==
  ASSUME NEW r \in Request
  PROVE  Verdict(r) \in ReplyStatus \cup {"proceed", "replay"}
<1>1. CheckIdempotency(r) \in {"proceed", "replay", "409 key reused",
                              "409 still processing"}
  BY DEF CheckIdempotency
<1>2. r.op \in Op
  BY DEF Request
<1>3. /\ CreateVerdict(r) \in ReplyStatus \cup {"proceed", "replay"}
      /\ CancelVerdict(r) \in ReplyStatus \cup {"proceed", "replay"}
      /\ FulfilVerdict(r) \in ReplyStatus \cup {"proceed", "replay"}
      /\ DispatchVerdict(r) \in ReplyStatus \cup {"proceed", "replay"}
      /\ CollectVerdict(r) \in ReplyStatus \cup {"proceed", "replay"}
  BY <1>1 DEF CreateVerdict, CancelVerdict, FulfilVerdict, DispatchVerdict,
              CollectVerdict, ReplyStatus
<1> QED  BY <1>2, <1>3 DEF Verdict, Op, ReplyStatus

(* The idle process and every refusal are of the right type. *)
LEMMA NoJobType == NoJob \in Job
BY DEF NoJob, Job, Pc

LEMMA RefusalType ==
  ASSUME NEW code \in ReplyStatus
  PROVE  Refusal(code) \in Reply
BY DEF Refusal, Reply, NoBody, Body

(* What a request that cannot proceed is refused with is one of them. *)
LEMMA RefusalsAreStatuses == Refusals \subseteq ReplyStatus
BY RequestSent, VerdictIsStatus DEF Refusals, Sent

LEMMA SuccessType ==
  ASSUME NEW status \in {"done", "replayed"}, NEW r \in Request,
         NEW answer \in Answer \cup {Null}
  PROVE  Success(status, r, answer) \in Reply
BY DEF Success, Reply, ReplyStatus, Request

(* A version is made of the columns of a row. *)
LEMMA VersionType ==
  ASSUME NEW row \in OrderRow
  PROVE  OrderVersion(row) \in Version
BY DEF OrderVersion, Version, OrderRow

(* What the handler is doing, as the actions use it: a running handler has a
   request of the right shape and the rows it works on exist. *)
Running ==
  /\ job.req \in Request
  /\ Shape(job.req)
  /\ job.pc \in Keyed \cup {"insertCancellation", "save"} => job.req.key \in Keys
  /\ job.pc \in {"setCancelled", "insertCancellation", "insertPickup", "bind",
                "process"} =>
       job.req.order \in OrderIds /\ orders[job.req.order] \in OrderRow
  /\ job.pc = "collect" =>
       job.req.pickup \in PickupIds /\ pickups[job.req.pickup] \in PickupRow
  /\ job.answer \in Answer

LEMMA IdleOrRunning ==
  ASSUME TypeOK, HandlerOK, job.pc # "idle"
  PROVE  Running
<1> USE NullAssumption DEF HandlerOK
<1>1. job.req \in Request /\ Shape(job.req)
  BY RequestSent, RequestShape DEF Sent
<1> QED  BY <1>1 DEF Running, Shape, Sent, TypeOK, Job, Request, Keyed

(* What the parts shared by the statements do to the types. *)
LEMMA OutdateType ==
  ASSUME TypeOK, NEW o, Outdate(o)
  PROVE  held' \in [Windows -> Held]
<1>1. ASSUME NEW w \in Windows
      PROVE  [held[w] EXCEPT !.stale = held[w].stale \/ held[w].order = o] \in Held
  <2>1. held[w] \in Held
    BY DEF TypeOK
  <2> DEFINE b == held[w].stale \/ held[w].order = o
  <2>2. b \in BOOLEAN
    OBVIOUS
  <2> HIDE DEF b
  <2>3. [held[w] EXCEPT !.stale = b] \in Held
    BY <2>1, <2>2 DEF Held
  <2> QED  BY <2>3 DEF b
<1> QED  BY <1>1 DEF Outdate

LEMMA GotoType ==
  ASSUME TypeOK, NEW pc \in Pc, Goto(pc)
  PROVE  job' \in Job
BY DEF TypeOK, Goto, Job

LEMMA PerformType ==
  ASSUME TypeOK, NEW answer \in Answer, Perform(answer)
  PROVE  effects' \in [Keys -> SUBSET Effect]
<1>1. [answer |-> answer, at |-> job.claimed] \in Effect
  BY DEF TypeOK, Job, Effect
<1> QED  BY <1>1 DEF TypeOK, Perform

LEMMA UpdateType ==
  ASSUME TypeOK, NEW o \in OrderIds, orders[o] \in OrderRow,
         NEW status \in OrderStatus, UpdateStatus(o, status)
  PROVE  orders' \in [OrderIds -> OrderRow \cup {Null}]
<1>1. job.now \in Nat
  BY DEF TypeOK, Job
<1>2. orders' = [orders EXCEPT ![o] = [orders[o] EXCEPT !.status = status,
                                                        !.updated = job.now]]
  BY DEF UpdateStatus, TypeOK
<1>3. [orders[o] EXCEPT !.status = status, !.updated = job.now] \in OrderRow
  BY <1>1 DEF OrderRow
<1> QED  BY <1>2, <1>3 DEF TypeOK

(* No step takes a variable out of its type. *)
LEMMA TypeStep == IInv /\ [Next]_vars => TypeOK'
<1> SUFFICES ASSUME IInv, [Next]_vars PROVE TypeOK'
  OBVIOUS
<1> USE NullAssumption
<1>0. TypeOK /\ HandlerOK
  BY DEF IInv
<1>r. job.pc # "idle" => Running
  BY <1>0, IdleOrRunning
<1>1. CASE Refuse
  <2>1. reply' \in Reply
    BY <1>1, RefusalsAreStatuses, RefusalType DEF Refuse
  <2> QED  BY <1>0, <1>1, <2>1 DEF TypeOK, Refuse, database
<1>2. ASSUME NEW r \in Requests, Replay(r) PROVE TypeOK'
  <2>1. Sent(r) /\ r \in Request
    BY RequestSent DEF Sent
  <2>2. records[r.key].answer \in Answer \cup {Null}
    <3>1. r.op \in {"create", "cancel", "dispatch"}
      BY <1>2, <2>1, <1>0
         DEF Replay, Verdict, Request, Op, FulfilVerdict, CollectVerdict
    <3>2. r.key \in Keys
      BY <2>1, <3>1 DEF Sent
    <3>3. records[r.key] # Null
      BY <1>2, <3>1 DEF Replay, Verdict, CreateVerdict, CancelVerdict,
                        DispatchVerdict, CheckIdempotency, Unexpired
    <3> QED  BY <1>0, <3>2, <3>3 DEF TypeOK, IdempotencyRow
  <2>3. reply' \in Reply
    BY <1>2, <2>1, <2>2, SuccessType DEF Replay
  <2> QED  BY <1>0, <1>2, <2>3 DEF TypeOK, Replay, database
<1>3. ASSUME NEW r \in Requests, Admit(r) PROVE TypeOK'
  <2>1. /\ r \in Request
        /\ FirstStep(r) \in Pc
    BY RequestSent DEF Sent, FirstStep, AfterBinding, Pc, Request, Op
  <2>2. (IF r.order = Null THEN Null ELSE orders[r.order]) \in OrderRow \cup {Null}
    BY <1>0, <2>1 DEF TypeOK, Request
  <2>3. [op |-> r.op, order |-> r.order, pickup |-> r.pickup] \in Answer
    BY <2>1 DEF Answer, Request
  <2>4. job' \in Job
    BY <1>0, <1>3, <2>1, <2>2, <2>3 DEF Admit, Job, TypeOK
  <2>5. reply' \in Reply
    BY <1>3, RefusalType DEF Admit, NoReply, ReplyStatus
  <2> QED  BY <1>0, <1>3, <2>4, <2>5 DEF TypeOK, Admit, database
<1>4. ASSUME NEW w \in Windows, NEW p \in Principals, NEW o \in OrderIds,
             ReadOrder(w, p, o)
      PROVE  TypeOK'
  <2>1. OrderVersion(orders[o]) \in Version
    BY <1>0, <1>4, VersionType DEF TypeOK, ReadOrder
  <2>2. held' \in [Windows -> Held]
    BY <1>0, <1>4, <2>1 DEF TypeOK, ReadOrder, Held
  <2> QED  BY <1>0, <1>4, <2>2 DEF TypeOK, ReadOrder, database
<1>5. CASE Purge
  <2>1. records' \in [Keys -> IdempotencyRow \cup {Null}]
    BY <1>0, <1>5 DEF TypeOK, Purge
  <2>2. job' \in Job
    BY <1>0, <1>5 DEF TypeOK, Purge, Job, Pc
  <2> QED  BY <1>0, <1>5, <2>1, <2>2 DEF TypeOK, Purge
<1>6. CASE Claim
  <2> DEFINE k == job.req.key
  <2>1. Running /\ k \in Keys
    BY <1>6, <1>r DEF Running, Claim, Keyed
  <2>2. CASE records[k] # Null
    <3>1. records' = records /\ job' = NoJob /\ reply' = ClaimLost(job.req, records[k])
      BY <1>6, <2>2 DEF Claim
    <3>2. records[k].answer \in Answer \cup {Null} /\ job.req \in Request
      BY <1>0, <2>1, <2>2 DEF TypeOK, IdempotencyRow, Running
    <3>3. ClaimLost(job.req, records[k]) \in Reply
      BY <3>2, RefusalType, SuccessType DEF ClaimLost, ReplyStatus
    <3> QED  BY <1>0, <1>6, <3>1, <3>3, NoJobType DEF TypeOK, Claim
  <2>3. CASE records[k] = Null
    <3> DEFINE rec == [hash    |-> BodyHash(job.req),
                       state   |-> "processing",
                       answer  |-> Null,
                       expires |-> job.claimed + Retention]
    <3>1. /\ records' = [records EXCEPT ![k] = rec]
          /\ job' = [job EXCEPT !.pc = AfterClaim[job.req.op], !.now = clock]
          /\ reply' = reply
      BY <1>6, <2>3 DEF Claim
    <3>2. BodyHash(job.req) \in Body
      BY <2>1 DEF Running, BodyHash, Request
    <3>3. job.claimed + Retention \in Nat
      BY <1>0, NumbersAssumption DEF TypeOK, Job
    <3>4. rec \in IdempotencyRow
      BY <3>2, <3>3 DEF IdempotencyRow
    <3> HIDE DEF rec, k
    <3>5. records' \in [Keys -> IdempotencyRow \cup {Null}]
      BY <1>0, <3>1, <3>4 DEF TypeOK
    <3>6. job.req.op \in {"create", "cancel", "dispatch"}
      BY <2>1 DEF Running, Shape, Sent, Request, Op, k
    <3>7. AfterClaim[job.req.op] \in Pc
      BY <3>6 DEF AfterClaim, Pc
    <3>8. job' \in Job
      BY <1>0, <3>1, <3>7 DEF TypeOK, Job
    <3> QED  BY <1>0, <1>6, <3>1, <3>5, <3>8 DEF TypeOK, Claim
  <2> QED  BY <2>2, <2>3
<1>7. ASSUME NEW o \in OrderIds, InsertOrder(o) PROVE TypeOK'
  <2> DEFINE answer == [job.answer EXCEPT !.order = o]
  <2>1. Running /\ job.req.op = "create"
    BY <1>0, <1>7, <1>r DEF InsertOrder, HandlerOK
  <2>2. answer \in Answer
    BY <2>1 DEF Running, Answer
  <2>3. NewOrder(job.req.body.customer, job.now) \in OrderRow
    BY <1>0, <2>1 DEF Running, Shape, Sent, NewOrder, OrderRow, OrderStatus, TypeOK, Job
  <2>4. orders' \in [OrderIds -> OrderRow \cup {Null}]
    BY <1>0, <1>7, <2>3 DEF TypeOK, InsertOrder
  <2>5. job' = [job EXCEPT !.pc = "save", !.answer = answer] /\ Perform(answer)
    BY <1>7 DEF InsertOrder
  <2> HIDE DEF answer
  <2>6. job' \in Job
    BY <1>0, <2>2, <2>5 DEF TypeOK, Job, Pc
  <2> QED  BY <1>0, <1>7, <2>2, <2>4, <2>5, <2>6, PerformType DEF TypeOK, InsertOrder
<1>8. CASE SetCancelled
  <2>1. Running /\ job.req.order \in OrderIds /\ orders[job.req.order] \in OrderRow
    BY <1>8, <1>r DEF SetCancelled, Running
  <2>2. orders' \in [OrderIds -> OrderRow \cup {Null}]
    BY <1>0, <1>8, <2>1, UpdateType DEF SetCancelled, OrderStatus
  <2>3. job' \in Job /\ held' \in [Windows -> Held]
    BY <1>0, <1>8, GotoType, OutdateType DEF SetCancelled, Pc
  <2>4. effects' \in [Keys -> SUBSET Effect]
    BY <1>0, <1>8, <2>1, PerformType DEF SetCancelled, Running
  <2> QED  BY <1>0, <1>8, <2>2, <2>3, <2>4 DEF TypeOK, SetCancelled
<1>9. CASE InsertCancellation
  <2>1. job' \in Job
    BY <1>0, <1>9, GotoType DEF InsertCancellation, Pc
  <2>2. cancellations' \in [OrderIds -> Nat]
    <3>1. job.req.order \in OrderIds /\ cancellations \in [OrderIds -> Nat]
      BY <1>0, <1>9, <1>r DEF InsertCancellation, Running, TypeOK
    <3> QED  BY <1>9, <3>1 DEF InsertCancellation
  <2> QED  BY <1>0, <1>9, <2>1, <2>2 DEF TypeOK, InsertCancellation
<1>10. ASSUME NEW u \in PickupIds, InsertPickup(u) PROVE TypeOK'
  <2> DEFINE answer == [job.answer EXCEPT !.pickup = u]
             row == [order  |-> job.req.order, driver |-> job.req.body.driver,
                     status |-> "assigned"]
             pc == IF job.seen.outlet = Null THEN "bind" ELSE "save"
  <2>1. Running /\ job.req.op = "dispatch"
    BY <1>0, <1>10, <1>r DEF InsertPickup, HandlerOK
  <2>2. answer \in Answer
    BY <2>1 DEF Running, Answer
  <2>3. row \in PickupRow
    BY <2>1 DEF Running, Shape, Sent, PickupRow, PickupStatus
  <2>4. pc \in Pc
    BY DEF Pc
  <2>5. /\ pickups' = [pickups EXCEPT ![u] = row]
        /\ job' = [job EXCEPT !.pc = pc, !.answer = answer]
        /\ Perform(answer)
    BY <1>10 DEF InsertPickup
  <2> HIDE DEF answer, row, pc
  <2>6. pickups' \in [PickupIds -> PickupRow \cup {Null}]
    BY <1>0, <2>3, <2>5 DEF TypeOK
  <2>7. job' \in Job
    BY <1>0, <2>2, <2>4, <2>5 DEF TypeOK, Job
  <2> QED  BY <1>0, <1>10, <2>2, <2>5, <2>6, <2>7, PerformType
           DEF TypeOK, InsertPickup
<1>11. CASE AssignOutlet
  <2> DEFINE o == job.req.order
             x == job.req.by.outletId
             pc == IF job.req.op = "dispatch" THEN "save" ELSE AfterBinding(job.seen)
  <2>1. Running /\ o \in OrderIds /\ orders[o] \in OrderRow
    BY <1>11, <1>r DEF AssignOutlet, Running
  <2>2. x \in DomainIds \cup {Null} /\ job.now \in Nat
    BY <1>0, <2>1, PrincipalsAssumption DEF Running, Request, Principal, TypeOK, Job
  <2>3. orders' \in [OrderIds -> OrderRow \cup {Null}]
    <3>1. CASE orders[o].outlet # Null
      BY <1>0, <1>11, <3>1 DEF AssignOutlet, TypeOK
    <3>2. CASE orders[o].outlet = Null
      <4>1. orders' = [orders EXCEPT ![o] = [orders[o] EXCEPT !.outlet = x,
                                                              !.updated = job.now]]
        BY <1>0, <1>11, <3>2 DEF AssignOutlet, TypeOK
      <4>2. [orders[o] EXCEPT !.outlet = x, !.updated = job.now] \in OrderRow
        BY <2>1, <2>2 DEF OrderRow
      <4> QED  BY <1>0, <4>1, <4>2 DEF TypeOK
    <3> QED  BY <3>1, <3>2
  <2>4. pc \in Pc /\ Goto(pc)
    BY <1>11 DEF AssignOutlet, AfterBinding, Pc
  <2>5. job' \in Job
    BY <1>0, <2>4, GotoType
  <2>6. held' \in [Windows -> Held]
    BY <1>0, <1>11, OutdateType DEF AssignOutlet, TypeOK
  <2> QED  BY <1>0, <1>11, <2>3, <2>5, <2>6 DEF TypeOK, AssignOutlet
<1>12. CASE SetProcessing
  <2>1. Running /\ job.req.order \in OrderIds /\ orders[job.req.order] \in OrderRow
    BY <1>12, <1>r DEF SetProcessing, Running
  <2>2. orders' \in [OrderIds -> OrderRow \cup {Null}]
    BY <1>0, <1>12, <2>1, UpdateType DEF SetProcessing, OrderStatus
  <2>3. job' \in Job /\ held' \in [Windows -> Held]
    BY <1>0, <1>12, GotoType, OutdateType DEF SetProcessing, Pc
  <2> QED  BY <1>0, <1>12, <2>2, <2>3 DEF TypeOK, SetProcessing
<1>13. CASE MarkCollected
  <2> DEFINE u == job.req.pickup
  <2>1. u \in PickupIds /\ pickups[u] \in PickupRow
    BY <1>13, <1>r DEF MarkCollected, Running
  <2>2. pickups' = [pickups EXCEPT ![u] = [pickups[u] EXCEPT !.status = "picked_up"]]
    BY <1>0, <1>13 DEF MarkCollected, TypeOK
  <2>3. [pickups[u] EXCEPT !.status = "picked_up"] \in PickupRow
    BY <2>1 DEF PickupRow, PickupStatus
  <2>4. job' \in Job
    BY <1>0, <1>13, GotoType DEF MarkCollected, Pc
  <2>5. pickups' \in [PickupIds -> PickupRow \cup {Null}]
    <3> HIDE DEF u
    <3> QED  BY <1>0, <2>1, <2>2, <2>3 DEF TypeOK
  <2> QED  BY <1>0, <1>13, <2>4, <2>5 DEF TypeOK, MarkCollected
<1>14. CASE Save
  <2> DEFINE k == job.req.key
             rec == [records[k] EXCEPT !.state = "completed", !.answer = job.answer]
  <2>1. Running /\ k \in Keys
    BY <1>14, <1>r DEF Save, Running
  <2>2. records' = [records EXCEPT ![k] = IF records[k] = Null THEN Null ELSE rec]
    BY <1>0, <1>14 DEF Save, TypeOK
  <2>3. records[k] # Null => rec \in IdempotencyRow
    BY <1>0, <2>1 DEF TypeOK, Running, IdempotencyRow
  <2>4. job' \in Job
    BY <1>0, <1>14, GotoType DEF Save, Pc
  <2>5. records' \in [Keys -> IdempotencyRow \cup {Null}]
    <3> HIDE DEF rec, k
    <3> QED  BY <1>0, <2>1, <2>2, <2>3 DEF TypeOK
  <2> QED  BY <1>0, <1>14, <2>4, <2>5 DEF TypeOK, Save
<1>15. CASE Respond
  <2>1. reply' \in Reply
    <3>1. job.req \in Request /\ job.answer \in Answer
      BY <1>15, <1>r DEF Respond, Running
    <3> QED  BY <1>15, <3>1, SuccessType DEF Respond
  <2> QED  BY <1>0, <1>15, <2>1, NoJobType DEF TypeOK, Respond, database
<1>16. CASE Tick
  BY <1>0, <1>16 DEF TypeOK, Tick, database
<1>17. CASE StatementFails
  <2>1. reply' \in Reply
    BY <1>17, RefusalType DEF StatementFails, ReplyStatus
  <2> QED  BY <1>0, <1>17, <2>1, NoJobType DEF TypeOK, StatementFails, database
<1>18. CASE Crash
  BY <1>0, <1>18, NoJobType DEF TypeOK, Crash, database
<1>19. CASE UNCHANGED vars
  BY <1>0, <1>19 DEF TypeOK, vars, database
<1> QED  BY <1>1, <1>2, <1>3, <1>4, <1>5, <1>6, <1>7, <1>8, <1>9, <1>10, <1>11,
            <1>12, <1>13, <1>14, <1>15, <1>16, <1>17, <1>18, <1>19
         DEF Next, ServerStep
-----------------------------------------------------------------------------
(***************************************************************************)
(* What a step may do to the orders table.                                 *)
(***************************************************************************)

\* Row o is replaced by row; every screen that read o is outdated.
Replaces(o, row) ==
  /\ o \in OrderIds
  /\ orders[o] \in OrderRow
  /\ row \in OrderRow
  /\ orders' = [orders EXCEPT ![o] = row]
  /\ Outdate(o)

Places(o) ==
  /\ orders[o] = Null
  /\ job.req.body.customer \in DomainIds
  /\ NewOrder(job.req.body.customer, job.now) \in OrderRow
  /\ orders' = [orders EXCEPT ![o] = NewOrder(job.req.body.customer, job.now)]
  /\ held' = held

Cancels ==
  LET o == job.req.order IN
  /\ job.pc = "setCancelled"
  /\ orders[o].status \in CANCELLABLE
  /\ MayCancelOrder(job.req.by, orders[o])
  /\ Replaces(o, [orders[o] EXCEPT !.status = "cancelled", !.updated = job.now])

Binds ==
  LET o == job.req.order IN
  /\ job.pc = "bind"
  /\ orders[o].outlet = Null
  /\ job.req.by.outletId \in DomainIds
  /\ Replaces(o, [orders[o] EXCEPT !.outlet = job.req.by.outletId,
                                   !.updated = job.now])

Processes ==
  LET o == job.req.order IN
  /\ job.pc = "process"
  /\ orders[o].outlet = job.req.by.outletId
  /\ orders[o].outlet # Null
  /\ orders[o].status # "processing"
  /\ Replaces(o, [orders[o] EXCEPT !.status = "processing", !.updated = job.now])

(* What each statement that writes an order does to it. *)
LEMMA OrderWrites ==
  ASSUME IInv
  PROVE  /\ \A o \in OrderIds : InsertOrder(o) => Places(o)
         /\ SetCancelled => Cancels
         /\ AssignOutlet => Binds
         /\ SetProcessing => Processes
<1> USE NullAssumption
<1>0. TypeOK /\ HandlerOK /\ SnapshotOK
  BY DEF IInv
<1>r. job.pc # "idle" => Running
  BY <1>0, IdleOrRunning
<1>n. job.now \in Nat
  BY <1>0 DEF TypeOK, Job
<1>1. ASSUME NEW o \in OrderIds, InsertOrder(o) PROVE Places(o)
  <2>1. Running /\ job.req.op = "create"
    BY <1>0, <1>1, <1>r DEF InsertOrder, HandlerOK
  <2>2. job.req.body.customer \in DomainIds
    BY <2>1 DEF Running, Shape, Sent
  <2>3. NewOrder(job.req.body.customer, job.now) \in OrderRow
    BY <1>n, <2>2 DEF NewOrder, OrderRow, OrderStatus
  <2> QED  BY <1>1, <2>2, <2>3 DEF InsertOrder, Places
<1>2. ASSUME SetCancelled PROVE Cancels
  <2> DEFINE o == job.req.order
             row == [orders[o] EXCEPT !.status = "cancelled", !.updated = job.now]
  <2>1. Running /\ o \in OrderIds /\ orders[o] \in OrderRow /\ job.req.op = "cancel"
    BY <1>0, <1>2, <1>r DEF SetCancelled, Running, HandlerOK
  <2>2. orders[o].status \in CANCELLABLE /\ MayCancelOrder(job.req.by, orders[o])
    BY <1>0, <1>2, <2>1 DEF SnapshotOK, SetCancelled, Keyed
  <2>3. row \in OrderRow
    BY <1>n, <2>1 DEF OrderRow, OrderStatus
  <2>4. orders' = [orders EXCEPT ![o] = row]
    BY <1>0, <1>2 DEF SetCancelled, UpdateStatus, TypeOK
  <2> QED  BY <1>2, <2>1, <2>2, <2>3, <2>4 DEF SetCancelled, Cancels, Replaces
<1>3. ASSUME AssignOutlet PROVE Binds
  <2> DEFINE o == job.req.order
             x == job.req.by.outletId
             row == [orders[o] EXCEPT !.outlet = x, !.updated = job.now]
  <2>1. /\ Running
        /\ o \in OrderIds
        /\ orders[o] \in OrderRow
        /\ job.req.op \in {"fulfil", "dispatch"}
    BY <1>0, <1>3, <1>r DEF AssignOutlet, Running, HandlerOK
  <2>2. orders[o].outlet = Null /\ x # Null
    BY <1>0, <1>3, <2>1 DEF SnapshotOK, AssignOutlet
  <2>3. x \in DomainIds
    BY <2>1, <2>2, PrincipalsAssumption DEF Running, Request, Principal
  <2>4. row \in OrderRow
    BY <1>n, <2>1, <2>3 DEF OrderRow
  <2>5. /\ orders' = [orders EXCEPT ![o].outlet = x, ![o].updated = job.now]
        /\ Outdate(o)
    BY <1>3, <2>2 DEF AssignOutlet
  <2>6. orders' = [orders EXCEPT ![o] = row]
    BY <1>0, <2>5 DEF TypeOK
  <2> QED  BY <1>3, <2>1, <2>2, <2>3, <2>4, <2>5, <2>6 DEF AssignOutlet, Binds, Replaces
<1>4. ASSUME SetProcessing PROVE Processes
  <2> DEFINE o == job.req.order
             row == [orders[o] EXCEPT !.status = "processing", !.updated = job.now]
  <2>1. Running /\ o \in OrderIds /\ orders[o] \in OrderRow
    BY <1>4, <1>r DEF SetProcessing, Running
  <2>2. /\ orders[o].outlet = job.req.by.outletId
        /\ orders[o].outlet # Null
        /\ orders[o].status # "processing"
    BY <1>0, <1>4 DEF SnapshotOK, SetProcessing
  <2>3. row \in OrderRow
    BY <1>n, <2>1 DEF OrderRow, OrderStatus
  <2>4. orders' = [orders EXCEPT ![o] = row]
    BY <1>0, <1>4 DEF SetProcessing, UpdateStatus, TypeOK
  <2> QED  BY <1>4, <2>1, <2>2, <2>3, <2>4 DEF SetProcessing, Processes, Replaces
<1> QED  BY <1>1, <1>2, <1>3, <1>4

(* A step places an order, cancels, binds or processes one, or leaves the
   table alone. *)
LEMMA OrderStep ==
  ASSUME IInv, [Next]_vars
  PROVE  \/ orders' = orders /\ held' = held
         \/ \E w \in Windows, p \in Principals, o \in OrderIds : ReadOrder(w, p, o)
         \/ \E o \in OrderIds : InsertOrder(o) /\ Places(o)
         \/ SetCancelled /\ Cancels
         \/ AssignOutlet /\ Binds
         \/ SetProcessing /\ Processes
BY OrderWrites
   DEF Next, ServerStep, Refuse, Replay, Admit, Purge, Claim, InsertCancellation,
       InsertPickup, MarkCollected, Save, Respond, Tick, StatementFails, Crash,
       database, vars

(* No order and no pickup ever disappears. *)
LEMMA RowsStay ==
  ASSUME IInv, [Next]_vars
  PROVE  /\ \A o \in OrderIds : orders[o] # Null => orders'[o] # Null
         /\ \A u \in PickupIds : pickups[u] # Null => pickups'[u] # Null
<1> USE NullAssumption
<1>0. TypeOK /\ HandlerOK
  BY DEF IInv
<1>r. job.pc # "idle" => Running
  BY <1>0, IdleOrRunning
<1>1. \A o \in OrderIds : orders[o] # Null => orders'[o] # Null
  <2>1. CASE orders' = orders
    BY <2>1
  <2>2. ASSUME NEW o \in OrderIds, Places(o)
        PROVE  \A q \in OrderIds : orders[q] # Null => orders'[q] # Null
    BY <1>0, <2>2 DEF Places, TypeOK
  <2>3. ASSUME NEW o, NEW row, Replaces(o, row)
        PROVE  \A q \in OrderIds : orders[q] # Null => orders'[q] # Null
    BY <1>0, <2>3 DEF Replaces, TypeOK
  <2> QED
    BY OrderStep, <2>1, <2>2, <2>3 DEF Cancels, Binds, Processes, ReadOrder, database
<1>2. \A u \in PickupIds : pickups[u] # Null => pickups'[u] # Null
  <2>1. ASSUME NEW u \in PickupIds, InsertPickup(u)
        PROVE  \A v \in PickupIds : pickups[v] # Null => pickups'[v] # Null
    BY <1>0, <2>1 DEF InsertPickup, TypeOK
  <2>2. CASE MarkCollected
    <3> DEFINE u == job.req.pickup
    <3>1. u \in PickupIds /\ pickups[u] \in PickupRow
      BY <2>2, <1>r DEF MarkCollected, Running
    <3>2. [pickups[u] EXCEPT !.status = "picked_up"] \in PickupRow
      BY <3>1 DEF PickupRow, PickupStatus
    <3>3. pickups' = [pickups EXCEPT ![u] = [pickups[u] EXCEPT !.status = "picked_up"]]
      BY <1>0, <2>2 DEF MarkCollected, TypeOK
    <3> HIDE DEF u
    <3> QED  BY <1>0, <3>1, <3>2, <3>3 DEF TypeOK
  <2>3. CASE pickups' = pickups
    BY <2>3
  <2> QED
    BY <2>1, <2>2, <2>3
       DEF Next, ServerStep, Refuse, Replay, Admit, ReadOrder, Purge, Claim,
           InsertOrder, SetCancelled, InsertCancellation, AssignOutlet,
           SetProcessing, Save, Respond, Tick, StatementFails, Crash, database,
           vars
<1> QED  BY <1>1, <1>2
-----------------------------------------------------------------------------
(***************************************************************************)
(* What the guards of a handler establish.                                 *)
(***************************************************************************)

(* An admitted request has passed the checks of its operation. *)
LEMMA Admitted ==
  ASSUME TypeOK, NEW r \in Requests, Admit(r)
  PROVE  /\ Shape(r)
         /\ r.key # Null => ~Unexpired(records[r.key])
         /\ r.order # Null => orders[r.order] # Null
         /\ r.op = "cancel" => /\ orders[r.order].status \in CANCELLABLE
                               /\ MayCancelOrder(r.by, orders[r.order])
         /\ r.op \in {"fulfil", "dispatch"} => MayStaffSeeOrder(r.by, orders[r.order])
         /\ r.op = "collect" => pickups[r.pickup] # Null
<1> USE NullAssumption
<1>1. Sent(r) /\ r.op \in Op /\ Verdict(r) = "proceed"
  BY RequestSent DEF Admit, Sent, Request
<1>2. CASE r.op = "create"
  <2>1. CreateVerdict(r) = "proceed"
    BY <1>1, <1>2 DEF Verdict
  <2> QED  BY <1>1, <1>2, <2>1, RequestShape
           DEF CreateVerdict, CheckIdempotency, Sent
<1>3. CASE r.op = "cancel"
  <2>1. CancelVerdict(r) = "proceed"
    BY <1>1, <1>3 DEF Verdict
  <2> QED  BY <1>1, <1>3, <2>1, RequestShape
           DEF CancelVerdict, CheckIdempotency, Sent
<1>4. CASE r.op = "fulfil"
  <2>1. FulfilVerdict(r) = "proceed"
    BY <1>1, <1>4 DEF Verdict
  <2> QED  BY <1>1, <1>4, <2>1, RequestShape
           DEF FulfilVerdict, MayClaimOrder, Sent
<1>5. CASE r.op = "dispatch"
  <2>1. DispatchVerdict(r) = "proceed"
    BY <1>1, <1>5 DEF Verdict
  <2> QED  BY <1>1, <1>5, <2>1, RequestShape
           DEF DispatchVerdict, CheckIdempotency, MayClaimOrder, Sent
<1>6. CASE r.op = "collect"
  <2>1. CollectVerdict(r) = "proceed"
    BY <1>1, <1>6 DEF Verdict
  <2> QED  BY <1>1, <1>6, <2>1, RequestShape DEF CollectVerdict, Sent
<1> QED  BY <1>1, <1>2, <1>3, <1>4, <1>5, <1>6 DEF Op

(* Where the handler of an admitted request starts. *)
LEMMA FirstStepOf ==
  ASSUME NEW r, Shape(r)
  PROVE  /\ r.op \in {"create", "cancel", "dispatch"} => FirstStep(r) = "purge"
         /\ r.op = "fulfil" =>
              \/ FirstStep(r) = "bind" /\ orders[r.order].outlet = Null
              \/ /\ FirstStep(r) = "process"
                 /\ orders[r.order].outlet # Null
                 /\ orders[r.order].status # "processing"
              \/ FirstStep(r) = "respond"
         /\ r.op = "collect" => FirstStep(r) \in {"collect", "respond"}
<1> USE NullAssumption
<1>1. CASE r.op \in {"create", "cancel", "dispatch"}
  BY <1>1 DEF FirstStep, Shape, Sent
<1>2. CASE r.op = "fulfil"
  BY <1>2 DEF FirstStep, AfterBinding, Shape, Sent
<1>3. CASE r.op = "collect"
  BY <1>3 DEF FirstStep, Shape, Sent
<1> QED  BY <1>1, <1>2, <1>3

(* The handler knows its operation and its rows at every statement. *)
LEMMA HandlerStep ==
  ASSUME IInv, [Next]_vars
  PROVE  HandlerOK'
<1> USE NullAssumption
<1>0. TypeOK /\ HandlerOK
  BY DEF IInv
<1>r. job.pc # "idle" => Running
  BY <1>0, IdleOrRunning
<1>s. /\ \A o \in OrderIds : orders[o] # Null => orders'[o] # Null
      /\ \A u \in PickupIds : pickups[u] # Null => pickups'[u] # Null
  BY RowsStay
<1>t. job.pc # "idle" => /\ job.req.order # Null => job.req.order \in OrderIds
                         /\ job.req.op = "collect" => job.req.pickup \in PickupIds
  BY <1>r DEF Running, Request, Shape, Sent
<1>k. job.pc # "idle" => ((job.req.key # Null) <=> (job.req.op \in {"create", "cancel", "dispatch"}))
  BY <1>r DEF Running, Shape, Sent, Request, Op
<1>1. ASSUME NEW r \in Requests, Admit(r) PROVE HandlerOK'
  <2>1. /\ Shape(r)
        /\ r.order # Null => orders[r.order] # Null
        /\ r.op = "collect" => pickups[r.pickup] # Null
        /\ r.op \in Op
    BY <1>0, <1>1, Admitted DEF Shape, Sent, Request
  <2>2. r.key # Null <=> r.op \in {"create", "cancel", "dispatch"}
    BY <2>1 DEF Shape, Sent, Op
  <2>3. /\ job'.pc = FirstStep(r) /\ job'.req = r /\ job'.claimed = clock
        /\ job'.answer = [op |-> r.op, order |-> r.order, pickup |-> r.pickup]
        /\ clock' = clock /\ orders' = orders /\ pickups' = pickups
    BY <1>1 DEF Admit, database
  <2>4. job'.answer \in Answer
    BY <2>1, <2>3 DEF Answer, Shape, Sent, Request
  <2>5. clock \in Nat
    BY <1>0 DEF TypeOK
  <2>6. /\ r.op = "create" => r.body.customer # Null
        /\ r.op = "dispatch" => Null \notin {r.order, r.body.driver}
    BY <2>1 DEF Shape
  <2> QED  BY <2>1, <2>2, <2>3, <2>4, <2>5, <2>6, FirstStepOf DEF HandlerOK, Op, Keyed
<1>2. CASE job'.pc = "idle"
  BY <1>2 DEF HandlerOK
<1>3. CASE job' = job /\ clock' = clock
  BY <1>0, <1>3, <1>s, <1>t DEF HandlerOK
<1>4. CASE Tick
  BY <1>0, <1>4, <1>s, <1>t DEF HandlerOK, Tick, TypeOK, Job, database
<1> DEFINE Goes(pc) == /\ job.pc # "idle"
                      /\ job'.pc = pc
                      /\ job'.req = job.req
                      /\ job'.answer # Null
                      /\ job'.claimed <= clock'
<1>5. CASE Purge
  <2>1. Goes("claim") /\ job.pc = "purge"
    BY <1>0, <1>5 DEF Purge, TypeOK, Job, HandlerOK
  <2> QED  BY <1>0, <2>1, <1>s, <1>t DEF HandlerOK, Keyed
<1>6. CASE Claim /\ job'.pc # "idle"
  <2>1. /\ Goes(AfterClaim[job.req.op])
        /\ job.req.key # Null
    <3>1. /\ job.pc = "claim"
          /\ job' = [job EXCEPT !.pc = AfterClaim[job.req.op], !.now = clock]
          /\ clock' = clock
      <4>1. CASE records[job.req.key] = Null
        BY <1>6, <4>1 DEF Claim
      <4>2. CASE records[job.req.key] # Null
        <5>1. job' = NoJob
          BY <1>6, <4>2 DEF Claim
        <5>2. NoJob.pc = "idle"
          BY DEF NoJob
        <5> QED  BY <1>6, <5>1, <5>2
      <4> QED  BY <4>1, <4>2
    <3>2. job \in Job
      BY <1>0 DEF TypeOK
    <3> QED  BY <1>0, <3>1, <3>2 DEF Job, HandlerOK, Keyed
  <2>2. job.req.op \in {"create", "cancel", "dispatch"}
    BY <2>1, <1>k
  <2>3. \/ job.req.op = "create" /\ Goes("insertOrder")
        \/ job.req.op = "cancel" /\ Goes("setCancelled")
        \/ job.req.op = "dispatch" /\ Goes("insertPickup")
    BY <2>1, <2>2 DEF AfterClaim
  <2> QED  BY <1>0, <2>1, <2>3, <1>s, <1>t DEF HandlerOK, Keyed
<1>7. ASSUME NEW o \in OrderIds, InsertOrder(o) PROVE HandlerOK'
  <2>1. Goes("save") /\ job.req.key # Null
    BY <1>0, <1>r, <1>7 DEF InsertOrder, TypeOK, Job, HandlerOK, Running, Answer, Keyed
  <2> QED  BY <1>0, <2>1, <1>s, <1>t DEF HandlerOK, Keyed
<1>8. CASE SetCancelled
  <2>1. Goes("insertCancellation") /\ job.pc = "setCancelled"
    BY <1>0, <1>8 DEF SetCancelled, Goto, TypeOK, Job, HandlerOK
  <2> QED  BY <1>0, <2>1, <1>s, <1>t DEF HandlerOK, Keyed
<1>9. CASE InsertCancellation
  <2>1. Goes("save") /\ job.pc = "insertCancellation"
    BY <1>0, <1>9 DEF InsertCancellation, Goto, TypeOK, Job, HandlerOK
  <2> QED  BY <1>0, <2>1, <1>s, <1>t DEF HandlerOK, Keyed
<1>10. ASSUME NEW u \in PickupIds, InsertPickup(u) PROVE HandlerOK'
  <2>1. /\ Goes("bind") \/ Goes("save")
        /\ job.req.key # Null /\ job.req.op = "dispatch"
    BY <1>0, <1>r, <1>10 DEF InsertPickup, TypeOK, Job, HandlerOK, Running, Answer, Keyed
  <2> QED  BY <1>0, <2>1, <1>s, <1>t DEF HandlerOK, Keyed
<1>11. CASE AssignOutlet
  <2>1. /\ \/ Goes("save") /\ job.req.op = "dispatch"
           \/ Goes("process") /\ job.req.op = "fulfil"
           \/ Goes("respond")
        /\ job.pc = "bind"
    BY <1>0, <1>11 DEF AssignOutlet, AfterBinding, Goto, TypeOK, Job, HandlerOK
  <2> QED  BY <1>0, <2>1, <1>s, <1>t, <1>k DEF HandlerOK, Keyed
<1>12. CASE SetProcessing \/ MarkCollected \/ Save
  <2>1. Goes("respond")
    BY <1>0, <1>12 DEF SetProcessing, MarkCollected, Save, Goto, TypeOK, Job, HandlerOK
  <2> QED  BY <1>0, <2>1, <1>s, <1>t DEF HandlerOK, Keyed
<1>13. CASE Respond \/ StatementFails \/ Crash
  BY <1>13, <1>2 DEF Respond, StatementFails, Crash, NoJob
<1>14. CASE UNCHANGED vars
  BY <1>14, <1>3 DEF vars
<1>15. ASSUME Refuse \/ \E r \in Requests : Replay(r) PROVE HandlerOK'
  BY <1>15, <1>3 DEF Refuse, Replay
<1>16. ASSUME NEW w \in Windows, NEW p \in Principals, NEW o \in OrderIds,
              ReadOrder(w, p, o)
       PROVE  HandlerOK'
  BY <1>16, <1>3 DEF ReadOrder
<1> QED  BY <1>1, <1>2, <1>4, <1>5, <1>6, <1>7, <1>8, <1>9, <1>10, <1>11, <1>12,
            <1>13, <1>14, <1>15, <1>16 DEF Next, ServerStep
(* A claim that succeeds goes on with the operation of the handler, one that
   fails ends it. *)
LEMMA ClaimOutcome ==
  ASSUME TypeOK, HandlerOK, Claim
  PROVE  LET k == job.req.key IN
         \/ records[k] # Null /\ job' = NoJob /\ records' = records
         \/ /\ records[k] = Null
            /\ k \in Keys
            /\ records' = [records EXCEPT ![k] =
                             [hash    |-> BodyHash(job.req),
                              state   |-> "processing",
                              answer  |-> Null,
                              expires |-> job.claimed + Retention]]
            /\ job' = [job EXCEPT !.pc = AfterClaim[job.req.op], !.now = clock]
            /\ AfterClaim[job.req.op] \in Claimed
<1> DEFINE k == job.req.key
<1>1. CASE records[k] # Null
  BY <1>1 DEF Claim
<1>2. CASE records[k] = Null
  <2>1. Running /\ k \in Keys
    BY IdleOrRunning DEF Claim, Running, Keyed
  <2>2. job.req.op \in {"create", "cancel", "dispatch"}
    BY <2>1, NullAssumption DEF Running, Shape, Sent, Request, Op
  <2>3. AfterClaim[job.req.op] \in Claimed
    BY <2>2 DEF AfterClaim, Claimed
  <2> QED  BY <1>2, <2>1, <2>3 DEF Claim
<1> QED  BY <1>1, <1>2

(* What the handler has read stays true until it writes. *)
LEMMA SnapshotStep ==
  ASSUME IInv, [Next]_vars
  PROVE  SnapshotOK'
<1> USE NullAssumption
<1>0. TypeOK /\ HandlerOK /\ SnapshotOK
  BY DEF IInv
<1>r. job.pc # "idle" => Running
  BY <1>0, IdleOrRunning
<1>a. CASE job'.pc \notin Keyed \cup {"bind", "process"}
  BY <1>a DEF SnapshotOK, Keyed
<1>b. CASE /\ job'.pc \in {job.pc} \cup Keyed
           /\ job'.pc \in Keyed => job.pc \in Keyed
           /\ job'.req = job.req
           /\ job'.seen = job.seen
           /\ orders' = orders
  BY <1>0, <1>b DEF SnapshotOK, Keyed
<1>1. ASSUME NEW r \in Requests, Admit(r) PROVE SnapshotOK'
  <2>1. /\ Shape(r)
        /\ r.op = "cancel" => /\ orders[r.order].status \in CANCELLABLE
                              /\ MayCancelOrder(r.by, orders[r.order])
        /\ r.op \in {"fulfil", "dispatch"} => MayStaffSeeOrder(r.by, orders[r.order])
        /\ r.op \in Op
    BY <1>0, <1>1, Admitted DEF Shape, Sent, Request
  <2>2. /\ job'.pc = FirstStep(r) /\ job'.req = r
        /\ r.order # Null => job'.seen = orders[r.order]
        /\ orders' = orders
    BY <1>1 DEF Admit, database
  <2>3. CASE r.op \in {"create", "cancel", "dispatch"}
    BY <2>1, <2>2, <2>3, FirstStepOf DEF SnapshotOK, Keyed, MayStaffSeeOrder, Shape, Sent
  <2>4. CASE r.op = "fulfil"
    BY <2>1, <2>2, <2>4, FirstStepOf DEF SnapshotOK, Keyed, MayStaffSeeOrder, Shape, Sent
  <2>5. CASE r.op = "collect"
    BY <2>1, <2>2, <2>5, <1>a, FirstStepOf DEF Keyed
  <2> QED  BY <2>1, <2>3, <2>4, <2>5 DEF Op
<1>2. CASE Purge
  BY <1>0, <1>2, <1>b DEF Purge, TypeOK, Job, Keyed
<1>3. CASE Claim
  <2>1. CASE job' = NoJob
    BY <2>1, <1>a DEF NoJob, Keyed
  <2>2. CASE /\ job' = [job EXCEPT !.pc = AfterClaim[job.req.op], !.now = clock]
             /\ AfterClaim[job.req.op] \in Claimed
    BY <1>0, <1>3, <2>2, <1>b DEF Claim, TypeOK, Job, Keyed, Claimed
  <2> QED  BY <1>0, <1>3, <2>1, <2>2, ClaimOutcome
<1>4. ASSUME NEW u \in PickupIds, InsertPickup(u) PROVE SnapshotOK'
  <2>1. /\ job.pc = "insertPickup"
        /\ orders' = orders
        /\ job'.req = job.req
        /\ job'.seen = job.seen
        /\ job'.pc = IF job.seen.outlet = Null THEN "bind" ELSE "save"
    BY <1>0, <1>4 DEF InsertPickup, TypeOK, Job
  <2>2. job.req.op = "dispatch" /\ job.req.order # Null
    BY <1>0, <1>r, <2>1 DEF HandlerOK, Running, Shape, Sent
  <2>3. CASE job.seen.outlet = Null
    BY <1>0, <2>1, <2>2, <2>3 DEF SnapshotOK, Keyed
  <2>4. CASE job.seen.outlet # Null
    BY <2>1, <2>4, <1>a DEF Keyed
  <2> QED  BY <2>3, <2>4
<1>5. CASE AssignOutlet
  <2> DEFINE o == job.req.order
  <2>1. CASE job.req.op = "dispatch"
    BY <1>0, <1>5, <2>1, <1>a DEF AssignOutlet, Goto, TypeOK, Job, Keyed
  <2>2. CASE job.req.op # "dispatch"
    <3>1. /\ Running
          /\ o \in OrderIds
          /\ orders[o] \in OrderRow
          /\ job.req.op = "fulfil"
          /\ job.pc = "bind"
      BY <1>0, <1>5, <1>r, <2>2 DEF AssignOutlet, Running, HandlerOK
    <3>2. /\ orders[o].outlet = Null
          /\ job.req.by.outletId # Null
          /\ job.seen = orders[o]
      BY <1>0, <3>1 DEF SnapshotOK
    <3>3. orders' = [orders EXCEPT ![o].outlet = job.req.by.outletId,
                                   ![o].updated = job.now]
      BY <1>5, <3>2 DEF AssignOutlet
    <3>4. /\ orders'[o].outlet = job.req.by.outletId
          /\ orders'[o].status = orders[o].status
      BY <1>0, <3>1, <3>3 DEF TypeOK, OrderRow
    <3>5. /\ job'.req = job.req
          /\ job'.pc = AfterBinding(job.seen)
      BY <1>0, <1>5, <2>2 DEF AssignOutlet, Goto, TypeOK, Job
    <3>6. CASE job.seen.status = "processing"
      BY <3>5, <3>6, <1>a DEF AfterBinding, Keyed
    <3>7. CASE job.seen.status # "processing"
      BY <3>1, <3>2, <3>4, <3>5, <3>7 DEF AfterBinding, SnapshotOK, Keyed
    <3> QED  BY <3>6, <3>7
  <2> QED  BY <2>1, <2>2
<1>6. ASSUME NEW o \in OrderIds, InsertOrder(o) PROVE SnapshotOK'
  BY <1>0, <1>6, <1>a DEF InsertOrder, TypeOK, Job, Keyed
<1>7. CASE SetCancelled \/ InsertCancellation \/ SetProcessing \/ MarkCollected \/ Save
  BY <1>0, <1>7, <1>a DEF SetCancelled, InsertCancellation, SetProcessing,
     MarkCollected, Save, Goto, TypeOK, Job, Keyed
<1>8. CASE Respond \/ StatementFails \/ Crash
  BY <1>8, <1>a DEF Respond, StatementFails, Crash, NoJob, Keyed
<1>9. CASE Tick \/ UNCHANGED vars
  BY <1>9, <1>b DEF Tick, vars, database
<1>10. ASSUME Refuse \/ \E r \in Requests : Replay(r) PROVE SnapshotOK'
  BY <1>10, <1>b DEF Refuse, Replay, database
<1>11. ASSUME NEW w \in Windows, NEW p \in Principals, NEW o \in OrderIds,
              ReadOrder(w, p, o)
       PROVE  SnapshotOK'
  BY <1>11, <1>b DEF ReadOrder, database
<1> QED  BY <1>1, <1>2, <1>3, <1>4, <1>5, <1>6, <1>7, <1>8, <1>9, <1>10, <1>11
         DEF Next, ServerStep
-----------------------------------------------------------------------------
(***************************************************************************)
(* Idempotency keys.                                                       *)
(***************************************************************************)

(* An operation is performed under a claimed key, once, and without touching
   the records; or nothing is performed. *)
LEMMA EffectStep ==
  ASSUME IInv, [Next]_vars
  PROVE  \/ effects' = effects
         \/ /\ job.pc \in Claimed
            /\ job'.pc \notin Keyed
            /\ job.req.key \in Keys
            /\ records' = records /\ clock' = clock
            /\ \E answer \in Answer :
                 effects' = [effects EXCEPT ![job.req.key] =
                              @ \cup {[answer |-> answer, at |-> job.claimed]}]
<1> USE NullAssumption
<1>0. TypeOK /\ HandlerOK
  BY DEF IInv
<1>r. job.pc # "idle" => Running
  BY <1>0, IdleOrRunning
<1>1. ASSUME NEW o \in OrderIds, InsertOrder(o)
      PROVE  /\ job.pc \in Claimed /\ job'.pc \notin Keyed /\ job.req.key \in Keys
             /\ records' = records /\ clock' = clock
             /\ \E answer \in Answer :
                  effects' = [effects EXCEPT ![job.req.key] =
                               @ \cup {[answer |-> answer, at |-> job.claimed]}]
  <2>1. job.pc = "insertOrder" /\ Running /\ job.req.key \in Keys
    BY <1>1, <1>r DEF InsertOrder, Running, Keyed
  <2>2. [job.answer EXCEPT !.order = o] \in Answer
    BY <2>1 DEF Running, Answer
  <2>3. job'.pc = "save"
    BY <1>0, <1>1 DEF InsertOrder, TypeOK, Job
  <2> QED  BY <1>1, <2>1, <2>2, <2>3 DEF InsertOrder, Perform, Claimed, Keyed
<1>2. CASE SetCancelled
  <2>1. job.pc = "setCancelled" /\ Running /\ job.req.key \in Keys
    BY <1>2, <1>r DEF SetCancelled, Running, Keyed
  <2>2. job'.pc = "insertCancellation" /\ job.answer \in Answer
    BY <1>0, <1>2, <2>1 DEF SetCancelled, Goto, TypeOK, Job, Running
  <2> QED  BY <1>2, <2>1, <2>2 DEF SetCancelled, Perform, Claimed, Keyed
<1>3. ASSUME NEW u \in PickupIds, InsertPickup(u)
      PROVE  /\ job.pc \in Claimed /\ job'.pc \notin Keyed /\ job.req.key \in Keys
             /\ records' = records /\ clock' = clock
             /\ \E answer \in Answer :
                  effects' = [effects EXCEPT ![job.req.key] =
                               @ \cup {[answer |-> answer, at |-> job.claimed]}]
  <2>1. job.pc = "insertPickup" /\ Running /\ job.req.key \in Keys
    BY <1>3, <1>r DEF InsertPickup, Running, Keyed
  <2>2. [job.answer EXCEPT !.pickup = u] \in Answer
    BY <2>1 DEF Running, Answer
  <2>3. job'.pc \in {"bind", "save"}
    BY <1>0, <1>3 DEF InsertPickup, TypeOK, Job
  <2> QED  BY <1>3, <2>1, <2>2, <2>3 DEF InsertPickup, Perform, Claimed, Keyed
<1> QED
  BY <1>1, <1>2, <1>3
     DEF Next, ServerStep, Refuse, Replay, Admit, ReadOrder, Purge, Claim,
         InsertCancellation, AssignOutlet, SetProcessing, MarkCollected, Save,
         Respond, Tick, StatementFails, Crash, vars, database

(* A record is only removed once it has expired, only inserted where there is
   none, and keeps its expiry when it is completed. *)
LEMMA RecordStep ==
  ASSUME IInv, [Next]_vars
  PROVE  /\ clock <= clock'
         /\ \A k \in Keys : records[k] # Null =>
              \/ records'[k] # Null /\ records'[k].expires = records[k].expires
              \/ records[k].expires < clock
<1> USE NullAssumption
<1>0. TypeOK /\ HandlerOK
  BY DEF IInv
<1>1. CASE Purge
  BY <1>0, <1>1 DEF Purge, TypeOK
<1>2. CASE Claim
  <2>0. clock' = clock
    BY <1>2 DEF Claim
  <2>1. CASE records' = records
    BY <1>0, <2>0, <2>1 DEF TypeOK
  <2>2. ASSUME NEW rec, records[job.req.key] = Null,
               records' = [records EXCEPT ![job.req.key] = rec]
        PROVE  \A k \in Keys : records[k] # Null => records'[k] = records[k]
    BY <1>0, <2>2 DEF TypeOK
  <2> QED  BY <1>0, <1>2, <2>0, <2>1, <2>2, ClaimOutcome DEF TypeOK
<1>3. CASE Save
  <2> DEFINE k == job.req.key
             rec == [records[k] EXCEPT !.state = "completed", !.answer = job.answer]
  <2>1. records' = [records EXCEPT ![k] = IF records[k] = Null THEN Null ELSE rec]
    BY <1>0, <1>3 DEF Save, TypeOK
  <2>2. Running /\ k \in Keys
    BY <1>0, <1>3, IdleOrRunning DEF Save, Running
  <2>3. records[k] # Null => rec \in IdempotencyRow /\ rec.expires = records[k].expires
    BY <1>0, <2>2 DEF TypeOK, Running, IdempotencyRow
  <2> HIDE DEF rec
  <2>4. \A q \in Keys : records[q] # Null =>
          records'[q] # Null /\ records'[q].expires = records[q].expires
    BY <1>0, <2>1, <2>2, <2>3 DEF TypeOK
  <2> QED  BY <1>0, <1>3, <2>4 DEF Save, TypeOK
<1>4. CASE records' = records /\ (clock' = clock \/ clock' = clock + 1)
  BY <1>0, <1>4 DEF TypeOK
<1> QED
  BY <1>1, <1>2, <1>3, <1>4
     DEF Next, ServerStep, Refuse, Replay, Admit, ReadOrder, InsertOrder,
         SetCancelled, InsertCancellation, InsertPickup, AssignOutlet,
         SetProcessing, MarkCollected, Respond, Tick, StatementFails, Crash,
         vars, database

(* What is performed under a key is protected by its record. *)
LEMMA KeyStep ==
  ASSUME IInv, [Next]_vars
  PROVE  KeyOK' /\ AtMostOncePerKey'
<1> USE NumbersAssumption
<1>0. TypeOK /\ TypeOK' /\ KeyOK /\ ClaimOK /\ AtMostOncePerKey
  BY TypeStep DEF IInv
<1>1. \A k \in Keys : \A e \in effects[k] :
        \/ e.at + Retention < clock'
        \/ records'[k] # Null /\ e.at + Retention <= records'[k].expires
  <2> SUFFICES ASSUME NEW k \in Keys, NEW e \in effects[k]
               PROVE  \/ e.at + Retention < clock'
                      \/ records'[k] # Null /\ e.at + Retention <= records'[k].expires
    OBVIOUS
  <2>1. e.at \in Nat /\ clock \in Nat /\ clock' \in Nat /\ clock <= clock'
    BY <1>0, RecordStep DEF TypeOK, Effect
  <2>2. CASE e.at + Retention < clock
    BY <2>1, <2>2
  <2>3. CASE records[k] # Null /\ e.at + Retention <= records[k].expires
    <3>1. records[k].expires \in Nat
      BY <1>0, <2>3 DEF TypeOK, IdempotencyRow
    <3>2. \/ records'[k] # Null /\ records'[k].expires = records[k].expires
          \/ records[k].expires < clock
      BY <2>3, RecordStep
    <3> QED  BY <2>1, <2>3, <3>1, <3>2
  <2> QED  BY <1>0, <2>2, <2>3 DEF KeyOK
<1>2. CASE effects' = effects
  BY <1>0, <1>1, <1>2 DEF KeyOK, AtMostOncePerKey
<1>3. ASSUME NEW answer \in Answer,
             job.pc \in Claimed,
             job.req.key \in Keys,
             records' = records,
             effects' = [effects EXCEPT ![job.req.key] =
                          @ \cup {[answer |-> answer, at |-> job.claimed]}]
      PROVE  KeyOK' /\ AtMostOncePerKey'
  <2> DEFINE k == job.req.key
             new == [answer |-> answer, at |-> job.claimed]
  <2>1. /\ effects'[k] = effects[k] \cup {new}
        /\ \A q \in Keys : q # k => effects'[q] = effects[q]
    BY <1>0, <1>3 DEF TypeOK
  <2>2. /\ records'[k] # Null
        /\ records'[k].expires = job.claimed + Retention
        /\ \A e \in effects[k] : e.at + Retention < job.claimed
    BY <1>0, <1>3 DEF ClaimOK, Claimed, Keyed
  <2>3. new.at = job.claimed /\ job.claimed \in Nat
    BY <1>0 DEF TypeOK, Job
  <2>4. \A e \in effects[k] : e.at \in Nat
    BY <1>0, <1>3 DEF TypeOK, Effect
  <2> HIDE DEF new, k
  <2>5. KeyOK'
    BY <1>1, <2>1, <2>2, <2>3, <2>4 DEF KeyOK
  <2>6. AtMostOncePerKey'
    <3> SUFFICES ASSUME NEW q \in Keys, NEW e \in effects'[q], NEW f \in effects'[q],
                        e # f
                 PROVE  e.at + Retention < f.at \/ f.at + Retention < e.at
      BY DEF AtMostOncePerKey
    <3>1. CASE q # k
      BY <1>0, <2>1, <3>1 DEF AtMostOncePerKey
    <3>2. CASE q = k
      <4>1. CASE e = new
        BY <2>1, <2>2, <2>3, <3>2, <4>1
      <4>2. CASE f = new
        BY <2>1, <2>2, <2>3, <3>2, <4>2
      <4>3. CASE e # new /\ f # new
        BY <1>0, <2>1, <3>2, <4>3 DEF AtMostOncePerKey
      <4> QED  BY <4>1, <4>2, <4>3
    <3> QED  BY <3>1, <3>2
  <2> QED  BY <2>5, <2>6
<1> QED  BY <1>2, <1>3, EffectStep
(* A handler claims its key only over expired work, and holds it. *)
LEMMA ClaimStep ==
  ASSUME IInv, [Next]_vars
  PROVE  ClaimOK'
<1> USE NullAssumption
<1>0. TypeOK /\ HandlerOK /\ ClaimOK /\ KeyOK
  BY DEF IInv
<1>r. job.pc # "idle" => Running
  BY <1>0, IdleOrRunning
<1>a. CASE job'.pc \notin Keyed
  BY <1>a DEF ClaimOK, Keyed, Claimed
<1>b. CASE job' = job /\ records' = records /\ clock' = clock /\ effects' = effects
  BY <1>0, <1>b DEF ClaimOK
<1>1. ASSUME NEW r \in Requests, Admit(r) PROVE ClaimOK'
  <2> DEFINE k == r.key
  <2>1. Shape(r) /\ (k # Null => ~Unexpired(records[k])) /\ r.op \in Op
    BY <1>0, <1>1, Admitted DEF Shape, Sent, Request
  <2>2. /\ job'.pc = FirstStep(r) /\ job'.req = r /\ job'.claimed = clock
        /\ records' = records /\ clock' = clock /\ effects' = effects
    BY <1>1 DEF Admit, database
  <2>3. CASE r.op \in {"create", "cancel", "dispatch"}
    <3>1. k \in Keys /\ FirstStep(r) = "purge"
      BY <2>1, <2>3, FirstStepOf DEF Shape, Sent
    <3>2. records[k] = Null \/ (records[k].expires \in Nat /\ records[k].expires < clock)
      BY <1>0, <2>1, <3>1 DEF Unexpired, TypeOK, IdempotencyRow
    <3>3. ASSUME NEW e \in effects[k] PROVE e.at + Retention < clock
      <4>1. e.at \in Nat /\ clock \in Nat
        BY <1>0, <3>1 DEF TypeOK, Effect
      <4>2. \/ e.at + Retention < clock
            \/ records[k] # Null /\ e.at + Retention <= records[k].expires
        BY <1>0, <3>1 DEF KeyOK
      <4> QED  BY <3>2, <4>1, <4>2, NumbersAssumption
    <3> QED  BY <2>2, <3>1, <3>2, <3>3 DEF ClaimOK, Claimed, Keyed
  <2>4. CASE r.op \in {"fulfil", "collect"}
    BY <2>1, <2>2, <2>4, <1>a, FirstStepOf DEF Keyed
  <2> QED  BY <2>1, <2>3, <2>4 DEF Op
<1>2. CASE Purge
  <2> DEFINE k == job.req.key
  <2>1. /\ job.pc = "purge" /\ job'.pc = "claim" /\ job'.req = job.req
        /\ job'.claimed = clock /\ effects' = effects
        /\ job.claimed <= clock /\ k \in Keys
    BY <1>0, <1>2, <1>r DEF Purge, TypeOK, Job, HandlerOK, Running, Keyed
  <2>2. records'[k] = Null
    BY <1>0, <1>2, <2>1 DEF Purge, ClaimOK, TypeOK
  <2>3. ASSUME NEW e \in effects[k] PROVE e.at + Retention < clock
    <3>1. e.at \in Nat /\ clock \in Nat /\ job.claimed \in Nat
      BY <1>0, <2>1 DEF TypeOK, Effect, Job
    <3>2. e.at + Retention < job.claimed
      BY <1>0, <2>1 DEF ClaimOK, Keyed
    <3> QED  BY <2>1, <3>1, <3>2, NumbersAssumption
  <2> QED  BY <2>1, <2>2, <2>3 DEF ClaimOK, Claimed, Keyed
<1>3. CASE Claim
  <2> DEFINE k == job.req.key
  <2>1. CASE job' = NoJob
    BY <2>1, <1>a DEF NoJob, Keyed
  <2>2. ASSUME k \in Keys,
               records' = [records EXCEPT ![k] =
                             [hash    |-> BodyHash(job.req),
                              state   |-> "processing",
                              answer  |-> Null,
                              expires |-> job.claimed + Retention]],
               job' = [job EXCEPT !.pc = AfterClaim[job.req.op], !.now = clock],
               AfterClaim[job.req.op] \in Claimed
        PROVE  ClaimOK'
    <3>1. /\ job'.pc \in Claimed /\ job'.req = job.req /\ job'.claimed = job.claimed
      BY <1>0, <2>2 DEF TypeOK, Job
    <3>2. effects' = effects /\ job.pc = "claim"
      BY <1>3 DEF Claim
    <3>3. records'[k].expires = job.claimed + Retention
      BY <1>0, <2>2 DEF TypeOK
    <3>4. records'[k] # Null
      <4>1. records' \in [Keys -> IdempotencyRow \cup {Null}]
        BY TypeStep DEF TypeOK
      <4>2. BodyHash(job.req) \in Body
        BY <1>r, <3>2 DEF Running, BodyHash, Request
      <4>3. job.claimed + Retention \in Nat
        BY <1>0, NumbersAssumption DEF TypeOK, Job
      <4> DEFINE rec == [hash    |-> BodyHash(job.req),
                         state   |-> "processing",
                         answer  |-> Null,
                         expires |-> job.claimed + Retention]
      <4>4. rec \in IdempotencyRow
        BY <4>2, <4>3 DEF IdempotencyRow
      <4>5. records'[k] = rec
        BY <1>0, <2>2 DEF TypeOK
      <4> QED  BY <4>4, <4>5
    <3>5. \A e \in effects[k] : e.at + Retention < job.claimed
      BY <1>0, <3>2 DEF ClaimOK, Keyed
    <3> HIDE DEF k
    <3> QED  BY <3>1, <3>2, <3>3, <3>4, <3>5 DEF ClaimOK, Claimed, Keyed, k
  <2> QED  BY <1>0, <1>3, <2>1, <2>2, ClaimOutcome
<1>5. ASSUME NEW o \in OrderIds, InsertOrder(o) PROVE ClaimOK'
  BY <1>0, <1>5, <1>a DEF InsertOrder, TypeOK, Job, Keyed
<1>6. ASSUME NEW u \in PickupIds, InsertPickup(u) PROVE ClaimOK'
  BY <1>0, <1>6, <1>a DEF InsertPickup, TypeOK, Job, Keyed
<1>7. CASE SetCancelled \/ InsertCancellation \/ SetProcessing \/ MarkCollected \/ Save
  BY <1>0, <1>7, <1>a DEF SetCancelled, InsertCancellation, SetProcessing,
     MarkCollected, Save, Goto, TypeOK, Job, Keyed
<1>8. CASE AssignOutlet
  BY <1>0, <1>8, <1>a DEF AssignOutlet, AfterBinding, Goto, TypeOK, Job, Keyed
<1>9. CASE Respond \/ StatementFails \/ Crash
  BY <1>9, <1>a DEF Respond, StatementFails, Crash, NoJob, Keyed
<1>10. CASE Tick
  <2>1. clock \in Nat /\ clock' = clock + 1 /\ job' = job /\ records' = records
        /\ effects' = effects
    BY <1>0, <1>10 DEF Tick, TypeOK, database
  <2>2. job.pc = "purge" =>
          records[job.req.key] = Null \/ records[job.req.key].expires \in Nat
    BY <1>0, <1>r DEF Running, TypeOK, IdempotencyRow, Keyed
  <2> QED  BY <1>0, <2>1, <2>2 DEF ClaimOK
<1>11. CASE UNCHANGED vars
  BY <1>11, <1>b DEF vars, database
<1>12. ASSUME Refuse \/ \E r \in Requests : Replay(r) PROVE ClaimOK'
  BY <1>12, <1>b DEF Refuse, Replay, database
<1>13. ASSUME NEW w \in Windows, NEW p \in Principals, NEW o \in OrderIds,
              ReadOrder(w, p, o)
       PROVE  ClaimOK'
  BY <1>13, <1>b DEF ReadOrder, database
<1> QED  BY <1>1, <1>2, <1>3, <1>5, <1>6, <1>7, <1>8, <1>9, <1>10, <1>11, <1>12,
            <1>13 DEF Next, ServerStep
-----------------------------------------------------------------------------
(***************************************************************************)
(* Versions.                                                               *)
(***************************************************************************)

(* Each statement that changes an order brings it further. *)
LEMMA WritesGoFurther ==
  ASSUME Cancels \/ Binds \/ Processes
  PROVE  \E row : /\ Replaces(job.req.order, row)
                  /\ Further(orders[job.req.order], row)
<1> USE NullAssumption
<1> DEFINE o == job.req.order
<1>1. CASE Cancels
  <2> DEFINE row == [orders[o] EXCEPT !.status = "cancelled", !.updated = job.now]
  <2>1. Replaces(o, row) /\ orders[o] \in OrderRow /\ orders[o].status \in CANCELLABLE
    BY <1>1 DEF Cancels, Replaces
  <2>2. Stage(orders[o]) = 0 /\ Stage(row) = 1 /\ row.outlet = orders[o].outlet
    BY <2>1 DEF Stage, CANCELLABLE, OrderRow
  <2> HIDE DEF row
  <2> QED  BY <2>1, <2>2 DEF Further
<1>2. CASE Binds
  <2> DEFINE row == [orders[o] EXCEPT !.outlet = job.req.by.outletId,
                                      !.updated = job.now]
  <2>1. Replaces(o, row) /\ orders[o] \in OrderRow /\ orders[o].outlet = Null
    BY <1>2 DEF Binds, Replaces
  <2>2. /\ Stage(row) = Stage(orders[o]) /\ row.outlet = job.req.by.outletId
        /\ job.req.by.outletId # Null
    BY <1>2, <2>1 DEF Stage, OrderRow, Binds
  <2>3. Stage(row) \in Nat
    BY DEF Stage
  <2> HIDE DEF row
  <2> QED  BY <2>1, <2>2, <2>3 DEF Further
<1>3. CASE Processes
  <2> DEFINE row == [orders[o] EXCEPT !.status = "processing", !.updated = job.now]
  <2>1. /\ Replaces(o, row) /\ orders[o] \in OrderRow
        /\ orders[o].status # "processing"
    BY <1>3 DEF Processes, Replaces
  <2>2. Stage(orders[o]) \in {0, 1} /\ Stage(row) = 2 /\ row.outlet = orders[o].outlet
    BY <2>1 DEF Stage, OrderRow
  <2> HIDE DEF row
  <2> QED  BY <2>1, <2>2 DEF Further
<1> QED  BY <1>1, <1>2, <1>3

(* A write that takes an order forward leaves no screen with its version. *)
LEMMA ForwardWrite ==
  ASSUME TypeOK, TagOK, NEW o, NEW row, Replaces(o, row), Further(orders[o], row)
  PROVE  TagOK'
<1> USE NullAssumption DEF Further
<1> SUFFICES ASSUME NEW w \in Windows, held'[w].order # Null
             PROVE  LET r == orders'[held'[w].order]
                        tag == held'[w].tag
                    IN /\ r # Null
                       /\ Stage(tag) <= Stage(r)
                       /\ tag.outlet # Null => tag.outlet = r.outlet
                       /\ held'[w].stale => \/ Stage(tag) < Stage(r)
                                            \/ tag.outlet = Null /\ r.outlet # Null
  BY DEF TagOK
<1> DEFINE q == held[w].order
           tag == held[w].tag
<1>1. /\ held'[w].order = q
      /\ held'[w].tag = tag
      /\ held'[w].stale <=> (held[w].stale \/ q = o)
  <2>1. held[w] \in Held
    BY DEF TypeOK
  <2>2. held'[w] = [held[w] EXCEPT !.stale = held[w].stale \/ held[w].order = o]
    BY DEF Replaces, Outdate
  <2> QED  BY <2>1, <2>2 DEF Held
<1>2. /\ orders[q] # Null
      /\ Stage(tag) <= Stage(orders[q])
      /\ tag.outlet # Null => tag.outlet = orders[q].outlet
      /\ held[w].stale => \/ Stage(tag) < Stage(orders[q])
                          \/ tag.outlet = Null /\ orders[q].outlet # Null
  BY <1>1 DEF TagOK
<1>3. q \in OrderIds
  BY <1>1 DEF TypeOK, Held
<1>4. \A v : Stage(v) \in Nat
  BY DEF Stage
<1>5. CASE q # o
  <2>1. orders'[q] = orders[q]
    BY <1>3, <1>5 DEF Replaces, TypeOK
  <2> QED  BY <1>1, <1>2, <1>5, <2>1
<1>6. CASE q = o
  <2>1. orders'[q] = row /\ row # Null
    BY <1>3, <1>6 DEF Replaces, TypeOK
  <2>2. Stage(tag) \in Nat /\ Stage(orders[q]) \in Nat /\ Stage(row) \in Nat
    BY <1>4
  <2>3. Stage(tag) <= Stage(row)
    BY <1>2, <1>6, <2>2
  <2>4. tag.outlet # Null => tag.outlet = row.outlet
    BY <1>2, <1>6
  <2>5. Stage(tag) < Stage(row) \/ (tag.outlet = Null /\ row.outlet # Null)
    BY <1>2, <1>6, <2>2
  <2> QED  BY <1>1, <2>1, <2>3, <2>4, <2>5
<1> QED  BY <1>5, <1>6

(* No version comes back. *)
LEMMA TagStep ==
  ASSUME IInv, [Next]_vars
  PROVE  TagOK' /\ NothingHeld'
<1> USE NullAssumption
<1>0. TypeOK /\ TagOK /\ NothingHeld /\ TypeOK'
  BY TypeStep DEF IInv
<1>a. \A v : Stage(v) \in Nat
  BY DEF Stage
<1>1. CASE orders' = orders /\ held' = held
  BY <1>0, <1>1 DEF TagOK, NothingHeld
<1>2. ASSUME NEW w \in Windows, NEW p \in Principals, NEW o \in OrderIds,
             ReadOrder(w, p, o)
      PROVE  TagOK' /\ NothingHeld'
  <2> DEFINE h == [order |-> o, tag |-> OrderVersion(orders[o]), stale |-> FALSE]
  <2>1. /\ orders' = orders /\ orders[o] # Null /\ o # Null
        /\ held' = [held EXCEPT ![w] = h]
    BY <1>2 DEF ReadOrder, database
  <2>2. /\ Stage(h.tag) = Stage(orders[o]) /\ h.tag.outlet = orders[o].outlet
        /\ h.order = o /\ h.stale = FALSE
    BY DEF Stage, OrderVersion
  <2> HIDE DEF h
  <2>3. /\ held'[w] = h
        /\ \A v \in Windows : v # w => held'[v] = held[v]
    BY <1>0, <2>1 DEF TypeOK
  <2>4. TagOK'
    BY <1>0, <1>a, <2>1, <2>2, <2>3 DEF TagOK
  <2>5. NothingHeld'
    BY <1>0, <2>1, <2>2, <2>3 DEF NothingHeld
  <2> QED  BY <2>4, <2>5
<1>3. ASSUME NEW o \in OrderIds, Places(o) PROVE TagOK' /\ NothingHeld'
  <2>1. \A q \in OrderIds : orders[q] # Null => orders'[q] = orders[q]
    BY <1>0, <1>3 DEF Places, TypeOK
  <2>2. \A w \in Windows : held[w].order # Null => held[w].order \in OrderIds
    BY <1>0 DEF TypeOK, Held
  <2> QED  BY <1>0, <1>3, <2>1, <2>2 DEF TagOK, NothingHeld, Places
<1>4. ASSUME NEW o, NEW row, Replaces(o, row) PROVE NothingHeld'
  <2> SUFFICES ASSUME NEW w \in Windows, held'[w].order = Null
               PROVE  held'[w] = NothingRead
    BY DEF NothingHeld
  <2>1. held[w] \in Held
    BY <1>0 DEF TypeOK
  <2>2. held'[w] = [held[w] EXCEPT !.stale = held[w].stale \/ held[w].order = o]
    BY <1>4 DEF Replaces, Outdate
  <2>3. held[w].order = Null /\ o # Null
    BY <1>4, <2>1, <2>2 DEF Held, Replaces
  <2>4. held[w] = NothingRead
    BY <1>0, <2>3 DEF NothingHeld
  <2>5. held[w].stale = FALSE /\ held[w].order # o
    BY <2>3, <2>4 DEF NothingRead
  <2>6. held'[w] = [held[w] EXCEPT !.stale = FALSE]
    BY <2>2, <2>5
  <2>7. [held[w] EXCEPT !.stale = FALSE] = held[w]
    BY <2>1, <2>5 DEF Held
  <2> QED  BY <2>4, <2>6, <2>7
<1>5. CASE Cancels \/ Binds \/ Processes
  <2>1. PICK row : Replaces(job.req.order, row) /\ Further(orders[job.req.order], row)
    BY <1>5, WritesGoFurther
  <2> QED  BY <1>0, <1>4, <2>1, ForwardWrite
<1> QED  BY <1>1, <1>2, <1>3, <1>5, OrderStep
-----------------------------------------------------------------------------
(***************************************************************************)
(* Cancellations.                                                          *)
(***************************************************************************)

(* An order is cancelled once and its Cancellation inserted at most once. *)
LEMMA LedgerStep ==
  ASSUME IInv, [Next]_vars
  PROVE  LedgerOK' /\ CancellationLedger'
<1> USE NullAssumption
<1>0. TypeOK /\ HandlerOK /\ SnapshotOK /\ LedgerOK /\ CancellationLedger
  BY DEF IInv
<1>r. job.pc # "idle" => Running
  BY <1>0, IdleOrRunning
<1>1. CASE SetCancelled /\ Cancels
  <2> DEFINE o == job.req.order
             row == [orders[o] EXCEPT !.status = "cancelled", !.updated = job.now]
  <2>1. /\ o \in OrderIds
        /\ orders[o] \in OrderRow
        /\ orders[o].status \in CANCELLABLE
        /\ orders' = [orders EXCEPT ![o] = row]
        /\ row \in OrderRow
    BY <1>1 DEF Cancels, Replaces
  <2>2. cancellations' = cancellations /\ job'.req = job.req
    BY <1>0, <1>1 DEF SetCancelled, Goto, TypeOK, Job
  <2>3. cancellations[o] = 0
    BY <1>0, <2>1 DEF CancellationLedger, TypeOK
  <2>4. row.status = "cancelled"
    BY <2>1 DEF OrderRow
  <2> HIDE DEF row
  <2>5. /\ orders'[o] = row
        /\ \A q \in OrderIds : q # o => orders'[q] = orders[q]
    BY <1>0, <2>1 DEF TypeOK
  <2>6. LedgerOK'
    BY <2>2, <2>3, <2>4, <2>5 DEF LedgerOK
  <2>7. CancellationLedger'
    BY <1>0, <2>1, <2>2, <2>4, <2>5 DEF CancellationLedger, Exists, CANCELLABLE
  <2> QED  BY <2>6, <2>7
<1>2. CASE InsertCancellation
  <2> DEFINE o == job.req.order
  <2>1. /\ o \in OrderIds /\ orders[o] # Null
        /\ orders[o].status = "cancelled" /\ cancellations[o] = 0
    BY <1>0, <1>2, <1>r DEF InsertCancellation, Running, LedgerOK
  <2>2. /\ orders' = orders
        /\ cancellations' = [cancellations EXCEPT ![o] = @ + 1]
        /\ job'.pc = "save"
    BY <1>0, <1>2 DEF InsertCancellation, Goto, TypeOK, Job
  <2>3. cancellations \in [OrderIds -> Nat]
    BY <1>0 DEF TypeOK
  <2>4. /\ cancellations'[o] = 1
        /\ \A q \in OrderIds : q # o => cancellations'[q] = cancellations[q]
    BY <2>1, <2>2, <2>3
  <2> HIDE DEF o
  <2> QED  BY <1>0, <2>1, <2>2, <2>4
           DEF LedgerOK, CancellationLedger, Exists, CANCELLABLE
<1>3. ASSUME NEW o \in OrderIds, InsertOrder(o), Places(o)
      PROVE  LedgerOK' /\ CancellationLedger'
  <2>1. cancellations' = cancellations /\ job'.pc = "save"
    BY <1>0, <1>3 DEF InsertOrder, TypeOK, Job
  <2>2. cancellations[o] # 1
    BY <1>0, <1>3 DEF CancellationLedger, Exists, Places
  <2>3. \A q \in OrderIds : q # o => orders'[q] = orders[q]
    BY <1>0, <1>3 DEF Places, TypeOK
  <2> QED  BY <1>0, <2>1, <2>2, <2>3 DEF LedgerOK, CancellationLedger, Exists
<1>4. ASSUME cancellations' = cancellations, job'.pc # "insertCancellation",
             NEW o, NEW row, Replaces(o, row),
             row.status \in {orders[o].status, "processing"}
      PROVE  LedgerOK' /\ CancellationLedger'
  <2>1. /\ orders'[o] = row /\ row # Null
        /\ \A q \in OrderIds : q # o => orders'[q] = orders[q]
    BY <1>0, <1>4 DEF Replaces, TypeOK
  <2> QED  BY <1>0, <1>4, <2>1
           DEF LedgerOK, CancellationLedger, Exists, CANCELLABLE
<1>5. CASE AssignOutlet /\ Binds
  <2> DEFINE o == job.req.order
             row == [orders[o] EXCEPT !.outlet = job.req.by.outletId,
                                      !.updated = job.now]
  <2>1. cancellations' = cancellations /\ job'.pc # "insertCancellation"
    BY <1>0, <1>5 DEF AssignOutlet, AfterBinding, Goto, TypeOK, Job
  <2>2. Replaces(o, row) /\ row.status = orders[o].status
    BY <1>5 DEF Binds, Replaces, OrderRow
  <2> HIDE DEF row, o
  <2> QED  BY <1>4, <2>1, <2>2
<1>6. CASE SetProcessing /\ Processes
  <2> DEFINE o == job.req.order
             row == [orders[o] EXCEPT !.status = "processing", !.updated = job.now]
  <2>1. cancellations' = cancellations /\ job'.pc # "insertCancellation"
    BY <1>0, <1>6 DEF SetProcessing, Goto, TypeOK, Job
  <2>2. Replaces(o, row) /\ row.status = "processing"
    BY <1>6 DEF Processes, Replaces, OrderRow
  <2> HIDE DEF row, o
  <2> QED  BY <1>4, <2>1, <2>2
<1>7. ASSUME orders' = orders, cancellations' = cancellations,
             job'.pc # "insertCancellation" \/ job' = job
      PROVE  LedgerOK' /\ CancellationLedger'
  BY <1>0, <1>7 DEF LedgerOK, CancellationLedger, Exists
<1>8. ASSUME NEW r \in Requests, Admit(r) PROVE LedgerOK' /\ CancellationLedger'
  <2>1. Shape(r) /\ r.op \in Op
    BY <1>0, <1>8, Admitted DEF Shape, Sent, Request
  <2>2. job'.pc # "insertCancellation"
    BY <1>8, <2>1, FirstStepOf DEF Admit, Op
  <2> QED  BY <1>7, <1>8, <2>2 DEF Admit, database
<1>9. CASE Claim
  <2>1. job'.pc # "insertCancellation"
    <3>1. CASE job' = NoJob
      BY <3>1 DEF NoJob
    <3>2. CASE /\ job' = [job EXCEPT !.pc = AfterClaim[job.req.op], !.now = clock]
               /\ AfterClaim[job.req.op] \in Claimed
      BY <1>0, <3>2 DEF TypeOK, Job, Claimed
    <3> QED  BY <1>0, <1>9, <3>1, <3>2, ClaimOutcome
  <2>2. orders' = orders /\ cancellations' = cancellations
    BY <1>9 DEF Claim
  <2> QED  BY <1>7, <2>1, <2>2
<1>10. ASSUME NEW u \in PickupIds, InsertPickup(u) PROVE LedgerOK' /\ CancellationLedger'
  <2>1. job'.pc # "insertCancellation"
    BY <1>0, <1>10 DEF InsertPickup, TypeOK, Job
  <2> QED  BY <1>7, <1>10, <2>1 DEF InsertPickup
<1>11. CASE Purge \/ MarkCollected \/ Save
  <2>1. job'.pc # "insertCancellation"
    BY <1>0, <1>11 DEF Purge, MarkCollected, Save, Goto, TypeOK, Job
  <2> QED  BY <1>7, <1>11, <2>1 DEF Purge, MarkCollected, Save
<1>12. CASE Respond \/ StatementFails \/ Crash
  BY <1>7, <1>12 DEF Respond, StatementFails, Crash, NoJob, database
<1>13. CASE Tick \/ UNCHANGED vars
  BY <1>7, <1>13 DEF Tick, vars, database
<1>14. ASSUME Refuse \/ \E r \in Requests : Replay(r)
       PROVE  LedgerOK' /\ CancellationLedger'
  BY <1>7, <1>14 DEF Refuse, Replay, database
<1>15. ASSUME NEW w \in Windows, NEW p \in Principals, NEW o \in OrderIds,
              ReadOrder(w, p, o)
       PROVE  LedgerOK' /\ CancellationLedger'
  BY <1>7, <1>15 DEF ReadOrder, database
<1> QED  BY <1>1, <1>2, <1>3, <1>5, <1>6, <1>8, <1>9, <1>10, <1>11, <1>12,
            <1>13, <1>14, <1>15, OrderWrites DEF Next, ServerStep
-----------------------------------------------------------------------------
(***************************************************************************)
(* The theorems.                                                           *)
(***************************************************************************)

(* IInv is an invariant of the service, whatever requests arrive and whatever
   fails. *)
THEOREM Invariance == Spec => []IInv
<1>1. IInv /\ [Next]_vars => IInv'
  BY TypeStep, HandlerStep, SnapshotStep, KeyStep, ClaimStep, TagStep, LedgerStep
     DEF IInv
<1> QED  BY InitInv, <1>1, PTL DEF Spec

(* Every table keeps its type. *)
THEOREM TypeCorrect == Spec => []TypeOK
<1>1. IInv => TypeOK
  BY DEF IInv
<1> QED  BY <1>1, Invariance, PTL

(* A key's operation is performed at most once per retention period. *)
THEOREM OncePerKey == Spec => []AtMostOncePerKey
<1>1. IInv => AtMostOncePerKey
  BY DEF IInv
<1> QED  BY <1>1, Invariance, PTL

(* A claim that follows a successful check never fails in one process. *)
THEOREM ClaimsSucceed == Spec => []ClaimNeverLost
<1>1. IInv => ClaimNeverLost
  BY DEF IInv, ClaimOK, ClaimNeverLost
<1> QED  BY <1>1, Invariance, PTL

(* At most one Cancellation per order, and none for a cancellable one. *)
THEOREM OneCancellation == Spec => []CancellationLedger
<1>1. IInv => CancellationLedger
  BY DEF IInv
<1> QED  BY <1>1, Invariance, PTL

(* A screen whose order was written since it read it holds an old version. *)
THEOREM LostUpdatesRefused == Spec => []NoLostUpdate
<1>1. ASSUME IInv PROVE NoLostUpdate
  <2> SUFFICES ASSUME NEW w \in Windows, held[w].stale
               PROVE  held[w].tag # OrderVersion(orders[held[w].order])
    BY DEF NoLostUpdate
  <2> DEFINE tag == held[w].tag
             row == orders[held[w].order]
  <2>1. held[w].order # Null
    BY <1>1 DEF IInv, NothingHeld, NothingRead
  <2>2. Stage(tag) < Stage(row) \/ (tag.outlet = Null /\ row.outlet # Null)
    BY <1>1, <2>1 DEF IInv, TagOK
  <2>3. Stage(OrderVersion(row)) = Stage(row) /\ OrderVersion(row).outlet = row.outlet
    BY DEF OrderVersion, Stage
  <2>4. Stage(row) \in Nat
    BY DEF Stage
  <2> HIDE DEF tag, row
  <2>5. tag # OrderVersion(row)
    BY <2>2, <2>3, <2>4
  <2> QED  BY <2>5 DEF tag, row
<1> QED  BY <1>1, Invariance, PTL

(* No statement undoes what an order has come to, and each that changes it
   brings it further. *)
THEOREM OrdersOnlyAdvance == Spec => OrdersMoveForward
<1> DEFINE Advances == \A o \in OrderIds :
                         Exists(o) /\ orders'[o] # orders[o] =>
                           orders'[o] # Null /\ Further(orders[o], orders'[o])
<1>1. ASSUME IInv, [Next]_vars PROVE Advances
  <2>0. TypeOK
    BY <1>1 DEF IInv
  <2>1. CASE orders' = orders
    BY <2>1
  <2>2. ASSUME NEW o \in OrderIds, Places(o) PROVE Advances
    BY <2>0, <2>2 DEF Places, TypeOK, Exists
  <2>3. CASE Cancels \/ Binds \/ Processes
    <3>1. PICK row : Replaces(job.req.order, row) /\ Further(orders[job.req.order], row)
      BY <2>3, WritesGoFurther
    <3> QED  BY <2>0, <3>1, NullAssumption DEF Replaces, TypeOK
  <2> HIDE DEF Advances
  <2> QED  BY <1>1, <2>1, <2>2, <2>3, OrderStep DEF ReadOrder, database
<1>2. IInv /\ [Next]_vars => [Advances]_orders
  BY <1>1
<1> HIDE DEF Advances
<1>3. Spec => [][Advances]_orders
  BY <1>2, Invariance, PTL DEF Spec
<1> QED  BY <1>3 DEF OrdersMoveForward, Advances

(* Only the customer, or the outlet that has the order, changes an order. *)
THEOREM OnlyAuthorisedWrites == Spec => WritesAuthorised
<1> DEFINE Authorised == \A o \in OrderIds :
             Exists(o) /\ orders'[o] # orders[o] =>
               \/ /\ job.req.by.domainId = orders[o].customer
                  /\ orders'[o].outlet = orders[o].outlet
               \/ /\ job.req.by.outletId # Null
                  /\ orders'[o].outlet = job.req.by.outletId
<1>1. ASSUME IInv, [Next]_vars PROVE Authorised
  <2> USE NullAssumption
  <2>0. TypeOK
    BY <1>1 DEF IInv
  <2>1. CASE orders' = orders
    BY <2>1
  <2>2. ASSUME NEW o \in OrderIds, Places(o) PROVE Authorised
    BY <2>0, <2>2 DEF Places, TypeOK, Exists
  <2>3. ASSUME NEW o, NEW row, Replaces(o, row),
               \/ /\ job.req.by.domainId = orders[o].customer
                  /\ row.outlet = orders[o].outlet
               \/ /\ job.req.by.outletId # Null
                  /\ row.outlet = job.req.by.outletId
        PROVE  Authorised
    BY <2>0, <2>3 DEF Replaces, TypeOK
  <2>4. CASE Cancels
    <3>1. orders[job.req.order] \in OrderRow
      BY <2>4 DEF Cancels, Replaces
    <3> QED  BY <2>3, <2>4, <3>1 DEF Cancels, OrderRow, MayCancelOrder
  <2>5. CASE Binds
    <3>1. orders[job.req.order] \in OrderRow
      BY <2>5 DEF Binds, Replaces
    <3> QED  BY <2>3, <2>5, <3>1 DEF Binds, OrderRow
  <2>6. CASE Processes
    <3>1. orders[job.req.order] \in OrderRow
      BY <2>6 DEF Processes, Replaces
    <3> QED  BY <2>3, <2>6, <3>1 DEF Processes, OrderRow
  <2> HIDE DEF Authorised
  <2> QED  BY <1>1, <2>1, <2>2, <2>4, <2>5, <2>6, OrderStep DEF ReadOrder, database
<1>2. IInv /\ [Next]_vars => [Authorised]_orders
  BY <1>1
<1> HIDE DEF Authorised
<1>3. Spec => [][Authorised]_orders
  BY <1>2, Invariance, PTL DEF Spec
<1> QED  BY <1>3 DEF WritesAuthorised, Authorised

(* What the lifecycle sees of a row. *)
View(row) == [customer |-> row.customer, status |-> row.status, outlet |-> row.outlet]

(* The time stamp is not part of the view. *)
LEMMA ViewEdit ==
  ASSUME NEW row \in OrderRow, NEW status, NEW at
  PROVE  View([row EXCEPT !.status = status, !.updated = at])
           = [View(row) EXCEPT !.status = status]
BY DEF View, OrderRow

(* Replacing a row of the table replaces its view. *)
LEMMA ViewOfUpdate ==
  ASSUME TypeOK, NEW o \in OrderIds, NEW row \in OrderRow,
         orders' = [orders EXCEPT ![o] = row]
  PROVE  lifecycle' = [lifecycle EXCEPT ![o] = View(row)]
<1>1. /\ orders'[o] = row /\ row # Null
      /\ \A q \in OrderIds : q # o => orders'[q] = orders[q]
  BY NullAssumption DEF TypeOK
<1>2. \A q \in OrderIds :
        (IF Exists(q) THEN View(orders[q]) ELSE Null)'
          = IF q = o THEN View(row) ELSE (IF Exists(q) THEN View(orders[q]) ELSE Null)
  BY <1>1 DEF Exists
<1> QED  BY <1>2 DEF lifecycle, View

(* Every step of the service is a step of the lifecycle or none. *)
LEMMA LifecycleStep ==
  ASSUME IInv, [Next]_vars
  PROVE  [Lifecycle!Next]_lifecycle
<1> USE NullAssumption
<1>0. TypeOK
  BY DEF IInv
<1>1. CASE orders' = orders
  BY <1>1 DEF lifecycle, Exists
<1>2. ASSUME NEW o \in OrderIds, Places(o) PROVE [Lifecycle!Next]_lifecycle
  <2>1. lifecycle' = [lifecycle EXCEPT ![o] = View(NewOrder(job.req.body.customer, job.now))]
    BY <1>0, <1>2, ViewOfUpdate DEF Places
  <2>2. View(NewOrder(job.req.body.customer, job.now))
          = [customer |-> job.req.body.customer, status |-> "pending_pickup", outlet |-> Null]
    BY DEF View, NewOrder
  <2>3. lifecycle[o] = Null
    BY <1>2 DEF lifecycle, Exists, Places
  <2>4. Lifecycle!Place(o, job.req.body.customer)
    BY <2>1, <2>2, <2>3 DEF Lifecycle!Place
  <2> QED  BY <1>2, <2>4 DEF Places, Lifecycle!Next
<1>v. ASSUME NEW o, NEW row, Replaces(o, row)
      PROVE  /\ o \in OrderIds
             /\ lifecycle[o] = View(orders[o])
             /\ lifecycle[o] # Null
             /\ lifecycle' = [lifecycle EXCEPT ![o] = View(row)]
  <2>1. o \in OrderIds /\ orders[o] \in OrderRow /\ row \in OrderRow
    BY <1>v DEF Replaces
  <2>2. lifecycle[o] = View(orders[o])
    BY <2>1 DEF lifecycle, View, Exists
  <2>3. View(orders[o]) # Null
    BY <2>1, ViewAssumption DEF View, OrderRow
  <2> QED  BY <1>0, <1>v, <2>1, <2>2, <2>3, ViewOfUpdate DEF Replaces
<1>3. CASE Cancels
  <2> DEFINE o == job.req.order
             row == [orders[o] EXCEPT !.status = "cancelled", !.updated = job.now]
  <2>1. Replaces(o, row) /\ orders[o] \in OrderRow /\ orders[o].status \in CANCELLABLE
    BY <1>3 DEF Cancels, Replaces
  <2>2. View(row) = [View(orders[o]) EXCEPT !.status = "cancelled"]
    BY <2>1, ViewEdit
  <2>3. View(orders[o]).status = orders[o].status
    BY DEF View
  <2> HIDE DEF row, o
  <2>4. lifecycle' = [lifecycle EXCEPT ![o].status = "cancelled"]
    BY <1>v, <2>1, <2>2
  <2>5. Lifecycle!Cancel(o)
    BY <1>v, <2>1, <2>3, <2>4 DEF Lifecycle!Cancel, CANCELLABLE
  <2> QED  BY <1>v, <2>1, <2>5 DEF Lifecycle!Next
<1>4. CASE Binds
  <2> DEFINE o == job.req.order
             x == job.req.by.outletId
             row == [orders[o] EXCEPT !.outlet = x, !.updated = job.now]
  <2>1. /\ Replaces(o, row) /\ orders[o] \in OrderRow
        /\ orders[o].outlet = Null /\ x \in DomainIds
    BY <1>4 DEF Binds, Replaces
  <2>2. View(row) = [View(orders[o]) EXCEPT !.outlet = x]
    BY <2>1 DEF View, OrderRow
  <2>3. View(orders[o]).outlet = orders[o].outlet
    BY DEF View
  <2> HIDE DEF row, o, x
  <2>4. lifecycle' = [lifecycle EXCEPT ![o].outlet = x]
    BY <1>v, <2>1, <2>2
  <2>5. Lifecycle!TakeIn(o, x)
    BY <1>v, <2>1, <2>3, <2>4 DEF Lifecycle!TakeIn
  <2> QED  BY <1>v, <2>1, <2>5 DEF Lifecycle!Next
<1>5. CASE Processes
  <2> DEFINE o == job.req.order
             row == [orders[o] EXCEPT !.status = "processing", !.updated = job.now]
  <2>1. Replaces(o, row) /\ orders[o] \in OrderRow /\ orders[o].outlet # Null
    BY <1>5 DEF Processes, Replaces
  <2>2. View(row) = [View(orders[o]) EXCEPT !.status = "processing"]
    BY <2>1, ViewEdit
  <2>3. View(orders[o]).outlet = orders[o].outlet
    BY DEF View
  <2> HIDE DEF row, o
  <2>4. lifecycle' = [lifecycle EXCEPT ![o].status = "processing"]
    BY <1>v, <2>1, <2>2
  <2>5. Lifecycle!Process(o)
    BY <1>v, <2>1, <2>3, <2>4 DEF Lifecycle!Process
  <2> QED  BY <1>v, <2>1, <2>5 DEF Lifecycle!Next
<1> QED  BY <1>1, <1>2, <1>3, <1>4, <1>5, OrderStep DEF ReadOrder, database

(* The service implements the lifecycle of an order. *)
THEOREM LifecycleImplemented == Spec => ImplementsLifecycle
<1>1. Init => Lifecycle!Init
  BY DEF Init, Lifecycle!Init, lifecycle, Exists
<1>2. IInv /\ [Next]_vars => [Lifecycle!Next]_lifecycle
  BY LifecycleStep
<1>3. Spec => Lifecycle!Spec
  BY <1>1, <1>2, Invariance, PTL DEF Spec, Lifecycle!Spec
<1> QED  BY <1>3 DEF ImplementsLifecycle
-----------------------------------------------------------------------------
(***************************************************************************)
(* What the records and the answers say has happened, and what a failure   *)
(* may spoil: at most one order, pickup or key for each failure.           *)
(***************************************************************************)
\* The statements of an operation under that hash that come before its last
\* are in the file, and for a creation all of them.
Made(answer, hash) ==
  /\ answer.op \in {"create", "cancel", "dispatch"}
  /\ answer.order \in OrderIds /\ Exists(answer.order)
  /\ answer.op = "create" => orders[answer.order].customer = hash.customer
  /\ answer.op = "cancel" => orders[answer.order].status \notin CANCELLABLE
  /\ answer.op = "dispatch" =>
       /\ answer.pickup \in PickupIds /\ pickups[answer.pickup] # Null
       /\ pickups[answer.pickup].order = answer.order
       /\ pickups[answer.pickup].driver = hash.driver
       /\ hash.order = answer.order

\* So is its last.
Ended(answer) ==
  /\ answer.op = "cancel" => cancellations[answer.order] > 0
  /\ answer.op = "dispatch" => orders[answer.order].outlet # Null

Performed(k, answer) == \E e \in effects[k] : e.answer = answer

RecordsOK ==
  \A k \in Keys : records[k] # Null /\ records[k].state = "completed" =>
    /\ Made(records[k].answer, records[k].hash) /\ Ended(records[k].answer)
    /\ Performed(k, records[k].answer)

\* Between its claim and its completion a handler has a record of its own, and
\* what it has performed is what it will answer.
Late == {"insertCancellation", "bind", "save"}

AnswerOK ==
  job.pc # "idle" =>
    /\ job.answer.op = job.req.op
    /\ job.req.op # "create" => job.answer.order = job.req.order
    /\ job.req.key # Null =>
         /\ job.pc \in Claimed \cup Late =>
              /\ records[job.req.key] # Null
              /\ records[job.req.key].state = "processing"
              /\ records[job.req.key].hash = BodyHash(job.req)
         /\ job.pc = "save" => Ended(job.answer)
         /\ job.pc \in Late \cup {"respond"} =>
              Made(job.answer, BodyHash(job.req)) /\ Performed(job.req.key, job.answer)
         /\ job.pc = "respond" /\ records[job.req.key] # Null =>
              records[job.req.key].state = "completed"

\* What a success answer says was done under its key, as its body asks.
RepliesOK ==
  reply.status \in {"done", "replayed"} /\ reply.key # Null =>
    Made(reply.answer, reply.body) /\ Performed(reply.key, reply.answer)

\* A pickup is of an order that exists.
PickupsOK == \A u \in PickupIds : pickups[u] # Null => Exists(pickups[u].order)

\* Pickups of an order no outlet has, but for one whose handler is to bind it.
Unbound ==
  {u \in PickupIds :
     /\ pickups[u] # Null /\ orders[pickups[u].order].outlet = Null
     /\ ~(job.pc = "bind" /\ job.req.op = "dispatch" /\ job.answer.pickup = u)}

AtMost(S, n) == IsFiniteSet(S) /\ Cardinality(S) <= n

FaultsOK ==
  AtMost(WithoutCancellation, faults) /\ AtMost(Unbound, faults) /\ AtMost(Orphaned, faults)

LInv == IInv /\ RecordsOK /\ AnswerOK /\ PickupsOK /\ FaultsOK

-----------------------------------------------------------------------------
(***************************************************************************)
(* What lasts.                                                             *)
(***************************************************************************)

\* An order keeps its customer, its outlet and that it cannot be cancelled.
LEMMA OrdersKeep ==
  ASSUME IInv, [Next]_vars, NEW o \in OrderIds, Exists(o)
  PROVE  /\ Exists(o)' /\ orders'[o].customer = orders[o].customer
         /\ orders[o].status \notin CANCELLABLE => orders'[o].status \notin CANCELLABLE
         /\ orders[o].outlet # Null => orders'[o].outlet # Null
<1> USE NullAssumption
<1>0. TypeOK
  BY DEF IInv
<1>1. CASE orders' = orders
  BY <1>1 DEF Exists
<1>2. ASSUME NEW q \in OrderIds, Places(q)
      PROVE  orders'[o] = orders[o]
  BY <1>0, <1>2 DEF Places, TypeOK, Exists
<1>3. ASSUME NEW q, NEW row, Replaces(q, row),
             row.customer = orders[q].customer,
             orders[q].status \notin CANCELLABLE => row.status \notin CANCELLABLE,
             orders[q].outlet # Null => row.outlet # Null
      PROVE  /\ Exists(o)' /\ orders'[o].customer = orders[o].customer
             /\ orders[o].status \notin CANCELLABLE => orders'[o].status \notin CANCELLABLE
             /\ orders[o].outlet # Null => orders'[o].outlet # Null
  <2>1. orders'[q] = row /\ row # Null /\ \A p \in OrderIds : p # q => orders'[p] = orders[p]
    BY <1>0, <1>3 DEF Replaces, TypeOK
  <2> QED
    BY <1>3, <2>1 DEF Exists
<1>4. CASE Cancels
  <2> DEFINE q   == job.req.order
             row == [orders[q] EXCEPT !.status = "cancelled", !.updated = job.now]
  <2>1. Replaces(q, row) /\ orders[q] \in OrderRow
    BY <1>4 DEF Cancels, Replaces
  <2>2. row.customer = orders[q].customer /\ row.outlet = orders[q].outlet
        /\ row.status = "cancelled"
    BY <2>1 DEF OrderRow
  <2> HIDE DEF row, q
  <2> QED
    BY <1>3, <2>1, <2>2 DEF CANCELLABLE
<1>5. CASE Binds
  <2> DEFINE q   == job.req.order
             row == [orders[q] EXCEPT !.outlet = job.req.by.outletId, !.updated = job.now]
  <2>1. Replaces(q, row) /\ orders[q] \in OrderRow /\ job.req.by.outletId # Null
    BY <1>5 DEF Binds, Replaces
  <2>2. row.customer = orders[q].customer /\ row.outlet # Null
        /\ row.status = orders[q].status
    BY <2>1 DEF OrderRow
  <2> HIDE DEF row, q
  <2> QED
    BY <1>3, <2>1, <2>2
<1>6. CASE Processes
  <2> DEFINE q   == job.req.order
             row == [orders[q] EXCEPT !.status = "processing", !.updated = job.now]
  <2>1. Replaces(q, row) /\ orders[q] \in OrderRow
    BY <1>6 DEF Processes, Replaces
  <2>2. row.customer = orders[q].customer /\ row.outlet = orders[q].outlet
        /\ row.status = "processing"
    BY <2>1 DEF OrderRow
  <2> HIDE DEF row, q
  <2> QED
    BY <1>3, <2>1, <2>2 DEF CANCELLABLE
<1> QED
  BY OrderStep, <1>1, <1>2, <1>4, <1>5, <1>6 DEF ReadOrder, database, Exists

\* A pickup keeps its order and its driver.
LEMMA PickupsKeep ==
  ASSUME IInv, [Next]_vars, NEW v \in PickupIds, pickups[v] # Null
  PROVE  /\ pickups'[v] # Null /\ pickups'[v].order = pickups[v].order
         /\ pickups'[v].driver = pickups[v].driver
<1> USE NullAssumption
<1>0. TypeOK /\ HandlerOK
  BY DEF IInv
<1>1. ASSUME NEW u \in PickupIds, InsertPickup(u) PROVE pickups'[v] = pickups[v]
  BY <1>0, <1>1 DEF InsertPickup, TypeOK
<1>2. CASE MarkCollected
  <2> DEFINE u   == job.req.pickup
             row == [pickups[u] EXCEPT !.status = "picked_up"]
  <2>1. u \in PickupIds /\ pickups[u] \in PickupRow
    BY <1>0, <1>2, IdleOrRunning DEF MarkCollected, Running
  <2>2. row \in PickupRow /\ row.order = pickups[u].order /\ row.driver = pickups[u].driver
    BY <2>1 DEF PickupRow, PickupStatus
  <2>3. pickups' = [pickups EXCEPT ![u] = row]
    BY <1>0, <1>2 DEF MarkCollected, TypeOK
  <2> HIDE DEF u, row
  <2>4. pickups'[v] = IF v = u THEN row ELSE pickups[v]
    BY <1>0, <2>3 DEF TypeOK
  <2> QED
    BY <2>2, <2>4
<1>3. CASE pickups' = pickups
  BY <1>3
<1> QED
  BY <1>1, <1>2, <1>3
     DEF Next, ServerStep, Refuse, Replay, Admit, ReadOrder, Purge, Claim,
         InsertOrder, SetCancelled, InsertCancellation, AssignOutlet,
         SetProcessing, Save, Respond, Tick, StatementFails, Crash, database,
         vars

\* No row of cancellations goes.
LEMMA CancellationsKeep ==
  ASSUME IInv, [Next]_vars, NEW o \in OrderIds
  PROVE  cancellations'[o] \in Nat /\ cancellations[o] <= cancellations'[o]
<1>0. TypeOK /\ TypeOK'
  BY TypeStep DEF IInv
<1>1. cancellations[o] \in Nat /\ cancellations'[o] \in Nat
  BY <1>0 DEF TypeOK
<1>2. CASE InsertCancellation
  <2>1. cancellations'[o] \in {cancellations[o], cancellations[o] + 1}
    BY <1>0, <1>2 DEF InsertCancellation, TypeOK
  <2> QED
    BY <1>1, <2>1
<1>3. CASE cancellations' = cancellations
  BY <1>1, <1>3
<1> QED
  BY <1>1, <1>2, <1>3
     DEF Next, ServerStep, Refuse, Replay, Admit, ReadOrder, Purge, Claim,
         InsertOrder, InsertPickup, SetCancelled, AssignOutlet, MarkCollected,
         SetProcessing, Save, Respond, Tick, StatementFails, Crash, database, vars

\* What was done stays done.
LEMMA MadeStays ==
  ASSUME IInv, [Next]_vars, NEW answer, NEW hash, Made(answer, hash)
  PROVE  Made(answer, hash)' /\ (Ended(answer) => Ended(answer)')
<1>1. answer.order \in OrderIds /\ Exists(answer.order)
  BY DEF Made
<1>2. /\ Exists(answer.order)'
      /\ orders'[answer.order].customer = orders[answer.order].customer
      /\ orders[answer.order].status \notin CANCELLABLE =>
           orders'[answer.order].status \notin CANCELLABLE
      /\ orders[answer.order].outlet # Null => orders'[answer.order].outlet # Null
  BY <1>1, OrdersKeep
<1>3. answer.op = "dispatch" =>
        /\ pickups'[answer.pickup] # Null
        /\ pickups'[answer.pickup].order = pickups[answer.pickup].order
        /\ pickups'[answer.pickup].driver = pickups[answer.pickup].driver
  BY PickupsKeep DEF Made
<1>4. Made(answer, hash)'
  BY <1>1, <1>2, <1>3 DEF Made
<1>5. cancellations[answer.order] \in Nat /\ cancellations'[answer.order] \in Nat
      /\ cancellations[answer.order] <= cancellations'[answer.order]
  BY <1>1, CancellationsKeep DEF IInv, TypeOK
<1>6. cancellations[answer.order] > 0 => cancellations'[answer.order] > 0
  BY <1>5
<1>7. Ended(answer) => Ended(answer)'
  BY <1>2, <1>6 DEF Ended
<1> QED
  BY <1>4, <1>7

\* Nor what was performed under a key.
LEMMA PerformedStays ==
  ASSUME IInv, [Next]_vars, NEW k \in Keys, NEW answer, Performed(k, answer)
  PROVE  Performed(k, answer)'
<1>1. effects \in [Keys -> SUBSET Effect]
  BY DEF IInv, TypeOK
<1>2. effects[k] \subseteq effects'[k]
  BY <1>1, EffectStep
<1> QED
  BY <1>2 DEF Performed

-----------------------------------------------------------------------------
(***************************************************************************)
(* The handler and its record.                                             *)
(***************************************************************************)

\* What AnswerOK asks of a handler after a step.
LEMMA AnswerFrom ==
  ASSUME NEW a, NEW r, NEW pc, job'.pc = pc, job'.req = r, job'.answer = a,
         a.op = r.op, r.op # "create" => a.order = r.order,
         r.key # Null /\ pc \in Claimed \cup Late =>
           /\ records'[r.key] # Null /\ records'[r.key].state = "processing"
           /\ records'[r.key].hash = BodyHash(r),
         r.key # Null /\ pc = "save" => Ended(a)',
         r.key # Null /\ pc \in Late \cup {"respond"} =>
           Made(a, BodyHash(r))' /\ Performed(r.key, a)',
         r.key # Null /\ pc = "respond" /\ records'[r.key] # Null =>
           records'[r.key].state = "completed"
  PROVE  AnswerOK'
BY DEF AnswerOK, Made, Ended, Performed, BodyHash, Exists

\* The running handler.
LEMMA Handler ==
  ASSUME IInv, job.pc # "idle"
  PROVE  /\ Running /\ job \in Job /\ job.req \in Requests
         /\ job.req.key # Null <=> job.req.op \in {"create", "cancel", "dispatch"}
         /\ job.req.key # Null => job.req.key \in Keys
<1>1. Running /\ job \in Job /\ job.req \in Requests
  BY IdleOrRunning DEF IInv, HandlerOK, TypeOK
<1> QED
  BY <1>1, NullAssumption DEF Running, Shape, Sent, Request, Op

\* A handler that is not touched keeps what it has.
LEMMA UntouchedOK ==
  ASSUME LInv, [Next]_vars, job.pc # "idle", job' = job,
         job.req.key # Null => records'[job.req.key] = records[job.req.key]
  PROVE  AnswerOK'
<1> PICK a : a = job.answer
  OBVIOUS
<1> PICK r : r = job.req
  OBVIOUS
<1> PICK pc : pc = job.pc
  OBVIOUS
<1>1. job'.pc = pc /\ job'.req = r /\ job'.answer = a
  BY Handler DEF LInv, Job
<1>2. /\ a.op = r.op /\ (r.op # "create" => a.order = r.order)
      /\ r.key # Null =>
         /\ pc \in Claimed \cup Late =>
              /\ records[r.key] # Null
              /\ records[r.key].state = "processing"
              /\ records[r.key].hash = BodyHash(r)
         /\ pc = "save" => Ended(a)
         /\ pc \in Late \cup {"respond"} => Made(a, BodyHash(r)) /\ Performed(r.key, a)
         /\ pc = "respond" /\ records[r.key] # Null => records[r.key].state = "completed"
  BY DEF LInv, AnswerOK
<1>3. r.key # Null => r.key \in Keys
  BY Handler DEF LInv
<1>4. r.key # Null /\ pc \in Late \cup {"respond"} =>
        Made(a, BodyHash(r))' /\ (pc = "save" => Ended(a)')
  BY <1>2, MadeStays DEF LInv, BodyHash
<1>5. r.key # Null /\ pc \in Late \cup {"respond"} => Performed(r.key, a)'
  BY <1>2, <1>3, PerformedStays DEF LInv
<1> QED
  BY <1>1, <1>2, <1>3, <1>4, <1>5, AnswerFrom DEF Late

\* Nothing is asked of a handler that has not claimed its key, or has none.
LEMMA EarlyOK ==
  ASSUME LInv, job.pc # "idle", NEW pc, job'.pc = pc, job'.req = job.req,
         job'.answer = job.answer,
         job.req.key = Null \/ pc \notin Claimed \cup Late \cup {"respond"}
  PROVE  AnswerOK'
BY DEF LInv, AnswerOK, Late

\* A creation answers with the order it inserts.
LEMMA InsertOrderAnswerOK ==
  ASSUME LInv, [Next]_vars, NEW o \in OrderIds, InsertOrder(o)
  PROVE  AnswerOK'
<1> PICK r : r = job.req
  OBVIOUS
<1> PICK a : a = [job.answer EXCEPT !.order = o]
  OBVIOUS
<1>0. /\ job.pc = "insertOrder" /\ job \in Job /\ job.answer \in Answer /\ r \in Requests
      /\ r.op = "create" /\ r.key \in Keys
  BY Handler DEF InsertOrder, LInv, IInv, HandlerOK, Running
<1>1. job' = [job EXCEPT !.pc = "save", !.answer = a]
  BY DEF InsertOrder
<1>2. job'.pc = "save" /\ job'.req = r /\ job'.answer = a
  BY <1>0, <1>1 DEF Job
<1>3. a.op = "create" /\ a.order = o
  BY <1>0 DEF LInv, AnswerOK, Answer
<1>4. records' = records /\ records[r.key] # Null /\ records[r.key].state = "processing"
      /\ records[r.key].hash = BodyHash(r)
  BY <1>0, NullAssumption DEF InsertOrder, LInv, AnswerOK, Claimed
<1>5. orders'[o] = NewOrder(r.body.customer, job.now) /\ orders'[o] # Null
  <2>1. Places(o)
    BY OrderWrites DEF LInv
  <2> QED
    BY <2>1, NullAssumption DEF Places, LInv, IInv, TypeOK
<1>6. Made(a, BodyHash(r))'
  BY <1>0, <1>3, <1>5 DEF Made, NewOrder, Exists, BodyHash
<1>7. Performed(r.key, a)'
  <2>1. effects' = [effects EXCEPT ![r.key] = @ \cup {[answer |-> a, at |-> job.claimed]}]
    BY DEF InsertOrder, Perform
  <2>2. [answer |-> a, at |-> job.claimed] \in effects'[r.key]
    BY <1>0, <2>1 DEF LInv, IInv, TypeOK
  <2> QED
    BY <2>2 DEF Performed
<1>8. Ended(a)'
  BY <1>3 DEF Ended
<1> QED
  BY <1>0, <1>2, <1>3, <1>4, <1>6, <1>7, <1>8, AnswerFrom

\* A cancellation answers with the order it was asked to cancel.
LEMMA SetCancelledAnswerOK ==
  ASSUME LInv, [Next]_vars, SetCancelled
  PROVE  AnswerOK'
<1> PICK r : r = job.req
  OBVIOUS
<1> PICK a : a = job.answer
  OBVIOUS
<1>0. /\ job.pc = "setCancelled" /\ job \in Job /\ r \in Requests
      /\ r.op = "cancel" /\ r.key \in Keys
  BY Handler DEF SetCancelled, LInv, IInv, HandlerOK, Running
<1>1. job' = [job EXCEPT !.pc = "insertCancellation"]
  BY DEF SetCancelled, Goto
<1>2. job'.pc = "insertCancellation" /\ job'.req = r /\ job'.answer = a
  BY <1>0, <1>1 DEF Job
<1>3. a.op = "cancel" /\ a.order = r.order
  BY <1>0 DEF LInv, AnswerOK
<1>4. records' = records /\ records[r.key] # Null /\ records[r.key].state = "processing"
      /\ records[r.key].hash = BodyHash(r)
  BY <1>0, NullAssumption DEF SetCancelled, LInv, AnswerOK, Claimed
<1>5. r.order \in OrderIds /\ orders'[r.order] # Null
      /\ orders'[r.order].status \notin CANCELLABLE
  <2> DEFINE row == [orders[r.order] EXCEPT !.status = "cancelled", !.updated = job.now]
  <2>1. Replaces(r.order, row)
    BY OrderWrites DEF LInv, Cancels
  <2>2. row.status = "cancelled" /\ row # Null
    BY <2>1, NullAssumption DEF Replaces, OrderRow
  <2> HIDE DEF row
  <2>3. orders'[r.order] = row
    BY <2>1 DEF Replaces, LInv, IInv, TypeOK
  <2> QED
    BY <2>1, <2>2, <2>3 DEF Replaces, CANCELLABLE
<1>6. Made(a, BodyHash(r))'
  BY <1>3, <1>5 DEF Made, Exists
<1>7. Performed(r.key, a)'
  <2>1. effects' = [effects EXCEPT ![r.key] = @ \cup {[answer |-> a, at |-> job.claimed]}]
    BY DEF SetCancelled, Perform
  <2>2. [answer |-> a, at |-> job.claimed] \in effects'[r.key]
    BY <1>0, <2>1 DEF LInv, IInv, TypeOK
  <2> QED
    BY <2>2 DEF Performed
<1> QED
  BY <1>0, <1>2, <1>3, <1>4, <1>6, <1>7, AnswerFrom

\* A dispatch answers with the pickup it inserts.
LEMMA InsertPickupAnswerOK ==
  ASSUME LInv, [Next]_vars, NEW u \in PickupIds, InsertPickup(u)
  PROVE  AnswerOK'
<1> PICK r : r = job.req
  OBVIOUS
<1> PICK a : a = [job.answer EXCEPT !.pickup = u]
  OBVIOUS
<1> PICK pc : pc = IF job.seen.outlet = Null THEN "bind" ELSE "save"
  OBVIOUS
<1>0. /\ job.pc = "insertPickup" /\ job \in Job /\ job.answer \in Answer /\ r \in Requests
      /\ r.op = "dispatch" /\ r.key \in Keys /\ r.order \in OrderIds /\ r.order # Null
      /\ orders[r.order] \in OrderRow /\ r.body.driver \in Drivers
      /\ r.order = r.body.order
  BY Handler, NullAssumption DEF InsertPickup, LInv, IInv, HandlerOK, Running, Shape, Sent
<1>1. job' = [job EXCEPT !.pc = pc, !.answer = a]
  BY DEF InsertPickup
<1>2. job'.pc = pc /\ job'.req = r /\ job'.answer = a
  BY <1>0, <1>1 DEF Job
<1>3. a.op = "dispatch" /\ a.order = r.order /\ a.pickup = u
  BY <1>0 DEF LInv, AnswerOK, Answer
<1>4. records' = records /\ records[r.key] # Null /\ records[r.key].state = "processing"
      /\ records[r.key].hash = BodyHash(r)
  BY <1>0, NullAssumption DEF InsertPickup, LInv, AnswerOK, Claimed
<1>5. /\ pickups'[u] # Null /\ pickups'[u].order = r.order /\ pickups'[u].driver = r.body.driver
      /\ orders' = orders
  <2> DEFINE row == [order |-> r.order, driver |-> r.body.driver, status |-> "assigned"]
  <2>1. row \in PickupRow /\ row # Null
    BY <1>0, NullAssumption DEF PickupRow, PickupStatus
  <2>2. pickups' = [pickups EXCEPT ![u] = row] /\ orders' = orders
    BY DEF InsertPickup
  <2>3. pickups'[u] = row
    BY <2>2 DEF LInv, IInv, TypeOK
  <2> QED
    BY <2>1, <2>2, <2>3
<1>6. Made(a, BodyHash(r))'
  BY <1>0, <1>3, <1>5, NullAssumption DEF Made, Exists, BodyHash
<1>7. Performed(r.key, a)'
  <2>1. effects' = [effects EXCEPT ![r.key] = @ \cup {[answer |-> a, at |-> job.claimed]}]
    BY DEF InsertPickup, Perform
  <2>2. [answer |-> a, at |-> job.claimed] \in effects'[r.key]
    BY <1>0, <2>1 DEF LInv, IInv, TypeOK
  <2> QED
    BY <2>2 DEF Performed
<1>8. pc = "save" => Ended(a)'
  <2>1. job.seen = orders[r.order]
    BY <1>0 DEF LInv, IInv, SnapshotOK, Keyed
  <2> QED
    BY <1>3, <1>5, <2>1 DEF Ended
<1>9. pc \in {"bind", "save"}
  OBVIOUS
<1> QED
  <2>1. /\ r.key # Null /\ pc \in Claimed \cup Late =>
             /\ records'[r.key] # Null /\ records'[r.key].state = "processing"
             /\ records'[r.key].hash = BodyHash(r)
        /\ r.key # Null /\ pc = "respond" /\ records'[r.key] # Null =>
             records'[r.key].state = "completed"
    BY <1>4, <1>9
  <2>2. a.op = r.op /\ (r.op # "create" => a.order = r.order)
    BY <1>0, <1>3
  <2> QED
    BY <1>2, <1>6, <1>7, <1>8, <2>1, <2>2, AnswerFrom

\* The statements after the one that performs the operation.
LEMMA LateAnswerOK ==
  ASSUME LInv, [Next]_vars, InsertCancellation \/ AssignOutlet \/ Save
  PROVE  AnswerOK'
<1> PICK r : r = job.req
  OBVIOUS
<1> PICK a : a = job.answer
  OBVIOUS
<1>0. /\ job.pc \in Late /\ job \in Job /\ r \in Requests /\ Shape(r)
      /\ a.op = r.op /\ (r.op # "create" => a.order = r.order)
      /\ r.key # Null <=> r.op \in {"create", "cancel", "dispatch"}
      /\ r.key # Null => r.key \in Keys
  BY Handler DEF InsertCancellation, AssignOutlet, Save, LInv, AnswerOK, Late, Running
<1>1. r.key # Null =>
        /\ records[r.key] # Null /\ records[r.key].state = "processing"
        /\ records[r.key].hash = BodyHash(r)
        /\ Made(a, BodyHash(r)) /\ Performed(r.key, a)
  BY <1>0 DEF LInv, AnswerOK, Late
<1>2. r.key # Null => Made(a, BodyHash(r))' /\ Performed(r.key, a)'
  BY <1>0, <1>1, MadeStays, PerformedStays DEF LInv, BodyHash
<1>3. CASE InsertCancellation
  <2>1. job' = [job EXCEPT !.pc = "save"] /\ records' = records
        /\ cancellations' = [cancellations EXCEPT ![r.order] = @ + 1]
    BY <1>3 DEF InsertCancellation, Goto
  <2>2. job'.pc = "save" /\ job'.req = r /\ job'.answer = a
    BY <1>0, <2>1 DEF Job
  <2>3. r.op = "cancel" /\ r.order \in OrderIds
    BY <1>0, <1>3 DEF InsertCancellation, LInv, IInv, HandlerOK, Shape, Sent
  <2>4. cancellations'[r.order] > 0
    <3>1. cancellations[r.order] \in Nat /\ cancellations'[r.order] = cancellations[r.order] + 1
      BY <2>1, <2>3 DEF LInv, IInv, TypeOK
    <3> QED
      BY <3>1
  <2>5. Ended(a)'
    BY <1>0, <2>3, <2>4 DEF Ended
  <2> QED
    BY <1>0, <1>1, <1>2, <2>1, <2>2, <2>5, AnswerFrom
<1>4. CASE AssignOutlet
  <2> PICK pc : pc = IF job.req.op = "dispatch" THEN "save" ELSE AfterBinding(job.seen)
    OBVIOUS
  <2>1. job' = [job EXCEPT !.pc = pc] /\ records' = records
    BY <1>4 DEF AssignOutlet, Goto
  <2>2. job'.pc = pc /\ job'.req = r /\ job'.answer = a
    BY <1>0, <2>1 DEF Job
  <2>3. CASE r.op = "dispatch"
    <3>1. orders'[r.order].outlet # Null
      <4> DEFINE row == [orders[r.order] EXCEPT !.outlet = job.req.by.outletId,
                                                !.updated = job.now]
      <4>1. Replaces(r.order, row) /\ job.req.by.outletId # Null
        BY <1>4, OrderWrites, NullAssumption DEF LInv, Binds
      <4>2. row.outlet # Null
        BY <4>1 DEF Replaces, OrderRow
      <4> HIDE DEF row
      <4>3. orders'[r.order] = row
        BY <4>1 DEF Replaces, LInv, IInv, TypeOK
      <4> QED
        BY <4>2, <4>3
    <3>2. Ended(a)' /\ pc = "save"
      BY <1>0, <2>3, <3>1 DEF Ended
    <3> QED
      BY <1>0, <1>1, <1>2, <2>1, <2>2, <3>2, AnswerFrom
  <2>4. CASE r.op # "dispatch"
    <3>1. job.req.key = Null
      BY <1>0, <1>4, <2>4 DEF AssignOutlet, LInv, IInv, HandlerOK
    <3> QED
      BY <1>0, <2>2, <3>1, EarlyOK DEF Late
  <2> QED
    BY <2>3, <2>4
<1>5. CASE Save
  <2>1. job' = [job EXCEPT !.pc = "respond"]
        /\ records' = [records EXCEPT ![r.key] =
                         IF @ = Null THEN Null
                         ELSE [@ EXCEPT !.state = "completed", !.answer = job.answer]]
    BY <1>5 DEF Save, Goto
  <2>2. job'.pc = "respond" /\ job'.req = r /\ job'.answer = a
    BY <1>0, <2>1 DEF Job
  <2>3. r.key # Null => records'[r.key].state = "completed"
    <3>1. r.key # Null => r.key \in Keys /\ records[r.key] \in IdempotencyRow
      BY <1>0, <1>1 DEF LInv, IInv, TypeOK
    <3>2. r.key # Null =>
            records'[r.key] = [records[r.key] EXCEPT !.state = "completed",
                                                     !.answer = job.answer]
      BY <1>1, <2>1, <3>1 DEF LInv, IInv, TypeOK
    <3> QED
      BY <3>1, <3>2 DEF IdempotencyRow
  <2> QED
    BY <1>0, <1>2, <2>2, <2>3, AnswerFrom DEF Claimed, Late
<1> QED
  BY <1>3, <1>4, <1>5

\* A claim leaves a record under the hash of the request that made it.
LEMMA ClaimAnswerOK ==
  ASSUME LInv, [Next]_vars, Claim
  PROVE  AnswerOK'
<1> PICK r : r = job.req
  OBVIOUS
<1> PICK a : a = job.answer
  OBVIOUS
<1> PICK pc : pc = AfterClaim[job.req.op]
  OBVIOUS
<1> DEFINE rec == [hash    |-> BodyHash(r),
                   state   |-> "processing",
                   answer  |-> Null,
                   expires |-> job.claimed + Retention]
<1>0. job.pc = "claim" /\ job \in Job /\ r \in Request /\ TypeOK /\ HandlerOK
  BY Handler DEF Claim, LInv, IInv, Running
<1>1. records[r.key] = Null
  BY <1>0 DEF LInv, IInv, ClaimOK
<1>2. /\ r.key \in Keys /\ pc \in Claimed
      /\ records' = [records EXCEPT ![r.key] = rec]
      /\ job' = [job EXCEPT !.pc = pc, !.now = clock]
  BY <1>0, <1>1, ClaimOutcome
<1>3. job'.pc = pc /\ job'.req = r /\ job'.answer = a
  BY <1>0, <1>2 DEF Job
<1>4. rec \in IdempotencyRow
  <2>1. BodyHash(r) \in Body
    BY <1>0 DEF BodyHash, Request
  <2>2. job.claimed + Retention \in Nat
    BY <1>0, NumbersAssumption DEF Job
  <2> QED
    BY <2>1, <2>2 DEF IdempotencyRow
<1>5. rec.state = "processing" /\ rec.hash = BodyHash(r)
  OBVIOUS
<1> HIDE DEF rec
<1>6. records'[r.key] = rec /\ rec # Null
  BY <1>0, <1>2, <1>4, NullAssumption DEF TypeOK
<1>7. a.op = r.op /\ (r.op # "create" => a.order = r.order)
  BY <1>0 DEF LInv, AnswerOK
<1>8. pc \notin Late \cup {"respond"}
  BY <1>2 DEF Claimed, Late
<1>9. pc # "save" /\ pc # "respond" /\ pc \notin Late
  BY <1>8 DEF Late
<1> QED
  BY <1>3, <1>5, <1>6, <1>7, <1>8, <1>9, AnswerFrom

\* No step makes a handler answer what it has not done.
LEMMA AnswerStep ==
  ASSUME LInv, [Next]_vars
  PROVE  AnswerOK'
<1>0. TypeOK /\ HandlerOK
  BY DEF LInv, IInv
<1>1. ASSUME NEW r \in Requests, Admit(r) PROVE AnswerOK'
  <2> PICK pc : pc = FirstStep(r)
    OBVIOUS
  <2> PICK a : a = [op |-> r.op, order |-> r.order, pickup |-> r.pickup]
    OBVIOUS
  <2>1. job'.pc = pc /\ job'.req = r /\ job'.answer = a
    BY <1>1 DEF Admit
  <2>2. Shape(r) /\ r.op \in Op
    BY <1>0, <1>1, Admitted DEF Shape, Sent, Request
  <2>3. r.key # Null => pc = "purge"
    BY <2>2, NullAssumption, FirstStepOf DEF Shape, Sent, Op
  <2> QED
    BY <2>1, <2>3, AnswerFrom DEF Claimed, Late
<1>2. CASE Purge
  <2>1. job'.pc = "claim" /\ job'.req = job.req /\ job'.answer = job.answer
        /\ job.pc = "purge"
    BY <1>0, <1>2 DEF Purge, TypeOK, Job
  <2> QED
    BY <2>1, EarlyOK DEF Claimed, Late
<1>3. CASE SetProcessing \/ MarkCollected
  <2>1. job.pc \in {"process", "collect"}
    BY <1>3 DEF SetProcessing, MarkCollected
  <2>2. job.req.op \in {"fulfil", "collect"}
    BY <1>0, <2>1 DEF HandlerOK
  <2>3. job.req.key = Null
    BY <2>1, <2>2, Handler DEF LInv
  <2>4. job'.pc = "respond" /\ job'.req = job.req /\ job'.answer = job.answer
    BY <1>0, <1>3 DEF SetProcessing, MarkCollected, Goto, TypeOK, Job
  <2> QED
    BY <2>1, <2>3, <2>4, EarlyOK
<1>4. CASE job' = NoJob
  BY <1>4 DEF AnswerOK, NoJob
<1>5. CASE job' = job /\ records' = records
  <2>1. CASE job.pc = "idle"
    BY <1>5, <2>1 DEF AnswerOK
  <2> QED
    BY <1>5, <2>1, UntouchedOK
<1> QED
  BY <1>1, <1>2, <1>3, <1>4, <1>5, ClaimAnswerOK, InsertOrderAnswerOK,
     SetCancelledAnswerOK, InsertPickupAnswerOK, LateAnswerOK
     DEF Next, ServerStep, Refuse, Replay, ReadOrder, Respond, Tick,
         StatementFails, Crash, database, vars

-----------------------------------------------------------------------------
(***************************************************************************)
(* The records.                                                            *)
(***************************************************************************)

\* What a step does to a record: it goes, it comes, it is completed, it stays.
LEMMA RecordWrite ==
  ASSUME LInv, [Next]_vars, NEW k \in Keys, records'[k] # Null,
         records'[k].state = "completed"
  PROVE  \/ records'[k] = records[k]
         \/ /\ Save /\ job.req.key = k /\ records[k] # Null
            /\ records'[k].answer = job.answer
            /\ records'[k].hash = records[k].hash
<1>0. TypeOK /\ HandlerOK
  BY DEF LInv, IInv
<1>1. CASE Purge
  BY <1>0, <1>1 DEF Purge, TypeOK
<1>2. CASE Claim
  <2>1. CASE records' = records
    BY <2>1
  <2>2. ASSUME NEW rec, rec.state = "processing",
               records' = [records EXCEPT ![job.req.key] = rec]
        PROVE  records'[k] = records[k]
    BY <1>0, <2>2 DEF TypeOK
  <2> QED
    BY <1>0, <1>2, <2>1, <2>2, ClaimOutcome
<1>3. CASE Save
  <2> DEFINE rec == [records[k] EXCEPT !.state = "completed", !.answer = job.answer]
  <2>1. CASE job.req.key # k
    BY <1>0, <1>3, <2>1 DEF Save, TypeOK
  <2>2. CASE job.req.key = k
    <3>1. records'[k] = IF records[k] = Null THEN Null ELSE rec
      BY <1>0, <1>3, <2>2 DEF Save, TypeOK
    <3>2. records[k] \in IdempotencyRow
      BY <1>0, <3>1 DEF TypeOK
    <3>3. rec.answer = job.answer /\ rec.hash = records[k].hash
      BY <3>2 DEF IdempotencyRow
    <3> HIDE DEF rec
    <3> QED
      BY <1>3, <2>2, <3>1, <3>3
  <2> QED
    BY <2>1, <2>2
<1>4. CASE records' = records
  BY <1>4
<1> QED
  BY <1>1, <1>2, <1>3, <1>4
     DEF Next, ServerStep, Refuse, Replay, Admit, ReadOrder, InsertOrder,
         SetCancelled, InsertCancellation, InsertPickup, AssignOutlet,
         SetProcessing, MarkCollected, Respond, Tick, StatementFails, Crash,
         vars, database

\* No step makes a completed record say what is not in the file.
LEMMA RecordsStep ==
  ASSUME LInv, [Next]_vars
  PROVE  RecordsOK'
<1> SUFFICES ASSUME NEW k \in Keys, records'[k] # Null, records'[k].state = "completed"
             PROVE  /\ Made(records[k].answer, records[k].hash)'
                    /\ Ended(records[k].answer)'
                    /\ Performed(k, records[k].answer)'
  BY DEF RecordsOK
<1>1. ASSUME NEW a, NEW h, a = records'[k].answer, h = records'[k].hash,
             Made(a, h), Ended(a), Performed(k, a)
      PROVE  /\ Made(records[k].answer, records[k].hash)'
             /\ Ended(records[k].answer)'
             /\ Performed(k, records[k].answer)'
  <2>1. Made(a, h)' /\ Ended(a)' /\ Performed(k, a)'
    BY <1>1, MadeStays, PerformedStays DEF LInv
  <2>2. Made(records[k].answer, records[k].hash)'
    BY <1>1, <2>1 DEF Made, Exists
  <2>3. Ended(records[k].answer)' /\ Performed(k, records[k].answer)'
    BY <1>1, <2>1 DEF Ended, Performed
  <2> QED
    BY <2>2, <2>3
<1>2. CASE records'[k] = records[k]
  BY <1>1, <1>2 DEF LInv, RecordsOK
<1>3. CASE Save /\ job.req.key = k /\ records[k] # Null
           /\ records'[k].answer = job.answer /\ records'[k].hash = records[k].hash
  <2>1. /\ records[k].hash = BodyHash(job.req) /\ Made(job.answer, BodyHash(job.req))
        /\ Ended(job.answer) /\ Performed(k, job.answer)
    BY <1>3, NullAssumption DEF Save, LInv, AnswerOK, Late
  <2> QED
    BY <1>1, <1>3, <2>1
<1> QED
  BY <1>2, <1>3, RecordWrite

-----------------------------------------------------------------------------
(***************************************************************************)
(* The replies.                                                            *)
(***************************************************************************)

\* What a replayed record says, for the request it answers.
LEMMA ReplayedRecord ==
  ASSUME LInv, NEW r \in Requests, Replay(r)
  PROVE  /\ Made(records[r.key].answer, r.body)
         /\ Performed(r.key, records[r.key].answer)
<1>1. Sent(r) /\ r.op \in Op
  BY RequestSent DEF Sent, Request
<1>2. /\ r.op \in {"create", "cancel", "dispatch"} /\ r.key \in Keys
      /\ CheckIdempotency(r) = "replay"
  BY <1>1 DEF Replay, Verdict, Sent, Op, CreateVerdict, CancelVerdict,
              DispatchVerdict, FulfilVerdict, CollectVerdict
<1>3. /\ records[r.key] # Null /\ records[r.key].hash = r.body
      /\ records[r.key].state # "processing"
  BY <1>2 DEF CheckIdempotency, Unexpired, BodyHash
<1>4. records[r.key].state = "completed"
  BY <1>2, <1>3 DEF LInv, IInv, TypeOK, IdempotencyRow
<1> QED
  BY <1>2, <1>3, <1>4 DEF LInv, RecordsOK

\* A success answer is about what was made under its key and body.
LEMMA SuccessOK ==
  ASSUME NEW r, NEW a, NEW status, reply' = Success(status, r, a),
         r.key # Null => Made(a, r.body)' /\ Performed(r.key, a)'
  PROVE  RepliesOK'
<1> PICK b : b = r.body
  OBVIOUS
<1> PICK k : k = r.key
  OBVIOUS
<1>1. reply'.key = k /\ reply'.body = b /\ reply'.answer = a
  BY DEF Success
<1>2. k # Null => Made(a, b)' /\ Performed(k, a)'
  BY DEF Made, Performed, Exists
<1> QED
  BY <1>1, <1>2 DEF RepliesOK, Made, Performed, Exists

\* No step makes an answer say what was not done, or not as its body asks.
LEMMA RepliesStep ==
  ASSUME LInv, RepliesOK, [Next]_vars
  PROVE  RepliesOK'
<1> USE NullAssumption
<1>1. CASE reply' = reply
  <2>1. SUFFICES ASSUME reply.status \in {"done", "replayed"}, reply.key # Null
                 PROVE  Made(reply.answer, reply.body)' /\ Performed(reply.key, reply.answer)'
    BY <1>1 DEF RepliesOK
  <2> PICK a : a = reply.answer
    OBVIOUS
  <2> PICK b : b = reply.body
    OBVIOUS
  <2> PICK k : k = reply.key
    OBVIOUS
  <2>2. k \in Keys /\ Made(a, b) /\ Performed(k, a)
    BY <2>1 DEF RepliesOK, LInv, IInv, TypeOK, Reply
  <2>3. Made(a, b)' /\ Performed(k, a)'
    BY <2>2, MadeStays, PerformedStays DEF LInv
  <2> QED
    BY <1>1, <2>3 DEF Made, Performed, Exists
<1>2. CASE \E code \in ReplyStatus \ {"done", "replayed"} : reply' = Refusal(code)
  BY <1>2 DEF RepliesOK, Refusal
<1>3. CASE Refuse
  <2>1. \A r \in Requests : Verdict(r) \notin {"done", "replayed"}
    <3> SUFFICES ASSUME NEW r \in Requests PROVE Verdict(r) \notin {"done", "replayed"}
      OBVIOUS
    <3>1. r.op \in Op
      BY RequestSent DEF Sent, Request
    <3> QED
      BY <3>1 DEF Op, Verdict, CreateVerdict, CancelVerdict, FulfilVerdict,
                  DispatchVerdict, CollectVerdict, CheckIdempotency
  <2> QED
    BY <1>2, <1>3, <2>1, RefusalsAreStatuses DEF Refuse, Refusals
<1>4. ASSUME NEW r \in Requests, Replay(r)
      PROVE  RepliesOK'
  <2> PICK a : a = records[r.key].answer
    OBVIOUS
  <2>1. reply' = Success("replayed", r, a) /\ effects' = effects
        /\ orders' = orders /\ pickups' = pickups
    BY <1>4 DEF Replay, database
  <2>2. Made(a, r.body) /\ Performed(r.key, a)
    BY <1>4, ReplayedRecord
  <2>3. Made(a, r.body)' /\ Performed(r.key, a)'
    BY <2>1, <2>2 DEF Made, Performed, Exists
  <2> QED
    BY <2>1, <2>3, SuccessOK
<1>5. CASE Respond
  <2> PICK r : r = job.req
    OBVIOUS
  <2> PICK a : a = job.answer
    OBVIOUS
  <2>1. reply' = Success("done", r, a) /\ effects' = effects
        /\ orders' = orders /\ pickups' = pickups /\ job.pc = "respond"
    BY <1>5 DEF Respond, database
  <2>2. r.key # Null => Made(a, r.body) /\ Performed(r.key, a)
    BY <2>1 DEF LInv, AnswerOK, BodyHash
  <2>3. r.key # Null => Made(a, r.body)' /\ Performed(r.key, a)'
    BY <2>1, <2>2 DEF Made, Performed, Exists
  <2> QED
    BY <2>1, <2>3, SuccessOK
<1>6. CASE Claim
  BY <1>1, <1>6 DEF Claim, LInv, IInv, ClaimOK
<1>7. CASE StatementFails
  BY <1>2, <1>7 DEF StatementFails, ReplyStatus
<1>8. ASSUME NEW r \in Requests, Admit(r)
      PROVE  RepliesOK'
  BY <1>2, <1>8 DEF Admit, NoReply, ReplyStatus
<1> QED
  BY <1>1, <1>3, <1>4, <1>5, <1>6, <1>7, <1>8
     DEF Next, ServerStep, ReadOrder, Purge, InsertOrder,
         SetCancelled, InsertCancellation, InsertPickup, AssignOutlet,
         SetProcessing, MarkCollected, Save, Tick, Crash,
         vars, database

-----------------------------------------------------------------------------
(***************************************************************************)
(* What a failure may spoil.                                               *)
(***************************************************************************)

\* A part of a small set is small.
LEMMA AtMostStays ==
  ASSUME NEW S, NEW T, NEW n \in Nat, AtMost(S, n), T \subseteq S
  PROVE  AtMost(T, n)
<1>1. IsFiniteSet(T) /\ Cardinality(T) <= Cardinality(S)
  BY FS_Subset DEF AtMost
<1>2. Cardinality(T) \in Nat /\ Cardinality(S) \in Nat
  BY <1>1, FS_CardinalityType DEF AtMost
<1> QED
  BY <1>1, <1>2 DEF AtMost

\* A set that grows by an element grows by one.
LEMMA AtMostGrows ==
  ASSUME NEW S, NEW T, NEW x, NEW n \in Nat, AtMost(S, n), T \subseteq S \cup {x}
  PROVE  AtMost(T, n + 1)
<1>1. /\ IsFiniteSet(S \cup {x})
      /\ Cardinality(S \cup {x}) \in {Cardinality(S), Cardinality(S) + 1}
  BY FS_AddElement DEF AtMost
<1>2. Cardinality(S) \in Nat
  BY FS_CardinalityType DEF AtMost
<1>3. AtMost(S \cup {x}, n + 1)
  BY <1>1, <1>2 DEF AtMost
<1> QED
  BY <1>3, AtMostStays

\* A pickup appears where a handler inserts it.
LEMMA PickupAppears ==
  ASSUME IInv, [Next]_vars, NEW u \in PickupIds, pickups[u] = Null, pickups'[u] # Null
  PROVE  InsertPickup(u)
<1> USE NullAssumption
<1>0. TypeOK /\ HandlerOK
  BY DEF IInv
<1>1. ASSUME NEW v \in PickupIds, InsertPickup(v) PROVE v = u
  BY <1>0, <1>1 DEF InsertPickup, TypeOK
<1>2. CASE MarkCollected
  <2>1. pickups[job.req.pickup] \in PickupRow
    BY <1>0, <1>2, IdleOrRunning DEF MarkCollected, Running
  <2> QED
    BY <1>0, <1>2, <2>1 DEF MarkCollected, TypeOK
<1>3. CASE pickups' = pickups
  BY <1>3
<1> QED
  BY <1>1, <1>2, <1>3
     DEF Next, ServerStep, Refuse, Replay, Admit, ReadOrder, Purge, Claim,
         InsertOrder, SetCancelled, InsertCancellation, AssignOutlet,
         SetProcessing, Save, Respond, Tick, StatementFails, Crash, database, vars

\* The pickup a handler inserts, and where it goes on.
LEMMA Inserted ==
  ASSUME LInv, NEW u \in PickupIds, InsertPickup(u)
  PROVE  /\ pickups'[u].order = job.req.order /\ orders' = orders
         /\ job.req.order \in OrderIds /\ orders[job.req.order] # Null
         /\ orders[job.req.order].outlet = Null =>
              job'.pc = "bind" /\ job'.req.op = "dispatch" /\ job'.answer.pickup = u
<1> USE NullAssumption
<1> DEFINE row == [order  |-> job.req.order, driver |-> job.req.body.driver,
                   status |-> "assigned"]
           a == [job.answer EXCEPT !.pickup = u]
           pc == IF job.seen.outlet = Null THEN "bind" ELSE "save"
<1>1. /\ job.pc = "insertPickup" /\ job \in Job /\ job.answer \in Answer
      /\ job.req.op = "dispatch" /\ job.req.order \in OrderIds
      /\ orders[job.req.order] \in OrderRow
  BY Handler DEF InsertPickup, LInv, IInv, HandlerOK, Running
<1>2. job.seen = orders[job.req.order]
  BY <1>1 DEF LInv, IInv, SnapshotOK, Keyed
<1>3. /\ pickups' = [pickups EXCEPT ![u] = row] /\ orders' = orders
      /\ job' = [job EXCEPT !.pc = pc, !.answer = a]
  BY DEF InsertPickup
<1>4. row.order = job.req.order /\ a.pickup = u
  BY <1>1 DEF Answer
<1> HIDE DEF row, a, pc
<1>5. pickups'[u] = row
  BY <1>3 DEF LInv, IInv, TypeOK
<1>6. job'.pc = pc /\ job'.req = job.req /\ job'.answer = a
  BY <1>1, <1>3 DEF Job
<1> QED
  BY <1>1, <1>2, <1>3, <1>4, <1>5, <1>6 DEF pc

\* Every pickup is of an order that exists.
LEMMA PickupsStep ==
  ASSUME LInv, [Next]_vars
  PROVE  PickupsOK'
<1> SUFFICES ASSUME NEW u \in PickupIds, pickups'[u] # Null
             PROVE  orders'[pickups'[u].order] # Null
  BY DEF PickupsOK, Exists
<1>1. CASE pickups[u] = Null
  <2>1. InsertPickup(u)
    BY <1>1, PickupAppears DEF LInv
  <2> QED
    BY <2>1, Inserted
<1>2. CASE pickups[u] # Null
  <2>1. pickups[u].order \in OrderIds /\ orders[pickups[u].order] # Null
    BY <1>2 DEF LInv, IInv, TypeOK, PickupRow, PickupsOK, Exists
  <2>2. pickups'[u].order = pickups[u].order
    BY <1>2, PickupsKeep DEF LInv
  <2> QED
    BY <2>1, <2>2, RowsStay DEF LInv
<1> QED
  BY <1>1, <1>2

\* While a handler runs nothing else is begun.
LEMMA RunningStep ==
  ASSUME [Next]_vars, job.pc # "idle"
  PROVE  \/ job' = job /\ records' = records
         \/ StatementFails \/ Crash \/ ServerStep
BY DEF Next, Idle, Refuse, Replay, Admit, ReadOrder, Tick, vars, database

\* An order becomes cancelled where a handler sets it so.
LEMMA BecomesCancelled ==
  ASSUME LInv, [Next]_vars, NEW o \in OrderIds,
         orders'[o] # Null, orders'[o].status = "cancelled",
         orders[o] = Null \/ orders[o].status # "cancelled"
  PROVE  SetCancelled /\ job.req.order = o
<1> USE NullAssumption
<1>0. TypeOK
  BY DEF LInv, IInv
<1>1. orders' # orders
  OBVIOUS
<1>2. ASSUME NEW q \in OrderIds, Places(q) PROVE FALSE
  <2>1. orders'[o] = IF o = q THEN NewOrder(job.req.body.customer, job.now) ELSE orders[o]
    BY <1>0, <1>2 DEF Places, TypeOK
  <2> QED
    BY <2>1 DEF NewOrder
<1>3. ASSUME NEW q, NEW row, Replaces(q, row)
      PROVE  orders'[o] = IF o = q THEN row ELSE orders[o]
  BY <1>0, <1>3 DEF Replaces, TypeOK
<1>4. ASSUME Binds PROVE FALSE
  <2> DEFINE q   == job.req.order
             row == [orders[q] EXCEPT !.outlet = job.req.by.outletId, !.updated = job.now]
  <2>1. Replaces(q, row) /\ orders[q] \in OrderRow
    BY <1>4 DEF Binds, Replaces
  <2>2. row.status = orders[q].status /\ orders[q] # Null
    BY <2>1 DEF OrderRow
  <2> HIDE DEF row, q
  <2> QED
    BY <1>3, <2>1, <2>2
<1>5. ASSUME Processes PROVE FALSE
  <2> DEFINE q   == job.req.order
             row == [orders[q] EXCEPT !.status = "processing", !.updated = job.now]
  <2>1. Replaces(q, row) /\ orders[q] \in OrderRow
    BY <1>5 DEF Processes, Replaces
  <2>2. row.status = "processing"
    BY <2>1 DEF OrderRow
  <2> HIDE DEF row, q
  <2> QED
    BY <1>3, <2>1, <2>2
<1>6. ASSUME Cancels PROVE job.req.order = o
  BY <1>3, <1>6 DEF Cancels
<1> QED
  BY OrderStep, <1>1, <1>2, <1>4, <1>5, <1>6 DEF LInv, ReadOrder, database

\* Only a failure adds to the orders without their Cancellation.
LEMMA CancellationsComplete ==
  ASSUME LInv, [Next]_vars, ~StatementFails, ~Crash
  PROVE  WithoutCancellation' \subseteq WithoutCancellation
<1> SUFFICES ASSUME NEW o \in OrderIds, orders'[o] # Null,
                    orders'[o].status = "cancelled", cancellations'[o] = 0,
                    ~(job'.pc = "insertCancellation" /\ job'.req.order = o)
             PROVE  /\ orders[o] # Null /\ orders[o].status = "cancelled"
                    /\ cancellations[o] = 0
                    /\ ~(job.pc = "insertCancellation" /\ job.req.order = o)
  BY DEF WithoutCancellation, Exists
<1>0. TypeOK
  BY DEF LInv, IInv
<1>1. orders[o] # Null /\ orders[o].status = "cancelled"
  <2>1. SUFFICES ASSUME SetCancelled, job.req.order = o
                 PROVE  FALSE
    BY BecomesCancelled
  <2>2. job'.pc = "insertCancellation" /\ job'.req = job.req
    BY <1>0, <2>1 DEF SetCancelled, Goto, TypeOK, Job
  <2> QED
    BY <2>1, <2>2
<1>2. cancellations[o] = 0
  <2>1. cancellations[o] \in Nat /\ cancellations'[o] \in Nat
        /\ cancellations[o] <= cancellations'[o]
    BY <1>0, CancellationsKeep DEF LInv, TypeOK
  <2> QED
    BY <2>1
<1>3. ASSUME job.pc = "insertCancellation", job.req.order = o
      PROVE  FALSE
  <2>1. InsertCancellation
    BY <1>3, RunningStep
       DEF ServerStep, Purge, Claim, InsertOrder, SetCancelled, InsertPickup,
           AssignOutlet, SetProcessing, MarkCollected, Save, Respond
  <2>2. cancellations'[o] = cancellations[o] + 1 /\ cancellations[o] \in Nat
    BY <1>0, <1>3, <2>1 DEF InsertCancellation, TypeOK
  <2> QED
    BY <2>2
<1> QED
  BY <1>1, <1>2, <1>3

\* Only a failure adds to the pickups of orders that no outlet has.
LEMMA PickupsBound ==
  ASSUME LInv, [Next]_vars, ~StatementFails, ~Crash
  PROVE  Unbound' \subseteq Unbound
<1> USE NullAssumption
<1> SUFFICES ASSUME NEW u \in PickupIds, pickups'[u] # Null,
                    orders'[pickups'[u].order].outlet = Null,
                    ~(/\ job'.pc = "bind" /\ job'.req.op = "dispatch"
                      /\ job'.answer.pickup = u)
             PROVE  /\ pickups[u] # Null /\ orders[pickups[u].order].outlet = Null
                    /\ ~(/\ job.pc = "bind" /\ job.req.op = "dispatch"
                         /\ job.answer.pickup = u)
  BY DEF Unbound
<1>0. TypeOK /\ HandlerOK
  BY DEF LInv, IInv
<1>1. pickups[u] # Null
  BY PickupAppears, Inserted DEF LInv
<1>2. pickups[u].order \in OrderIds /\ Exists(pickups[u].order)
      /\ pickups'[u].order = pickups[u].order
  BY <1>1, PickupsKeep DEF LInv, IInv, TypeOK, PickupRow, PickupsOK
<1>3. orders[pickups[u].order].outlet = Null
  BY <1>2, OrdersKeep DEF LInv
<1>4. ASSUME job.pc = "bind", job.req.op = "dispatch", job.answer.pickup = u
      PROVE  FALSE
  <2>1. AssignOutlet
    BY <1>4, RunningStep
       DEF ServerStep, Purge, Claim, InsertOrder, SetCancelled, InsertCancellation,
           InsertPickup, SetProcessing, MarkCollected, Save, Respond
  <2>2. job.req.key # Null /\ job.answer.order = job.req.order
    BY <1>4, Handler DEF LInv, AnswerOK
  <2>3. pickups[u].order = job.req.order /\ job.answer.op = "dispatch"
    BY <1>4, <2>2 DEF LInv, AnswerOK, Late, Made
  <2> DEFINE q   == job.req.order
             row == [orders[q] EXCEPT !.outlet = job.req.by.outletId, !.updated = job.now]
  <2>4. Replaces(q, row) /\ orders[q] \in OrderRow /\ job.req.by.outletId # Null
    BY <2>1, OrderWrites DEF LInv, Binds, Replaces
  <2>5. row.outlet # Null
    BY <2>4 DEF OrderRow
  <2> HIDE DEF row
  <2>6. orders'[q] = row
    BY <1>0, <2>4 DEF Replaces, TypeOK
  <2> QED
    BY <1>2, <2>3, <2>5, <2>6
<1> QED
  BY <1>1, <1>3, <1>4

\* A handler keeps its request until it answers.
LEMMA ServerKeeps ==
  ASSUME LInv, ServerStep
  PROVE  \/ job'.pc # "idle" /\ job'.req = job.req
         \/ Respond
<1>0. TypeOK /\ HandlerOK
  BY DEF LInv, IInv
<1>1. CASE Claim
  <2>1. records[job.req.key] = Null
    BY <1>1 DEF Claim, LInv, IInv, ClaimOK
  <2> PICK pc : pc = AfterClaim[job.req.op]
    OBVIOUS
  <2>2. job' = [job EXCEPT !.pc = pc, !.now = clock] /\ pc \in Claimed
    BY <1>0, <1>1, <2>1, ClaimOutcome
  <2> QED
    BY <1>0, <2>2 DEF TypeOK, Job, Claimed
<1>2. CASE \E pc \in Pc \ {"idle"} : Goto(pc)
  BY <1>0, <1>2 DEF Goto, TypeOK, Job
<1>3. CASE Purge
  BY <1>0, <1>3 DEF Purge, TypeOK, Job
<1>4. ASSUME NEW o \in OrderIds, InsertOrder(o) PROVE job'.pc # "idle" /\ job'.req = job.req
  BY <1>0, <1>4 DEF InsertOrder, TypeOK, Job
<1>5. ASSUME NEW u \in PickupIds, InsertPickup(u) PROVE job'.pc # "idle" /\ job'.req = job.req
  BY <1>0, <1>5 DEF InsertPickup, TypeOK, Job
<1> QED
  BY <1>1, <1>2, <1>3, <1>4, <1>5
     DEF ServerStep, SetCancelled, InsertCancellation, AssignOutlet, AfterBinding,
         SetProcessing, MarkCollected, Save, Pc

\* A record is "processing" from its claim on.
LEMMA BecomesClaimed ==
  ASSUME LInv, [Next]_vars, NEW k \in Keys,
         records'[k] # Null, records'[k].state = "processing",
         records[k] = Null \/ records[k].state # "processing"
  PROVE  Claim /\ job.req.key = k
<1>0. TypeOK /\ HandlerOK
  BY DEF LInv, IInv
<1>1. ASSUME Purge PROVE FALSE
  BY <1>0, <1>1 DEF Purge, TypeOK
<1>2. ASSUME Claim PROVE job.req.key = k
  <2>1. ASSUME NEW rec, records' = [records EXCEPT ![job.req.key] = rec]
        PROVE  job.req.key = k
    BY <1>0, <2>1 DEF TypeOK
  <2> QED
    BY <1>0, <1>2, <2>1, ClaimOutcome
<1>3. ASSUME Save PROVE FALSE
  <2> DEFINE rec == [records[k] EXCEPT !.state = "completed", !.answer = job.answer]
  <2>1. CASE job.req.key # k
    BY <1>0, <1>3, <2>1 DEF Save, TypeOK
  <2>2. CASE job.req.key = k
    <3>1. records'[k] = IF records[k] = Null THEN Null ELSE rec
      BY <1>0, <1>3, <2>2 DEF Save, TypeOK
    <3>2. records[k] \in IdempotencyRow
      BY <1>0, <3>1 DEF TypeOK
    <3>3. rec.state = "completed"
      BY <3>2 DEF IdempotencyRow
    <3> HIDE DEF rec
    <3> QED
      BY <3>1, <3>2, <3>3
  <2> QED
    BY <2>1, <2>2
<1>4. records' # records
  OBVIOUS
<1> QED
  BY <1>1, <1>2, <1>3, <1>4
     DEF Next, ServerStep, Refuse, Replay, Admit, ReadOrder, InsertOrder,
         SetCancelled, InsertCancellation, InsertPickup, AssignOutlet,
         SetProcessing, MarkCollected, Respond, Tick, StatementFails, Crash,
         vars, database

\* Only a failure leaves a key to a request that is not running.
LEMMA KeysReleased ==
  ASSUME LInv, [Next]_vars, ~StatementFails, ~Crash
  PROVE  Orphaned' \subseteq Orphaned
<1> SUFFICES ASSUME NEW k \in Keys, records'[k] # Null,
                    records'[k].state = "processing",
                    job'.pc = "idle" \/ job'.req.key # k
             PROVE  /\ records[k] # Null /\ records[k].state = "processing"
                    /\ job.pc = "idle" \/ job.req.key # k
  BY DEF Orphaned, Idle
<1>1. records[k] # Null /\ records[k].state = "processing"
  <2>1. SUFFICES ASSUME Claim, job.req.key = k
                 PROVE  FALSE
    BY BecomesClaimed
  <2>2. job'.pc # "idle" /\ job'.req = job.req
    BY <2>1, ServerKeeps DEF ServerStep, Claim, Respond
  <2> QED
    BY <2>1, <2>2
<1>2. ASSUME job.pc # "idle", job.req.key = k
      PROVE  FALSE
  <2>1. Respond
    BY <1>2, RunningStep, ServerKeeps
  <2>2. records[k].state = "completed"
    BY <1>1, <1>2, <2>1, NullAssumption DEF Respond, LInv, AnswerOK
  <2> QED
    BY <1>1, <2>2
<1> QED
  BY <1>1, <1>2

\* A failure adds at most what its handler was working on.
LEMMA FailureSpoils ==
  ASSUME LInv, [Next]_vars, StatementFails \/ Crash
  PROVE  /\ WithoutCancellation' \subseteq WithoutCancellation \cup {job.req.order}
         /\ Unbound' \subseteq Unbound \cup {job.answer.pickup}
         /\ Orphaned' \subseteq Orphaned \cup {job.req.key}
<1>1. /\ orders' = orders /\ pickups' = pickups /\ cancellations' = cancellations
      /\ records' = records
  BY DEF StatementFails, Crash, database
<1>2. WithoutCancellation' \subseteq WithoutCancellation \cup {job.req.order}
  BY <1>1 DEF WithoutCancellation, Exists
<1>3. Unbound' \subseteq Unbound \cup {job.answer.pickup}
  BY <1>1 DEF Unbound
<1>4. Orphaned' \subseteq Orphaned \cup {job.req.key}
  BY <1>1 DEF Orphaned, Idle
<1> QED
  BY <1>2, <1>3, <1>4

\* A failure spoils one of each, and nothing else spoils any.
LEMMA FaultsStep ==
  ASSUME LInv, [Next]_vars
  PROVE  FaultsOK'
<1>0. /\ faults \in Nat /\ AtMost(WithoutCancellation, faults)
      /\ AtMost(Unbound, faults) /\ AtMost(Orphaned, faults)
  BY DEF LInv, IInv, TypeOK, FaultsOK
<1>1. CASE StatementFails \/ Crash
  <2>1. faults' = faults + 1
    BY <1>1 DEF StatementFails, Crash
  <2>2. AtMost(WithoutCancellation', faults + 1)
    <3>1. WithoutCancellation' \subseteq WithoutCancellation \cup {job.req.order}
      BY <1>1, FailureSpoils
    <3> QED
      BY <1>0, <3>1, AtMostGrows
  <2>3. AtMost(Unbound', faults + 1)
    <3>1. Unbound' \subseteq Unbound \cup {job.answer.pickup}
      BY <1>1, FailureSpoils
    <3> QED
      BY <1>0, <3>1, AtMostGrows
  <2>4. AtMost(Orphaned', faults + 1)
    <3>1. Orphaned' \subseteq Orphaned \cup {job.req.key}
      BY <1>1, FailureSpoils
    <3> QED
      BY <1>0, <3>1, AtMostGrows
  <2> QED
    BY <2>1, <2>2, <2>3, <2>4 DEF FaultsOK, AtMost
<1>2. CASE ~StatementFails /\ ~Crash
  <2>1. faults' = faults
    BY <1>2
       DEF Next, ServerStep, Refuse, Replay, Admit, ReadOrder, Purge, Claim,
           InsertOrder, SetCancelled, InsertCancellation, InsertPickup,
           AssignOutlet, SetProcessing, MarkCollected, Save, Respond, Tick,
           vars
  <2>2. AtMost(WithoutCancellation', faults)
    BY <1>0, <1>2, CancellationsComplete, AtMostStays
  <2>3. AtMost(Unbound', faults)
    BY <1>0, <1>2, PickupsBound, AtMostStays
  <2>4. AtMost(Orphaned', faults)
    BY <1>0, <1>2, KeysReleased, AtMostStays
  <2> QED
    BY <2>1, <2>2, <2>3, <2>4 DEF FaultsOK, AtMost
<1> QED
  BY <1>1, <1>2

-----------------------------------------------------------------------------
(***************************************************************************)
(* The invariant and what follows from it.                                 *)
(***************************************************************************)
\* Nothing has been answered and nothing spoiled at the start.
LEMMA InitAnswers == Init => LInv /\ RepliesOK
<1> SUFFICES ASSUME Init
             PROVE  LInv /\ RepliesOK
  OBVIOUS
<1>1. RecordsOK /\ PickupsOK /\ AnswerOK
  BY DEF Init, RecordsOK, PickupsOK, AnswerOK, NoJob
<1>2. WithoutCancellation = {} /\ Unbound = {} /\ Orphaned = {}
  BY DEF Init, WithoutCancellation, Unbound, Orphaned, Exists
<1>3. FaultsOK
  BY <1>2, FS_EmptySet DEF Init, FaultsOK, AtMost
<1>4. RepliesOK
  BY DEF Init, RepliesOK, NoReply, Refusal
<1> QED
  BY <1>1, <1>3, <1>4, InitInv DEF LInv

\* Each part of the invariant has its lemma.
LEMMA AnswersNext ==
  LInv /\ RepliesOK /\ [Next]_vars =>
    (LInv /\ RepliesOK)'
<1> SUFFICES ASSUME LInv, RepliesOK, [Next]_vars
             PROVE  LInv' /\ RepliesOK'
  OBVIOUS
<1>1. IInv'
  BY TypeStep, HandlerStep, SnapshotStep, KeyStep, ClaimStep, TagStep, LedgerStep
     DEF LInv, IInv
<1> QED
  BY <1>1, RecordsStep, AnswerStep, PickupsStep, FaultsStep, RepliesStep DEF LInv

(* Of every instance: what a completed record says is in the file, a handler
   holds the record it claimed until it completes it, and a failure spoils at
   most one order, one pickup and one key. *)
THEOREM AnswerInvariance ==
  Spec => [](LInv /\ RepliesOK)
BY InitAnswers, AnswersNext, PTL DEF Spec

(* A record is marked completed only when every statement of its operation is
   in the file. *)
THEOREM CompletedIsDone == Spec => []CompletedMeansDone
<1>1. LInv => CompletedMeansDone
  BY DEF LInv, RecordsOK, CompletedMeansDone, Durable, Made, Ended
<1> QED
  BY <1>1, AnswerInvariance, PTL

(* A success answer, fresh or replayed, is the answer of an operation that was
   performed under the key of the request. *)
THEOREM SuccessAnswersTrue == Spec => []AnswersAreTrue
<1>1. RepliesOK => AnswersAreTrue
  BY DEF RepliesOK, AnswersAreTrue, Performed
<1> QED
  BY <1>1, AnswerInvariance, PTL

(* What a success answer shows, fresh or replayed, is an order of the customer,
   or a pickup of the order and the driver, that the body of the request names,
   whatever operation and whatever path the request was sent to. *)
THEOREM AnswersFitTheBody == Spec => []AnswersFitBody
<1>1. RepliesOK => AnswersFitBody
  BY DEF RepliesOK, AnswersFitBody, Made
<1> QED
  BY <1>1, AnswerInvariance, PTL

(* At most one cancelled order for each failure lacks its Cancellation. *)
THEOREM CancellationsRecorded == Spec => []CancelledHasRecord
<1>1. LInv => CancelledHasRecord
  BY DEF LInv, FaultsOK, AtMost, CancelledHasRecord
<1> QED
  BY <1>1, AnswerInvariance, PTL

(* At most one key for each failure is refused as "still being processed"
   although its request is not running. *)
THEOREM KeysNotLeftBusy == Spec => []BusyOnlyWhileRunning
<1>1. LInv => BusyOnlyWhileRunning
  BY DEF LInv, FaultsOK, AtMost, BusyOnlyWhileRunning
<1> QED
  BY <1>1, AnswerInvariance, PTL

(* For each failure, at most one dispatched pickup is of an order that no outlet
   has, and so in no outlet's list. *)
THEOREM DispatchesBound == Spec => []DispatchedOrderIsBound
<1> USE NullAssumption
<1>1. ASSUME LInv PROVE DispatchedOrderIsBound
  <2>1. ASSUME NEW u \in OutOfEverySight PROVE u \in Unbound
    <3>1. /\ u \in PickupIds /\ pickups[u] # Null
          /\ ~(job.pc = "bind" /\ job.req.order = pickups[u].order)
          /\ \A x \in DomainIds : orders[pickups[u].order].outlet # x
      <4>1. /\ u \in PickupIds /\ pickups[u] # Null
            /\ ~(job.pc = "bind" /\ job.req.order = pickups[u].order)
            /\ \A x \in DomainIds :
                 ~InPickupList([domainId |-> x, outletId |-> x], pickups[u],
                               orders[pickups[u].order])
        BY <2>1 DEF OutOfEverySight
      <4> QED
        BY <4>1 DEF InPickupList
    <3>2. orders[pickups[u].order] \in OrderRow
      BY <1>1, <3>1 DEF LInv, IInv, TypeOK, PickupsOK, PickupRow, Exists
    <3>3. orders[pickups[u].order].outlet = Null
      BY <3>1, <3>2 DEF OrderRow
    <3>4. ASSUME job.pc = "bind", job.req.op = "dispatch", job.answer.pickup = u
          PROVE  FALSE
      <4>1. job.req.key # Null /\ job.answer.order = job.req.order
        BY <1>1, <3>4, Handler DEF LInv, AnswerOK
      <4>2. pickups[u].order = job.req.order
        BY <1>1, <3>4, <4>1 DEF LInv, AnswerOK, Late, Made
      <4> QED
        BY <3>1, <3>4, <4>2
    <3> QED
      BY <3>1, <3>3, <3>4 DEF Unbound
  <2>2. AtMost(OutOfEverySight, faults)
    BY <1>1, <2>1, AtMostStays DEF LInv, FaultsOK, IInv, TypeOK
  <2> QED
    BY <2>2 DEF AtMost, DispatchedOrderIsBound
<1> QED
  BY <1>1, AnswerInvariance, PTL

(* A listed order opens, and an order staff may open is in their list. *)
THEOREM ListsAndDetailsAgree == Spec => []ListDetailAgree
<1>1. TypeOK => ListDetailAgree
  BY NullAssumption
     DEF ListDetailAgree, InOrderList, MayReadOrder, MayStaffSeeOrder, Exists
<1> QED
  BY <1>1, TypeCorrect, PTL
-----------------------------------------------------------------------------
(***************************************************************************)
(* The service implements IdempotencyKeys.                                 *)
(***************************************************************************)

\* The record a handler works under is that of its own claim, and so is what it
\* has performed; in the end the record holds what the handler will answer.
KeptOK ==
  job.pc # "idle" /\ job.req.key # Null =>
    /\ job.pc \in Late =>
         /\ records[job.req.key].expires = job.claimed + Retention
         /\ [answer |-> job.answer, at |-> job.claimed] \in effects[job.req.key]
    /\ job.pc = "respond" =>
         /\ records[job.req.key] # Null
         /\ records[job.req.key].state = "completed"
         /\ records[job.req.key].answer = job.answer

\* A statement that performs an operation under the key of the handler.
PerformsAs(answer) ==
  /\ job.pc \in Claimed /\ job.req.key \in Keys /\ answer \in Answer
  /\ job'.pc \in Late /\ job'.req = job.req
  /\ job'.claimed = job.claimed /\ job'.answer = answer
  /\ effects' = [effects EXCEPT ![job.req.key] =
                   @ \cup {[answer |-> answer, at |-> job.claimed]}]
  /\ UNCHANGED <<records, clock, reply>>

LEMMA Performances ==
  ASSUME IInv
  PROVE  /\ \A o \in OrderIds : InsertOrder(o) => \E answer : PerformsAs(answer)
         /\ SetCancelled => \E answer : PerformsAs(answer)
         /\ \A u \in PickupIds : InsertPickup(u) => \E answer : PerformsAs(answer)
<1>1. ASSUME NEW o \in OrderIds, InsertOrder(o) PROVE \E answer : PerformsAs(answer)
  <2> DEFINE a == [job.answer EXCEPT !.order = o]
  <2>1. /\ job.pc = "insertOrder" /\ job \in Job /\ job.answer \in Answer
        /\ job.req.key \in Keys
    BY <1>1, Handler DEF InsertOrder, Running, Keyed
  <2>2. a \in Answer
    BY <2>1 DEF Answer
  <2>3. job' = [job EXCEPT !.pc = "save", !.answer = a]
    BY <1>1 DEF InsertOrder
  <2>4. PerformsAs(a)
    BY <1>1, <2>1, <2>2, <2>3 DEF InsertOrder, Perform, PerformsAs, Claimed, Late, Job
  <2> QED
    BY <2>4
<1>2. ASSUME SetCancelled PROVE \E answer : PerformsAs(answer)
  <2>1. /\ job.pc = "setCancelled" /\ job \in Job /\ job.answer \in Answer
        /\ job.req.key \in Keys
    BY <1>2, Handler DEF SetCancelled, Running, Keyed
  <2>2. PerformsAs(job.answer)
    BY <1>2, <2>1 DEF SetCancelled, Goto, Perform, PerformsAs, Claimed, Late, Job
  <2> QED
    BY <2>2
<1>3. ASSUME NEW u \in PickupIds, InsertPickup(u) PROVE \E answer : PerformsAs(answer)
  <2> DEFINE a == [job.answer EXCEPT !.pickup = u]
             pc == IF job.seen.outlet = Null THEN "bind" ELSE "save"
  <2>1. /\ job.pc = "insertPickup" /\ job \in Job /\ job.answer \in Answer
        /\ job.req.key \in Keys
    BY <1>3, Handler DEF InsertPickup, Running, Keyed
  <2>2. a \in Answer
    BY <2>1 DEF Answer
  <2>3. job' = [job EXCEPT !.pc = pc, !.answer = a]
    BY <1>3 DEF InsertPickup
  <2>4. pc \in Late
    BY DEF Late
  <2> HIDE DEF pc
  <2>5. PerformsAs(a)
    BY <1>3, <2>1, <2>2, <2>3, <2>4 DEF InsertPickup, Perform, PerformsAs, Claimed, Job
  <2> QED
    BY <2>5
<1> QED
  BY <1>1, <1>2, <1>3

\* Nothing but the performance under a key and the completion of its record has
\* to be looked at.
LEMMA KeptStep ==
  ASSUME LInv, KeptOK, [Next]_vars
  PROVE  KeptOK'
<1> USE NullAssumption
<1>0. IInv /\ TypeOK /\ HandlerOK /\ ClaimOK /\ AnswerOK
  BY DEF LInv, IInv
<1>h. job.pc # "idle" =>
        /\ job \in Job
        /\ job.req.key # Null <=> job.req.op \in {"create", "cancel", "dispatch"}
        /\ job.req.key # Null => job.req.key \in Keys
  BY <1>0, Handler
<1>a. CASE job'.pc \notin Late \cup {"respond"}
  BY <1>a DEF KeptOK
<1>b. CASE job'.req.key = Null
  BY <1>b DEF KeptOK
<1>c. CASE job' = job /\ UNCHANGED <<records, effects>>
  BY <1>c DEF KeptOK
<1>d. ASSUME job.pc \in Late, job'.pc \in Late, job'.req = job.req,
             job'.claimed = job.claimed, job'.answer = job.answer,
             UNCHANGED <<records, effects>>
      PROVE  KeptOK'
  BY <1>d DEF KeptOK, Late
<1>1. ASSUME NEW r \in Requests, Admit(r) PROVE KeptOK'
  <2>1. Shape(r) /\ r.op \in Op /\ job'.pc = FirstStep(r) /\ job'.req = r
    BY <1>0, <1>1, Admitted DEF Admit, Shape, Sent, Request
  <2>2. r.op \in {"create", "cancel", "dispatch"} => job'.pc = "purge"
    BY <2>1, FirstStepOf
  <2>3. r.op \in {"fulfil", "collect"} => job'.req.key = Null
    BY <2>1 DEF Shape, Sent
  <2> QED
    BY <1>a, <1>b, <2>1, <2>2, <2>3 DEF Op, Late
<1>2. CASE Purge
  BY <1>0, <1>a, <1>2, <1>h DEF Purge, Late, Job
<1>3. CASE Claim
  <2>1. CASE job' = NoJob
    BY <1>a, <2>1 DEF NoJob, Late
  <2>2. ASSUME NEW pc \in Claimed, job' = [job EXCEPT !.pc = pc, !.now = clock]
        PROVE  KeptOK'
    <3>1. job'.pc = pc
      BY <1>3, <1>h, <2>2 DEF Claim, Job
    <3> QED
      BY <1>a, <2>2, <3>1 DEF Claimed, Late
  <2> QED
    BY <1>0, <1>3, <2>1, <2>2, ClaimOutcome
<1>4. ASSUME NEW answer, PerformsAs(answer) PROVE KeptOK'
  <2>1. records[job.req.key].expires = job.claimed + Retention
    BY <1>0, <1>4 DEF ClaimOK, PerformsAs
  <2>2. [answer |-> answer, at |-> job.claimed] \in effects'[job.req.key]
    BY <1>0, <1>4 DEF PerformsAs, TypeOK
  <2> QED
    BY <1>4, <2>1, <2>2 DEF KeptOK, PerformsAs, Late
<1>5. CASE InsertCancellation
  <2>1. /\ job.pc = "insertCancellation" /\ job'.pc = "save" /\ job'.req = job.req
        /\ job'.claimed = job.claimed /\ job'.answer = job.answer
        /\ UNCHANGED <<records, effects>>
    BY <1>5, <1>h DEF InsertCancellation, Goto, Job
  <2> QED
    BY <1>d, <2>1 DEF Late
<1>6. CASE AssignOutlet
  <2>1. /\ job.pc = "bind" /\ job'.req = job.req
        /\ job.req.op = "dispatch" => job'.pc = "save"
        /\ job'.claimed = job.claimed /\ job'.answer = job.answer
        /\ UNCHANGED <<records, effects>>
    BY <1>6, <1>h DEF AssignOutlet, Goto, Job
  <2>2. job.req.op # "dispatch" => job'.req.key = Null
    BY <1>0, <1>h, <2>1 DEF HandlerOK
  <2> QED
    BY <1>b, <1>d, <2>1, <2>2 DEF Late
<1>7. CASE SetProcessing \/ MarkCollected
  <2>1. job.pc \in {"process", "collect"} /\ job'.req = job.req
    BY <1>7, <1>h DEF SetProcessing, MarkCollected, Goto, Job
  <2>2. job.req.key = Null
    BY <1>0, <1>h, <2>1 DEF HandlerOK
  <2> QED
    BY <1>b, <2>1, <2>2
<1>8. CASE Save
  <2> DEFINE k == job.req.key
             rec == [records[k] EXCEPT !.state = "completed", !.answer = job.answer]
  <2>1. /\ job.pc = "save" /\ job'.pc = "respond" /\ job'.req = job.req
        /\ job'.answer = job.answer
    BY <1>8, <1>h DEF Save, Goto, Job
  <2>2. k \in Keys /\ records[k] # Null
    BY <1>0, <1>h, <2>1 DEF HandlerOK, AnswerOK, Late
  <2>3. records'[k] = rec /\ records[k] \in IdempotencyRow
    BY <1>0, <1>8, <2>2 DEF Save, TypeOK
  <2>4. rec # Null /\ rec.state = "completed" /\ rec.answer = job.answer
    <3>1. job.answer \in Answer
      BY <1>0, <2>1, Handler DEF Running
    <3>2. rec \in IdempotencyRow
      BY <2>3, <3>1 DEF IdempotencyRow
    <3> QED
      BY <2>3, <3>2 DEF IdempotencyRow
  <2> HIDE DEF rec
  <2> QED
    BY <2>1, <2>3, <2>4 DEF KeptOK, Late
<1>9. CASE Respond \/ StatementFails \/ Crash
  BY <1>a, <1>9 DEF Respond, StatementFails, Crash, NoJob, Late
<1> QED
  BY <1>0, <1>1, <1>2, <1>3, <1>4, <1>5, <1>6, <1>7, <1>8, <1>9, <1>c, Performances
     DEF Next, ServerStep, Refuse, Replay, ReadOrder, Tick, vars, database

\* The record of a key as IdempotencyKeys sees it.
TakenFor(rec) ==
  [body |-> rec.hash, from |-> rec.expires - Retention,
   answer |-> IF rec.state = "completed" THEN rec.answer ELSE Null]

LEMMA TakenIs ==
  ASSUME NEW k \in Keys
  PROVE  takenKeys[k] = IF records[k] = Null THEN Null ELSE TakenFor(records[k])
BY DEF takenKeys, TakenFor

\* What a record is changed to, its key is changed to.
LEMMA TakenOfUpdate ==
  ASSUME TypeOK, NEW k \in Keys, NEW rec, records' = [records EXCEPT ![k] = rec]
  PROVE  takenKeys' =
           [takenKeys EXCEPT ![k] = IF rec = Null THEN Null ELSE TakenFor(rec)]
<1>1. /\ records'[k] = rec
      /\ \A q \in Keys : q # k => records'[q] = records[q]
  BY DEF TypeOK
<1>2. \A q \in Keys :
        (IF records[q] = Null THEN Null ELSE TakenFor(records[q]))'
          = IF q = k THEN (IF rec = Null THEN Null ELSE TakenFor(rec))
            ELSE (IF records[q] = Null THEN Null ELSE TakenFor(records[q]))
  BY <1>1 DEF TakenFor
<1> QED
  BY <1>2 DEF takenKeys, TakenFor

\* A key that has a record is taken.
LEMMA TakenKey ==
  ASSUME LInv, NEW k \in Keys, records[k] # Null
  PROVE  /\ takenKeys[k] = TakenFor(records[k]) /\ takenKeys[k] # Null
         /\ takenKeys[k].from + Retention = records[k].expires
         /\ takenKeys[k].body = records[k].hash
         /\ takenKeys[k].answer =
              IF records[k].state = "completed" THEN records[k].answer ELSE Null
<1>0. TypeOK /\ RecordsOK
  BY DEF LInv, IInv
<1>1. /\ records[k] \in IdempotencyRow
      /\ records[k].hash \in Body /\ records[k].expires \in Nat /\ Retention \in Nat
      /\ records[k].answer \in Answer \cup {Null}
  BY <1>0, NumbersAssumption DEF TypeOK, IdempotencyRow
<1>2. takenKeys[k] = TakenFor(records[k])
  BY TakenIs
<1>3. TakenFor(records[k]) \in [body : Body, from : Int, answer : Answer \cup {Null}]
  BY <1>1 DEF TakenFor
<1>4. TakenFor(records[k]).from = records[k].expires - Retention
  BY DEF TakenFor
<1>5. TakenFor(records[k]).from + Retention = records[k].expires
  BY <1>1, <1>4
<1>6. takenKeys[k] # Null
  BY <1>2, <1>3, TakenAssumption
<1> QED
  BY <1>2, <1>5, <1>6 DEF TakenFor

\* A completed record has an answer.
LEMMA AnsweredKey ==
  ASSUME LInv, NEW k \in Keys, records[k] # Null, records[k].state = "completed"
  PROVE  takenKeys[k].answer = records[k].answer /\ takenKeys[k].answer # Null
<1>1. PICK e \in effects[k] : e.answer = records[k].answer
  BY DEF LInv, RecordsOK, Performed
<1>2. e.answer \in Answer
  BY DEF LInv, IInv, TypeOK, Effect
<1> QED
  BY <1>1, <1>2, TakenKey, NullAssumption

\* What is replayed is the answer the record holds, and it has not expired.
LEMMA ReplayIsInForce ==
  ASSUME LInv, NEW r \in Requests, Replay(r)
  PROVE  /\ r.key \in Keys /\ records[r.key] # Null
         /\ records[r.key].state = "completed" /\ clock <= records[r.key].expires
<1>1. Sent(r) /\ r.op \in Op
  BY RequestSent DEF Sent, Request
<1>2. r.key \in Keys /\ CheckIdempotency(r) = "replay"
  BY <1>1 DEF Replay, Verdict, Sent, Op, CreateVerdict, CancelVerdict,
              DispatchVerdict, FulfilVerdict, CollectVerdict
<1>3. /\ records[r.key] # Null /\ records[r.key].expires >= clock
      /\ records[r.key].state # "processing"
  BY <1>2 DEF CheckIdempotency, Unexpired
<1>4. records[r.key] \in IdempotencyRow /\ clock \in Nat
  BY <1>2, <1>3 DEF LInv, IInv, TypeOK
<1> QED
  BY <1>2, <1>3, <1>4 DEF IdempotencyRow

\* The steps that take a key, perform under it, complete it and let it go.
LEMMA ClaimTakes ==
  ASSUME LInv, [Next]_vars, Claim
  PROVE  \E k \in Keys : Promise!Take(k)
<1> DEFINE k == job.req.key
           rec == [hash |-> BodyHash(job.req), state |-> "processing", answer |-> Null,
                   expires |-> job.claimed + Retention]
<1>0. TypeOK /\ HandlerOK /\ ClaimOK
  BY DEF LInv, IInv
<1>1. job.pc = "claim" /\ Shape(job.req) /\ k \in Keys /\ records[k] = Null
  BY <1>0, Handler DEF Claim, LInv, ClaimOK, Keyed, Running
<1>2. job.claimed \in Nat /\ job.claimed \in 0..clock
  BY <1>0, <1>1 DEF HandlerOK, TypeOK, Job
<1>3. BodyHash(job.req) \in Body
  BY <1>1 DEF BodyHash, Shape, Sent, Request
<1>4. records' = [records EXCEPT ![k] = rec]
  BY <1>1 DEF Claim
<1>5. rec # Null
  <2>1. rec \in IdempotencyRow
    BY <1>2, <1>3, NumbersAssumption DEF IdempotencyRow
  <2> QED
    BY <2>1, NullAssumption
<1>6. TakenFor(rec) = [body |-> BodyHash(job.req), from |-> job.claimed, answer |-> Null]
  BY <1>2, NumbersAssumption DEF TakenFor
<1>7. takenKeys' = [takenKeys EXCEPT ![k] = TakenFor(rec)]
  BY <1>0, <1>1, <1>4, <1>5, TakenOfUpdate
<1>8. takenKeys[k] = Null
  BY <1>1, TakenIs
<1>9. \A e \in effects[k] : e.at + Retention < job.claimed
  BY <1>0, <1>1 DEF ClaimOK, Keyed
<1>10. UNCHANGED <<effects, clock, toldOfKey>>
  BY <1>1 DEF Claim, toldOfKey
<1> HIDE DEF k, rec
<1>11. Promise!Take(k)
  BY <1>2, <1>3, <1>6, <1>7, <1>8, <1>9, <1>10 DEF Promise!Take
<1> QED
  BY <1>1, <1>11

LEMMA PerformanceIsPromised ==
  ASSUME LInv, NEW answer, PerformsAs(answer)
  PROVE  \E k \in Keys : Promise!Perform(k)
<1> DEFINE k == job.req.key
<1>0. TypeOK /\ ClaimOK
  BY DEF LInv, IInv
<1>1. /\ k \in Keys /\ records[k] # Null
      /\ records[k].expires = job.claimed + Retention
      /\ \A e \in effects[k] : e.at + Retention < job.claimed
  BY <1>0 DEF PerformsAs, ClaimOK, Claimed, Keyed
<1>2. job.claimed \in Nat
  <2>1. job \in Job
    BY <1>0 DEF TypeOK
  <2> QED
    BY <2>1 DEF Job
<1>3. takenKeys[k] # Null /\ takenKeys[k].from = job.claimed
  <2>1. takenKeys[k] = TakenFor(records[k]) /\ takenKeys[k] # Null
    BY <1>1, TakenKey
  <2> QED
    BY <1>1, <1>2, <2>1, NumbersAssumption DEF TakenFor
<1>4. \A e \in effects[k] : e.at # takenKeys[k].from
  <2>1. \A e \in effects[k] : e.at \in Nat
    BY <1>0, <1>1 DEF TypeOK, Effect
  <2> QED
    BY <1>1, <1>2, <1>3, <2>1, NumbersAssumption
<1>5. takenKeys' = takenKeys /\ toldOfKey' = toldOfKey /\ clock' = clock
  BY DEF PerformsAs, takenKeys, toldOfKey
<1>6. effects' = [effects EXCEPT ![k] = @ \cup {[answer |-> answer, at |-> takenKeys[k].from]}]
  BY <1>3 DEF PerformsAs
<1>7. answer \in Answer
  BY DEF PerformsAs
<1> HIDE DEF k
<1>8. Promise!Perform(k)
  BY <1>3, <1>4, <1>5, <1>6, <1>7 DEF Promise!Perform
<1> QED
  BY <1>1, <1>8

LEMMA SaveCompletes ==
  ASSUME LInv, KeptOK, Save
  PROVE  \E k \in Keys : Promise!Complete(k)
<1> DEFINE k == job.req.key
           rec == [records[k] EXCEPT !.state = "completed", !.answer = job.answer]
           e == [answer |-> job.answer, at |-> job.claimed]
<1>0. TypeOK /\ HandlerOK /\ AnswerOK
  BY DEF LInv, IInv
<1>1. /\ job.pc = "save" /\ k # Null /\ k \in Keys /\ job.answer \in Answer
      /\ job \in Job
  BY <1>0, Handler DEF Save, LInv, HandlerOK, Running
<1>2. /\ records[k] # Null /\ records[k].state = "processing"
      /\ records[k].expires = job.claimed + Retention
      /\ e \in effects[k]
  BY <1>0, <1>1 DEF AnswerOK, KeptOK, Late
<1>3. records[k] \in IdempotencyRow /\ job.claimed \in Nat
  BY <1>0, <1>1, <1>2 DEF TypeOK, Job
<1>4. /\ takenKeys[k] = TakenFor(records[k]) /\ takenKeys[k] # Null
      /\ takenKeys[k].answer = Null
  BY <1>1, <1>2, TakenKey
<1>5. takenKeys[k].from = job.claimed
  BY <1>2, <1>3, <1>4, NumbersAssumption DEF TakenFor
<1>6. records' = [records EXCEPT ![k] = rec]
  BY <1>0, <1>1, <1>2 DEF Save, TypeOK
<1>7. rec \in IdempotencyRow /\ rec # Null
  BY <1>1, <1>3, NullAssumption DEF IdempotencyRow
<1>8. TakenFor(rec) = [TakenFor(records[k]) EXCEPT !.answer = job.answer]
  BY <1>3 DEF TakenFor, IdempotencyRow
<1>9. takenKeys' = [takenKeys EXCEPT ![k] = TakenFor(rec)]
  BY <1>0, <1>1, <1>6, <1>7, TakenOfUpdate
<1>10. takenKeys' = [takenKeys EXCEPT ![k].answer = e.answer] /\ e.at = job.claimed
  BY <1>4, <1>8, <1>9
<1>11. UNCHANGED <<effects, clock, toldOfKey>>
  BY DEF Save, toldOfKey
<1> HIDE DEF k, rec, e
<1>12. Promise!Complete(k)
  BY <1>2, <1>4, <1>5, <1>10, <1>11 DEF Promise!Complete
<1> QED
  BY <1>1, <1>12

LEMMA PurgeReleases ==
  ASSUME LInv, Purge
  PROVE  \/ UNCHANGED <<takenKeys, effects, clock, toldOfKey>>
         \/ \E k \in Keys : Promise!Release(k)
<1> DEFINE k == job.req.key
<1>0. TypeOK
  BY DEF LInv, IInv
<1>1. k \in Keys
  BY Handler DEF Purge, LInv, Running, Keyed
<1>2. UNCHANGED <<effects, clock, toldOfKey>>
  BY DEF Purge, toldOfKey
<1>3. CASE records[k] # Null /\ records[k].expires < clock
  <2>1. records' = [records EXCEPT ![k] = Null]
    BY <1>0, <1>1, <1>3 DEF Purge, TypeOK
  <2>2. takenKeys' = [takenKeys EXCEPT ![k] = Null]
    BY <1>0, <1>1, <2>1, TakenOfUpdate
  <2>3. takenKeys[k] # Null /\ ~(clock <= takenKeys[k].from + Retention)
    <3>1. records[k].expires \in Nat /\ clock \in Nat
      BY <1>0, <1>1, <1>3 DEF TypeOK, IdempotencyRow
    <3> QED
      BY <1>1, <1>3, <3>1, TakenKey
  <2> HIDE DEF k
  <2>4. Promise!Release(k)
    BY <1>2, <2>2, <2>3 DEF Promise!Release, Promise!InForce
  <2> QED
    BY <1>1, <2>4
<1>4. CASE ~(records[k] # Null /\ records[k].expires < clock)
  <2>1. records' = records
    BY <1>0, <1>1, <1>4 DEF Purge, TypeOK
  <2> QED
    BY <1>2, <2>1 DEF takenKeys
<1> QED
  BY <1>3, <1>4

\* The steps that answer.
LEMMA ReplayTellsAgain ==
  ASSUME LInv, NEW r \in Requests, Replay(r)
  PROVE  \E k \in Keys : Promise!TellAgain(k)
<1>1. /\ r.key \in Keys /\ r.key # Null /\ records[r.key] # Null
      /\ records[r.key].state = "completed" /\ clock <= records[r.key].expires
  BY ReplayIsInForce, NullAssumption
<1>2. /\ takenKeys[r.key] # Null /\ takenKeys[r.key].answer # Null
      /\ takenKeys[r.key].answer = records[r.key].answer
      /\ clock <= takenKeys[r.key].from + Retention
  BY <1>1, TakenKey, AnsweredKey
<1>3. /\ reply' = Success("replayed", r, records[r.key].answer)
      /\ UNCHANGED <<records, effects, clock>>
  BY DEF Replay, database
<1>4. toldOfKey' = [key |-> r.key, answer |-> takenKeys[r.key].answer, again |-> TRUE]
  BY <1>1, <1>2, <1>3 DEF toldOfKey, Success
<1>5. takenKeys' = takenKeys
  BY <1>3 DEF takenKeys
<1>6. Promise!TellAgain(r.key)
  BY <1>2, <1>3, <1>4, <1>5 DEF Promise!TellAgain, Promise!InForce
<1> QED
  BY <1>1, <1>6

LEMMA RespondTells ==
  ASSUME LInv, KeptOK, Respond
  PROVE  Promise!SayNothing \/ \E k \in Keys : Promise!Tell(k)
<1> DEFINE k == job.req.key
<1>1. /\ job.pc = "respond" /\ (k # Null => k \in Keys)
  BY Handler DEF Respond, LInv
<1>2. /\ reply' = Success("done", job.req, job.answer)
      /\ UNCHANGED <<records, effects, clock>>
  BY DEF Respond, database
<1>3. takenKeys' = takenKeys
  BY <1>2 DEF takenKeys
<1>4. CASE k = Null
  BY <1>2, <1>3, <1>4 DEF Promise!SayNothing, toldOfKey, Success
<1>5. CASE k # Null
  <2>1. /\ records[k] # Null /\ records[k].state = "completed"
        /\ records[k].answer = job.answer
    BY <1>1, <1>5 DEF KeptOK
  <2>2. /\ takenKeys[k] # Null /\ takenKeys[k].answer # Null
        /\ takenKeys[k].answer = job.answer
    BY <1>1, <1>5, <2>1, TakenKey, AnsweredKey
  <2>3. toldOfKey' = [key |-> k, answer |-> takenKeys[k].answer, again |-> FALSE]
    BY <1>2, <1>5, <2>2 DEF toldOfKey, Success
  <2> HIDE DEF k
  <2>4. Promise!Tell(k)
    BY <1>2, <1>3, <2>2, <2>3 DEF Promise!Tell
  <2> QED
    BY <1>1, <1>5, <2>4
<1> QED
  BY <1>4, <1>5

\* Every step of the service is a step of the contract or none.
LEMMA KeysStep ==
  ASSUME LInv, KeptOK, [Next]_vars
  PROVE  [Promise!Next]_(Promise!vars)
<1>1. ASSUME UNCHANGED <<records, effects, clock, reply>>
      PROVE  [Promise!Next]_(Promise!vars)
  BY <1>1 DEF Promise!vars, takenKeys, toldOfKey
<1>2. ASSUME NEW code, reply' = Refusal(code), UNCHANGED <<records, effects, clock>>
      PROVE  [Promise!Next]_(Promise!vars)
  <2>1. toldOfKey' = Null /\ takenKeys' = takenKeys
    BY <1>2 DEF toldOfKey, takenKeys, Refusal
  <2>2. Promise!SayNothing
    BY <1>2, <2>1 DEF Promise!SayNothing
  <2> QED
    BY <2>2 DEF Promise!Next
<1>3. CASE Tick
  <2>1. takenKeys' = takenKeys /\ toldOfKey' = toldOfKey
    BY <1>3 DEF Tick, takenKeys, toldOfKey, database
  <2>2. Promise!Pass
    BY <1>3, <2>1 DEF Tick, Promise!Pass
  <2> QED
    BY <2>2 DEF Promise!Next
<1>4. ASSUME NEW r \in Requests, Replay(r)
      PROVE  [Promise!Next]_(Promise!vars)
  BY <1>4, ReplayTellsAgain DEF Promise!Next
<1>5. ASSUME NEW answer, PerformsAs(answer)
      PROVE  [Promise!Next]_(Promise!vars)
  BY <1>5, PerformanceIsPromised DEF Promise!Next
<1>6. CASE Purge
  BY <1>6, PurgeReleases DEF Promise!Next, Promise!vars
<1>7. CASE Claim
  BY <1>7, ClaimTakes DEF Promise!Next
<1>8. CASE Save
  BY <1>8, SaveCompletes DEF Promise!Next
<1>9. CASE Respond
  BY <1>9, RespondTells DEF Promise!Next
<1>10. IInv
  BY DEF LInv
<1> HIDE DEF Promise!Next
<1> QED
  BY <1>1, <1>2, <1>3, <1>4, <1>5, <1>6, <1>7, <1>8, <1>9, <1>10, Performances
     DEF Next, ServerStep, Refuse, Admit, ReadOrder, InsertCancellation, AssignOutlet,
         SetProcessing, MarkCollected, StatementFails, Crash, NoReply, vars, database

(* The service keeps the contract of a key: what stands behind a success answer
   was performed under the claim the record is of, a key is performed under once
   between two claims, and claims of one key are the retention period apart. *)
THEOREM KeysImplemented == Spec => ImplementsKeys
<1>1. Init => Promise!Init
  BY DEF Init, Promise!Init, takenKeys, toldOfKey, NoReply, Refusal
<1>2. Init => LInv /\ KeptOK
  BY InitAnswers DEF Init, KeptOK, NoJob
<1>3. LInv /\ KeptOK /\ RepliesOK /\ [Next]_vars =>
        (LInv /\ KeptOK /\ RepliesOK)'
  BY AnswersNext, KeptStep
<1>4. LInv /\ KeptOK /\ [Next]_vars => [Promise!Next]_(Promise!vars)
  BY KeysStep
<1>5. Spec => [](LInv /\ KeptOK)
  BY <1>2, <1>3, InitAnswers, PTL DEF Spec
<1>6. Spec => Promise!Spec
  BY <1>1, <1>4, <1>5, PTL DEF Spec, Promise!Spec
<1> QED
  BY <1>6 DEF ImplementsKeys
=============================================================================
