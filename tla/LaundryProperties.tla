------------------------- MODULE LaundryProperties -------------------------
(***************************************************************************)
(* What LaundryService promises: its type invariant, its safety properties,*)
(* the lifecycle it implements, what a failure may spoil of it, and what   *)
(* the repository's documents say of it and it does not keep.              *)
(***************************************************************************)
EXTENDS LaundryService

Pc == {"idle", "purge", "claim", "insertOrder", "setCancelled",
       "insertCancellation", "insertPickup", "bind", "process", "collect",
       "save", "respond"}

Job == [pc      : Pc,
        req     : Request \cup {Null},
        seen    : OrderRow \cup {Null},
        claimed : Nat,
        now     : Nat,
        answer  : Answer \cup {Null}]

ReplyStatus == {"none", "done", "replayed", "400", "403", "404", "412", "500",
                "409 key reused", "409 still processing", "409 not cancellable"}

Reply == [status : ReplyStatus,
          key    : Keys \cup {Null},
          body   : Body,
          answer : Answer \cup {Null}]

Held == [order : OrderIds \cup {Null},
         tag   : Version \cup {Null},
         stale : BOOLEAN]

Effect == [answer : Answer, at : Nat]

\* Every table keeps the shape schema.sql and its CHECK constraints give it.
TypeOK ==
  /\ orders \in [OrderIds -> OrderRow \cup {Null}]
  /\ pickups \in [PickupIds -> PickupRow \cup {Null}]
  /\ cancellations \in [OrderIds -> Nat]
  /\ records \in [Keys -> IdempotencyRow \cup {Null}]
  /\ clock \in Nat
  /\ job \in Job
  /\ reply \in Reply
  /\ held \in [Windows -> Held]
  /\ effects \in [Keys -> SUBSET Effect]
  /\ faults \in Nat

Exists(o) == orders[o] # Null

(* Idempotency: two operations performed under one key belong to claims that
   are more than the retention period apart, whatever was repeated, lost,
   failed or crashed in between (claimIdempotency, saveIdempotencyRecord). *)
AtMostOncePerKey ==
  \A k \in Keys : \A e, f \in effects[k] :
    e # f => e.at + Retention < f.at \/ f.at + Retention < e.at

\* What the database has to contain for a success answer to be true.
Durable(answer) ==
  /\ Exists(answer.order)
  /\ answer.op = "cancel" =>
       /\ orders[answer.order].status \notin CANCELLABLE
       /\ cancellations[answer.order] > 0
  /\ answer.op = "dispatch" =>
       /\ pickups[answer.pickup] # Null
       /\ pickups[answer.pickup].order = answer.order
       /\ orders[answer.order].outlet # Null

(* A record is marked completed only when all the statements of its operation
   are in the file, so that what it will replay is true for as long as it is
   kept (the position of saveIdempotencyRecord in the three handlers). *)
CompletedMeansDone ==
  \A k \in Keys :
    records[k] # Null /\ records[k].state = "completed" =>
      /\ Durable(records[k].answer)
      /\ records[k].answer.op = "create" =>
           orders[records[k].answer.order].customer = records[k].hash.customer
      /\ records[k].answer.op = "dispatch" =>
           pickups[records[k].answer.pickup].driver = records[k].hash.driver

(* A success answer to a request with a key, fresh or replayed, is the answer
   of an operation performed under that key. *)
AnswersAreTrue ==
  reply.status \in {"done", "replayed"} /\ reply.key # Null =>
    \E e \in effects[reply.key] : e.answer = reply.answer

(* An order is cancelled at most once, and a row in cancellations never
   exists for an order that could still be cancelled (orders.js cancellation
   handler: status first, row second). *)
CancellationLedger ==
  \A o \in OrderIds :
    /\ cancellations[o] <= 1
    /\ cancellations[o] = 1 =>
         Exists(o) /\ orders[o].status \notin CANCELLABLE

(* In a single process the answers of claimIdempotency after a lost claim are
   unreachable: what checkIdempotency lets through, the delete removes. *)
ClaimNeverLost == job.pc = "claim" => records[job.req.key] = Null

(* If-Match: once an order has been written, no screen that read it before
   holds its version any more, not even when the write falls into the same
   millisecond.  A conditional request cannot overwrite an unseen change. *)
NoLostUpdate ==
  \A w \in Windows :
    held[w].stale => held[w].tag # OrderVersion(orders[held[w].order])

(* An order only moves forward: a statement that changes one brings it to a
   later stage or binds it, and undoes neither, so that no order ever is again
   what it was before, and no version of it is given out twice (updateStatus and
   assignOutlet under the guards of the handlers; the page of an order relies on
   it when it takes an equal ETag for an unchanged order). *)
Stage(v) == CASE v.status = "processing" -> 2
              [] v.status = "cancelled"  -> 1
              [] OTHER                   -> 0

Further(row, next) ==
  /\ Stage(row) <= Stage(next)
  /\ row.outlet # Null => next.outlet = row.outlet
  /\ \/ Stage(row) < Stage(next)
     \/ row.outlet = Null /\ next.outlet # Null

OrdersMoveForward ==
  [][\A o \in OrderIds :
       Exists(o) /\ orders'[o] # orders[o] =>
         orders'[o] # Null /\ Further(orders[o], orders'[o])]_orders

(* Every statement that changes an order is executed for the customer of the
   order, who leaves its outlet alone, or for staff of the outlet that has the
   order after the statement (ownership is decided before any mutation, and
   still holds when the last statement of the handler runs). *)
WritesAuthorised ==
  [][\A o \in OrderIds :
       Exists(o) /\ orders'[o] # orders[o] =>
         \/ /\ job.req.by.domainId = orders[o].customer
            /\ orders'[o].outlet = orders[o].outlet
         \/ /\ job.req.by.outletId # Null
            /\ orders'[o].outlet = job.req.by.outletId]_orders

(* The list filter and the detail predicate agree: a listed order opens, and
   an order staff may open is in their list (ownership.js, order-store.js). *)
ListDetailAgree ==
  \A p \in Principals, o \in OrderIds : Exists(o) =>
    /\ InOrderList(p, orders[o]) =>
         \A a \in Assignments(o) : MayReadOrder(p, orders[o], a)
    /\ MayStaffSeeOrder(p, orders[o]) => InOrderList(p, orders[o])

(* The orders table implements OrderLifecycle: every statement any handler
   executes is one of its steps or leaves the order's lifecycle alone. *)
lifecycle ==
  [o \in OrderIds |-> IF Exists(o) THEN [customer |-> orders[o].customer,
                                        status   |-> orders[o].status,
                                        outlet   |-> orders[o].outlet]
                                  ELSE Null]

ASSUME ViewAssumption ==
  Null \notin [customer : DomainIds, status : OrderStatus,
              outlet : DomainIds \cup {Null}]

Lifecycle ==
  INSTANCE OrderLifecycle
    WITH Cancellable <- {"pending_pickup", "ready_for_pickup", "confirmed"},
         order <- lifecycle

ImplementsLifecycle == Lifecycle!Spec

(* A key of the service is a key of IdempotencyKeys: its record is what the key
   is taken for, counted from the claim; an answer to a request with a key tells
   what the record holds. *)
takenKeys ==
  [k \in Keys |->
     IF records[k] = Null THEN Null
     ELSE [body   |-> records[k].hash,
           from   |-> records[k].expires - Retention,
           answer |-> IF records[k].state = "completed" THEN records[k].answer
                                                        ELSE Null]]

toldOfKey ==
  IF reply.status \in {"done", "replayed"} /\ reply.key # Null
    THEN [key |-> reply.key, answer |-> reply.answer,
          again |-> reply.status = "replayed"]
    ELSE Null

ASSUME TakenAssumption ==
  Null \notin [body : Body, from : Int, answer : Answer \cup {Null}]

Promise ==
  INSTANCE IdempotencyKeys
    WITH Bodies <- Body, Answers <- Answer, taken <- takenKeys,
         performed <- effects, now <- clock, told <- toldOfKey

(* Whatever is repeated, lost, fails or crashes, what is done and said under a
   key keeps the promise of IdempotencyKeys: in particular an answer is that of
   the operation performed under the claim the record is of, never of an earlier
   one, and a key is let go only when it has expired (checkIdempotency,
   claimIdempotency and saveIdempotencyRecord around the handlers). *)
ImplementsKeys == Promise!Spec

(***************************************************************************)
(* The inductive invariant.  What the handler has read stays true while its*)
(* statements run, because nothing else runs; what it has read of the clock*)
(* lies in the past; and a record outlives the retention period of what was*)
(* performed under its key.                                                *)
(***************************************************************************)
Keyed == {"purge", "claim", "insertOrder", "setCancelled", "insertPickup"}

(* Which handler is at which statement, and what its guards established. *)
HandlerOK ==
  job.pc # "idle" =>
    /\ job.req \in Requests
    /\ job.answer # Null
    /\ job.claimed <= clock
    /\ job.pc \in Keyed \cup {"insertCancellation", "save"} => job.req.key # Null
    /\ job.pc = "insertOrder" => job.req.op = "create"
    /\ job.pc \in {"setCancelled", "insertCancellation"} => job.req.op = "cancel"
    /\ job.pc = "insertPickup" => job.req.op = "dispatch"
    /\ job.pc = "bind" => job.req.op \in {"fulfil", "dispatch"}
    /\ job.pc = "process" => job.req.op = "fulfil"
    /\ job.pc = "collect" => job.req.op = "collect" /\ pickups[job.req.pickup] # Null
    /\ job.req.order # Null => orders[job.req.order] # Null
    /\ job.req.op = "create" => job.req.body.customer # Null
    /\ job.req.op = "dispatch" => Null \notin {job.req.order, job.req.body.driver}

(* The order of the running handler is the row it loaded until it writes it,
   and what the guards established of it still holds. *)
SnapshotOK ==
  LET row == orders[job.req.order] IN
  /\ (job.pc \in Keyed \cup {"bind"} /\ job.req.order # Null) => job.seen = row
  /\ (job.pc \in Keyed /\ job.req.op = "cancel") =>
       /\ row.status \in CANCELLABLE
       /\ MayCancelOrder(job.req.by, row)
  /\ (job.pc \in Keyed \cup {"bind"} /\ job.req.op \in {"fulfil", "dispatch"}) =>
       /\ job.req.by.outletId # Null
       /\ row.outlet \in {Null, job.req.by.outletId}
  /\ (job.pc = "bind") => row.outlet = Null
  /\ (job.pc = "process") =>
       /\ job.req.by.outletId # Null
       /\ row.outlet = job.req.by.outletId
       /\ row.status # "processing"

(* The record of a key lives as long as what was performed under it. *)
KeyOK ==
  \A k \in Keys : \A e \in effects[k] :
    \/ e.at + Retention < clock
    \/ records[k] # Null /\ e.at + Retention <= records[k].expires

(* While a handler is about to perform its operation, whatever was performed
   under its key before has expired, and so has the record of it. *)
Claimed == {"insertOrder", "setCancelled", "insertPickup"}

ClaimOK ==
  LET rec == records[job.req.key] IN
  /\ job.pc \in Keyed =>
       \A e \in effects[job.req.key] : e.at + Retention < job.claimed
  /\ job.pc = "purge" => rec = Null \/ rec.expires < clock
  /\ job.pc = "claim" => rec = Null
  /\ job.pc \in Claimed => rec # Null /\ rec.expires = job.claimed + Retention

(* What a screen read is what the order is, or once was: an order only moves
   forward, so no version ever comes back. *)
TagOK ==
  \A w \in Windows : held[w].order # Null =>
    LET row == orders[held[w].order]
        tag == held[w].tag
    IN /\ row # Null
       /\ Stage(tag) <= Stage(row)
       /\ tag.outlet # Null => tag.outlet = row.outlet
       /\ held[w].stale => \/ Stage(tag) < Stage(row)
                           \/ tag.outlet = Null /\ row.outlet # Null

NothingHeld ==
  \A w \in Windows : held[w].order = Null => held[w] = NothingRead

(* The row in cancellations is the handler's second statement. *)
LedgerOK ==
  job.pc = "insertCancellation" =>
    /\ orders[job.req.order].status = "cancelled"
    /\ cancellations[job.req.order] = 0

(* The inductive invariant; the theorems about every invariant and action
   property above rest on it. *)
IInv ==
  /\ TypeOK
  /\ HandlerOK
  /\ SnapshotOK
  /\ KeyOK
  /\ ClaimOK
  /\ AtMostOncePerKey
  /\ TagOK
  /\ NothingHeld
  /\ LedgerOK
  /\ CancellationLedger

(***************************************************************************)
(* What a failure may spoil.  No handler opens a transaction, so a failed  *)
(* statement or a crash leaves the statements before it; the documents ask *)
(* for none of this to happen, the code keeps it to one case per failure.  *)
(***************************************************************************)

\* Cancelled orders without a Cancellation, which no retry can create any more.
WithoutCancellation ==
  {o \in OrderIds :
     /\ Exists(o) /\ orders[o].status = "cancelled" /\ cancellations[o] = 0
     /\ ~(job.pc = "insertCancellation" /\ job.req.order = o)}

(* A cancelled order has its Cancellation, except for at most one order for
   each failure (updateStatus and cancellationStore.insert in the cancellation
   handler). *)
CancelledHasRecord == Cardinality(WithoutCancellation) <= faults

\* Dispatched pickups of an order that is in no outlet: the list of none shows
\* them; they are in their driver's alone.
OutOfEverySight ==
  {u \in PickupIds :
     /\ pickups[u] # Null
     /\ ~(job.pc = "bind" /\ job.req.order = pickups[u].order)
     /\ \A x \in DomainIds :
          ~InPickupList([domainId |-> x, outletId |-> x], pickups[u],
                        orders[pickups[u].order])}

(* A dispatched order is bound to an outlet, so that the pickup list of that
   outlet shows its pickup, except for one pickup for each failure (the bind at
   the end of the dispatch handler and the filter of pickup-store.js). *)
DispatchedOrderIsBound == Cardinality(OutOfEverySight) <= faults

\* Keys claimed by a request that is not running any more.
Orphaned ==
  {k \in Keys :
     /\ records[k] # Null /\ records[k].state = "processing"
     /\ Idle \/ job.req.key # k}

(* A key is refused as "still being processed" only while its request is, or
   after a failure of that request: one key for each (claimIdempotency before
   the operation, saveIdempotencyRecord after it). *)
BusyOnlyWhileRunning == Cardinality(Orphaned) <= faults

(* A success answer, fresh or replayed, shows an order of the customer, or a
   pickup of the order and the driver, that the body of the request names; only
   a cancellation may be another one than the request asked for, because what a
   key is checked against is the body, not the path (bodyHash and
   checkIdempotency). *)
AnswersFitBody ==
  reply.status \in {"done", "replayed"} /\ reply.key # Null =>
    LET answer == reply.answer IN
    /\ answer.op = "create" =>
         orders[answer.order].customer = reply.body.customer
    /\ answer.op = "dispatch" =>
         /\ pickups[answer.pickup].order = reply.body.order
         /\ pickups[answer.pickup].driver = reply.body.driver

(***************************************************************************)
(* What the documents say and the code does not do.                        *)
(***************************************************************************)

(* cancelled is a terminal status of the order lifecycle. *)
CancelledIsFinal ==
  [][\A o \in OrderIds :
       Exists(o) /\ orders[o].status = "cancelled" =>
         orders'[o].status = "cancelled"]_orders
=============================================================================
