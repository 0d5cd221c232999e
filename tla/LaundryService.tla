--------------------------- MODULE LaundryService ---------------------------
(***************************************************************************)
(* The laundry API (service/src): one Node.js process in front of one      *)
(* SQLite file.                                                            *)
(*                                                                         *)
(* better-sqlite3 is synchronous and no handler awaits once its request is *)
(* authenticated, so the handlers of two requests never interleave.  But   *)
(* no handler opens a transaction: every write statement commits alone, and*)
(* a statement that throws, or a process that dies, leaves the statements  *)
(* before it in the file.  A handler is therefore one Admit step, all its  *)
(* reads and guards, followed by one step per write statement and one for  *)
(* the response; between any two of them time may pass, the next statement *)
(* may fail and the process may crash.                                     *)
(*                                                                         *)
(* The network is not a variable: any request may arrive whenever the      *)
(* process is idle, any number of times and in any order, which is what    *)
(* losing, delaying, duplicating and reordering requests amounts to.       *)
(***************************************************************************)
EXTENDS Integers, FiniteSets, Ownership

CONSTANTS
  DomainIds,    \* provider-issued identities of customers, drivers, outlets
  Principals,   \* the callers, as principal.js derives them from a token
  Drivers,      \* the driver ids that appear in dispatch bodies
  Bodies,       \* the JSON bodies clients send
  OrderIds,     \* what generateId("ord_") may return
  PickupIds,    \* what generateId("pku_") may return
  Keys,         \* Idempotency-Key values
  Windows,      \* clients' screens, each holding the ETag it last read
  Retention,    \* RETENTION_MS, in ticks
  MaxClock,     \* bound on the clock
  MaxFaults     \* bound on failed statements and crashes

Scope == {"orders:read", "orders:write", "orders:fulfil",
          "pickups:read", "pickups:write"}

Principal == [domainId : DomainIds,
              outletId : DomainIds \cup {Null},
              scopes   : SUBSET Scope]

(***************************************************************************)
(* The tables of service/db/schema.sql.  Columns no handler decides on     *)
(* (service type, weight, address, schedule, reason) are left out.         *)
(***************************************************************************)
OrderStatus == {"pending_pickup", "ready_for_pickup", "confirmed", "assigned",
                "picked_up", "processing", "completed", "cancelled"}

PickupStatus == {"scheduled", "assigned", "picked_up", "delivered", "cancelled"}

OrderRow == [customer : DomainIds,
             status   : OrderStatus,
             outlet   : DomainIds \cup {Null},
             updated  : Nat]

PickupRow == [order : OrderIds, driver : Drivers, status : PickupStatus]

(***************************************************************************)
(* A JSON body: the customer it names as the body of a valid creation, the *)
(* order and the driver it names as that of a valid dispatch; Null where it*)
(* is neither.  Any body may be sent to any operation.                     *)
(***************************************************************************)
Body == [customer : DomainIds \cup {Null},
         order    : OrderIds \cup {Null},
         driver   : Drivers \cup {Null}]

NoBody == [customer |-> Null, order |-> Null, driver |-> Null]

(***************************************************************************)
(* A request: the operation, its caller, the Idempotency-Key header, the   *)
(* body, the order it is about (named in the path, or in the body of a     *)
(* dispatch), the pickup in its path, and the screen whose ETag it carries *)
(* as If-Match (Null when it carries none).                                *)
(***************************************************************************)
Op == {"create", "cancel", "fulfil", "dispatch", "collect"}

Request == [op       : Op,
            by       : Principals,
            key      : Keys \cup {Null},
            body     : Body,
            order    : OrderIds \cup {Null},
            pickup   : PickupIds \cup {Null},
            window   : Windows \cup {Null}]

BlankRequest(p) ==
  [op |-> "collect", by |-> p, key |-> Null, body |-> NoBody, order |-> Null,
   pickup |-> Null, window |-> Null]

CreateRequest(p, k, b) ==
  [BlankRequest(p) EXCEPT !.op = "create", !.key = k, !.body = b]

CancelRequest(p, k, b, o, w) ==
  [BlankRequest(p) EXCEPT !.op = "cancel", !.key = k, !.body = b, !.order = o,
                          !.window = w]

FulfilRequest(p, o, w) ==
  [BlankRequest(p) EXCEPT !.op = "fulfil", !.order = o, !.window = w]

DispatchRequest(p, k, b) ==
  [BlankRequest(p) EXCEPT !.op = "dispatch", !.key = k, !.body = b,
                          !.order = b.order]

CollectRequest(p, u) == [BlankRequest(p) EXCEPT !.pickup = u]

\* What a successful answer represents, and what the record of its key keeps.
Answer == [op     : Op,
           order  : OrderIds \cup {Null},
           pickup : PickupIds \cup {Null}]

\* The digest of a body stands for the body: SHA-256 has no collisions here.
IdempotencyRow == [hash    : Body,
                   state   : {"processing", "completed"},
                   answer  : Answer \cup {Null},
                   expires : Nat]

ASSUME PrincipalsAssumption == Principals \subseteq Principal

ASSUME BodiesAssumption == Bodies \subseteq Body

ASSUME NullAssumption ==
  /\ Null \notin DomainIds \cup Drivers \cup OrderIds \cup PickupIds
  /\ Null \notin Keys \cup Windows
  /\ Null \notin OrderRow \cup PickupRow
  /\ Null \notin IdempotencyRow \cup Request \cup Answer

ASSUME NumbersAssumption ==
  /\ Retention \in Nat \ {0}
  /\ MaxClock \in Nat
  /\ MaxFaults \in Nat

(***************************************************************************)
(* orders, pickups, records: the tables, Null where no row exists;         *)
(* cancellations: how many rows the table has for each order.              *)
(* clock: Date.now().  job: the handler that is running.                   *)
(* reply: the answer the last request got.                                 *)
(* held: for each screen, the order it read last and the ETag it was given;*)
(*   stale is a history flag, set when that order is written afterwards.   *)
(* effects: history, for each key, of the operations performed under it and*)
(*   when the key was claimed for them.                                    *)
(* faults: how many statements have failed and processes have crashed.     *)
(***************************************************************************)
VARIABLES orders, pickups, cancellations, records, clock, job, reply, held,
          effects, faults

database == <<orders, pickups, cancellations, records>>
vars == <<database, clock, job, reply, held, effects, faults>>

NoJob == [pc |-> "idle", req |-> Null, seen |-> Null, claimed |-> 0, now |-> 0,
          answer |-> Null]

Refusal(code) == [status |-> code, key |-> Null, body |-> NoBody, answer |-> Null]

\* A success answer to request r.
Success(status, r, answer) ==
  [status |-> status, key |-> r.key, body |-> r.body, answer |-> answer]

NoReply == Refusal("none")

NothingRead == [order |-> Null, tag |-> Null, stale |-> FALSE]

Init ==
  /\ orders = [o \in OrderIds |-> Null]
  /\ pickups = [u \in PickupIds |-> Null]
  /\ cancellations = [o \in OrderIds |-> 0]
  /\ records = [k \in Keys |-> Null]
  /\ clock = 0
  /\ job = NoJob
  /\ reply = NoReply
  /\ held = [w \in Windows |-> NothingRead]
  /\ effects = [k \in Keys |-> {}]
  /\ faults = 0
-----------------------------------------------------------------------------
(***************************************************************************)
(* Conditional requests (conditional.js).                                  *)
(***************************************************************************)

\* Mutant: a marker that forgets the outlet.
OrderVersionWithoutOutlet(row) ==
  [status |-> row.status, outlet |-> Null, updated |-> row.updated]

\* orderVersion digests the id, the status, the outlet and updated_at; the id
\* is known from the resource the tag is compared for.
OrderVersion(row) ==
  [status |-> row.status, outlet |-> row.outlet, updated |-> row.updated]

Version == [status  : OrderStatus,
            outlet  : DomainIds \cup {Null},
            updated : Nat]

\* A request without If-Match passes; "*" passes as well and adds nothing.
MatchesIfMatch(r) ==
  \/ r.window = Null
  \/ held[r.window].tag = OrderVersion(orders[r.order])

\* Every screen that read order o before this write now shows an old version.
Outdate(o) ==
  held' = [w \in Windows |->
             [held[w] EXCEPT !.stale = held[w].stale \/ held[w].order = o]]

(***************************************************************************)
(* Idempotency keys (idempotency.js, idempotency-store.js).                *)
(***************************************************************************)

\* Mutant: the hash covers the driver and the schedule, not the order.
BodyHashWithoutOrder(r) == [r.body EXCEPT !.order = Null]

\* bodyHash digests the JSON body, whatever it is, and nothing else: neither the
\* path nor the method nor the caller.
BodyHash(r) == r.body

\* Mutants: a record never expires, or one tick before the delete removes it.
UnexpiredForEver(rec) == rec # Null

UnexpiredTooShort(rec) == rec # Null /\ rec.expires > clock

Unexpired(rec) == rec # Null /\ rec.expires >= clock

CheckIdempotency(r) ==
  LET rec == records[r.key] IN
  IF ~Unexpired(rec)               THEN "proceed"
  ELSE IF rec.hash # BodyHash(r)   THEN "409 key reused"
  ELSE IF rec.state = "processing" THEN "409 still processing"
  ELSE "replay"

(***************************************************************************)
(* What becomes of a request: the guards of its handler, in the order the  *)
(* code evaluates them.                                                    *)
(***************************************************************************)
RequiredScope == [create   |-> "orders:write",  cancel  |-> "orders:write",
                  fulfil   |-> "orders:fulfil", dispatch |-> "orders:fulfil",
                  collect  |-> "pickups:write"]

\* Mutants: statuses added to the list by mistake.
CANCELLABLEAgain == {"pending_pickup", "ready_for_pickup", "confirmed",
                     "cancelled"}
CANCELLABLELate == {"pending_pickup", "ready_for_pickup", "confirmed",
                    "processing"}

CANCELLABLE == {"pending_pickup", "ready_for_pickup", "confirmed"}

CreateVerdict(r) ==
  IF CheckIdempotency(r) # "proceed"             THEN CheckIdempotency(r)
  ELSE IF r.body.customer = Null                 THEN "400"
  ELSE IF ~MayCreateOrder(r.by, r.body.customer) THEN "404"
  ELSE "proceed"

CancelVerdict(r) ==
  LET order == orders[r.order] IN
  IF CheckIdempotency(r) # "proceed"          THEN CheckIdempotency(r)
  ELSE IF order = Null                        THEN "404"
  ELSE IF ~MayCancelOrder(r.by, order)        THEN "404"
  ELSE IF ~MatchesIfMatch(r)                  THEN "412"
  ELSE IF order.status \notin CANCELLABLE     THEN "409 not cancellable"
  ELSE "proceed"

\* Nothing is asked of the order's status, and there is no key.
FulfilVerdict(r) ==
  LET order == orders[r.order] IN
  IF order = Null                             THEN "404"
  ELSE IF ~MayClaimOrder(r.by, order)         THEN "404"
  ELSE IF ~MatchesIfMatch(r)                  THEN "412"
  ELSE "proceed"

DispatchVerdict(r) ==
  LET order == orders[r.order] IN
  IF CheckIdempotency(r) # "proceed"          THEN CheckIdempotency(r)
  ELSE IF Null \in {r.order, r.body.driver}   THEN "400"
  ELSE IF order = Null                        THEN "404"
  ELSE IF ~MayClaimOrder(r.by, order)         THEN "404"
  ELSE "proceed"

\* If-Match is left out: no response carries the version of a single pickup.
CollectVerdict(r) ==
  LET pickup == pickups[r.pickup] IN
  IF pickup = Null                            THEN "404"
  ELSE IF ~MayCollectPickup(r.by, pickup)     THEN "404"
  ELSE "proceed"

Verdict(r) ==
  IF RequiredScope[r.op] \notin r.by.scopes   THEN "403"
  ELSE CASE r.op = "create"   -> CreateVerdict(r)
         [] r.op = "cancel"   -> CancelVerdict(r)
         [] r.op = "fulfil"   -> FulfilVerdict(r)
         [] r.op = "dispatch" -> DispatchVerdict(r)
         [] r.op = "collect"  -> CollectVerdict(r)

\* A screen sends the ETag it holds only for the order it shows.
CanSend(r) == r.window # Null => held[r.window].order = r.order

Requests ==
  LET screen == Windows \cup {Null} IN
       {CreateRequest(p, k, b) : p \in Principals, k \in Keys, b \in Bodies}
  \cup {CancelRequest(p, k, b, o, w) :
          p \in Principals, k \in Keys, b \in Bodies, o \in OrderIds, w \in screen}
  \cup {FulfilRequest(p, o, w) : p \in Principals, o \in OrderIds, w \in screen}
  \cup {DispatchRequest(p, k, b) : p \in Principals, k \in Keys, b \in Bodies}
  \cup {CollectRequest(p, u) : p \in Principals, u \in PickupIds}
-----------------------------------------------------------------------------
(***************************************************************************)
(* A request arrives at the idle process.                                  *)
(***************************************************************************)
Idle == job.pc = "idle"

\* What a request that can be sent now may be refused with.
Refusals ==
  {Verdict(r) : r \in {q \in Requests : CanSend(q)}} \ {"proceed", "replay"}

\* Two requests refused for the same reason leave the same state.
Refuse ==
  /\ Idle
  /\ \E code \in Refusals : reply' = Refusal(code)
  /\ UNCHANGED <<database, clock, job, held, effects, faults>>

Replay(r) ==
  /\ Idle
  /\ CanSend(r)
  /\ Verdict(r) = "replay"
  /\ reply' = Success("replayed", r, records[r.key].answer)
  /\ UNCHANGED <<database, clock, job, held, effects, faults>>

\* The statement a fulfilment goes on with after the order was bound, or found
\* bound; row is the order as the handler loaded it.
AfterBinding(row) == IF row.status # "processing" THEN "process" ELSE "respond"

FirstStep(r) ==
  CASE r.key # Null     -> "purge"
    [] r.op = "fulfil"  -> IF orders[r.order].outlet = Null
                             THEN "bind" ELSE AfterBinding(orders[r.order])
    [] r.op = "collect" -> IF pickups[r.pickup].status # "picked_up"
                             THEN "collect" ELSE "respond"

\* Bound: generateId always finds a fresh id; the model stops creating when its
\* own are used up.
FreshIdLeft(r) ==
  /\ r.op = "create"   => \E o \in OrderIds : orders[o] = Null
  /\ r.op = "dispatch" => \E u \in PickupIds : pickups[u] = Null

Admit(r) ==
  /\ Idle
  /\ CanSend(r)
  /\ FreshIdLeft(r)
  /\ Verdict(r) = "proceed"
  /\ job' = [pc      |-> FirstStep(r),
             req     |-> r,
             seen    |-> IF r.order = Null THEN Null ELSE orders[r.order],
             claimed |-> clock,
             now     |-> clock,
             answer  |-> [op |-> r.op, order |-> r.order, pickup |-> r.pickup]]
  /\ reply' = NoReply
  /\ UNCHANGED <<database, clock, held, effects, faults>>

\* pickup-store.getByOrderId returns the latest pickup of the order; the model
\* any of them, Null when there is none.
Assignments(o) ==
  LET made == {u \in PickupIds : pickups[u] # Null /\ pickups[u].order = o} IN
  IF made = {} THEN {Null} ELSE {pickups[u] : u \in made}

\* GET /v1/orders/{orderId}: the screen keeps the ETag of what it shows.
ReadOrder(w, p, o) ==
  /\ Idle
  /\ "orders:read" \in p.scopes
  /\ orders[o] # Null
  /\ \E assignment \in Assignments(o) : MayReadOrder(p, orders[o], assignment)
  /\ held' = [held EXCEPT ![w] = [order |-> o, tag |-> OrderVersion(orders[o]),
                                  stale |-> FALSE]]
  /\ UNCHANGED <<database, clock, job, reply, effects, faults>>
-----------------------------------------------------------------------------
(***************************************************************************)
(* The write statements.  Each action is one statement, and names in job.pc*)
(* the statement the handler executes next.                                *)
(***************************************************************************)
Goto(pc) == job' = [job EXCEPT !.pc = pc]

\* What the handler performs under the key it claimed.
Perform(answer) ==
  effects' = [effects EXCEPT ![job.req.key] =
                @ \cup {[answer |-> answer, at |-> job.claimed]}]

\* claimIdempotency reads the clock, then
\* DELETE ... WHERE key = ? AND expires_at < ?
Purge ==
  LET k == job.req.key IN
  /\ job.pc = "purge"
  /\ records' = [records EXCEPT ![k] =
                   IF @ # Null /\ @.expires < clock THEN Null ELSE @]
  /\ job' = [job EXCEPT !.pc = "claim", !.claimed = clock]
  /\ UNCHANGED <<orders, pickups, cancellations, clock, reply, held, effects,
                 faults>>

AfterClaim == [create |-> "insertOrder", cancel |-> "setCancelled",
               dispatch |-> "insertPickup"]

\* Mutant: the record is inserted with its answer already in it, which saves
\* the UPDATE at the end.
ClaimCompleted ==
  LET k == job.req.key IN
  /\ job.pc = "claim"
  /\ records' = [records EXCEPT ![k] = [hash    |-> BodyHash(job.req),
                                       state   |-> "completed",
                                       answer  |-> job.answer,
                                       expires |-> job.claimed + Retention]]
  /\ job' = [job EXCEPT !.pc = AfterClaim[job.req.op], !.now = clock]
  /\ UNCHANGED <<orders, pickups, cancellations, clock, reply, held, effects,
                 faults>>

\* What a request is told whose key was claimed by another since the check.
ClaimLost(r, rec) ==
  CASE rec.hash # BodyHash(r)   -> Refusal("409 key reused")
    [] rec.hash = BodyHash(r) /\ rec.state = "processing" ->
         Refusal("409 still processing")
    [] OTHER                    -> Success("replayed", r, rec.answer)

\* INSERT OR IGNORE; the handler that has claimed its key reads the clock its
\* rows are stamped with.
Claim ==
  LET k == job.req.key IN
  /\ job.pc = "claim"
  /\ IF records[k] = Null
       THEN /\ records' = [records EXCEPT ![k] =
                             [hash    |-> BodyHash(job.req),
                              state   |-> "processing",
                              answer  |-> Null,
                              expires |-> job.claimed + Retention]]
            /\ job' = [job EXCEPT !.pc = AfterClaim[job.req.op], !.now = clock]
            /\ UNCHANGED reply
       ELSE /\ job' = NoJob
            /\ reply' = ClaimLost(job.req, records[k])
            /\ UNCHANGED records
  /\ UNCHANGED <<orders, pickups, cancellations, clock, held, effects, faults>>

NewOrder(customer, now) ==
  [customer |-> customer, status |-> "pending_pickup", outlet |-> Null,
   updated |-> now]

InsertOrder(o) ==
  LET answer == [job.answer EXCEPT !.order = o] IN
  /\ job.pc = "insertOrder"
  /\ orders[o] = Null
  /\ orders' = [orders EXCEPT ![o] = NewOrder(job.req.body.customer, job.now)]
  /\ job' = [job EXCEPT !.pc = "save", !.answer = answer]
  /\ Perform(answer)
  /\ UNCHANGED <<pickups, cancellations, records, clock, reply, held, faults>>

UpdateStatus(o, status) ==
  orders' = [orders EXCEPT ![o].status = status, ![o].updated = job.now]

\* Mutant: the handler goes straight to the record, without its cancellation.
SetCancelledOnly ==
  /\ job.pc = "setCancelled"
  /\ UpdateStatus(job.req.order, "cancelled")
  /\ Outdate(job.req.order)
  /\ Goto("save")
  /\ Perform(job.answer)
  /\ UNCHANGED <<pickups, cancellations, records, clock, reply, faults>>

SetCancelled ==
  /\ job.pc = "setCancelled"
  /\ UpdateStatus(job.req.order, "cancelled")
  /\ Outdate(job.req.order)
  /\ Goto("insertCancellation")
  /\ Perform(job.answer)
  /\ UNCHANGED <<pickups, cancellations, records, clock, reply, faults>>

\* Mutant: the cancellation handler never completes its record.
InsertCancellationUnsaved ==
  /\ job.pc = "insertCancellation"
  /\ cancellations' = [cancellations EXCEPT ![job.req.order] = @ + 1]
  /\ Goto("respond")
  /\ UNCHANGED <<orders, pickups, records, clock, reply, held, effects, faults>>

InsertCancellation ==
  /\ job.pc = "insertCancellation"
  /\ cancellations' = [cancellations EXCEPT ![job.req.order] = @ + 1]
  /\ Goto("save")
  /\ UNCHANGED <<orders, pickups, records, clock, reply, held, effects, faults>>

\* Mutant: dispatching does not bind the order.
InsertPickupUnbound(u) ==
  LET answer == [job.answer EXCEPT !.pickup = u] IN
  /\ job.pc = "insertPickup"
  /\ pickups[u] = Null
  /\ pickups' = [pickups EXCEPT ![u] = [order  |-> job.req.order,
                                        driver |-> job.req.body.driver,
                                        status |-> "assigned"]]
  /\ job' = [job EXCEPT !.pc = "save", !.answer = answer]
  /\ Perform(answer)
  /\ UNCHANGED <<orders, cancellations, records, clock, reply, held, faults>>

InsertPickup(u) ==
  LET answer == [job.answer EXCEPT !.pickup = u] IN
  /\ job.pc = "insertPickup"
  /\ pickups[u] = Null
  /\ pickups' = [pickups EXCEPT ![u] = [order  |-> job.req.order,
                                        driver |-> job.req.body.driver,
                                        status |-> "assigned"]]
  /\ job' = [job EXCEPT !.pc = IF job.seen.outlet = Null THEN "bind" ELSE "save",
                        !.answer = answer]
  /\ Perform(answer)
  /\ UNCHANGED <<orders, cancellations, records, clock, reply, held, faults>>

\* assignOutlet: UPDATE ... WHERE id = ? AND outlet_id IS NULL
AssignOutlet ==
  LET o == job.req.order IN
  /\ job.pc = "bind"
  /\ IF orders[o].outlet = Null
       THEN /\ orders' = [orders EXCEPT ![o].outlet  = job.req.by.outletId,
                                        ![o].updated = job.now]
            /\ Outdate(o)
       ELSE UNCHANGED <<orders, held>>
  /\ Goto(IF job.req.op = "dispatch" THEN "save" ELSE AfterBinding(job.seen))
  /\ UNCHANGED <<pickups, cancellations, records, clock, reply, effects, faults>>

\* Mutant: the whole row the handler loaded is written back.
SetProcessingFromSnapshot ==
  /\ job.pc = "process"
  /\ orders' = [orders EXCEPT ![job.req.order] =
                   [job.seen EXCEPT !.status = "processing", !.updated = job.now]]
  /\ Outdate(job.req.order)
  /\ Goto("respond")
  /\ UNCHANGED <<pickups, cancellations, records, clock, reply, effects, faults>>

SetProcessing ==
  /\ job.pc = "process"
  /\ UpdateStatus(job.req.order, "processing")
  /\ Outdate(job.req.order)
  /\ Goto("respond")
  /\ UNCHANGED <<pickups, cancellations, records, clock, reply, effects, faults>>

MarkCollected ==
  /\ job.pc = "collect"
  /\ pickups' = [pickups EXCEPT ![job.req.pickup].status = "picked_up"]
  /\ Goto("respond")
  /\ UNCHANGED <<orders, cancellations, records, clock, reply, held, effects,
                 faults>>

\* saveIdempotencyRecord: UPDATE ... WHERE key = ?
Save ==
  LET k == job.req.key IN
  /\ job.pc = "save"
  /\ records' = [records EXCEPT ![k] =
                   IF @ = Null THEN Null
                   ELSE [@ EXCEPT !.state = "completed", !.answer = job.answer]]
  /\ Goto("respond")
  /\ UNCHANGED <<orders, pickups, cancellations, clock, reply, held, effects,
                 faults>>

Respond ==
  /\ job.pc = "respond"
  /\ reply' = Success("done", job.req, job.answer)
  /\ job' = NoJob
  /\ UNCHANGED <<database, clock, held, effects, faults>>
-----------------------------------------------------------------------------
(***************************************************************************)
(* Time and faults.                                                        *)
(***************************************************************************)
Tick ==
  /\ clock < MaxClock
  /\ clock' = clock + 1
  /\ UNCHANGED <<database, job, reply, held, effects, faults>>

\* Mutant: the error handler releases the key so that the client can retry.
StatementFailsReleasing ==
  /\ job.pc \notin {"idle", "respond"}
  /\ faults < MaxFaults
  /\ reply' = Refusal("500")
  /\ job' = NoJob
  /\ faults' = faults + 1
  /\ records' = [k \in Keys |-> IF k = job.req.key THEN Null ELSE records[k]]
  /\ UNCHANGED <<orders, pickups, cancellations, clock, held, effects>>

\* A statement throws (disk full, file locked by another program): Express
\* answers 500 and the process goes on.
StatementFails ==
  /\ job.pc \notin {"idle", "respond"}
  /\ faults < MaxFaults
  /\ reply' = Refusal("500")
  /\ job' = NoJob
  /\ faults' = faults + 1
  /\ UNCHANGED <<database, clock, held, effects>>

\* The process is killed and restarted: what it was doing is forgotten.
Crash ==
  /\ ~Idle
  /\ faults < MaxFaults
  /\ job' = NoJob
  /\ faults' = faults + 1
  /\ UNCHANGED <<database, clock, reply, held, effects>>

ServerStep ==
  \/ Purge
  \/ Claim
  \/ \E o \in OrderIds : InsertOrder(o)
  \/ SetCancelled
  \/ InsertCancellation
  \/ \E u \in PickupIds : InsertPickup(u)
  \/ AssignOutlet
  \/ SetProcessing
  \/ MarkCollected
  \/ Save
  \/ Respond

Next ==
  \/ Refuse
  \/ \E r \in Requests : Replay(r) \/ Admit(r)
  \/ \E w \in Windows, p \in Principals, o \in OrderIds : ReadOrder(w, p, o)
  \/ ServerStep
  \/ Tick
  \/ StatementFails
  \/ Crash

\* A handler runs to its end without waiting for anything, unless a statement
\* fails or the process dies.
Spec == Init /\ [][Next]_vars /\ WF_vars(ServerStep)
=============================================================================
