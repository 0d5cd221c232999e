# Laundry pickup and delivery: a TLA+ model

This directory models the laundry service of this repository (`service/src`, a Node.js
process over one SQLite file), the session and the pages of its web client (`clients/web`)
and the script that sets up its identity provider (`auth/keycloak/import.mjs`), checks them
with TLC on small instances and proves their most important properties with TLAPS for
every size.

## 1. Inventory

| Component | Source | State | Operations | Talks to |
|---|---|---|---|---|
| Order operations | `service/src/routes/orders.js`, `store/order-store.js`, `store/cancellation-store.js` | tables `orders`, `cancellations` | create, read, list, cancel, fulfil | idempotency, conditional requests, ownership |
| Pickup operations | `service/src/routes/pickups.js`, `store/pickup-store.js` | table `pickups` | dispatch, collect, list | orders table, idempotency, ownership |
| Idempotency keys | `service/src/idempotency.js`, `store/idempotency-store.js` | table `idempotency_records` | check, claim, save, expire | called by create, cancel, dispatch |
| Conditional requests | `service/src/conditional.js` | none (version computed from a row) | ETag, If-Match, If-None-Match | cancel, fulfil, reads |
| Ownership and scopes | `service/src/auth/ownership.js`, `require-scope.js`, `principal.js` | none | one predicate per operation | every handler |
| Authentication | `service/src/auth/authenticate.js`, `verify.js` | none | token to principal | the only `await` on the way to a handler |
| Schema, start-up, shutdown | `service/db/schema.sql`, `service/src/database.js`, `service/src/app.js` | the database file | migrate, create, close | process signals |
| Web session | `clients/web/src/lib/auth.ts`, `use-session.ts`, `api.ts` | one session in `localStorage`, shared by tabs | sign in, refresh, sign out, authenticated request | identity provider, API |
| Web pages | `clients/web/modules` | idempotency keys and ETags in refs, polled lists | submit, cancel, accept, poll | web session |
| Keycloak provisioning | `auth/keycloak/prepare.mjs`, `import.mjs` | the realm | create or update clients, roles, scopes, users | Keycloak admin API |
| Presentation, validation, logging, CORS, tests, tools | the rest | none | | |

`PROJECT.json` lists them all with their status.

### What is hard here

* **Partial failure.** No handler opens a transaction. Every `INSERT` and `UPDATE` commits
  alone, so a statement that throws, or a process that dies, leaves the statements before
  it in the file.
* **Retries.** A client repeats a request under its Idempotency-Key after an answer it never
  saw: while the original runs, after it completed, after it failed half way, or after the
  record expired.
* **Stale reads.** Two windows, or two outlets, act on versions of an order that somebody
  else has written since; the version marker contains a millisecond time stamp, and two
  writes can fall into one millisecond.
* **Boundaries.** The check of a key and the delete of its record compare the same expiry
  with `>=` and `<`.
* **Legal calls in an unusual order.** Fulfil after cancel, cancel after dispatch, one key
  on two paths.
* **Tabs.** Every tab of the browser shares one session in `localStorage` and may find it
  expired at the same moment. The provider rotates refresh tokens and answers a second use
  of one by revoking its whole family, so a refresh reads the session, waits for a lock and
  for two requests, and writes the session back while other tabs sign in and out.
* **Overlapping loads.** A page starts a load at every tick of a timer, at every change of
  the session and after every write, sends the ETag it holds, and never gives a load up.
* **Lists that move.** A cursor names the last row seen while rows are inserted, taken in
  and closed.
* **Start and stop.** A kill between two statements of a migration, a second start on the
  same file, a stop signal while a request waits for its token.
* **Read, merge, put.** The import script replaces whole clients, profiles and users of the
  realm with what it read before, beside other runs and an operator.

What is *not* hard: interleaving inside the service. better-sqlite3 is synchronous and no
handler awaits anything once its request is authenticated, so two handlers never interleave
(one instance, `docs/decisions/0002`).

## 2. Modules

| Module | What it is |
|---|---|
| `Ownership` | `ownership.js` and the visibility filters of the two lists, as predicates over a principal and a row |
| `LaundryService` | the service: tables, the running handler, clock, faults, the screens of the clients |
| `OrderLifecycle` | an abstract specification: what may ever happen to an order |
| `IdempotencyKeys` | an abstract specification: what a key stands for, and what may be done and said under it |
| `LaundryProperties` | the type invariant, the properties, the inductive invariant, the two refinement mappings |
| `LaundryServiceProofs` | the theorems and their proofs |
| `MCLaundryService` | callers and symmetry for TLC |
| `ServiceProcess` | the process around the handlers: open, migrate, schema, listen, serve, stop, with two starts on one file |
| `ServiceProcessProofs` | its theorems and their proofs |
| `ListWalk` | a client that follows the cursor of one of the two lists |
| `ListWalkProofs` | its theorems and their proofs |
| `WebSession` | the tabs of a browser, their shared session and the provider |
| `WebSessionProperties`, `WebSessionProofs` | its type invariant, properties, inductive invariant; its theorems |
| `ListPage` | the two list pages: polling with ETags, filters, changes of the session |
| `ListPageProofs` | its theorems and their proofs |
| `Submission` | the two forms that create something, and the keys they hold |
| `SubmissionProofs` | its theorems and their proofs |
| `OrderPage` | the page of one order: overlapping loads, claim and cancel under an ETag |
| `OrderPageProofs` | its theorems and their proofs |
| `RealmImport` | the import script against the realm, with overlapping runs and an operator |
| `RealmImportProofs` | its theorems and their proofs |
| `MCWebSession`, `MCListWalk`, `MCListPage`, `MCRealmImport` | definitions for TLC; the other modules need none. One `.cfg` per run |

How they fit together: `LaundryService` is the service one process at a time, and
`ServiceProcess` says when there is a process and that its tables are whole. `WebSession`
decides under which session a page's request goes out; `Submission`, `ListPage` and
`OrderPage` are the pages above it. Each of these contains the part of the service it
talks to in the form the service's own module establishes: `Submission` serves a key as
`AtMostOncePerKey` leaves it, `OrderPage` numbers the versions of an order because
`NoLostUpdate` says that none comes back, `ListPage` takes a collection's ETag to be the
collection.

### How `LaundryService` corresponds to the code

| Model | Code |
|---|---|
| `orders`, `pickups`, `cancellations`, `records` | the four tables of `schema.sql`, restricted to the columns a handler decides on (a cancellation is only counted) |
| `job` | the handler that is running: `pc` is its next write statement, `seen` the order row it loaded, `claimed` the `now` of `claimIdempotency`, `now` the `now` of the handler |
| `clock` | `Date.now()` in ticks; time may pass between any two statements |
| `reply` | the last answer |
| `held` | for each client screen the order it read and the ETag it got; `stale` is history: the order was written afterwards |
| `effects` | history: the operations performed under each key and when the key was claimed for them |
| `Refuse`, `Replay`, `Admit` | the part of a handler before its first write: scope, idempotency check, ownership, If-Match, status, in the order of the code (`CreateVerdict` ... `CollectVerdict`) |
| `Purge`, `Claim` | the two statements of `idempotency-store.claim` |
| `InsertOrder`, `SetCancelled`, `InsertCancellation`, `InsertPickup`, `AssignOutlet`, `SetProcessing`, `MarkCollected`, `Save` | one write statement each |
| `Respond` | the end of a handler |
| `StatementFails` | a statement throws; `app.js` answers 500 and nothing is undone |
| `Crash` | the process dies between two statements and is restarted |

The network needs no variable: any request may arrive at the idle process, any number of
times and in any order, which is what loss, delay, duplication and reordering amount to.

Abstractions: a body is what the handlers make of it: the customer of a valid creation, the
order and driver of a valid dispatch, or neither (`Body`, the constant `Bodies`). Any body
may be sent to any operation, a cancellation too, because the key is checked against its
hash before anything is validated; a body its handler cannot use is refused after that
check and before the claim. `generateId` always returns a fresh id, and the model stops creating when its ids are used up (`FreshIdLeft`).
Ids, keys, drivers and screens are model values. A version is the triple of the columns
it digests (the hash is taken to be injective). `If-Match: *` adds nothing to a request
without the header. `pickups` has a version too, but no response carries it
(`service/README.md`, "Tidak ada GET /v1/pickups/{pickupId}"), so `CollectVerdict` has no
If-Match. The row of `db/seed.sql` is one that an ordinary create could have inserted, so
`Init` is the empty database.

### How `ServiceProcess` corresponds to the code

| Model | Code |
|---|---|
| `file` | the tables, columns and indexes in the SQLite file; `{}` is a new file, `P3Schema` one of the release before outlets |
| `pc`, `next`, `open`, `code` | of each start: the point of `createDatabase` or of its life it is at, the statement of `schema.sql` it runs next, its handle, its exit code |
| `port`, `waiting`, `answered`, `lost` | who listens, the requests inside `authenticate`'s `await`, the requests answered or cut off |
| `Start`, `CheckTable`, `CheckColumns`, `AddColumn` | `new Database` and `migrate`, one SQL statement each |
| `RunStatement` | `db.exec(schema)`: each statement commits by itself |
| `Listen` | `app.listen`; a port in use ends the process |
| `Accept`, `Handle` | a request waits for its token and its handler then runs to its end |
| `Signal`, `ServerClosed`, `Timeout` | `shutdown`, the callback of `server.close`, the timer of five seconds |
| `Crash`, `Redeploy` | a kill at any point; the platform starts the service again |

### How `ListWalk` corresponds to the code

`rows` is the table with the columns the query looks at, `Rest` the `WHERE` clause, `Page`
its `ORDER BY` and `LIMIT`, `cursor` what `X-Next-Cursor` encodes. A limit has two values,
what `validateListParams` reads with `Number` and what the handler uses with `parseInt`.
`FirstPage` and `NextPage` are `listForPrincipal` and the end of the list handlers;
`Insert`, `TakeIn` and `ChangeStatus` are what other requests do. `steady` is history: the
rows that matched at every moment of the walk.

### How `WebSession` corresponds to the code

| Model | Code |
|---|---|
| `stored`, `expired`, `writer` | the value in `localStorage`, `isExpired` of it, and (history) the tab that wrote or cleared it last |
| `pc`, `phase`, `session`, `answer` | where a tab's chain of awaits stands, which caller of `validSession` it is in, the session it works with, what the provider answered |
| `lock` | the holder of the Web Lock `laundry-web-session-refresh`; `LocksAvailable` is `navigator.locks` |
| `shown`, `notified` | the state of `useSession` in a tab, and the tabs with a `session-changed` event to handle |
| `txn`, `url`, `attempts` | the login transaction in a tab's `sessionStorage`, the attempt its callback URL names, and who began which attempt |
| `family`, `used`, `revoked`, `redeemed` | the provider: the login each token descends from, spent refresh tokens, revoked families, spent codes |
| `ReadSession`, `EnterRefresh`, `RotateToken`, `FinishRefresh`, `RefreshFails` | `validSession` and `refreshSession`, cut at their awaits |
| `StartRequest`, `RequestEnds`, `RequestUnauthorised` | `authenticatedRequest` |
| `OpenPage`, `Show`, `Sync` | `useSession` |
| `StartSignOut`, `ClearOnSignOut`, `RevokeToken` | `signOut` |
| `BeginLogin` ... `LoginFails` | `beginLogin`, the redirect, `completeLogin` |
| `ExchangeFails`, `LoseAnswer`, `Reload`, `Expire` | a failing request to the provider, a lost answer, a reload in the middle of a call, time |

Abstractions: an access token and the refresh token issued with it are one number, their
place among all the answers of the provider. The two requests of a refresh (discovery, then
the token endpoint) are one step of the provider with any delay before and after it. A tab
runs one chain at a time; a page that runs several at once (its navigation bar, its data)
is, for the storage, the lock and the provider, several tabs. Each step touches
`localStorage` at most once, so tabs in different processes interleave between any two
accesses. Every session has a refresh token (the client asks for `offline_access`). The
provider rotates as `docs/p4-authorization-server.md` records (`revokeRefreshToken`, no
reuse).

### How the pages correspond to the code

| Module | Model | Code |
|---|---|---|
| `ListPage` | `etag`, `cache`, `state`, `data`, `status`, `session` | the refs and states of `orders-section.tsx` and `pickups-section.tsx`, and `useSession` |
| | `loads` | the loads of the effect that is active; the cleanup forgets them |
| | `SelectFilter`, `SessionChanged`, `Poll`, `Receive`, `ShowError` | the filter's handler, the effect, the interval, the two ends of a load |
| | `Respond` | the list handlers' `If-None-Match` |
| | `renewal`, `Renew`, `Renewed`, `RenewalFails`, `ReadAgain` | a refresh of the session by one of the page's own loads (`validSession`): what it stores or removes, of which this page gets no event; `silent` is history: that has happened to a page that shows somebody else |
| | `StoreSession` | another tab stores or removes a session: the page gets an event |
| `Submission` | `key`, `said`, `filled` | `idempotencyKey.current`, the message, the form |
| | `Submit`, `Succeed`, `Refused` | `submit` of `new-order-section.tsx`, `dispatch` of `order-detail-section.tsx` |
| | `Serve`, `Reject`, `CrashWhileServing` | the service under one key: replay, conflict or performance; the 400, 422 and 404 before the key is claimed; a crash after it |
| | `Edit`, `Refill`, `GoOn`, `Reload` | the user: the inputs are never disabled, so `Edit` at any time |
| | `Break`, `Vanish` | a connection that breaks while the request is, or is not, still served |
| `OrderPage` | `shown`, `etag`, `state`, `said`, `key` | the states and refs of `order-detail-section.tsx` |
| | `Refresh`, `SessionChanged`, `claim`, `cancel`, `ReceiveLoad`, `ReceiveWrite` | its handlers and its effect, cut at their awaits |
| | `ServeLoad`, `ServeClaim`, `ServeCancel`, `Crash` | GET, fulfil and cancel of `orders.js` with such a request |
| | `SaysLoading` | the loading view, which comes before the error view and is also that of a page without an order |
| | `told`, `crossed`, `behind`, `saw` | history, for the properties |

Abstractions: `cancellationKey` is kept as `new-order-section.tsx` keeps its key, so
`Submission` stands for the two forms a user fills in, and `OrderPage` has the third key.
A list is one value per viewer and filter, an order a version, a status and whose outlet
it is bound to. An edit in `Submission` changes what the body holds and not what the user
wants; which bodies the service refuses is left open. The body of a new order also names
the customer of the session (`new-order-section.tsx:28`), who is the same throughout; that
a load of the order's page takes the dispatch form off the screen is left out. In
`ListPage` one refresh of the page is under way at a time (`navigator.locks`), the refresh
with which `useSession` begins is one of `StoreSession`'s, since the session is read after
it, and a sign-out by the page itself leaves the page.

### How `RealmImport` corresponds to the code

| Model | Code |
|---|---|
| `realm` | the facts of the realm the script reads, asserts and writes: clients, accounts, settings (the realm's `enabled`, the scopes' `include.in.token.scope`), scopes, mappers, assignments, attributes, origins, profile, user attributes, role mappings |
| `Template` | what `prepare.mjs` puts into `laundry-realm.json` |
| `stage`, `at`, `Stages`, `Units` | where a run is: the order of `main()` and the loops of its functions |
| `Begin`, `Served`, `CreateRealm` | `realmExists` and `importRealm`: a disabled realm is taken for an absent one, and its creation ends in the tolerated 409 |
| `Look`, `Add`, `Replace` | the GET of a unit, a POST of what is missing, a PUT of a whole client, user or profile; the users' stage works with the list of all users read before the loop (`userList`) |
| `Asserted`, `Expected` | what the script only looks up: clients, users, roles, the identity scope's setting, and discovery at the end |
| `seen` | what the GET returned: a PUT writes it back |
| `Stored` | the provider drops, without an error, a user attribute its profile does not declare |
| `Reject`, `Throw`, `Rerun` | an assertion, a failing request or an expired administrator token; the script is started again |
| `Edit` | an operator on the console, who adds an origin or attribute to a client, an entry to the user profile or an attribute to a user |

Abstractions: two public clients and two users stand for all (one of each kind of their
settings); a stage's requests for one entry are one step per entry, a new scope and its
setting are one POST and its mappers a request each; the roles are read once per user.
Keycloak is modelled from what the script and its comments expect of it, and its own entries
of the user profile are one, `email`. The operator only adds (`EditsAssumption`): what they
remove no run promises to keep, and a value they give to an attribute the script wants is
overwritten on purpose.

## 3. Properties and runs

`TypeOK` of a module says which shapes its state has. It is a part of the `IInv` that
`service_outlets` and `session_faults` check, and a theorem of every proof module.

| Module | Property | What it says | Hazard |
|---|---|---|---|
| `LaundryService` | `AtMostOncePerKey` | two operations performed under one key are claimed more than the retention period apart | retry, crash, expiry boundary |
| | `CompletedMeansDone` | a completed record describes rows that are in the file | partial failure |
| | `AnswersAreTrue` | a success answer is the answer of an operation performed under the key | retry |
| | `AnswersFitBody` | a success answer shows an order of the customer, or a pickup of the order and driver, that the request's body names; only a cancellation may be another than the one asked for | one key on two paths |
| | `CancellationLedger` | at most one cancellation row per order, none for a cancellable order | retry, partial failure |
| | `ClaimNeverLost` | what the check lets through the claim never finds taken | `>=` against `<` |
| | `CancelledHasRecord`, `DispatchedOrderIsBound`, `BusyOnlyWhileRunning` | the rows that contradict what two consecutive statements promise together (a cancelled order without its Cancellation, a pickup of an order no outlet has, a busy key without a request) are never more than the faults that happened | statements without a transaction |
| | `NoLostUpdate` | a screen whose order was written since it read it holds an old version | same-millisecond writes, ABA |
| | `WritesAuthorised` | every statement that changes an order is still authorised when it runs | check, then act |
| | `ListDetailAgree` | listed orders open, and orders that open for staff are listed | three files that must agree |
| | `OrdersMoveForward` | a statement that changes an order brings it to a later stage or binds it, and undoes neither: a bound order is never reassigned or released | two outlets; a version that comes back |
| | `ImplementsLifecycle` | the orders table implements `OrderLifecycle` | long sequences of legal calls |
| | `ImplementsKeys` | what is done and said under a key keeps the promise of `IdempotencyKeys` | retry, crash, expiry |
| `ServiceProcess` | `ServesCompleteSchema` | who listens has every table, column and index | kill in a migration, two starts |
| | `StopsCleanly` | only a crash or the timer cuts a request off, and a stop exits with 0 | stop while a token is verified |
| | `ComesUp` | the service comes up for good | start that lost a race |
| `ListWalk` | `NoRowTwice`, `SteadyRowsListed`, `WalkEnds` | a walk lists no row twice, omits none that was there all the time, and ends | lists that move |
| `WebSession` | `CoordinatedRefresh` | tabs refreshing under the lock, undisturbed, never present a refresh token twice | parallel refresh |
| | `StoredStaysRefreshable` | the stored refresh token is unspent, or a tab is about to replace or clear it | lost answer, failed refresh |
| | `OnlyWriterOutdated` | a page with no event left that shows something else than what is stored is that of the tab that wrote or cleared it last (`writer`) | missed notification |
| | `AttemptRedeemedOnce` | a login transaction is redeemed once | reload, older sign-in page |
| | `CallsEnd` | every call ends | retry loop, lock not released |
| `ListPage` | `TagDescribesCache` | the tag the page sends is the tag of the rows it keeps | answers out of order |
| | `RowsOfViewer` | the rows shown are of the person shown as signed in and the filter selected, unless the page's own refresh has changed the session since the last event | change of person or filter |
| | `Settles` | the page ends up showing the collection of the person whose session is stored, or none when none is | a 304 that pins an old value |
| `Submission` | `PerformedOnce` | an intent happens twice only after a reload, a press when nothing had failed, or, on the dispatch form, when the emptied form was filled again because an error came last; and that takes something lost, refused, edited or reloaded | lost answer, retry, late refusal |
| | `SuccessIsTrue` | a success message is about what the form holds | late answer |
| | `RefusedOnlyAfterEdit` | a key is refused as another request's only after an edit | key that outlives its form |
| `OrderPage` | `NoBlindWrite` | a write changes only the version that was on the screen | overlapping loads |
| | `ShowsWhatItDid` | after a success the page shows it, unless loads crossed | late answer |
| | `LoadingIsTrue` | the loading view means a load is on its way, or that the page never had the order because its first loads failed | a failed load |
| `RealmImport` | `EnsuredStays` | what a stage ensured or asserted is there to the end of the run | profile order, overlapping PUTs |
| | `AdditiveUnlessOverlapped` | only a PUT of the whole client, user or profile from an older read removes an entry (or the provider, a user attribute no longer declared), and never one a run has to ensure but an origin | read, merge, put |
| | `RepairConverges` | repeated runs end in "ready", on every realm that has what the script only looks up | interrupted run |

| Run | Instance | Why these bounds |
|---|---|---|
| `service_keys` | a customer, an outlet, a driver, two orders, one pickup, two keys, four bodies (a creation, a dispatch of either order, neither), retention 1, clock to 2, two faults | a key sent with the same body to another operation, and with another body to the same; enough ticks for a record to be live, to be exactly at its expiry, and to be removed and claimed again; two keys and two orders for a key used on another order, and taken again for the same and for another operation; two faults so that a retry of a half-done operation fails as well |
| `service_outlets` | a customer, two outlets, one order, one pickup, two keys, two screens, clock to 1, one fault | competition for one order from screens with stale versions, in the same millisecond and in different ones |
| `service_process` | two starts, two requests, two kills, one stop signal | every point of a migration killed, and killed again in the next start; the second start as the rival for the column and the port |
| `list_walk` | three rows, one person, two outlets, two milliseconds, any status filter, limits 1, 2, `0x10`, 101 | rows of one millisecond and of two, an order of another outlet, a page that is full, not full and empty |
| `session_faults` | two tabs, two logins; one expiry, sign-out, failing exchange and reload | every order of a refresh, a sign-out, a second login and a failure |
| `session_reloads` | two tabs, two logins, one expiry, one reload | a callback repeated at every point, an older attempt finished, a lock holder that disappears; liveness |
| `list_page` | two people, two filters, two loads at once, one change of a collection, three moves (a session stored elsewhere, a refresh by the page, a filter), one failure | a session of another person stored while the page refreshes, and a filter changed besides; an answer older than the collection; a filtered list that equals the whole one, and lists that are empty |
| `submission` | two requests at once, two intents, one correction, two double presses, one reload, one refusal, two faults | an answer to the first intent, or the refusal of it, that arrives in the second; each exception of `PerformedOnce` needs two mishaps |
| `order_page` | three requests at once, three presses, one session, one writer, one fault | a load before a write, the write, the load after it |
| `realm_import` | two runs with different origins, one failing request, one edit (a profile entry or an attribute of a user), no realm or one of seven ages, four of which the script cannot repair | two runs are what it takes to overlap, a third only repeats them; what is added to a client between its GET and PUT are the origins of the other run |
| `cancelled_is_final`, `session_sign_out` | the smallest instances that show it | see Findings |

Every table row is changed a bounded number of times (an order at most four), so more ids
or ticks repeat situations. The theorems below remove the bounds for everything that is
proved. Deadlock checking is on for the service and the session. The other modules really
stop (a walk is done, a form is left, every bound used up), and their runs switch it off.

Fairness, and why the code justifies it:

* `LaundryService`: `WF_vars(ServerStep)`, nothing in a handler waits. No liveness property
  is checked: nothing obliges a client to send anything.
* `WebSession`, `FairSpec`: a call that has begun goes on (JavaScript continues its awaits,
  the provider and the API answer or the connection fails), with strong fairness of the
  lock (Web Locks are granted first come, first served). Users, faults, notifications and
  time are not fair. `fetch` is called without a timeout, so a connection that hangs for
  ever is outside this assumption: it would hold the lock.
* `ServiceProcess`: the statements of a start run, the platform restarts what has ended
  (`docker-compose.yml:5`, `restart: unless-stopped`), and the five-second timer fires. The verification
  of a token may take for ever, so `Handle` is not fair.
* `ListWalk`: the client goes on to the next page. `ListPage`: the event loop runs, the
  service answers, the interval ticks; failures are bounded.
* `RealmImport`: a run that failed is started again until it succeeds.

### Findings

Each is a run that TLC ends with a counterexample.

| Run | What happens |
|---|---|
| `cancelled_is_final` | fulfilment asks nothing of the status: a cancelled order becomes `processing` (`orders.js:299`, `business-rules.md:91`) |
| `session_sign_out` | a refresh under way when another tab signs out puts the session back (`auth.ts:247`, ADR 0004:72) |

Divergences between documents and code that the models show and no run of its own states:

* the same key on another order's cancellation replays the first order's cancellation,
  because only the body is hashed (`idempotency.js:9`, `openapi.yaml:251`). A cancellation
  sent with the key and the body of a completed creation or dispatch replays that 201, since
  nothing but the hash looks at its body (`orders.js:184-190`). `AnswersFitBody` says how far
  it goes;
* a dispatch assigns a driver but leaves the order's status alone, and no code ever brings
  an order to `assigned`: an order whose pickup has a driver can still be cancelled
  (`pickups.js:119-132`, `business-rules.md:30`);
* `mayReadOrder` reads `driverId` of a row whose column is `driver_id`, so a driver never
  reads their order (`ownership.js:64`, `service/README.md:219`); `Ownership` has it as the
  code does;
* a fault between the two statements of a cancellation leaves an order cancelled without a
  Cancellation for good (`orders.js:243`, `resource-modeling.md:11`), one between those of a
  dispatch a pickup of an order no outlet has (`pickups.js:132-135`), and one after a claim
  leaves the key "still being processed" until it expires (`idempotency.js:65`);
  `CancelledHasRecord`, `DispatchedOrderIsBound` and `BusyOnlyWhileRunning` say it takes a
  fault each time;
* a claim of an order that is already ours changes nothing, and the comment says it is
  accepted rather than turned into a 412 (`orders.js:282-283`); with the If-Match of the
  first claim it is a 412;
* `limit=0x10` is validated as 16 and used as 0: an empty page without a cursor, though rows
  match (`orders.js:93`);
* a tab that waited behind a refresh that failed presents the spent token again,
  `latest ?? session` (`auth.ts:259`, `README.md:431-432`);
* without `navigator.locks` nothing refuses a parallel refresh (`auth.ts:267`,
  ADR 0004:39-40);
* the retry after a 401 carries the refused token unless it is expired by the local clock
  (`auth.ts:323`, ADR 0003:140);
* a page whose own refresh failed is not told and keeps showing the session
  (`auth.ts:261`, ADR 0004:66-67). The navigation bar, which lives in the root layout, is
  likewise not told of a login or a sign-out of its own tab. A list page whose own refresh
  stored its session over that of somebody who signed in meanwhile shows rows of a person it
  does not show as signed in, and one whose refresh removed the session stays in the error
  state for good: its polls find no session and nothing makes it ask for a sign-in
  (`auth.ts:247,261,270-273`; the exceptions of `RowsOfViewer` and `Settles`);
* the new-order button is not disabled while its request is under way, and a reload forgets
  the key: two orders (`new-order-section.tsx`, `business-rules.md:436`);
* the dispatch form is emptied and its key forgotten by a success, whichever press it
  answers: a late 422, or the 409 of what the form held before, then is the last word, the
  user fills the form again, and the next press has a new key: two pickups
  (`order-detail-section.tsx:68-72`). `PerformedOnce` excepts these cases and no others;
* the page of an order shows the loading state whenever it has no order, before it looks at
  the error: a failed first load spins for ever, and its retry cannot be reached
  (`order-detail-section.tsx:47-48`; `LoadingIsTrue` says these are the only loads in vain);
* its loads are never given up: an older answer that arrives last puts the older order back
  on the screen, and a later 304 keeps it (`ShowsWhatItDid` allows exactly this; the ETag
  stays the one shown, so `NoBlindWrite` holds);
* two overlapping runs of the import, each with its own `WEB_ORIGINS`, can lose an origin
  one of them registered (`import.mjs:380`);
* what an operator adds to a client, to the user profile or to a user between the script's
  GET and its PUT of it is lost (`import.mjs:241-253`, `262-271`, `322-349`; the users are
  read once, before the first is written), though a comment says that what an operator added
  to a client is left alone (231-232). `AdditiveUnlessOverlapped` says that an entry is lost in no other
  way, and that none which a run has to ensure is, but for the origins;
* there are realms the import never repairs, however often it is run, though it is to create
  the missing client scopes and to be repeatable (`docs/p4-authorization-server.md:221`): one
  without a capability scope (`import.mjs:211`), a public client (169, 203, 242, 389), a
  fixture user (266, 286, 364) or a realm role (292), one whose identity scope is there
  without `include.in.token.scope` (447-452: asserted, never written), and one that is
  disabled (499). `RepairConverges` is about the others (`Repairable`);
* comments in `prepare.mjs:236-237` say the import writes passwords back; it sends none.

## 4. Proofs

`LaundryServiceProofs` proves, for all values of the constants allowed by the four
assumptions of `LaundryService` (principals and bodies are well formed; `Null` is none of the other
values; the numbers are naturals and the retention is positive) and, for the two
refinements, `ViewAssumption` and `TakenAssumption` (`Null` is none of the rows of the
abstract specifications either):

| Theorem | Property |
|---|---|
| `Invariance` | `IInv` |
| `TypeCorrect` | `TypeOK` |
| `OncePerKey` | `AtMostOncePerKey` |
| `ClaimsSucceed` | `ClaimNeverLost` |
| `OneCancellation` | `CancellationLedger` |
| `LostUpdatesRefused` | `NoLostUpdate` |
| `OrdersOnlyAdvance` | `OrdersMoveForward` |
| `OnlyAuthorisedWrites` | `WritesAuthorised` |
| `LifecycleImplemented` | `ImplementsLifecycle` |

None of these properties is inductive. `IInv` (in `LaundryProperties`, checked by TLC in
`service_outlets`) adds what makes them so:

* `HandlerOK`: at each statement the handler's operation, key and rows are the ones its
  guards saw.
* `SnapshotOK`: the row the handler loaded is still the row in the table until it writes
  it, so status, ownership and outlet checks are not stale when the statement runs.
* `KeyOK`: what was performed under a key is protected by its record until the retention
  period is over. `ClaimOK`: at the statement that performs an operation, everything
  performed under the key before has expired. Together they give `AtMostOncePerKey`.
* `TagOK`: orders only move forward (`Stage`, then the outlet), and a screen that was
  outdated is strictly behind. This is why no version comes back even though
  `updated_at` may repeat.
* `LedgerOK`: between the two statements of a cancellation the order is cancelled and has
  no row yet.

The proof has one lemma per part (`TypeStep`, `HandlerStep`, `SnapshotStep`, `KeyStep`,
`ClaimStep`, `TagStep`, `LedgerStep`), each with one step per action. `OrderStep` says once
what a step may do to the orders table, and `WritesGoFurther` that each of its writes is a
step forward; the tag, ledger, authorisation and refinement proofs rest on them.

Its second half is about records, answers and failures:

| Theorem | Property |
|---|---|
| `AnswerInvariance` | `LInv`, `RepliesOK` |
| `CompletedIsDone` | `CompletedMeansDone` |
| `SuccessAnswersTrue` | `AnswersAreTrue` |
| `AnswersFitTheBody` | `AnswersFitBody` |
| `CancellationsRecorded` | `CancelledHasRecord` |
| `DispatchesBound` | `DispatchedOrderIsBound` |
| `KeysNotLeftBusy` | `BusyOnlyWhileRunning` |
| `ListsAndDetailsAgree` | `ListDetailAgree` |
| `KeysImplemented` | `ImplementsKeys` |

A record says something of the order's customer, of a pickup's driver and of the
cancellation, which no single statement establishes. `AnswerOK` follows the handler: from
its claim on it has a record of its own, under the hash of its body; after the statement that
performs the operation `Made` holds, before the last one `Ended`, and `RecordsOK` is what
the `UPDATE` at the end makes of the two. `MadeStays` says nothing undoes them: orders keep
their customer and outlet and never become cancellable again (`OrdersKeep`), pickups keep
their order and driver (`PickupsKeep`). `RepliesOK` says the same of the answer given last:
`Made` holds of it under the body of the request, because a replay is of a record with that
body's hash (`ReplayedRecord`). A creation and a dispatch are made for what the body names
(`RequestShape`), a cancellation for what the path names, which no record keeps; this is
`AnswersFitBody`.
`FaultsOK` bounds three sets by `faults`: a failure adds at most what its handler was at
(`FailureSpoils`), and no other step adds anything (`CancellationsComplete`,
`PickupsBound`, `KeysReleased`).

`KeysImplemented` shows that the service implements `IdempotencyKeys`: a key is taken as
long as it has a record, counted from its claim; `effects` is what was performed under it,
and `reply` what was told of it. This is more than `AtMostOncePerKey` and `AnswersAreTrue`
together: the answer is that of the claim the record is of, a replay happens only while the
record is in force, and a key is let go only when it is not. The mapping needs one more
invariant, `KeptOK`: from the statement that performs the operation to the response, the
record expires a retention period after the handler's own claim, what the handler will
answer is among what was performed under that claim, and at the end it is what the record
holds. `PerformsAs` and `Performances` say once what the three statements that perform an
operation have in common; each kind of step has a lemma (`ClaimTakes`,
`PerformanceIsPromised`, `SaveCompletes`, `PurgeReleases`, `ReplayTellsAgain`,
`RespondTells`), and everything else is a stutter, a tick or an answer that says nothing of
a key. The contract does not say which request is refused, nor that a taken key ever gets
its answer.

`WebSessionProofs` does the same for the web session, from `TabsAssumption`,
`LocksAssumption` and `BoundsAssumption`:

| Theorem | Property |
|---|---|
| `SessionInvariance` | `IInv` |
| `SessionTypes` | `TypeOK` |
| `SessionStaysRefreshable` | `StoredStaysRefreshable` |
| `RefreshIsCoordinated` | `CoordinatedRefresh` |
| `AttemptsRedeemedOnce` | `AttemptRedeemedOnce` |
| `OnlyTheWriterIsOutdated` | `OnlyWriterOutdated` |

`FreshOK` (an answer on its way is a token nobody else has seen) makes
`StoredStaysRefreshable` inductive. `CoordinatedRefresh` needs more: `LockOK`, and
`QuietOK`, which says that while nothing disturbs the tabs no refresh fails, so no session
is ever cleared and the tab that gets the lock refreshes what is stored (unspent, by
`StoredStaysRefreshable`) and not what it read before waiting. A failing exchange cannot be
allowed (the tabs that waited would fall back to the spent token), and the lock cannot be
left out (`LockOK`). `AttemptOK` ties a transaction to the tab that began it.
`OnlyWriterOutdated` is inductive by itself, given the types (`OutdatedStep`): whoever stores
or clears the session becomes the `writer`, and every other page gets an event.

`ServiceProcessProofs`, for any number of starts, requests, kills and stop signals:

| Theorem | Property |
|---|---|
| `ProcessInvariance`, `ProcessTypes` | `IInv`, `TypeOK` |
| `CompleteSchemaServed` | `ServesCompleteSchema` |
| `OrderlyStops` | `StopsCleanly` |

`SchemaOK` says what is in the file at each point of a start, whatever other starts and
the kills before it have done; `TrafficOK` ties the waiting requests and the handle to a
process that has listened. `NobodyAssumption`: no process is the holder of a free port.

`ListWalkProofs`, for every table of finitely many ids, every outlet, person and limit:

| Theorem | Property |
|---|---|
| `WalkInvariance`, `WalkTypes` | `IInv`, `TypeOK` |
| `RowsListedOnce` | `NoRowTwice` |
| `WalkIsComplete` | `SteadyRowsListed` |

`WalkOK`: no row listed is after the cursor, and every steady row is listed or after it.
That the page ends with the last of its rows needs that a finite set of rows has a first
and a last one, for which the proof uses that the strict subset of a finite set is
well-founded (`IdsAssumption` makes the ids finite).

`ListPageProofs`, for any number of people, filters and versions:

| Theorem | Property |
|---|---|
| `PageInvariance`, `PageTypes` | `IInv`, `TypeOK` |
| `TagsDescribeCaches` | `TagDescribesCache` |
| `RowsAreTheViewers` | `RowsOfViewer` |

A page is told (`Told`) when no session event is left to handle and its own refresh has
changed nothing behind its back. `LoadsOK`: an answer under way is about the collection its
load asked for, and on a page that is told that is the collection on the screen. `CacheOK`:
the rows that are kept are of the viewer, or are from an earlier session and every load
still sends their tag, so that no 304 of another viewer can confirm them.

`SubmissionProofs`, for any number of intents and faults:

| Theorem | Property |
|---|---|
| `FormInvariance`, `FormTypes` | `IInv`, `TypeOK` |
| `IntentsPerformedOnce` | `PerformedOnce` |
| `SuccessesAreTrue` | `SuccessIsTrue` |
| `RefusalsComeFromEdits` | `RefusedOnlyAfterEdit` |

The invariant has one part for each thing a key goes through: `KeyOK` (a key belongs to one
intent, the ref holds one of the current intent or none), `EditOK` (bodies differ only after
an edit), `HeardOK` (without double presses the page hears one request at a time),
`NoErrorOK` (the dispatch form meets no error, and is not filled again, when nothing is lost,
refused, edited or reloaded: `Smooth`), `OneKeyOK` (while none of the exceptions of
`PerformedOnce` has happened, `Calm`, an intent has one key), `Once` (and is performed at
most once) and `DoneOK` (what was performed is on record, what is said to be done was
performed).

`OrderPageProofs`, for any number of requests, presses and writers:

| Theorem | Property |
|---|---|
| `OrderPageInvariance`, `OrderPageTypes` | `IInv`, `TypeOK` |
| `LoadingIsAlwaysTrue` | `LoadingIsTrue` |
| `ShowsWhatWasTold` | `ShowsWhatItDid` |
| `WritesWhatWasSeen` | `NoBlindWrite` |

`ShownOK`: the ETag is that of the version on the screen. `CallsOK`: a load that is not
behind is answered with what the page was told of or something later, and a write carries
the version that was on the screen. `GoodOK`: the screen shows what was told or later, or
every load that is not behind still sends the ETag it was started with. `LoadingOK`: the
state "loading" waits for a load. A second invariant, `FailureOK`, says why a page without an
order can be in the state "error": something was lost, or the order is out of reach and
stays there (`OutOfReach`); `LoadingIsTrue` follows from the two.

`RealmImportProofs`, for any number of runs, origins, failing requests and edits on the
console (additions of origins, client attributes, profile entries and user attributes,
`EditsAssumption`):

| Theorem | Property |
|---|---|
| `ImportInvariance`, `ImportTypes` | `IInv` (defined there), `TypeOK` |
| `EnsuredForTheRun` | `EnsuredStays` |
| `ImportIsAdditive` | `AdditiveUnlessOverlapped` |

`NothingYet`: a realm that does not exist has no facts. `PlaceOK`: a run is at a unit of its
stage, in a realm that exists. `WorkOK`: what a run holds before it writes completes its
unit, what it asserted is still there, and it takes nothing away that another run wants.
`UnitsOK` and `EnsuredOK`: the units and the stages behind a run are in the realm, with what
they asserted (`Ensured`). The hard case is a `PUT` of one run against what another has
ensured: `ReplaceTakes` says that it can only take away what is `Loose` (an origin, or a
client attribute, profile entry or user attribute that no script wants), because it writes
back what it read, and what was read or is added contains everything the scripts want of that
client, user or profile. The profile is never narrowed below what the scripts declare, so no
user attribute of theirs is dropped by the provider (`Stored`) once the profile stage is
over. `FirmKept` turns this into what stays, and
`OtherRun`, `TurnOK` and `FinishOK` carry it through every step.

Every safety property and every action property that a passing run checks is a theorem.
Only model-checked are the liveness properties (`CallsEnd`, `ComesUp`, `Settles`,
`WalkEnds`, `RepairConverges`): liveness under fairness, and the enabledness it speaks of,
are beyond TLAPS 1.4.5.

## 5. Plan

Done: the service and its proofs, its process and its proofs, the session and its proofs,
the pages, the lists, the import. Next, in this order:

1. Several processes on one file, where the fallback of `claimIdempotency` is reachable and
   `IdempotencyKeys` has to be weakened.
2. The service inside `Submission` and `OrderPage` against `IdempotencyKeys` and
   `OrderLifecycle`.
3. `prepare.mjs`: the three files it writes, interrupted, and what the import makes of them.

## 6. Not modelled

* Authentication decides from the token alone; only its `await` matters (`ServiceProcess`).
* Schema validation (but for `limit`, and for whether a body is one of a creation or of a
  dispatch; a limit such as `.1e1`, which is a number to `Number` and none to `parseInt`, is
  outside `LimitsAssumption`), representations, problem bodies, CORS, logging and
  configuration have no state the operations depend on.
* The files and passwords of `prepare.mjs`; the scripts that verify a deployment observe it.
* The web components, the landing page, layout and styling are presentation.
* Tests and tools are not part of the running system. `clients/device`, `clients/mcp` and
  `clients/mobile` are empty.

## 7. Running

    tlc -workers 2 -config MCServiceKeys.cfg MCLaundryService.tla     # and MCServiceOutlets, MCCancelledIsFinal
    tlc -workers 2 -config MCSessionFaults.cfg MCWebSession.tla       # and MCSessionReloads, MCSessionSignOut
    tlc -workers 2 -config MCServiceProcess.cfg ServiceProcess.tla
    tlc -workers 2 -config MCListWalk.cfg MCListWalk.tla
    tlc -workers 2 -config MCListPage.cfg MCListPage.tla
    tlc -workers 2 -config MCSubmission.cfg Submission.tla
    tlc -workers 2 -config MCOrderPage.cfg OrderPage.tla
    tlc -workers 2 -config MCRealmImport.cfg MCRealmImport.tla
    tlapm LaundryServiceProofs.tla      # and every other *Proofs.tla
