------------------------------ MODULE ListPage ------------------------------
(***************************************************************************)
(* The order list and the pickup list of the web client: a page that polls *)
(* a collection with If-None-Match, lets loads overlap, and lives through  *)
(* changes of the filter and of the session (orders-section.tsx,           *)
(* pickups-section.tsx, useSession, authenticatedRequest, and the end of   *)
(* the list handlers).                                                     *)
(*                                                                         *)
(* A collection at a moment is one value, and its ETag, the hash of the    *)
(* representations, is that value.  Loads of an effect that was cleaned up *)
(* are forgotten: the page ignores their answers.  A refresh of the session*)
(* that one of them began goes on, and the page is told nothing of what it *)
(* stores: only other tabs get an event.                                   *)
(***************************************************************************)
EXTENDS Naturals

CONSTANTS
  Viewers,     \* who may be signed in, in this browser
  Filters,     \* values of the status filter, NoFilter among them
  NoFilter,
  Lists,       \* the values a collection takes, by viewer and filter
  Empty,       \* the value without rows
  Null,
  Slots,       \* loads that may be in flight together
  MaxChanges, MaxMoves, MaxFailures   \* bounds: changes of a collection; sessions
                                      \*   stored by others, refreshed by the page and
                                      \*   filters selected; failures

ASSUME NamesAssumption ==
  /\ Null \notin Viewers /\ NoFilter \in Filters
  /\ \A v \in Viewers, f \in Filters : Null \notin Lists[<<v, f>>] /\ Empty \in Lists[<<v, f>>]
ASSUME BoundsAssumption == MaxChanges \in Nat /\ MaxMoves \in Nat /\ MaxFailures \in Nat

VARIABLES
  list,      \* service: each collection now
  stored,    \* the viewer whose session localStorage holds, or Null
  event,     \* a session-changed event has still to be handled
  renewal,   \* whose session a refresh of this page is renewing, or Null
  silent,    \* history: since its last event the page's own refresh stored the
             \*   session of somebody it does not show, or removed it
  session,   \* useSession's state
  status,    \* the filter selected
  etag, cache,   \* the refs
  state,     \* what the page shows: "loading", "empty", "error" or "content"
  data,      \* the rows it shows in "content"
  loads,     \* the loads in flight
  changes, moves, failures

page   == <<session, status, etag, cache, state, data>>
counts == <<changes, moves, failures>>
refresh == <<renewal, silent>>
vars   == <<list, stored, event, refresh, page, loads, counts>>

Viewed == Viewers \X Filters
None   == [s \in Slots |-> Null]

\* authenticatedRequest takes the session that is stored, not the one shown.
Load == [by |-> stored, filter |-> status', tag |-> etag', waits |-> FALSE,
         answer |-> Null]

Init ==
  /\ list = [vf \in Viewed |-> Empty]
  /\ stored \in Viewers \cup {Null}
  /\ session = Null /\ event = TRUE    \* useSession reads it in its first effect
  /\ renewal = Null /\ silent = FALSE
  /\ status = NoFilter /\ etag = Null /\ cache = Empty
  /\ state = "loading" /\ data = Empty
  /\ loads = None
  /\ changes = 0 /\ moves = 0 /\ failures = 0

\* The effect runs for a new session or filter: the old loads are inactive,
\* and unless nobody is signed in a first load begins.
\* Mutant: the cleanup does not deactivate the old loads.
RunEffectBesideOthers ==
  IF session' = Null THEN UNCHANGED <<loads, state>>
  ELSE /\ \E s \in Slots : loads' = [loads EXCEPT ![s] = Load]
       /\ state' = "loading"

RunEffect ==
  IF session' = Null THEN loads' = None /\ UNCHANGED state
  ELSE /\ \E s \in Slots : loads' = [None EXCEPT ![s] = Load]
       /\ state' = "loading"

\* Mutant: the tag survives the change of the filter.
SelectFilterKeepingTag(f) ==
  /\ session # Null /\ f # status /\ moves < MaxMoves
  /\ status' = f /\ cache' = Empty
  /\ moves' = moves + 1
  /\ UNCHANGED <<list, stored, event, refresh, session, etag, data, changes, failures>>
  /\ RunEffect

SelectFilter(f) ==
  /\ session # Null /\ f # status /\ moves < MaxMoves
  /\ status' = f /\ etag' = Null /\ cache' = Empty
  /\ moves' = moves + 1
  /\ UNCHANGED <<list, stored, event, refresh, session, data, changes, failures>>
  /\ RunEffect

\* The value read from localStorage is a new object each time.
SessionChanged ==
  /\ event
  /\ event' = FALSE /\ session' = stored /\ silent' = FALSE
  /\ UNCHANGED <<list, stored, renewal, status, etag, cache, data, counts>>
  /\ RunEffect

\* The interval of fifteen seconds.
Poll(s) ==
  /\ session # Null /\ loads[s] = Null
  /\ UNCHANGED <<list, stored, event, refresh, session, status, etag, cache, data,
                 counts>>
  /\ loads' = [loads EXCEPT ![s] = Load]
  /\ state' = "loading"

\* A load that is on its way to the service, or waits for the refresh lock.
Asking(s) == loads[s] # Null /\ loads[s].by # Null /\ ~loads[s].waits /\ loads[s].answer = Null

\* Under the lock, or after a 401, the session is read again and is another one.
ReadAgain(s) ==
  /\ Asking(s) /\ stored # Null /\ stored # loads[s].by
  /\ loads' = [loads EXCEPT ![s].by = stored]
  /\ UNCHANGED <<list, stored, event, refresh, page, counts>>

\* The session has expired, or the service answers 401: refreshSession is called
\* with the session that is stored, or the one the load began with.
Renew(s) ==
  /\ Asking(s) /\ renewal = Null /\ moves < MaxMoves
  /\ renewal' = IF stored # Null THEN stored ELSE loads[s].by
  /\ loads' = [loads EXCEPT ![s].by = renewal', ![s].waits = TRUE]
  /\ moves' = moves + 1
  /\ UNCHANGED <<list, stored, event, silent, page, changes, failures>>

\* writeStored: the page of the refresh gets no event of it.
Renewed ==
  /\ renewal # Null
  /\ stored' = renewal /\ renewal' = Null
  /\ silent' = (silent \/ session # renewal)
  /\ loads' = [s \in Slots |-> IF loads[s] = Null THEN Null
                               ELSE [loads[s] EXCEPT !.waits = FALSE]]
  /\ UNCHANGED <<list, event, page, counts>>

\* clearSession, and the load that waits for the refresh fails.
RenewalFails ==
  LET waiting == {s \in Slots : loads[s] # Null /\ loads[s].waits} IN
  /\ renewal # Null /\ failures < MaxFailures
  /\ stored' = Null /\ renewal' = Null
  /\ silent' = (silent \/ session # Null)
  /\ loads' = [s \in Slots |-> IF s \in waiting THEN Null ELSE loads[s]]
  /\ state' = IF waiting = {} THEN state ELSE "error"
  /\ failures' = failures + 1
  /\ UNCHANGED <<list, event, session, status, etag, cache, data, changes, moves>>

\* 304 when the tag sent is the tag of the collection now, 200 otherwise.
Respond(s) ==
  /\ Asking(s)
  /\ LET l == loads[s] IN
     loads' = [loads EXCEPT ![s].answer =
       IF l.tag = list[<<l.by, l.filter>>] THEN [status |-> 304, etag |-> l.tag]
       ELSE [status |-> 200, etag |-> list[<<l.by, l.filter>>]]]
  /\ UNCHANGED <<list, stored, event, refresh, page, counts>>

Receive(s) ==
  /\ loads[s] # Null /\ loads[s].answer # Null
  /\ IF loads[s].answer.status = 304 THEN UNCHANGED <<cache, etag>>
     ELSE cache' = loads[s].answer.etag /\ etag' = loads[s].answer.etag
  /\ data' = cache'
  /\ state' = IF cache' = Empty THEN "empty" ELSE "content"
  /\ loads' = [loads EXCEPT ![s] = Null]
  /\ UNCHANGED <<list, stored, event, refresh, session, status, counts>>

ShowError(s) ==
  /\ state' = "error"
  /\ loads' = [loads EXCEPT ![s] = Null]
  /\ UNCHANGED <<list, stored, event, refresh, session, status, etag, cache, data,
                 changes, moves>>

\* No session is stored: authenticatedRequest throws.
NotSignedIn(s) ==
  /\ loads[s] # Null /\ loads[s].by = Null
  /\ ShowError(s) /\ UNCHANGED failures

Fail(s) ==
  /\ loads[s] # Null /\ ~loads[s].waits /\ failures < MaxFailures
  /\ ShowError(s) /\ failures' = failures + 1

\* Other requests change a collection.
Change(v, f) ==
  /\ changes < MaxChanges
  /\ \E new \in Lists[<<v, f>>] \ {list[<<v, f>>]} : list' = [list EXCEPT ![<<v, f>>] = new]
  /\ changes' = changes + 1
  /\ UNCHANGED <<stored, event, refresh, page, loads, moves, failures>>

\* Another tab signs in, refreshes or signs out; so does the refresh with which
\* useSession begins, because it is followed by reading the session.
StoreSession(v) ==
  /\ moves < MaxMoves
  /\ stored' = v /\ event' = TRUE
  /\ moves' = moves + 1
  /\ UNCHANGED <<list, refresh, page, loads, changes, failures>>

System == SessionChanged \/ Renewed \/ \E s \in Slots : Receive(s) \/ NotSignedIn(s)

Next ==
  \/ System
  \/ \E s \in Slots : Poll(s) \/ Respond(s) \/ Fail(s) \/ ReadAgain(s) \/ Renew(s)
  \/ RenewalFails
  \/ \E f \in Filters : SelectFilter(f)
  \/ \E v \in Viewers, f \in Filters : Change(v, f)
  \/ \E v \in Viewers \cup {Null} : StoreSession(v)

\* The event loop runs, the service and the provider answer and the timer ticks.
Spec == /\ Init /\ [][Next]_vars
        /\ WF_vars(SessionChanged) /\ WF_vars(Renewed)
        /\ \A s \in Slots : /\ WF_vars(Poll(s)) /\ WF_vars(Respond(s))
                            /\ WF_vars(Receive(s)) /\ WF_vars(NotSignedIn(s))

-----------------------------------------------------------------------------
Values == {Empty} \cup UNION {Lists[vf] : vf \in Viewed}
Answer == [status : {200, 304}, etag : Values]
Loads  == [by : Viewers \cup {Null}, filter : Filters, tag : Values \cup {Null},
           waits : BOOLEAN, answer : Answer \cup {Null}]

\* The refs and the state of the page hold values of collections.
TypeOK ==
  /\ list \in [Viewed -> Values]
  /\ stored \in Viewers \cup {Null} /\ session \in Viewers \cup {Null}
  /\ event \in BOOLEAN /\ silent \in BOOLEAN /\ renewal \in Viewers \cup {Null}
  /\ status \in Filters
  /\ etag \in Values \cup {Null} /\ cache \in Values /\ data \in Values
  /\ state \in {"loading", "empty", "error", "content"}
  /\ loads \in [Slots -> Loads \cup {Null}]
  /\ changes \in Nat /\ moves \in Nat /\ failures \in Nat

Shown == session # Null /\ state \in {"empty", "content"}

(* What a 304 confirms is what the page holds: the tag it sends is the tag of
   the rows it keeps, whichever load answered last and whatever filter or
   session it was for (etag.current and cache.current). *)
TagDescribesCache == etag # Null => etag = cache

(* The rows shown are rows of the person signed in and of the filter selected,
   once the page has handled the session events; an answer to an earlier person
   or filter never gets there (the active flag, and the tag of the old session
   that is still sent with the first load of the new one).  The exception the
   code makes is the page whose own refresh, begun for an earlier person, stored
   that person's session again when another was shown already (refreshSession):
   nothing tells it. *)
RowsOfViewer == Shown /\ ~event /\ ~silent => data \in Lists[<<session, status>>]

(* When the collection, the filter and the session come to rest, rows that are
   shown are the collection, of the filter selected, of the person whose session
   is stored: no 304 and no late answer pins an old value, and no rows stay when
   the session is gone.  And unless it is gone they are shown.  (A page whose own
   refresh removed the session stays in error: its polls find no session, and no
   event makes it ask for a sign-in.) *)
Settles ==
  /\ <>[](Shown => stored # Null /\ data = list[<<stored, status>>])
  /\ []<>(session = Null \/ stored = Null \/ Shown)
=============================================================================
