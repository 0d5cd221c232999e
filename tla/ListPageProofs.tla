--------------------------- MODULE ListPageProofs ---------------------------
(***************************************************************************)
(* Proofs about ListPage, for any viewers, filters, collections and number *)
(* of overlapping loads: a 304 confirms the rows the page keeps, and the   *)
(* rows it shows are those of the person signed in.                        *)
(***************************************************************************)
EXTENDS ListPage, TLAPS

\* No event is left to handle, and the page's own refresh has stored nothing that
\* the page does not know of.
Told == ~event /\ ~silent

\* A collection has one of its values; a page that is told works under the session
\* that is stored.
ServiceOK ==
  /\ \A v \in Viewers, f \in Filters : list[<<v, f>>] \in Lists[<<v, f>>]
  /\ Told => session = stored

\* An answer is about the collection that was asked for; every load of a page that
\* is told asks for the collection on the screen.
LoadOK(l) ==
  /\ l.answer # Null =>
       /\ l.by # Null /\ l.answer.etag \in Lists[<<l.by, l.filter>>]
       /\ l.answer.status = 304 => l.tag = l.answer.etag
  /\ l.filter = status
  /\ Told => l.by = session

LoadsOK == \A s \in Slots : loads[s] # Null => LoadOK(loads[s])

\* What is kept from an earlier session is at most confirmed by its own tag.
CacheOK ==
  Told /\ session # Null =>
    \/ cache \in Lists[<<session, status>>]
    \/ \A s \in Slots : loads[s] # Null => loads[s].tag = etag

IInv == TypeOK /\ ServiceOK /\ LoadsOK /\ CacheOK /\ TagDescribesCache /\ RowsOfViewer

-----------------------------------------------------------------------------
LEMMA ListValues ==
  ASSUME NEW v \in Viewers, NEW f \in Filters
  PROVE  /\ <<v, f>> \in Viewed
         /\ Lists[<<v, f>>] \subseteq Values
         /\ Empty \in Lists[<<v, f>>] /\ Null \notin Lists[<<v, f>>]
BY NamesAssumption DEF Values, Viewed

LEMMA InitOK == Init => IInv
<1> SUFFICES ASSUME Init PROVE IInv
  OBVIOUS
<1> USE DEF Init
<1>1. TypeOK
  <2>1. silent \in BOOLEAN /\ event \in BOOLEAN
    BY Zenon
  <2> QED
    BY <2>1, BoundsAssumption, NamesAssumption DEF TypeOK, Values, None
<1>2. ServiceOK
  BY ListValues DEF ServiceOK, Viewed, Told
<1>3. LoadsOK /\ CacheOK
  BY DEF LoadsOK, CacheOK, None
<1>4. TagDescribesCache /\ RowsOfViewer
  BY DEF TagDescribesCache, RowsOfViewer, Shown
<1> QED
  BY <1>1, <1>2, <1>3, <1>4 DEF IInv

\* The load that begins is for the session that is stored and the filter
\* selected, and sends the tag of what the page keeps.
LEMMA NewLoad ==
  ASSUME stored \in Viewers \cup {Null}, status' \in Filters, etag' \in Values \cup {Null}
  PROVE  /\ Load \in Loads
         /\ Load.by = stored /\ Load.filter = status' /\ Load.tag = etag'
         /\ Load.answer = Null /\ Load.waits = FALSE
BY DEF Load, Loads

LEMMA EffectOK ==
  ASSUME TypeOK, RunEffect, status' \in Filters, etag' \in Values \cup {Null}
  PROVE  /\ loads' \in [Slots -> Loads \cup {Null}]
         /\ state' \in {"loading", "empty", "error", "content"}
         /\ session' # Null => state' = "loading"
         /\ \A s \in Slots : loads'[s] # Null =>
              session' # Null /\ loads'[s] = Load
<1>1. Load \in Loads
  BY NewLoad DEF TypeOK
<1>2. CASE session' = Null
  BY <1>2 DEF RunEffect, None, TypeOK
<1>3. CASE session' # Null
  <2>1. PICK s \in Slots : loads' = [None EXCEPT ![s] = Load]
    BY <1>3 DEF RunEffect
  <2> QED
    BY <1>1, <1>3, <2>1 DEF RunEffect, None
<1> QED
  BY <1>2, <1>3

\* The steps that run the effect: a filter is selected, or an event handled.
LEMMA EffectStep ==
  ASSUME IInv, UNCHANGED <<list, stored, renewal, changes, failures>>, RunEffect,
         session' \in Viewers \cup {Null}, status' \in Filters,
         etag' \in Values \cup {Null}, cache' \in Values, data' = data,
         event' \in BOOLEAN, silent' \in BOOLEAN, moves' \in Nat,
         Told' => session' = stored,
         TagDescribesCache'
  PROVE  IInv'
<1> USE DEF IInv
<1>1. /\ loads' \in [Slots -> Loads \cup {Null}]
      /\ state' \in {"loading", "empty", "error", "content"}
      /\ session' # Null => state' = "loading"
      /\ \A s \in Slots : loads'[s] # Null => session' # Null /\ loads'[s] = Load
  BY EffectOK
<1>2. /\ Load.by = stored /\ Load.filter = status' /\ Load.tag = etag'
      /\ Load.answer = Null
  BY NewLoad DEF TypeOK
<1>3. TypeOK'
  BY <1>1 DEF TypeOK
<1>4. ServiceOK'
  BY DEF ServiceOK, Told
<1>5. LoadsOK'
  BY <1>1, <1>2 DEF LoadsOK, LoadOK, Told
<1>6. CacheOK'
  BY <1>1, <1>2 DEF CacheOK
<1>7. RowsOfViewer'
  BY <1>1 DEF RowsOfViewer, Shown
<1> QED
  BY <1>3, <1>4, <1>5, <1>6, <1>7

LEMMA PollStep ==
  ASSUME IInv, NEW s \in Slots, Poll(s)
  PROVE  IInv'
<1> USE DEF IInv, Poll
<1>1. /\ Load \in Loads /\ Load.by = stored /\ Load.filter = status'
      /\ Load.tag = etag' /\ Load.answer = Null
  BY NewLoad DEF TypeOK
<1>2. loads' \in [Slots -> Loads \cup {Null}]
  BY <1>1 DEF TypeOK
<1>3. \A t \in Slots : loads'[t] = IF t = s THEN Load ELSE loads[t]
  BY DEF TypeOK
<1>4. TypeOK'
  BY <1>2 DEF TypeOK, counts, refresh
<1>5. ServiceOK'
  BY DEF ServiceOK, Told, refresh
<1>6. LoadsOK'
  BY <1>1, <1>3 DEF LoadsOK, LoadOK, ServiceOK, Told, refresh
<1>7. CacheOK'
  BY <1>1, <1>3 DEF CacheOK, Told, refresh
<1>8. TagDescribesCache' /\ RowsOfViewer'
  BY DEF TagDescribesCache, RowsOfViewer, Shown, refresh
<1> QED
  BY <1>4, <1>5, <1>6, <1>7, <1>8

\* A step that leaves the collections and what the page holds and shows alone, and
\* of a load changes at most the person and whether it waits.
LEMMA RefreshStep ==
  ASSUME IInv, UNCHANGED <<list, event, page, changes>>,
         stored' \in Viewers \cup {Null}, renewal' \in Viewers \cup {Null},
         silent' \in BOOLEAN, moves' \in Nat, failures' \in Nat,
         loads' \in [Slots -> Loads \cup {Null}],
         Told' => Told /\ session = stored',
         \A s \in Slots : loads'[s] # Null =>
           /\ loads[s] # Null /\ loads'[s].filter = loads[s].filter
           /\ loads'[s].tag = loads[s].tag /\ loads'[s].answer = loads[s].answer
           /\ loads[s].answer # Null => loads'[s].by = loads[s].by
           /\ Told' => loads'[s].by = session
  PROVE  IInv'
<1> USE DEF IInv
<1>1. TypeOK'
  BY DEF TypeOK, page
<1>2. ServiceOK'
  BY DEF ServiceOK, page
<1>3. LoadsOK'
  <2>1. status' = status
    BY DEF page
  <2>2. ASSUME NEW s \in Slots, loads'[s] # Null PROVE LoadOK(loads[s])
    BY <2>2 DEF LoadsOK
  <2>3. ASSUME NEW s \in Slots, loads'[s] # Null PROVE LoadOK(loads[s])'
    <3>1. loads'[s].answer # Null => loads'[s].by = loads[s].by
      BY <2>3
    <3>2. Told' => loads'[s].by = session'
      BY <2>3 DEF page
    <3>3. LoadOK(loads[s]) /\ loads'[s].filter = loads[s].filter
          /\ loads'[s].tag = loads[s].tag /\ loads'[s].answer = loads[s].answer
      BY <2>2, <2>3
    <3> HIDE DEF IInv
    <3> QED
      BY ONLY <2>1, <3>1, <3>2, <3>3 DEF LoadOK
  <2> QED
    BY <2>3 DEF LoadsOK
<1>4. CacheOK'
  BY DEF CacheOK, page
<1>5. TagDescribesCache' /\ RowsOfViewer'
  BY DEF TagDescribesCache, RowsOfViewer, Shown, Told, page
<1> QED
  BY <1>1, <1>2, <1>3, <1>4, <1>5

LEMMA ReadAgainStep ==
  ASSUME IInv, NEW s \in Slots, ReadAgain(s)
  PROVE  IInv'
<1> USE DEF ReadAgain, Asking, refresh
<1> DEFINE new == [loads[s] EXCEPT !.by = stored]
<1>1. loads[s] \in Loads /\ TypeOK
  BY DEF IInv, TypeOK
<1>2. /\ new \in Loads /\ new.by = stored /\ new.filter = loads[s].filter
      /\ new.tag = loads[s].tag /\ new.answer = loads[s].answer
  BY <1>1 DEF Loads, TypeOK
<1>3. loads' = [loads EXCEPT ![s] = new]
  BY <1>1 DEF TypeOK
<1> HIDE DEF new
<1>4. loads' \in [Slots -> Loads \cup {Null}]
  BY <1>1, <1>2, <1>3 DEF TypeOK
<1>5. \A t \in Slots : loads'[t] = IF t = s THEN new ELSE loads[t]
  BY <1>1, <1>3 DEF TypeOK
<1>6. Told => session = stored /\ \A t \in Slots : loads[t] # Null => loads[t].by = session
  BY DEF IInv, ServiceOK, LoadsOK, LoadOK
<1>7. Told' = Told
  BY DEF Told
<1> QED
  BY <1>1, <1>2, <1>4, <1>5, <1>6, <1>7, RefreshStep DEF TypeOK, counts

\* A load of a page that is told refreshes the session the page shows.
LEMMA RenewStep ==
  ASSUME IInv, NEW s \in Slots, Renew(s)
  PROVE  IInv'
<1> USE DEF Renew, Asking
<1> DEFINE new == [loads[s] EXCEPT !.by = renewal', !.waits = TRUE]
<1>1. loads[s] \in Loads /\ TypeOK
  BY DEF IInv, TypeOK
<1>2. renewal' \in Viewers
  BY <1>1, NamesAssumption DEF TypeOK, Loads
<1>3. /\ new \in Loads /\ new.by = renewal' /\ new.filter = loads[s].filter
      /\ new.tag = loads[s].tag /\ new.answer = loads[s].answer
  BY <1>1, <1>2 DEF Loads
<1>4. loads' = [loads EXCEPT ![s] = new]
  BY <1>1 DEF TypeOK
<1> HIDE DEF new
<1>5. loads' \in [Slots -> Loads \cup {Null}]
  BY <1>1, <1>3, <1>4 DEF TypeOK
<1>6. \A t \in Slots : loads'[t] = IF t = s THEN new ELSE loads[t]
  BY <1>1, <1>4 DEF TypeOK
<1>7. Told => session = stored /\ \A t \in Slots : loads[t] # Null => loads[t].by = session
  BY DEF IInv, ServiceOK, LoadsOK, LoadOK
<1>8. Told' = Told
  BY DEF Told
<1>9. Told => renewal' = session
  BY <1>7
<1> QED
  BY <1>1, <1>2, <1>3, <1>5, <1>6, <1>7, <1>8, <1>9, RefreshStep DEF TypeOK

\* The refresh stores the session it renewed: that of the page, or the page is not
\* told any more.
LEMMA RenewedStep ==
  ASSUME IInv, Renewed
  PROVE  IInv'
<1> USE DEF Renewed
<1>1. TypeOK
  BY DEF IInv
<1>2. ASSUME NEW s \in Slots, loads[s] # Null
      PROVE  /\ [loads[s] EXCEPT !.waits = FALSE] \in Loads
             /\ [loads[s] EXCEPT !.waits = FALSE].by = loads[s].by
             /\ [loads[s] EXCEPT !.waits = FALSE].filter = loads[s].filter
             /\ [loads[s] EXCEPT !.waits = FALSE].tag = loads[s].tag
             /\ [loads[s] EXCEPT !.waits = FALSE].answer = loads[s].answer
  BY <1>1, <1>2 DEF TypeOK, Loads
<1>3. loads' \in [Slots -> Loads \cup {Null}]
  BY <1>2
<1>4. Told' => Told /\ session = stored'
  BY DEF Told
<1>5. Told => \A t \in Slots : loads[t] # Null => loads[t].by = session
  BY DEF IInv, LoadsOK, LoadOK
<1>6. silent' \in BOOLEAN
  BY Zenon
<1>7. \A s \in Slots : loads'[s] # Null =>
        /\ loads[s] # Null /\ loads'[s].filter = loads[s].filter
        /\ loads'[s].tag = loads[s].tag /\ loads'[s].answer = loads[s].answer
        /\ loads'[s].by = loads[s].by
  BY <1>2
<1> QED
  BY <1>1, <1>3, <1>4, <1>5, <1>6, <1>7, RefreshStep DEF TypeOK, counts

\* A refresh that fails removes the session: the page, unless it shows none, is not
\* told any more.
LEMMA RenewalFailsStep ==
  ASSUME IInv, RenewalFails
  PROVE  IInv'
<1> USE DEF RenewalFails, IInv
<1>1. silent' \in BOOLEAN
  BY Zenon
<1>2. \A s \in Slots : loads'[s] \in {loads[s], Null}
  OBVIOUS
<1>3. loads' \in [Slots -> Loads \cup {Null}]
  BY DEF TypeOK
<1>4. TypeOK'
  BY <1>1, <1>3 DEF TypeOK
<1>5. Told' => Told /\ session = Null
  BY DEF Told
<1>6. ServiceOK'
  BY <1>5 DEF ServiceOK
<1>7. LoadsOK' /\ CacheOK'
  BY <1>2, <1>5 DEF LoadsOK, LoadOK, CacheOK
<1>8. TagDescribesCache' /\ RowsOfViewer'
  BY <1>5 DEF TagDescribesCache, RowsOfViewer, Shown, Told
<1> QED
  BY <1>4, <1>6, <1>7, <1>8

\* The service answers with the tag of the collection, and with 304 only when
\* that is the tag that was sent.
LEMMA RespondStep ==
  ASSUME IInv, NEW s \in Slots, Respond(s)
  PROVE  IInv'
<1> DEFINE l == loads[s]
<1> USE DEF IInv
<1>1. l \in Loads /\ l # Null /\ l.by \in Viewers /\ l.filter \in Filters
  BY DEF Respond, Asking, TypeOK, Loads
<1>2. list[<<l.by, l.filter>>] \in Lists[<<l.by, l.filter>>] /\ list[<<l.by, l.filter>>] \in Values
  BY <1>1, ListValues DEF ServiceOK
<1>3. PICK a \in Answer :
        /\ loads' = [loads EXCEPT ![s] = [l EXCEPT !.answer = a]]
        /\ a.etag \in Lists[<<l.by, l.filter>>]
        /\ a.status = 304 => l.tag = a.etag
  <2>1. CASE l.tag = list[<<l.by, l.filter>>]
    <3> DEFINE a == [status |-> 304, etag |-> l.tag]
    <3>1. a \in Answer
      BY <1>2, <2>1 DEF Answer
    <3>2. loads' = [loads EXCEPT ![s] = [l EXCEPT !.answer = a]]
      BY <1>1, <2>1 DEF Respond, TypeOK
    <3> QED
      BY <1>2, <2>1, <3>1, <3>2
  <2>2. CASE l.tag # list[<<l.by, l.filter>>]
    <3> DEFINE a == [status |-> 200, etag |-> list[<<l.by, l.filter>>]]
    <3>1. a \in Answer
      BY <1>2 DEF Answer
    <3>2. loads' = [loads EXCEPT ![s] = [l EXCEPT !.answer = a]]
      BY <1>1, <2>2 DEF Respond, TypeOK
    <3>3. a.etag \in Lists[<<l.by, l.filter>>] /\ a.status # 304
      BY <1>2
    <3> HIDE DEF a
    <3> WITNESS a \in Answer
    <3> QED
      BY <3>2, <3>3
  <2> QED
    BY <2>1, <2>2
<1> DEFINE new == [l EXCEPT !.answer = a]
<1>4. /\ new \in Loads /\ new.by = l.by /\ new.filter = l.filter /\ new.tag = l.tag
      /\ new.answer = a
  BY <1>1 DEF Loads
<1>5. /\ loads' \in [Slots -> Loads \cup {Null}]
      /\ \A t \in Slots : loads'[t] = IF t = s THEN new ELSE loads[t]
  BY <1>3, <1>4 DEF TypeOK
<1> HIDE DEF new
<1>6. TypeOK' /\ ServiceOK'
  BY <1>5 DEF Respond, TypeOK, ServiceOK, Told, refresh, page, counts
<1>7. LoadOK(l) /\ LoadOK(new)
  <2>1. LoadOK(l)
    BY <1>1 DEF LoadsOK
  <2> QED
    BY <1>1, <1>3, <1>4, <2>1, NamesAssumption DEF LoadOK
<1>8. LoadsOK'
  <2> SUFFICES ASSUME NEW t \in Slots, loads'[t] # Null
               PROVE  LoadOK(loads[t])'
    BY DEF LoadsOK
  <2>1. LoadOK(loads'[t])
    BY <1>5, <1>7 DEF LoadsOK
  <2> QED
    BY <2>1 DEF LoadOK, Respond, Told, refresh, page
<1>9. CacheOK'
  BY <1>1, <1>4, <1>5 DEF CacheOK, Respond, Told, refresh, page
<1>10. TagDescribesCache' /\ RowsOfViewer'
  BY DEF TagDescribesCache, RowsOfViewer, Shown, Respond, refresh, page
<1> QED
  BY <1>6, <1>8, <1>9, <1>10

\* A 304 received under the session of the page confirms rows of that session,
\* also when another load replaced the tag meanwhile.
LEMMA ReceiveStep ==
  ASSUME IInv, NEW s \in Slots, Receive(s)
  PROVE  IInv'
<1> DEFINE l == loads[s]
<1> USE DEF IInv
<1>1. l \in Loads /\ l # Null /\ l.answer # Null /\ l.answer \in Answer
  BY DEF Receive, TypeOK, Loads
<1>2. LoadOK(l) /\ l.by \in Viewers /\ l.filter \in Filters
  BY <1>1 DEF LoadsOK, LoadOK, Loads
<1>3. \/ l.answer.status = 304 /\ cache' = cache /\ etag' = etag
      \/ cache' = l.answer.etag /\ etag' = l.answer.etag
  BY DEF Receive
<1>4. /\ data' = cache' /\ state' \in {"empty", "content"}
      /\ loads' = [loads EXCEPT ![s] = Null]
      /\ UNCHANGED <<list, stored, event, refresh, session, status, changes, moves,
                     failures>>
  BY DEF Receive, counts
<1>5. TypeOK'
  BY <1>1, <1>3, <1>4 DEF TypeOK, Answer, refresh
<1>6. ServiceOK'
  BY <1>4 DEF ServiceOK, Told, refresh
<1>7. LoadsOK'
  BY <1>4 DEF LoadsOK, LoadOK, TypeOK, Told, refresh
<1>8. TagDescribesCache'
  BY <1>3 DEF TagDescribesCache
<1>9. Told /\ session # Null => cache' \in Lists[<<session, status>>]
  <2> SUFFICES ASSUME Told, session # Null
               PROVE  cache' \in Lists[<<session, status>>]
    OBVIOUS
  <2>1. l.answer.etag \in Lists[<<session, status>>]
    BY <1>1, <1>2 DEF LoadOK
  <2>2. CASE l.answer.status = 304 /\ cache' = cache
    <3>1. l.tag = l.answer.etag /\ l.tag # Null
      BY <1>1, <1>2, <2>1, <2>2, ListValues DEF LoadOK
    <3>2. CASE l.tag = etag
      BY <2>1, <2>2, <3>1, <3>2 DEF TagDescribesCache
    <3>3. CASE l.tag # etag
      BY <1>1, <2>2, <3>3 DEF CacheOK
    <3> QED
      BY <3>2, <3>3
  <2> QED
    BY <1>3, <2>1, <2>2
<1>10. CacheOK' /\ RowsOfViewer'
  BY <1>4, <1>9 DEF CacheOK, RowsOfViewer, Shown, Told, refresh
<1> QED
  BY <1>5, <1>6, <1>7, <1>8, <1>10

LEMMA ErrorStep ==
  ASSUME IInv, NEW s \in Slots, ShowError(s), failures' \in Nat
  PROVE  IInv'
<1> USE DEF IInv, ShowError, Told, refresh
<1>1. TypeOK' /\ ServiceOK'
  BY DEF TypeOK, ServiceOK
<1>2. LoadsOK' /\ CacheOK'
  BY DEF LoadsOK, LoadOK, CacheOK, TypeOK
<1>3. TagDescribesCache' /\ RowsOfViewer'
  BY DEF TagDescribesCache, RowsOfViewer, Shown
<1> QED
  BY <1>1, <1>2, <1>3

LEMMA OthersStep ==
  ASSUME IInv,
         \/ \E v \in Viewers, f \in Filters : Change(v, f)
         \/ \E v \in Viewers \cup {Null} : StoreSession(v)
  PROVE  IInv'
<1> USE DEF IInv, Told, refresh
<1>1. ASSUME NEW v \in Viewers, NEW f \in Filters, Change(v, f) PROVE IInv'
  <2> USE <1>1 DEF Change, page
  <2>1. PICK new \in Lists[<<v, f>>] : list' = [list EXCEPT ![<<v, f>>] = new]
    OBVIOUS
  <2>2. TypeOK'
    BY <2>1, ListValues DEF TypeOK
  <2>3. ServiceOK'
    <3>1. \A w \in Viewers, g \in Filters : <<w, g>> \in Viewed
      BY DEF Viewed
    <3>2. list \in [Viewed -> Values]
      BY DEF TypeOK
    <3> QED
      BY <2>1, <3>1, <3>2 DEF ServiceOK
  <2>4. LoadsOK' /\ CacheOK' /\ TagDescribesCache' /\ RowsOfViewer'
    BY DEF LoadsOK, LoadOK, CacheOK, TagDescribesCache, RowsOfViewer, Shown
  <2> QED
    BY <2>2, <2>3, <2>4
<1>2. ASSUME NEW v \in Viewers \cup {Null}, StoreSession(v) PROVE IInv'
  <2> USE <1>2 DEF StoreSession, page
  <2>1. TypeOK' /\ ServiceOK'
    BY DEF TypeOK, ServiceOK
  <2>2. LoadsOK' /\ CacheOK' /\ TagDescribesCache' /\ RowsOfViewer'
    BY DEF LoadsOK, LoadOK, CacheOK, TagDescribesCache, RowsOfViewer, Shown
  <2> QED
    BY <2>1, <2>2
<1> QED
  BY <1>1, <1>2

LEMMA NextStep ==
  ASSUME IInv, [Next]_vars
  PROVE  IInv'
<1> USE DEF IInv
<1>1. CASE SessionChanged
  BY <1>1, EffectStep DEF SessionChanged, TypeOK, TagDescribesCache, counts
<1>2. ASSUME NEW f \in Filters, SelectFilter(f) PROVE IInv'
  BY <1>2, EffectStep
     DEF SelectFilter, TypeOK, TagDescribesCache, ServiceOK, Values, Told, refresh
<1>3. ASSUME NEW s \in Slots, Receive(s) PROVE IInv'
  BY <1>3, ReceiveStep
<1>4. ASSUME NEW s \in Slots, NotSignedIn(s) \/ Fail(s) PROVE IInv'
  BY <1>4, ErrorStep DEF NotSignedIn, Fail, TypeOK
<1>5. ASSUME NEW s \in Slots, Poll(s) PROVE IInv'
  BY <1>5, PollStep
<1>6. ASSUME NEW s \in Slots, Respond(s) PROVE IInv'
  BY <1>6, RespondStep
<1>7. CASE UNCHANGED vars
  <2> USE <1>7 DEF vars, page, counts, refresh, Told
  <2>1. TypeOK' /\ ServiceOK' /\ LoadsOK' /\ CacheOK'
    BY DEF TypeOK, ServiceOK, LoadsOK, LoadOK, CacheOK
  <2>2. TagDescribesCache' /\ RowsOfViewer'
    BY DEF TagDescribesCache, RowsOfViewer, Shown
  <2> QED
    BY <2>1, <2>2
<1> QED
  BY <1>1, <1>2, <1>3, <1>4, <1>5, <1>6, <1>7, OthersStep, ReadAgainStep, RenewStep,
     RenewedStep, RenewalFailsStep DEF Next, System

-----------------------------------------------------------------------------
(* The inductive invariant holds in every reachable state of the page. *)
THEOREM PageInvariance == Spec => []IInv
<1>1. Init => IInv
  BY InitOK
<1>2. IInv /\ [Next]_vars => IInv'
  BY NextStep
<1> QED
  BY <1>1, <1>2, PTL DEF Spec

(* The refs, the loads and the collections keep their types (the state of
   orders-section.tsx and pickups-section.tsx). *)
THEOREM PageTypes == Spec => []TypeOK
<1>1. IInv => TypeOK
  BY DEF IInv
<1> QED
  BY <1>1, PageInvariance, PTL

(* A 304 confirms exactly the rows the page keeps, however many loads overlap
   (etag.current and cache.current are written together). *)
THEOREM TagsDescribeCaches == Spec => []TagDescribesCache
<1>1. IInv => TagDescribesCache
  BY DEF IInv
<1> QED
  BY <1>1, PageInvariance, PTL

(* Once the session events are handled the rows shown are those of the person
   signed in and of the filter selected (the active flag of the effect, and
   the tag of an earlier person that the first load still sends). *)
THEOREM RowsAreTheViewers == Spec => []RowsOfViewer
<1>1. IInv => RowsOfViewer
  BY DEF IInv
<1> QED
  BY <1>1, PageInvariance, PTL
=============================================================================
