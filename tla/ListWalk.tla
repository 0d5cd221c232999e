------------------------------ MODULE ListWalk ------------------------------
(***************************************************************************)
(* GET /v1/orders and GET /v1/pickups: a client follows X-Next-Cursor from *)
(* the first page to the last, while rows are inserted, taken by an outlet *)
(* and change status between two pages (listForPrincipal of the two stores,*)
(* the list handlers, validateListParams).                                 *)
(*                                                                         *)
(* A row of either collection is what the query looks at; the outlet of a  *)
(* pickup is that of its order.  Ids are random, so rows of the same       *)
(* millisecond are in any order; "open" and "closed" stand for the         *)
(* statuses before and after the one change a row makes.                   *)
(***************************************************************************)
EXTENDS Naturals, FiniteSets

CONSTANTS
  Ids,         \* row identifiers, ordered
  People,      \* customers or drivers
  Outlets,
  Null,
  Limits,      \* limit parameters: Number(limit), and parseInt(limit, 10)
  MaxClock     \* bound: milliseconds

Row == [created : Nat, owner : People, outlet : Outlets \cup {Null},
        status : {"open", "closed"}]

\* What encodeCursor is given: created_at and id.
Cursor == [c : Nat, i : Ids]

ASSUME IdsAssumption    == Ids \subseteq Nat /\ IsFiniteSet(Ids)
ASSUME NamesAssumption  == /\ Null \notin Outlets \cup People \cup Row \cup Cursor
                           /\ Outlets \cap People = {}
ASSUME LimitsAssumption == Limits \subseteq [number : Nat, parsed : Nat]
ASSUME ClockAssumption  == MaxClock \in Nat

VARIABLES
  collection,  \* which of the two is walked
  who,         \* by a principal with this domain or outlet identity,
  filter,      \* status parameter, Null when absent,
  limit,       \* limit parameter
  rows,        \* the table
  clock,
  state,       \* "new", "walking", "done" or "400"
  cursor,      \* what the last X-Next-Cursor encodes
  got,         \* how often each row was listed: 0, 1, or 2 for more
  steady       \* rows that would have been listed at every moment of the walk

request == <<collection, who, filter, limit>>
walk    == <<state, cursor, got>>
vars    == <<request, rows, clock, walk, steady>>

Rows == {id \in Ids : rows[id] # Null}

\* The conditions of the WHERE clause but the cursor.
Visible(row) ==
  CASE who \in People          -> row.owner = who
    [] collection = "orders"   -> row.outlet \in {who, Null}
    [] collection = "pickups"  -> row.outlet = who

Matches(row) == Visible(row) /\ filter \in {Null, row.status}

\* ORDER BY created_at ASC, id ASC
Precedes(a, b) == a.c < b.c \/ (a.c = b.c /\ a.i < b.i)

Position(id) == [c |-> rows[id].created, i |-> id]

\* Mutant: the cursor's own row is not excluded.
RestAgain == {id \in Rows : Matches(rows[id])
                             /\ (cursor # Null => ~Precedes(Position(id), cursor))}

Rest == {id \in Rows : Matches(rows[id])
                         /\ (cursor # Null => Precedes(cursor, Position(id)))}

\* LIMIT parsedLimit + 1, the row too many removed again.
Page == {id \in Rest :
           Cardinality({q \in Rest : Precedes(Position(q), Position(id))}) < limit.parsed}

HasMore == Cardinality(Rest) > limit.parsed

\* Mutant: the cursor is encoded before the row too many is removed.
LastOfExtra ==
  LET fetched == {id \in Rest : Cardinality({q \in Rest :
                    Precedes(Position(q), Position(id))}) <= limit.parsed}
  IN CHOOSE id \in fetched :
       \A q \in fetched : q = id \/ Precedes(Position(q), Position(id))

Last == CHOOSE id \in Page : \A q \in Page : q = id \/ Precedes(Position(q), Position(id))

Init ==
  /\ collection \in {"orders", "pickups"}
  /\ who \in People \cup Outlets
  /\ filter \in {Null, "open", "closed"}
  /\ limit \in Limits
  /\ rows = [id \in Ids |-> Null]
  /\ clock = 1
  /\ state = "new" /\ cursor = Null
  /\ got = [id \in Ids |-> 0]
  /\ steady = {}

\* A validated limit outside 1..100 is answered 400.
FirstPage ==
  /\ state = "new"
  /\ IF limit.number \notin 1..100
       THEN state' = "400" /\ UNCHANGED <<cursor, got, steady>>
       ELSE /\ steady' = Rest
            /\ got'    = [id \in Ids |-> IF id \in Page THEN 1 ELSE 0]
            /\ IF HasMore /\ Page # {}
                 THEN state' = "walking" /\ cursor' = Position(Last)
                 ELSE state' = "done" /\ UNCHANGED cursor
  /\ UNCHANGED <<request, rows, clock>>

NextPage ==
  /\ state = "walking"
  /\ got' = [id \in Ids |-> IF id \notin Page THEN got[id] ELSE IF got[id] = 0 THEN 1 ELSE 2]
  /\ IF HasMore /\ Page # {}
       THEN cursor' = Position(Last) /\ UNCHANGED state
       ELSE state' = "done" /\ UNCHANGED cursor
  /\ UNCHANGED <<request, rows, clock, steady>>

\* Other requests change the table.
Write(new) ==
  /\ rows' = new
  /\ steady' = {id \in steady : Matches(new[id])}
  /\ UNCHANGED <<request, clock, walk>>

Insert(id, person, outlet) ==
  /\ rows[id] = Null
  /\ collection = "orders" => outlet = Null
  /\ Write([rows EXCEPT ![id] = [created |-> clock, owner |-> person,
                                 outlet |-> outlet, status |-> "open"]])

TakeIn(id, outlet) ==
  /\ rows[id] # Null /\ rows[id].outlet = Null
  /\ Write([rows EXCEPT ![id].outlet = outlet])

ChangeStatus(id) ==
  /\ rows[id] # Null /\ rows[id].status = "open"
  /\ Write([rows EXCEPT ![id].status = "closed"])

Tick ==
  /\ clock < MaxClock
  /\ clock' = clock + 1
  /\ UNCHANGED <<request, rows, walk, steady>>

Next ==
  \/ FirstPage \/ NextPage \/ Tick
  \/ \E id \in Ids : \/ \E p \in People, o \in Outlets \cup {Null} : Insert(id, p, o)
                     \/ \E o \in Outlets : TakeIn(id, o)
                     \/ ChangeStatus(id)

Spec == Init /\ [][Next]_vars /\ WF_vars(FirstPage) /\ WF_vars(NextPage)

-----------------------------------------------------------------------------
\* Rows have the columns of the query; a cursor is the position of a row.
TypeOK ==
  /\ collection \in {"orders", "pickups"} /\ who \in People \cup Outlets
  /\ filter \in {Null, "open", "closed"} /\ limit \in Limits
  /\ rows \in [Ids -> Row \cup {Null}] /\ clock \in Nat
  /\ state \in {"new", "walking", "done", "400"}
  /\ cursor \in Cursor \cup {Null}
  /\ got \in [Ids -> 0..2] /\ steady \subseteq Ids

(* No row is on two pages of a walk, whatever was inserted, taken in or changed
   between them (the strict comparison of the cursor with created_at and id). *)
NoRowTwice == \A id \in Ids : got[id] <= 1

(* A row that matched at every moment of the walk was listed by it, when the
   limit the handler works with is the one it validated (ORDER BY, LIMIT + 1
   and the cursor of the last row kept). *)
SteadyRowsListed ==
  state = "done" /\ limit.parsed > 0 => \A id \in steady : got[id] = 1

(* A walk ends, whatever arrives while it runs: as long as there is a next page
   the cursor moves forward over rows (the X-Next-Cursor of the handlers). *)
WalkEnds == <>(state \in {"done", "400"})
=============================================================================
