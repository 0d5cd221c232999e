--------------------------- MODULE ListWalkProofs ---------------------------
(***************************************************************************)
(* Proofs about ListWalk, for any number of rows, people, outlets, pages   *)
(* and milliseconds.                                                       *)
(***************************************************************************)
EXTENDS ListWalk, FiniteSetTheorems, TLAPS

\* The rows of S before that one, and after it.
Before(S, id) == {q \in S : Precedes(Position(q), Position(id))}
After(S, id)  == {q \in S : Precedes(Position(id), Position(q))}

\* What was listed are rows, and nothing was before the first page.
GotOK == \A id \in Ids : got[id] # 0 => rows[id] # Null
NewOK == state = "new" => steady = {} /\ cursor = Null /\ \A id \in Ids : got[id] = 0

\* What was listed is not after the cursor; what must be is, or was listed.
WalkOK == state = "walking" =>
  /\ cursor # Null
  /\ \A id \in Ids : got[id] # 0 => ~Precedes(cursor, Position(id))
  /\ \A id \in steady : /\ rows[id] # Null /\ Matches(rows[id])
                        /\ got[id] # 0 \/ Precedes(cursor, Position(id))

IInv == TypeOK /\ GotOK /\ NewOK /\ WalkOK /\ NoRowTwice /\ SteadyRowsListed

-----------------------------------------------------------------------------
(***************************************************************************)
(* The order of the rows.                                                  *)
(***************************************************************************)
Positions == [c : Nat, i : Nat]

LEMMA Orders ==
  ASSUME NEW a \in Positions, NEW b \in Positions, NEW d \in Positions
  PROVE  /\ ~Precedes(a, a)
         /\ Precedes(a, b) /\ Precedes(b, d) => Precedes(a, d)
         /\ a = b \/ Precedes(a, b) \/ Precedes(b, a)
BY DEF Positions, Precedes

LEMMA RowPosition ==
  ASSUME TypeOK, NEW id \in Rows
  PROVE  id \in Ids /\ Position(id) \in Positions /\ Position(id).i = id
<1>1. id \in Nat /\ rows[id] \in Row
  BY IdsAssumption DEF Rows, TypeOK
<1> QED
  BY <1>1 DEF Row, Rows, Position, Positions

LEMMA RowsDiffer ==
  ASSUME TypeOK, NEW a \in Rows, NEW b \in Rows, Position(a) = Position(b)
  PROVE  a = b
BY RowPosition

\* A set of rows that is not empty has a first and a last.
LEMMA FirstAndLast ==
  ASSUME TypeOK, NEW S \in SUBSET Rows, S # {}
  PROVE  /\ \E id \in S : \A q \in S : q = id \/ Precedes(Position(id), Position(q))
         /\ \E id \in S : \A q \in S : q = id \/ Precedes(Position(q), Position(id))
<1>1. IsFiniteSet(S)
  BY IdsAssumption, FS_Subset DEF Rows
<1>2. \A T : T \subseteq S => T \in FiniteSubsetsOf(S)
  BY <1>1, FS_Subset DEF FiniteSubsetsOf
<1>3. IsWellFoundedOn(StrictSubsetOrdering(S), FiniteSubsetsOf(S))
  BY FS_StrictSubsetOrderingWellFounded
<1>4. \A T \in SUBSET FiniteSubsetsOf(S) : T # {} =>
        \E x \in T : \A y \in T : <<y, x>> \notin StrictSubsetOrdering(S)
  BY <1>3, WFMin
<1>5. ASSUME NEW a \in S, NEW b \in S, Precedes(Position(a), Position(b))
      PROVE  /\ <<Before(S, a), Before(S, b)>> \in StrictSubsetOrdering(S)
             /\ <<After(S, b), After(S, a)>> \in StrictSubsetOrdering(S)
  <2>1. \A q \in S : Position(q) \in Positions
    BY RowPosition
  <2>2. /\ Before(S, a) \subseteq Before(S, b) /\ After(S, b) \subseteq After(S, a)
        /\ a \in Before(S, b) /\ a \notin Before(S, a)
        /\ b \in After(S, a) /\ b \notin After(S, b)
    BY <1>5, <2>1, Orders DEF Before, After
  <2>3. /\ Before(S, a) \subseteq S /\ Before(S, b) \subseteq S
        /\ After(S, a) \subseteq S /\ After(S, b) \subseteq S
    BY DEF Before, After
  <2> QED
    BY <2>2, <2>3 DEF StrictSubsetOrdering
<1>6. \A a, b \in S : a = b \/ Precedes(Position(a), Position(b))
                            \/ Precedes(Position(b), Position(a))
  BY RowPosition, RowsDiffer, Orders
<1>7. \E id \in S : \A q \in S : q = id \/ Precedes(Position(id), Position(q))
  <2> DEFINE T == {Before(S, id) : id \in S}
  <2>1. T \in SUBSET FiniteSubsetsOf(S) /\ T # {}
    BY <1>2 DEF Before
  <2>2. PICK x \in T : \A y \in T : <<y, x>> \notin StrictSubsetOrdering(S)
    BY <1>4, <2>1
  <2>3. PICK id \in S : x = Before(S, id)
    OBVIOUS
  <2>4. \A q \in S : Before(S, q) \in T
    OBVIOUS
  <2> QED
    BY <1>5, <1>6, <2>2, <2>3, <2>4
<1>8. \E id \in S : \A q \in S : q = id \/ Precedes(Position(q), Position(id))
  <2> DEFINE T == {After(S, id) : id \in S}
  <2>1. T \in SUBSET FiniteSubsetsOf(S) /\ T # {}
    BY <1>2 DEF After
  <2>2. PICK x \in T : \A y \in T : <<y, x>> \notin StrictSubsetOrdering(S)
    BY <1>4, <2>1
  <2>3. PICK id \in S : x = After(S, id)
    OBVIOUS
  <2>4. \A q \in S : After(S, q) \in T
    OBVIOUS
  <2> QED
    BY <1>5, <1>6, <2>2, <2>3, <2>4
<1> QED
  BY <1>7, <1>8

-----------------------------------------------------------------------------
(***************************************************************************)
(* One page.                                                               *)
(***************************************************************************)
LEMMA PageOfRest ==
  /\ Page \subseteq Rest /\ Rest \subseteq Rows
  /\ \A id \in Rest : id \in Page <=> Cardinality(Before(Rest, id)) < limit.parsed
BY DEF Page, Rest, Before

\* A row before another has fewer before it.
LEMMA RankGrows ==
  ASSUME TypeOK, NEW a \in Rest, NEW b \in Rest
  PROVE  /\ Cardinality(Before(Rest, a)) \in Nat /\ Cardinality(Rest) \in Nat
         /\ Cardinality(Before(Rest, a)) < Cardinality(Rest)
         /\ Precedes(Position(a), Position(b)) =>
              Cardinality(Before(Rest, a)) <= Cardinality(Before(Rest, b))
<1>1. IsFiniteSet(Rest)
  BY IdsAssumption, FS_Subset DEF Rest, Rows
<1>2. \A q \in Rest : Position(q) \in Positions
  BY RowPosition, PageOfRest
<1>3. Before(Rest, a) \subseteq Rest /\ Before(Rest, b) \subseteq Rest
      /\ a \notin Before(Rest, a)
  BY <1>2, Orders DEF Before
<1>4. IsFiniteSet(Before(Rest, a)) /\ IsFiniteSet(Before(Rest, b))
      /\ Cardinality(Before(Rest, a)) <= Cardinality(Rest)
      /\ Cardinality(Before(Rest, a)) # Cardinality(Rest)
  BY <1>1, <1>3, FS_Subset
<1>5. Cardinality(Before(Rest, a)) \in Nat /\ Cardinality(Rest) \in Nat
  BY <1>1, <1>4, FS_CardinalityType
<1>6. ASSUME Precedes(Position(a), Position(b))
      PROVE  Cardinality(Before(Rest, a)) <= Cardinality(Before(Rest, b))
  <2>1. Before(Rest, a) \subseteq Before(Rest, b)
    BY <1>2, <1>6, Orders DEF Before
  <2> QED
    BY <1>4, <2>1, FS_Subset
<1> QED
  BY <1>4, <1>5, <1>6

\* A page is what comes first of the rest; its last row is before what is left.
LEMMA PageFacts ==
  ASSUME TypeOK
  PROVE  /\ Page # {} =>
              /\ Last \in Page
              /\ \A q \in Page : q = Last \/ Precedes(Position(q), Position(Last))
              /\ \A id \in Rest \ Page : Precedes(Position(Last), Position(id))
         /\ ~HasMore => Page = Rest
         /\ HasMore /\ limit.parsed > 0 => Page # {}
<1>1. limit.parsed \in Nat
  BY LimitsAssumption DEF TypeOK
<1>2. ASSUME NEW id \in Rest \ Page, NEW q \in Page
      PROVE  Precedes(Position(q), Position(id))
  <2>1. q \in Rest /\ id \in Rest /\ q # id
    BY PageOfRest
  <2>2. Precedes(Position(q), Position(id)) \/ Precedes(Position(id), Position(q))
    BY <2>1, PageOfRest, RowPosition, RowsDiffer, Orders
  <2>3. ~(Cardinality(Before(Rest, id)) < limit.parsed)
        /\ Cardinality(Before(Rest, q)) < limit.parsed
    BY <2>1, PageOfRest
  <2>4. Cardinality(Before(Rest, id)) \in Nat /\ Cardinality(Before(Rest, q)) \in Nat
    BY <2>1, RankGrows
  <2>5. ~Precedes(Position(id), Position(q))
    BY <1>1, <2>1, <2>3, <2>4, RankGrows
  <2> QED
    BY <2>2, <2>5
<1>3. ASSUME Page # {}
      PROVE  /\ Last \in Page
             /\ \A q \in Page : q = Last \/ Precedes(Position(q), Position(Last))
  BY <1>3, FirstAndLast, PageOfRest DEF Last
<1>4. ASSUME ~HasMore PROVE Page = Rest
  <2>1. ASSUME NEW id \in Rest PROVE id \in Page
    <3>1. Cardinality(Before(Rest, id)) < limit.parsed
      BY <1>1, <1>4, RankGrows DEF HasMore
    <3> QED
      BY <3>1, PageOfRest
  <2> QED
    BY <2>1, PageOfRest
<1>5. ASSUME HasMore, limit.parsed > 0 PROVE Page # {}
  <2>1. Rest # {}
    BY <1>1, <1>5, FS_EmptySet DEF HasMore
  <2>2. PICK id \in Rest : \A q \in Rest : q = id \/ Precedes(Position(id), Position(q))
    BY <2>1, FirstAndLast, PageOfRest
  <2>3. \A q \in Rest : Position(q) \in Positions
    BY RowPosition, PageOfRest
  <2>4. Before(Rest, id) = {}
    BY <2>2, <2>3, Orders DEF Before
  <2>5. Cardinality(Before(Rest, id)) < limit.parsed
    BY <1>1, <1>5, <2>4, FS_EmptySet
  <2> QED
    BY <2>2, <2>5, PageOfRest
<1> QED
  BY <1>2, <1>3, <1>4, <1>5

-----------------------------------------------------------------------------
(***************************************************************************)
(* The steps of the walk.                                                  *)
(***************************************************************************)
LEMMA InitOK == Init => IInv
<1> SUFFICES ASSUME Init PROVE IInv
  OBVIOUS
<1>1. TypeOK
  BY DEF Init, TypeOK
<1>2. GotOK /\ NewOK /\ WalkOK /\ NoRowTwice /\ SteadyRowsListed
  BY DEF Init, GotOK, NewOK, WalkOK, NoRowTwice, SteadyRowsListed
<1> QED
  BY <1>1, <1>2 DEF IInv

LEMMA RowNotNull == Null \notin Row /\ Null \notin Cursor
BY NamesAssumption

\* The cursor of a page that is not the last: its last row.
LEMMA CursorOK ==
  ASSUME IInv, Page # {}
  PROVE  /\ Position(Last) \in Cursor /\ Position(Last) # Null
         /\ \A id \in Page : ~Precedes(Position(Last), Position(id))
         /\ \A id \in Rest \ Page : Precedes(Position(Last), Position(id))
<1>1. Last \in Page /\ Last \in Rows
  BY PageFacts, PageOfRest DEF IInv
<1>2. \A id \in Rows : Position(id) \in Positions
  BY RowPosition DEF IInv
<1>3. Position(Last) \in Cursor
  <2>1. Last \in Ids /\ rows[Last] \in Row
    BY <1>1 DEF Rows, IInv, TypeOK
  <2> QED
    BY <2>1 DEF Position, Row, Cursor
<1>4. \A id \in Page : ~Precedes(Position(Last), Position(id))
  BY <1>1, <1>2, PageFacts, PageOfRest, Orders DEF IInv
<1> QED
  BY <1>1, <1>3, <1>4, RowNotNull, PageFacts DEF IInv

LEMMA FirstPageOK ==
  ASSUME IInv, FirstPage
  PROVE  IInv'
<1> USE DEF IInv
<1>1. state = "new" /\ steady = {} /\ cursor = Null /\ \A id \in Ids : got[id] = 0
  BY DEF FirstPage, NewOK
<1>2. UNCHANGED <<collection, who, filter, limit, rows, clock>>
  BY DEF FirstPage, request
<1>3. \A id \in Page : id \in Ids /\ rows[id] # Null
  BY PageOfRest DEF Rows
<1>4. CASE limit.number \notin 1..100
  <2>1. state' = "400" /\ UNCHANGED <<cursor, got, steady>>
    BY <1>4 DEF FirstPage
  <2>2. TypeOK'
    BY <1>2, <2>1 DEF TypeOK
  <2> QED
    BY <1>2, <2>1, <2>2 DEF GotOK, NewOK, WalkOK, NoRowTwice, SteadyRowsListed
<1>5. CASE limit.number \in 1..100
  <2>1. steady' = Rest /\ got' = [id \in Ids |-> IF id \in Page THEN 1 ELSE 0]
    BY <1>5 DEF FirstPage
  <2>2. \/ HasMore /\ Page # {} /\ state' = "walking" /\ cursor' = Position(Last)
        \/ ~(HasMore /\ Page # {}) /\ state' = "done" /\ UNCHANGED cursor
    BY <1>5 DEF FirstPage
  <2>3. cursor' \in Cursor \cup {Null}
    BY <2>2, CursorOK DEF TypeOK
  <2>4. Rest \subseteq Ids
    BY PageOfRest DEF Rows
  <2>5. TypeOK'
    BY <1>2, <2>1, <2>2, <2>3, <2>4 DEF TypeOK
  <2>6. GotOK' /\ NewOK' /\ NoRowTwice'
    BY <1>2, <1>3, <2>1, <2>2 DEF GotOK, NewOK, NoRowTwice
  <2>7. WalkOK'
    <3> SUFFICES ASSUME state' = "walking" PROVE WalkOK'
      BY DEF WalkOK
    <3>1. Page # {} /\ cursor' = Position(Last)
      BY <2>2
    <3>2. \A id \in Ids : Position(id)' = Position(id)
      BY <1>2 DEF Position
    <3>3. /\ cursor' # Null
          /\ \A id \in Ids : got'[id] # 0 => ~Precedes(cursor', Position(id))
      BY <2>1, <3>1, CursorOK
    <3>4. \A id \in steady' : /\ rows[id] # Null /\ Matches(rows[id]) /\ id \in Ids
                              /\ got'[id] # 0 \/ Precedes(cursor', Position(id))
      BY <2>1, <2>4, <3>1, CursorOK DEF Rest, Rows
    <3>5. \A id \in steady' : Matches(rows[id])'
      BY <1>2, <3>4 DEF Matches, Visible
    <3> QED
      BY <1>2, <2>4, <2>1, <3>2, <3>3, <3>4, <3>5 DEF WalkOK
  <2>8. SteadyRowsListed'
    <3> SUFFICES ASSUME state' = "done", limit.parsed > 0
                 PROVE  \A id \in steady' : got'[id] = 1
      BY <1>2 DEF SteadyRowsListed
    <3>1. Page = Rest
      BY <2>2, PageFacts
    <3> QED
      BY <2>1, <2>4, <3>1
  <2> QED
    BY <2>5, <2>6, <2>7, <2>8
<1> QED
  BY <1>4, <1>5

\* The next page starts after the cursor, so nothing on it was listed before,
\* and what it leaves out is after its own cursor.
LEMMA NextPageOK ==
  ASSUME IInv, NextPage
  PROVE  IInv'
<1> USE DEF IInv
<1>1. /\ state = "walking" /\ cursor # Null
      /\ \A id \in Ids : got[id] # 0 => rows[id] # Null /\ ~Precedes(cursor, Position(id))
      /\ \A id \in steady : /\ rows[id] # Null /\ Matches(rows[id])
                            /\ got[id] # 0 \/ Precedes(cursor, Position(id))
  BY DEF NextPage, WalkOK, GotOK
<1>2. UNCHANGED <<collection, who, filter, limit, rows, clock, steady>>
  BY DEF NextPage, request
<1>3. cursor \in Positions /\ \A id \in Rows : Position(id) \in Positions
  <2>1. cursor \in Positions
    BY <1>1, IdsAssumption DEF TypeOK, Positions, Cursor
  <2> QED
    BY <2>1, RowPosition
<1>4. \A id \in Page : id \in Ids /\ rows[id] # Null /\ Precedes(cursor, Position(id))
                       /\ got[id] = 0
  BY <1>1, PageOfRest DEF Rest, Rows
<1>5. /\ \A id \in Page : got'[id] = 1
      /\ \A id \in Ids \ Page : got'[id] = got[id]
  BY <1>4 DEF NextPage
<1>6. \/ HasMore /\ Page # {} /\ state' = "walking" /\ cursor' = Position(Last)
      \/ ~(HasMore /\ Page # {}) /\ state' = "done" /\ UNCHANGED cursor
  BY <1>1 DEF NextPage
<1>7. \A id \in Ids : got[id] \in {0, 1}
  BY DEF NoRowTwice, TypeOK
<1>8. TypeOK'
  <2>1. cursor' \in Cursor \cup {Null}
    BY <1>6, CursorOK DEF TypeOK
  <2>2. got' \in [Ids -> 0..2]
    BY <1>5, <1>7 DEF NextPage
  <2> QED
    BY <1>2, <1>6, <2>1, <2>2 DEF TypeOK
<1>9. GotOK' /\ NewOK'
  BY <1>1, <1>2, <1>4, <1>5, <1>6 DEF GotOK, NewOK
<1>10. NoRowTwice'
  BY <1>5, <1>7 DEF NoRowTwice
<1>11. steady \subseteq Ids /\ \A id \in steady : id \in Rest \/ got[id] # 0
  BY <1>1 DEF TypeOK, Rest, Rows
<1>12. WalkOK'
  <2> SUFFICES ASSUME state' = "walking" PROVE WalkOK'
    BY DEF WalkOK
  <2>1. Page # {} /\ cursor' = Position(Last)
    BY <1>6
  <2>2. Last \in Page /\ Last \in Rows /\ Precedes(cursor, Position(Last))
    BY <1>4, <2>1, PageFacts, PageOfRest
  <2>3. ASSUME NEW id \in Ids, got'[id] # 0
        PROVE  ~Precedes(cursor', Position(id))
    <3>1. CASE id \in Page
      BY <2>1, <3>1, CursorOK
    <3>2. CASE id \notin Page
      <4>1. id \in Rows /\ ~Precedes(cursor, Position(id))
        BY <1>1, <1>5, <2>3, <3>2 DEF Rows
      <4> QED
        BY <1>3, <2>1, <2>2, <4>1, Orders
    <3> QED
      BY <3>1, <3>2
  <2>4. ASSUME NEW id \in steady
        PROVE  got'[id] # 0 \/ Precedes(cursor', Position(id))
    BY <1>5, <1>11, <2>1, CursorOK
  <2>5. \A id \in Ids : Position(id)' = Position(id)
    BY <1>2 DEF Position
  <2>6. \A id \in steady : Matches(rows[id])'
    BY <1>1, <1>2 DEF Matches, Visible
  <2>7. cursor' # Null
    BY <2>1, CursorOK
  <2> QED
    BY <1>1, <1>2, <1>11, <2>3, <2>4, <2>5, <2>6, <2>7 DEF WalkOK
<1>13. SteadyRowsListed'
  <2> SUFFICES ASSUME state' = "done", limit.parsed > 0, NEW id \in steady
               PROVE  got'[id] = 1
    BY <1>2 DEF SteadyRowsListed
  <2>1. Page = Rest
    BY <1>6, PageFacts
  <2> QED
    BY <1>5, <1>7, <1>11, <2>1
<1> QED
  BY <1>8, <1>9, <1>10, <1>12, <1>13

-----------------------------------------------------------------------------
(***************************************************************************)
(* The steps of the others: a row that exists stays where it is.           *)
(***************************************************************************)
LEMMA WriteOK ==
  ASSUME IInv, NEW new \in [Ids -> Row \cup {Null}], Write(new),
         \A id \in Rows : new[id] # Null /\ new[id].created = rows[id].created
  PROVE  IInv'
<1> USE DEF IInv
<1>1. /\ rows' = new /\ steady' = {id \in steady : Matches(new[id])}
      /\ UNCHANGED <<collection, who, filter, limit, clock, state, cursor, got>>
  BY DEF Write, request, walk
<1>2. TypeOK' /\ NoRowTwice' /\ SteadyRowsListed' /\ NewOK'
  BY <1>1 DEF TypeOK, NoRowTwice, SteadyRowsListed, NewOK
<1>3. GotOK'
  BY <1>1 DEF GotOK, Rows
<1>4. \A id \in Rows : Position(id)' = Position(id)
  BY <1>1 DEF Position
<1>5. WalkOK'
  <2> SUFFICES ASSUME state = "walking" PROVE WalkOK'
    BY <1>1 DEF WalkOK
  <2>1. /\ cursor # Null
        /\ \A id \in Ids : got[id] # 0 => id \in Rows /\ ~Precedes(cursor, Position(id))
        /\ \A id \in steady : /\ id \in Rows
                              /\ got[id] # 0 \/ Precedes(cursor, Position(id))
    BY DEF WalkOK, GotOK, Rows, TypeOK
  <2>2. \A id \in steady' : id \in steady /\ Matches(rows'[id])
    BY <1>1
  <2>3. \A id \in steady' : Matches(rows[id])'
    BY <1>1, <2>2 DEF Matches, Visible
  <2> QED
    BY <1>1, <1>4, <2>1, <2>2, <2>3 DEF WalkOK, Rows
<1> QED
  BY <1>2, <1>3, <1>5

LEMMA OthersOK ==
  ASSUME IInv, NEW id \in Ids,
         \/ \E p \in People, o \in Outlets \cup {Null} : Insert(id, p, o)
         \/ \E o \in Outlets : TakeIn(id, o)
         \/ ChangeStatus(id)
  PROVE  IInv'
<1>1. rows \in [Ids -> Row \cup {Null}] /\ clock \in Nat
  BY DEF IInv, TypeOK
<1>2. CASE \E p \in People, o \in Outlets \cup {Null} : Insert(id, p, o)
  <2>1. PICK p \in People, o \in Outlets \cup {Null} : Insert(id, p, o)
    BY <1>2
  <2> DEFINE row == [created |-> clock, owner |-> p, outlet |-> o, status |-> "open"]
             new == [rows EXCEPT ![id] = row]
  <2>2. row \in Row
    BY <1>1 DEF Row
  <2>3. new \in [Ids -> Row \cup {Null}] /\ rows[id] = Null /\ Write(new)
    BY <1>1, <2>1, <2>2 DEF Insert
  <2>4. \A q \in Rows : new[q] # Null /\ new[q].created = rows[q].created
    BY <1>1, <2>3 DEF Rows
  <2> HIDE DEF new
  <2> QED
    BY <2>3, <2>4, WriteOK
<1>3. CASE \E o \in Outlets : TakeIn(id, o)
  <2>1. PICK o \in Outlets : TakeIn(id, o)
    BY <1>3
  <2> DEFINE row == [rows[id] EXCEPT !.outlet = o]
             new == [rows EXCEPT ![id].outlet = o]
  <2>2. rows[id] \in Row /\ rows[id] # Null /\ Write(new)
    BY <1>1, <2>1 DEF TakeIn
  <2>3. row \in Row /\ row.created = rows[id].created
    BY <2>2 DEF Row
  <2>4. new = [rows EXCEPT ![id] = row]
    BY <1>1
  <2> HIDE DEF row
  <2>5. new \in [Ids -> Row \cup {Null}]
    BY <1>1, <2>3, <2>4
  <2>6. \A q \in Rows : new[q] # Null /\ new[q].created = rows[q].created
    BY <1>1, <2>3, <2>4, RowNotNull DEF Rows
  <2> HIDE DEF new
  <2> QED
    BY <2>2, <2>5, <2>6, WriteOK
<1>4. CASE ChangeStatus(id)
  <2> DEFINE row == [rows[id] EXCEPT !.status = "closed"]
             new == [rows EXCEPT ![id].status = "closed"]
  <2>2. rows[id] \in Row /\ rows[id] # Null /\ Write(new)
    BY <1>1, <1>4 DEF ChangeStatus
  <2>3. row \in Row /\ row.created = rows[id].created
    BY <2>2 DEF Row
  <2>4. new = [rows EXCEPT ![id] = row]
    BY <1>1
  <2> HIDE DEF row
  <2>5. new \in [Ids -> Row \cup {Null}]
    BY <1>1, <2>3, <2>4
  <2>6. \A q \in Rows : new[q] # Null /\ new[q].created = rows[q].created
    BY <1>1, <2>3, <2>4, RowNotNull DEF Rows
  <2> HIDE DEF new
  <2> QED
    BY <2>2, <2>5, <2>6, WriteOK
<1> QED
  BY <1>2, <1>3, <1>4

-----------------------------------------------------------------------------
LEMMA NextStep == IInv /\ [Next]_vars => IInv'
<1> SUFFICES ASSUME IInv, [Next]_vars PROVE IInv'
  OBVIOUS
<1>1. CASE FirstPage
  BY <1>1, FirstPageOK
<1>2. CASE NextPage
  BY <1>2, NextPageOK
<1>3. CASE UNCHANGED <<request, rows, walk, steady>> /\ clock' \in Nat
  <2>1. /\ UNCHANGED <<collection, who, filter, limit, rows, state, cursor, got, steady>>
    BY <1>3 DEF request, walk
  <2>2. TypeOK' /\ GotOK' /\ NewOK' /\ NoRowTwice' /\ SteadyRowsListed'
    BY <1>3, <2>1 DEF IInv, TypeOK, GotOK, NewOK, NoRowTwice, SteadyRowsListed
  <2>3. WalkOK'
    BY <2>1 DEF IInv, WalkOK, Position, Matches, Visible
  <2> QED
    BY <2>2, <2>3 DEF IInv
<1>4. CASE Tick
  BY <1>3, <1>4 DEF Tick, IInv, TypeOK
<1>5. CASE UNCHANGED vars
  BY <1>3, <1>5 DEF vars, IInv, TypeOK
<1> QED
  BY <1>1, <1>2, <1>4, <1>5, OthersOK DEF Next

(* The inductive invariant of a walk holds in every state. *)
THEOREM WalkInvariance == Spec => []IInv
BY InitOK, NextStep, PTL DEF Spec

(* Rows keep the columns of the query, and a cursor is the position of a row. *)
THEOREM WalkTypes == Spec => []TypeOK
<1>1. IInv => TypeOK
  BY DEF IInv
<1> QED
  BY <1>1, WalkInvariance, PTL

(* However many rows there are and whatever happens to them between two pages,
   no row is on two pages (the comparison of the cursor with created_at and id
   in listForPrincipal). *)
THEOREM RowsListedOnce == Spec => []NoRowTwice
<1>1. IInv => NoRowTwice
  BY DEF IInv
<1> QED
  BY <1>1, WalkInvariance, PTL

(* However many rows there are, a walk that ended listed every row that matched
   all the time (ORDER BY, LIMIT + 1 and the cursor of the last row kept). *)
THEOREM WalkIsComplete == Spec => []SteadyRowsListed
<1>1. IInv => SteadyRowsListed
  BY DEF IInv
<1> QED
  BY <1>1, WalkInvariance, PTL
=============================================================================
