------------------------ MODULE ServiceProcessProofs ------------------------
(***************************************************************************)
(* Proofs about ServiceProcess, for any number of starts, requests, kills  *)
(* and stop signals: whoever listens has the whole schema, and an orderly  *)
(* stop breaks no connection.                                              *)
(***************************************************************************)
EXTENDS ServiceProcess, TLAPS

\* Before it runs schema.sql, and after its end, a process is at its first
\* statement; while it runs, the statements it has behind it have been executed,
\* and a table of orders has the column the indexes need.
SchemaOK ==
  \A p \in Processes :
    /\ pc[p] \in {"down", "tables", "columns", "alter", "exited"} => next[p] = 1
    /\ pc[p] = "schema" =>
         /\ \A n \in 1..(next[p] - 1) : schemaSQL[n] \in file
         /\ "orders" \in file => "orders.outlet_id" \in file

\* Only a process that has listened has requests, and its handle is open; a
\* request waits with one process, and waits no more once it is answered or lost.
TrafficOK ==
  /\ \A p, q \in Processes : p # q => waiting[p] \cap waiting[q] = {}
  /\ \A p \in Processes :
    /\ waiting[p] \cap (answered \cup lost) = {}
    /\ waiting[p] # {} => pc[p] \in {"up", "stopping"}
    /\ pc[p] \notin {"down", "exited"} => open[p]

IInv == TypeOK /\ SchemaOK /\ TrafficOK /\ ServesCompleteSchema /\ StopsCleanly

-----------------------------------------------------------------------------
LEMMA SchemaLength ==
  /\ Len(schemaSQL) = 9
  /\ \A n \in 1..9 : schemaSQL[n] \in Schema
  /\ schemaSQL[1] = "orders"
  /\ Schema = {schemaSQL[n] : n \in 1..9} \cup {"orders.outlet_id"}
  /\ "orders" \in Schema /\ "orders.outlet_id" \in Schema
BY DEF schemaSQL, Schema

\* What a statement creates belongs to the schema, itself first of all.
LEMMA StatementCreates ==
  ASSUME NEW s \in Schema
  PROVE  Creates(s) \subseteq Schema /\ s \in Creates(s)
BY SchemaLength DEF Creates

LEMMA InitOK == Init => IInv
<1> SUFFICES ASSUME Init PROVE IInv
  OBVIOUS
<1>1. {} \subseteq Schema /\ P3Schema \subseteq Schema
  BY DEF P3Schema, Schema, schemaSQL
<1>2. TypeOK
  BY <1>1, SchemaLength DEF Init, TypeOK
<1>3. SchemaOK /\ TrafficOK /\ ServesCompleteSchema /\ StopsCleanly
  BY DEF Init, SchemaOK, TrafficOK, ServesCompleteSchema, StopsCleanly
<1> QED
  BY <1>2, <1>3 DEF IInv

\* An end that leaves no request behind loses none.
LEMMA NothingLost ==
  ASSUME IInv, NEW p \in Processes, waiting[p] = {}, lost' = lost \cup waiting[p],
         UNCHANGED <<crashes, timeouts>>
  PROVE  lost' # {} => crashes' + timeouts' > 0
BY DEF IInv, StopsCleanly

\* What the end of a process keeps.
LEMMA EndedOK ==
  ASSUME IInv, NEW p \in Processes, NEW where \in {"down", "exited"},
         NEW exit \in {0, 1, 134, 137}, Ended(p, where, exit), UNCHANGED file,
         crashes' \in Nat, signals' \in Nat, timeouts' \in Nat,
         where = "exited" => exit = 0,
         lost' # {} => crashes' + timeouts' > 0
  PROVE  IInv'
<1> USE DEF IInv, Ended
<1>1. TypeOK'
  <2>1. lost' \subseteq Requests \ answered'
    BY DEF TypeOK, TrafficOK
  <2> QED
    BY <2>1, SchemaLength DEF TypeOK
<1>2. SchemaOK'
  BY DEF SchemaOK, TypeOK
<1>3. TrafficOK'
  BY DEF TrafficOK, TypeOK
<1>4. ServesCompleteSchema'
  BY DEF ServesCompleteSchema, TypeOK
<1>5. StopsCleanly'
  <2>1. \A q \in Processes : pc'[q] = "exited" => code'[q] = 0
    BY DEF StopsCleanly, TypeOK
  <2> QED
    BY <2>1 DEF StopsCleanly
<1> QED
  BY <1>1, <1>2, <1>3, <1>4, <1>5

\* A statement of schema.sql leaves what it creates in the file, or ends the
\* process because a column is missing.
LEMMA StatementStep ==
  ASSUME IInv, NEW p \in Processes, RunStatement(p)
  PROVE  IInv'
<1> DEFINE s == schemaSQL[next[p]]
<1> USE DEF IInv, RunStatement
<1>1. next[p] \in 1..9 /\ s \in Schema
  BY SchemaLength DEF TypeOK
<1>2. CASE s \notin file /\ ~(Needs(s) \subseteq file)
  <2>1. Ended(p, "down", 1) /\ UNCHANGED <<file, crashes, signals, timeouts>>
    BY <1>2 DEF counts
  <2>2. waiting[p] = {}
    BY DEF TypeOK, TrafficOK
  <2>3. lost' # {} => crashes' + timeouts' > 0
    BY <2>1, <2>2, NothingLost DEF Ended
  <2> QED
    BY <2>1, <2>2, <2>3, EndedOK DEF TypeOK
<1>3. CASE ~(s \notin file /\ ~(Needs(s) \subseteq file))
  <2>1. /\ file' = IF s \in file THEN file ELSE file \cup Creates(s)
        /\ next' = [next EXCEPT ![p] = @ + 1]
        /\ UNCHANGED <<pc, open, code, port, waiting, answered, lost, crashes, signals, timeouts>>
    BY <1>3 DEF traffic, counts
  <2>2. file \subseteq file' /\ file' \subseteq Schema /\ s \in file'
    BY <1>1, <2>1, StatementCreates DEF TypeOK
  <2>3. "orders" \in file' => "orders" \in file \/ "orders.outlet_id" \in file'
    BY <2>1 DEF Creates
  <2>4. TypeOK'
    BY <1>1, <2>1, <2>2, SchemaLength DEF TypeOK
  <2>5. SchemaOK'
    <3> SUFFICES ASSUME NEW q \in Processes
                 PROVE  /\ pc[q] \in {"down", "tables", "columns", "alter", "exited"}
                              => next'[q] = 1
                        /\ pc[q] = "schema" =>
                             /\ \A n \in 1..(next'[q] - 1) : schemaSQL[n] \in file'
                             /\ "orders" \in file' => "orders.outlet_id" \in file'
      BY <2>1 DEF SchemaOK
    <3>1. CASE q = p
      BY <3>1, <1>1, <2>1, <2>2, <2>3 DEF SchemaOK, TypeOK
    <3>2. CASE q # p
      BY <3>2, <2>1, <2>2, <2>3 DEF SchemaOK, TypeOK
    <3> QED
      BY <3>1, <3>2
  <2>6. TrafficOK' /\ StopsCleanly'
    BY <2>1 DEF TrafficOK, StopsCleanly
  <2>7. ServesCompleteSchema'
    BY <2>1, <2>2 DEF ServesCompleteSchema
  <2> QED
    BY <2>4, <2>5, <2>6, <2>7
<1> QED
  BY <1>2, <1>3

LEMMA StartingStep ==
  ASSUME IInv, NEW p \in Processes, Starting(p)
  PROVE  IInv'
<1> USE DEF IInv
<1>1. CASE Start(p)
  <2> USE <1>1 DEF Start
  <2>1. TypeOK'
    BY DEF TypeOK, traffic, counts
  <2>2. SchemaOK' /\ TrafficOK'
    BY DEF TypeOK, SchemaOK, TrafficOK, traffic
  <2>3. ServesCompleteSchema' /\ StopsCleanly'
    BY DEF TypeOK, ServesCompleteSchema, StopsCleanly, traffic, counts
  <2> QED
    BY <2>1, <2>2, <2>3
<1>2. CASE CheckTable(p)
  <2> USE <1>2 DEF CheckTable, Goto
  <2>1. TypeOK'
    BY DEF TypeOK, traffic, counts
  <2>2. SchemaOK' /\ TrafficOK'
    BY DEF TypeOK, SchemaOK, TrafficOK, traffic
  <2>3. ServesCompleteSchema' /\ StopsCleanly'
    BY DEF TypeOK, ServesCompleteSchema, StopsCleanly, traffic, counts
  <2> QED
    BY <2>1, <2>2, <2>3
<1>3. CASE CheckColumns(p)
  <2> USE <1>3 DEF CheckColumns, Goto
  <2>1. TypeOK'
    BY DEF TypeOK, traffic, counts
  <2>2. SchemaOK' /\ TrafficOK'
    BY DEF TypeOK, SchemaOK, TrafficOK, traffic
  <2>3. ServesCompleteSchema' /\ StopsCleanly'
    BY DEF TypeOK, ServesCompleteSchema, StopsCleanly, traffic, counts
  <2> QED
    BY <2>1, <2>2, <2>3
<1>4. CASE AddColumn(p)
  <2> USE <1>4 DEF AddColumn
  <2>1. CASE "orders.outlet_id" \in file
    <3>1. Ended(p, "down", 1) /\ UNCHANGED <<file, crashes, signals, timeouts>>
      BY <2>1 DEF counts
    <3>2. waiting[p] = {}
      BY DEF TypeOK, TrafficOK
    <3>3. lost' # {} => crashes' + timeouts' > 0
      BY <3>1, <3>2, NothingLost DEF Ended
    <3> QED
      BY <3>1, <3>2, <3>3, EndedOK DEF TypeOK
  <2>2. CASE "orders.outlet_id" \notin file
    <3> USE <2>2 DEF Goto
    <3>1. TypeOK'
      BY SchemaLength DEF TypeOK, traffic, counts
    <3>2. SchemaOK' /\ TrafficOK'
      BY DEF TypeOK, SchemaOK, TrafficOK, traffic
    <3>3. ServesCompleteSchema' /\ StopsCleanly'
      BY SchemaLength DEF TypeOK, ServesCompleteSchema, StopsCleanly, traffic, counts
    <3> QED
      BY <3>1, <3>2, <3>3
  <2> QED
    BY <2>1, <2>2
<1>5. CASE RunStatement(p)
  BY <1>5, StatementStep
<1>6. CASE Listen(p)
  <2> USE <1>6 DEF Listen
  <2>1. CASE port = Nobody
    <3> USE <2>1 DEF Goto
    <3>1. file = Schema
      <4>1. \A n \in 1..9 : schemaSQL[n] \in file
        BY SchemaLength DEF SchemaOK
      <4>2. "orders.outlet_id" \in file
        BY <4>1, SchemaLength DEF SchemaOK
      <4> QED
        BY <4>1, <4>2, SchemaLength DEF TypeOK
    <3>2. TypeOK'
      BY DEF TypeOK, traffic, counts
    <3>3. SchemaOK' /\ TrafficOK'
      BY DEF TypeOK, SchemaOK, TrafficOK, traffic
    <3>4. ServesCompleteSchema' /\ StopsCleanly'
      BY <3>1 DEF TypeOK, ServesCompleteSchema, StopsCleanly, traffic, counts
    <3> QED
      BY <3>2, <3>3, <3>4
  <2>2. CASE port # Nobody
    <3>1. Ended(p, "down", 1) /\ UNCHANGED <<file, crashes, signals, timeouts>>
      BY <2>2 DEF counts
    <3>2. waiting[p] = {}
      BY DEF TypeOK, TrafficOK
    <3>3. lost' # {} => crashes' + timeouts' > 0
      BY <3>1, <3>2, NothingLost DEF Ended
    <3> QED
      BY <3>1, <3>2, <3>3, EndedOK DEF TypeOK
  <2> QED
    BY <2>1, <2>2
<1> QED
  BY <1>1, <1>2, <1>3, <1>4, <1>5, <1>6 DEF Starting

LEMMA NextStep ==
  ASSUME IInv, [Next]_vars
  PROVE  IInv'
<1> USE DEF IInv
<1>1. ASSUME NEW p \in Processes, Starting(p) PROVE IInv'
  BY <1>1, StartingStep
<1>2. ASSUME NEW p \in Processes, Signal(p) PROVE IInv'
  <2> USE <1>2 DEF Signal, Goto
  <2>1. TypeOK'
    BY DEF TypeOK, traffic
  <2>2. SchemaOK' /\ TrafficOK'
    BY DEF TypeOK, SchemaOK, TrafficOK, traffic
  <2>3. ServesCompleteSchema' /\ StopsCleanly'
    BY DEF TypeOK, ServesCompleteSchema, StopsCleanly, traffic
  <2> QED
    BY <2>1, <2>2, <2>3
<1>3. ASSUME NEW p \in Processes, ServerClosed(p) PROVE IInv'
  <2>1. ExitCode(p, closeDatabase(p)) = 0
    BY <1>3 DEF ExitCode, closeDatabase, TypeOK
  <2>2. lost' # {} => crashes' + timeouts' > 0
    BY <1>3, NothingLost DEF ServerClosed, Ended, counts
  <2> QED
    BY <1>3, <2>1, <2>2, EndedOK DEF ServerClosed, counts, TypeOK
<1>4. ASSUME NEW p \in Processes, Timeout(p) PROVE IInv'
  <2>1. ExitCode(p, closeDatabase(p)) = 0
    BY <1>4 DEF ExitCode, closeDatabase, TypeOK
  <2>2. crashes' + timeouts' > 0
    BY <1>4 DEF Timeout, TypeOK
  <2> QED
    BY <1>4, <2>1, <2>2, EndedOK DEF Timeout, TypeOK
<1>5. ASSUME NEW p \in Processes, Redeploy(p) PROVE IInv'
  <2> USE <1>5 DEF Redeploy, Goto
  <2>1. TypeOK'
    BY DEF TypeOK, traffic, counts
  <2>2. SchemaOK' /\ TrafficOK'
    BY DEF TypeOK, SchemaOK, TrafficOK, traffic
  <2>3. ServesCompleteSchema' /\ StopsCleanly'
    BY DEF TypeOK, ServesCompleteSchema, StopsCleanly, traffic, counts
  <2> QED
    BY <2>1, <2>2, <2>3
<1>6. ASSUME NEW p \in Processes, Crash(p) PROVE IInv'
  BY <1>6, EndedOK DEF Crash, TypeOK
<1>7. ASSUME NEW p \in Processes, NEW r \in Requests, Accept(p, r) PROVE IInv'
  <2> USE <1>7 DEF Accept, process
  <2>1. r \notin answered \cup lost /\ \A q \in Processes : r \notin waiting[q]
    OBVIOUS
  <2>2. TypeOK'
    BY DEF TypeOK, counts
  <2>3. SchemaOK' /\ TrafficOK'
    BY <2>1 DEF TypeOK, SchemaOK, TrafficOK
  <2>4. ServesCompleteSchema' /\ StopsCleanly'
    BY DEF TypeOK, ServesCompleteSchema, StopsCleanly, counts
  <2> QED
    BY <2>2, <2>3, <2>4
<1>8. ASSUME NEW p \in Processes, NEW r \in Requests, Handle(p, r) PROVE IInv'
  <2> USE <1>8 DEF Handle, process
  <2>1. open[p] /\ answered' = answered \cup {r} /\ lost' = lost
    BY DEF TrafficOK
  <2>2. TypeOK'
    BY <2>1 DEF TypeOK, TrafficOK, counts
  <2>3. SchemaOK' /\ TrafficOK'
    BY <2>1 DEF TypeOK, SchemaOK, TrafficOK
  <2>4. ServesCompleteSchema' /\ StopsCleanly'
    BY <2>1 DEF TypeOK, ServesCompleteSchema, StopsCleanly, counts
  <2> QED
    BY <2>2, <2>3, <2>4
<1>9. ASSUME UNCHANGED vars PROVE IInv'
  <2> USE <1>9 DEF vars, process, traffic, counts
  <2>1. TypeOK'
    BY DEF TypeOK
  <2>2. SchemaOK' /\ TrafficOK'
    BY DEF SchemaOK, TrafficOK
  <2>3. ServesCompleteSchema' /\ StopsCleanly'
    BY DEF ServesCompleteSchema, StopsCleanly
  <2> QED
    BY <2>1, <2>2, <2>3
<1> QED
  BY <1>1, <1>2, <1>3, <1>4, <1>5, <1>6, <1>7, <1>8, <1>9 DEF Next

-----------------------------------------------------------------------------
(* The inductive invariant holds in every reachable state. *)
THEOREM ProcessInvariance == Spec => []IInv
BY InitOK, NextStep, PTL DEF Spec

(* A process is at a point of its life, and every request is in one place
   (database.js, the end of app.js). *)
THEOREM ProcessTypes == Spec => []TypeOK
<1>1. IInv => TypeOK
  BY DEF IInv
<1> QED
  BY <1>1, ProcessInvariance, PTL

(* Whoever listens has every table, column and index, from whichever release
   the file came and whatever kills and other starts did to it (migrate and
   schema.sql before app.listen). *)
THEOREM CompleteSchemaServed == Spec => []ServesCompleteSchema
<1>1. IInv => ServesCompleteSchema
  BY DEF IInv
<1> QED
  BY <1>1, ProcessInvariance, PTL

(* Only a kill or the five-second timer breaks a connection, and a stop ends
   with exit code 0 (shutdown and closeDatabase). *)
THEOREM OrderlyStops == Spec => []StopsCleanly
<1>1. IInv => StopsCleanly
  BY DEF IInv
<1> QED
  BY <1>1, ProcessInvariance, PTL
=============================================================================
