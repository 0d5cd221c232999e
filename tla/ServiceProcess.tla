--------------------------- MODULE ServiceProcess ---------------------------
(***************************************************************************)
(* The life of a service process around its requests: it opens the SQLite  *)
(* file, migrates a database of an older release, runs schema.sql, listens,*)
(* serves, and is told to stop (database.js, schema.sql, the end of        *)
(* app.js, authenticate.js).  Two processes may be starting on one file.   *)
(*                                                                         *)
(* Every SQL statement commits by itself.  The file is the set of the      *)
(* tables, columns and indexes it has.                                     *)
(***************************************************************************)
EXTENDS Naturals, Sequences

CONSTANTS
  Processes,   \* starts of the service, on one machine, with one file
  Requests,    \* requests that arrive
  Nobody,      \* the owner of a free port
  MaxCrashes, MaxSignals   \* bounds: processes killed, stop signals sent

ASSUME NobodyAssumption == Nobody \notin Processes
ASSUME BoundsAssumption == MaxCrashes \in Nat /\ MaxSignals \in Nat

VARIABLES
  file,      \* the database file
  pc,        \* where each process stands
  next,      \* the statement of schema.sql it runs next
  open,      \* its database handle is open
  code,      \* its last exit code
  port,      \* the process listening
  waiting,   \* requests whose token each process is verifying
  answered,  \* requests answered
  lost,      \* requests whose connection broke without an answer
  crashes, signals, timeouts

process == <<pc, next, open, code>>
traffic == <<waiting, answered, lost>>
counts  == <<crashes, signals, timeouts>>
vars    == <<file, process, port, traffic, counts>>

\* CREATE ... IF NOT EXISTS, in the order of schema.sql.
schemaSQL == <<"orders", "idx_orders_status_created", "idx_orders_outlet_created",
               "idx_orders_customer_created", "pickups", "idx_pickups_driver_created",
               "idx_pickups_order", "cancellations", "idempotency_records">>

Schema == {schemaSQL[n] : n \in 1..Len(schemaSQL)} \cup {"orders.outlet_id"}

\* A new file, and one left by the release before outlets.
P3Schema == {"orders", "cancellations", "idempotency_records"}

Init ==
  /\ file \in {{}, P3Schema}
  /\ pc   = [p \in Processes |-> "down"]
  /\ next = [p \in Processes |-> 1]
  /\ open = [p \in Processes |-> FALSE]
  /\ code = [p \in Processes |-> 0]
  /\ port = Nobody
  /\ waiting = [p \in Processes |-> {}] /\ answered = {} /\ lost = {}
  /\ crashes = 0 /\ signals = 0 /\ timeouts = 0

Goto(p, where) == pc' = [pc EXCEPT ![p] = where] /\ UNCHANGED <<next, open, code>>

\* The process ends: the port and its connections go with it.
Ended(p, where, exit) ==
  /\ pc'   = [pc EXCEPT ![p] = where]
  /\ next' = [next EXCEPT ![p] = 1]
  /\ open' = [open EXCEPT ![p] = FALSE]
  /\ code' = [code EXCEPT ![p] = exit]
  /\ port' = IF port = p THEN Nobody ELSE port
  /\ waiting' = [waiting EXCEPT ![p] = {}]
  /\ lost' = lost \cup waiting[p]
  /\ UNCHANGED answered

\* new Database(dbPath)
Start(p) ==
  /\ pc[p] = "down"
  /\ pc'   = [pc EXCEPT ![p] = "tables"]
  /\ open' = [open EXCEPT ![p] = TRUE]
  /\ UNCHANGED <<file, next, code, port, traffic, counts>>

\* migrate(): is there an orders table, and has it the column?
CheckTable(p) ==
  /\ pc[p] = "tables"
  /\ Goto(p, IF "orders" \in file THEN "columns" ELSE "schema")
  /\ UNCHANGED <<file, port, traffic, counts>>

\* Mutant: a column that is missing is left to schema.sql.
CheckColumnsOnly(p) ==
  /\ pc[p] = "columns"
  /\ Goto(p, "schema")
  /\ UNCHANGED <<file, port, traffic, counts>>

CheckColumns(p) ==
  /\ pc[p] = "columns"
  /\ Goto(p, IF "orders.outlet_id" \in file THEN "schema" ELSE "alter")
  /\ UNCHANGED <<file, port, traffic, counts>>

\* Adding a column that exists meanwhile throws, and the process ends.
AddColumn(p) ==
  /\ pc[p] = "alter"
  /\ IF "orders.outlet_id" \in file THEN Ended(p, "down", 1) /\ UNCHANGED file
     ELSE /\ file' = file \cup {"orders.outlet_id"}
          /\ Goto(p, "schema") /\ UNCHANGED <<port, traffic>>
  /\ UNCHANGED counts

\* What a statement of schema.sql creates, and what it needs.
Creates(s) == IF s = "orders" THEN {"orders", "orders.outlet_id"} ELSE {s}
Needs(s)   == IF s = "idx_orders_outlet_created" THEN {"orders.outlet_id"} ELSE {}

RunStatement(p) ==
  LET s == schemaSQL[next[p]] IN
  /\ pc[p] = "schema" /\ next[p] <= Len(schemaSQL)
  /\ IF s \notin file /\ ~(Needs(s) \subseteq file)
       THEN Ended(p, "down", 1) /\ UNCHANGED file
       ELSE /\ file' = IF s \in file THEN file ELSE file \cup Creates(s)
            /\ next' = [next EXCEPT ![p] = @ + 1]
            /\ UNCHANGED <<pc, open, code, port, traffic>>
  /\ UNCHANGED counts

\* Mutant: the server listens before the schema has run to its end.
ListenEarly(p) ==
  /\ pc[p] = "schema"
  /\ IF port = Nobody THEN port' = p /\ Goto(p, "up") /\ UNCHANGED traffic
     ELSE Ended(p, "down", 1)
  /\ UNCHANGED <<file, counts>>

\* app.listen: a port that is taken throws.
Listen(p) ==
  /\ pc[p] = "schema" /\ next[p] = Len(schemaSQL) + 1
  /\ IF port = Nobody THEN port' = p /\ Goto(p, "up") /\ UNCHANGED traffic
     ELSE Ended(p, "down", 1)
  /\ UNCHANGED <<file, counts>>

\* authenticate awaits the verification of the token...
Accept(p, r) ==
  /\ pc[p] = "up"
  /\ r \notin answered \cup lost \cup UNION {waiting[q] : q \in Processes}
  /\ waiting' = [waiting EXCEPT ![p] = @ \cup {r}]
  /\ UNCHANGED <<file, process, port, answered, lost, counts>>

\* ...and the handler then runs to its end, on the database.
Handle(p, r) ==
  /\ r \in waiting[p]
  /\ waiting' = [waiting EXCEPT ![p] = @ \ {r}]
  /\ IF open[p] THEN answered' = answered \cup {r} /\ UNCHANGED lost
     ELSE lost' = lost \cup {r} /\ UNCHANGED answered
  /\ UNCHANGED <<file, process, port, counts>>

\* SIGTERM or SIGINT: the first one closes the server, later ones are ignored.
Signal(p) ==
  /\ pc[p] = "up" /\ signals < MaxSignals
  /\ Goto(p, "stopping")
  /\ port' = Nobody
  /\ signals' = signals + 1
  /\ UNCHANGED <<file, traffic, crashes, timeouts>>

\* Mutant: the handle is left to the runtime.
closeNothing(p) == open

\* closeDatabase(): the exit of a process whose handle is still open aborts.
closeDatabase(p) == [open EXCEPT ![p] = FALSE]
ExitCode(p, handles) == IF handles[p] THEN 134 ELSE 0

\* The callback of server.close: no connection is left.
ServerClosed(p) ==
  /\ pc[p] = "stopping" /\ waiting[p] = {}
  /\ Ended(p, "exited", ExitCode(p, closeDatabase(p)))
  /\ UNCHANGED <<file, counts>>

\* The timer of five seconds.
Timeout(p) ==
  /\ pc[p] = "stopping"
  /\ Ended(p, "exited", ExitCode(p, closeDatabase(p)))
  /\ timeouts' = timeouts + 1
  /\ UNCHANGED <<file, crashes, signals>>

\* The platform starts the service again after a redeploy.
Redeploy(p) ==
  /\ pc[p] = "exited"
  /\ Goto(p, "down")
  /\ UNCHANGED <<file, port, traffic, counts>>

\* The process is killed, or stopped before its handlers are installed.
Crash(p) ==
  /\ pc[p] \notin {"down", "exited"} /\ crashes < MaxCrashes
  /\ Ended(p, "down", 137)
  /\ crashes' = crashes + 1
  /\ UNCHANGED <<file, signals, timeouts>>

Starting(p) == Start(p) \/ CheckTable(p) \/ CheckColumns(p) \/ AddColumn(p)
                 \/ RunStatement(p) \/ Listen(p)

Next ==
  \E p \in Processes :
    \/ Starting(p) \/ Signal(p) \/ ServerClosed(p) \/ Timeout(p)
    \/ Redeploy(p) \/ Crash(p)
    \/ \E r \in Requests : Accept(p, r) \/ Handle(p, r)

\* The platform restarts what has ended; a token may be verified for ever.
Spec == /\ Init /\ [][Next]_vars
        /\ \A p \in Processes : /\ WF_vars(Starting(p)) /\ WF_vars(Redeploy(p))
                                /\ WF_vars(Timeout(p))

-----------------------------------------------------------------------------
\* A process is at a point of its life; requests are in one place each.
TypeOK ==
  /\ file \subseteq Schema
  /\ pc \in [Processes -> {"down", "tables", "columns", "alter", "schema", "up",
                           "stopping", "exited"}]
  /\ next \in [Processes -> 1..Len(schemaSQL) + 1]
  /\ open \in [Processes -> BOOLEAN] /\ code \in [Processes -> {0, 1, 134, 137}]
  /\ port \in Processes \cup {Nobody}
  /\ waiting \in [Processes -> SUBSET Requests]
  /\ answered \subseteq Requests /\ lost \subseteq Requests \ answered
  /\ crashes \in Nat /\ signals \in Nat /\ timeouts \in Nat

(* A process that listens has all its tables, columns and indexes, from
   whichever release the file came, at whichever statement an earlier start was
   killed, and whatever a second start did to the file meanwhile (migrate and
   schema.sql before app.listen). *)
ServesCompleteSchema == \A p \in Processes : pc[p] \in {"up", "stopping"} => file = Schema

(* A connection breaks without an answer only by a crash or by the five-second
   timer, never by an orderly stop, and a stop ends with exit code 0 (shutdown
   and closeDatabase). *)
StopsCleanly ==
  /\ lost # {} => crashes + timeouts > 0
  /\ \A p \in Processes : pc[p] = "exited" => code[p] = 0

(* The service comes up for good once the crashes and redeploys are over, even
   when two starts race to migrate the file and to take the port: a start that
   lost a race is repaired by the restart. *)
ComesUp == <>[](\E p \in Processes : pc[p] = "up")
=============================================================================
