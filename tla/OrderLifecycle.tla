--------------------------- MODULE OrderLifecycle ---------------------------
(***************************************************************************)
(* What the service promises about an order, whatever requests arrive, fail*)
(* or crash: it is placed once, by its customer, unbound; it is taken in by*)
(* one outlet, for good; it is cancelled only before a driver could be on  *)
(* the way; and it is processed only by an outlet that has taken it in.    *)
(*                                                                         *)
(* This is the lifecycle the code implements.  It is not the table of      *)
(* docs/business-rules.md, which has more statuses and does not let a      *)
(* cancelled order be processed.                                           *)
(***************************************************************************)
CONSTANTS OrderIds, DomainIds, Cancellable, Null

VARIABLE order   \* for each id, Null or [customer, status, outlet]

Init == order = [o \in OrderIds |-> Null]

Place(o, customer) ==
  /\ order[o] = Null
  /\ order' = [order EXCEPT ![o] = [customer |-> customer,
                                    status   |-> "pending_pickup",
                                    outlet   |-> Null]]

TakeIn(o, outlet) ==
  /\ order[o] # Null
  /\ order[o].outlet = Null
  /\ order' = [order EXCEPT ![o].outlet = outlet]

Cancel(o) ==
  /\ order[o] # Null
  /\ order[o].status \in Cancellable
  /\ order' = [order EXCEPT ![o].status = "cancelled"]

Process(o) ==
  /\ order[o] # Null
  /\ order[o].outlet # Null
  /\ order' = [order EXCEPT ![o].status = "processing"]

Next ==
  \E o \in OrderIds :
    \/ \E c \in DomainIds : Place(o, c)
    \/ \E x \in DomainIds : TakeIn(o, x)
    \/ Cancel(o)
    \/ Process(o)

Spec == Init /\ [][Next]_order
=============================================================================
