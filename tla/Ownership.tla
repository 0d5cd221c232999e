------------------------------ MODULE Ownership ------------------------------
(***************************************************************************)
(* Layer 3 of the service's authorization: which principal may reach which *)
(* row.  The predicates are those of service/src/auth/ownership.js; the    *)
(* last two are the WHERE clauses that order-store.js and pickup-store.js  *)
(* put around every list.                                                  *)
(*                                                                         *)
(* A principal is a record [domainId, outletId, scopes], an order row has  *)
(* the fields customer and outlet, a pickup row the field driver.          *)
(***************************************************************************)

CONSTANT Null   \* SQL NULL, an absent row, an absent header

(***************************************************************************)
(* Single objects.                                                         *)
(***************************************************************************)

\* Mutants: staff see every order; staff do not see the intake queue.
MayStaffSeeAnyOrder(p, row) == p.outletId # Null
MayStaffSeeOwnOrder(p, row) == p.outletId # Null /\ row.outlet = p.outletId

\* Staff see the orders of their own outlet and those no outlet has taken in.
MayStaffSeeOrder(p, row) ==
  /\ p.outletId # Null
  /\ row.outlet \in {Null, p.outletId}

MayClaimOrder(p, row) ==
  /\ "orders:fulfil" \in p.scopes
  /\ MayStaffSeeOrder(p, row)

\* The predicate reads assignment.driverId.  Its callers pass the row
\* pickup-store.getByOrderId returns, whose column is driver_id: the property
\* is undefined on every assignment.
AssignmentDriverId(assignment) == Null

MayReadOrder(p, row, assignment) ==
  \/ p.domainId = row.customer
  \/ MayStaffSeeOrder(p, row)
  \/ /\ assignment # Null
     /\ AssignmentDriverId(assignment) # Null
     /\ "pickups:write" \in p.scopes
     /\ AssignmentDriverId(assignment) = p.domainId

MayCancelOrder(p, row) == p.domainId = row.customer

MayCreateOrder(p, customerId) == p.domainId = customerId

MayCollectPickup(p, pickup) == pickup.driver = p.domainId

(***************************************************************************)
(* Lists.                                                                  *)
(***************************************************************************)

\* order-store.listForPrincipal
InOrderList(p, row) ==
  IF p.outletId # Null THEN row.outlet \in {p.outletId, Null}
                       ELSE row.customer = p.domainId

\* pickup-store.listForPrincipal; row is the order the pickup belongs to.
InPickupList(p, pickup, row) ==
  IF p.outletId # Null THEN row.outlet = p.outletId
                       ELSE pickup.driver = p.domainId
==============================================================================
