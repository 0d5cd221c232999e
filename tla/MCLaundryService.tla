-------------------------- MODULE MCLaundryService --------------------------
(* Small instances of LaundryService for TLC. *)
EXTENDS LaundryProperties, TLC

CONSTANTS c1, c2,   \* customers
          sA, sB,   \* outlets, each also the identity of its staff member
          d1        \* a driver

\* The scopes Keycloak grants to each role (auth/keycloak/prepare.mjs).
Customer(c) == [domainId |-> c, outletId |-> Null,
                scopes |-> {"orders:read", "orders:write"}]
Staff(s)    == [domainId |-> s, outletId |-> s,
                scopes |-> {"orders:read", "pickups:read", "orders:fulfil"}]
Driver(d)   == [domainId |-> d, outletId |-> Null,
                scopes |-> {"pickups:read", "pickups:write"}]

OneOfEach   == {Customer(c1), Staff(sA), Driver(d1)}
TwoOutlets  == {Customer(c1), Staff(sA), Staff(sB)}
CustomerAndStaff == {Customer(c1), Staff(sA)}

\* What clients send: the body of a creation, of a dispatch, or neither.
Creation(c)    == [NoBody EXCEPT !.customer = c]
Dispatch(o, d) == [NoBody EXCEPT !.order = o, !.driver = d]
Dispatches     == {Dispatch(o, d1) : o \in OrderIds}

KeyedBodies  == {NoBody, Creation(c1)} \cup Dispatches
OutletBodies == {NoBody, Creation(c1), Creation(c2)} \cup Dispatches

\* Ids, keys and screens are interchangeable.
IdSymmetry == Permutations(OrderIds) \cup Permutations(PickupIds)
              \cup Permutations(Keys) \cup Permutations(Windows)
=============================================================================
