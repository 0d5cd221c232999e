----------------------------- MODULE MCListWalk -----------------------------
(* Small instances of ListWalk for TLC. *)
EXTENDS ListWalk

\* limit=1, limit=2, limit=0x10, limit=101
SomeLimits == {[number |-> 1, parsed |-> 1], [number |-> 2, parsed |-> 2],
               [number |-> 16, parsed |-> 0], [number |-> 101, parsed |-> 101]}
=============================================================================
