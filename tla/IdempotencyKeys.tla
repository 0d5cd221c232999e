-------------------------- MODULE IdempotencyKeys --------------------------
(***************************************************************************)
(* What the service promises about an Idempotency-Key, whatever is sent,   *)
(* repeated, fails or crashes: a key that is taken stands for one body and *)
(* one operation, performed at most once; it is taken again only when all  *)
(* that was performed under it is older than the retention period; and who *)
(* uses it is told of an operation only what was performed under the key   *)
(* as it is taken now, and told it again only during the retention period. *)
(*                                                                         *)
(* A key may stay taken without an answer: this contract does not promise  *)
(* that a handler finishes.                                                *)
(***************************************************************************)
EXTENDS Integers

CONSTANTS Keys, Bodies, Answers, Retention, Null

VARIABLES
  taken,     \* for each key, Null or [body, from, answer]
  performed, \* for each key, what was performed under it, and when it was taken
  now,       \* the clock
  told       \* Null, or [key, answer, again]: what the last answer said

vars == <<taken, performed, now, told>>

Init ==
  /\ taken = [k \in Keys |-> Null]
  /\ performed = [k \in Keys |-> {}]
  /\ now = 0
  /\ told = Null

InForce(k) == taken[k] # Null /\ now <= taken[k].from + Retention

Take(k) ==
  /\ taken[k] = Null
  /\ UNCHANGED <<performed, now, told>>
  /\ \E body \in Bodies, from \in 0..now :
       /\ \A e \in performed[k] : e.at + Retention < from
       /\ taken' = [taken EXCEPT ![k] =
                      [body |-> body, from |-> from, answer |-> Null]]

Perform(k) ==
  /\ taken[k] # Null
  /\ UNCHANGED <<taken, now, told>>
  /\ \A e \in performed[k] : e.at # taken[k].from
  /\ \E a \in Answers :
       performed' = [performed EXCEPT ![k] =
                       @ \cup {[answer |-> a, at |-> taken[k].from]}]

Complete(k) ==
  /\ taken[k] # Null /\ taken[k].answer = Null
  /\ UNCHANGED <<performed, now, told>>
  /\ \E e \in performed[k] :
       /\ e.at = taken[k].from
       /\ taken' = [taken EXCEPT ![k].answer = e.answer]

Tell(k) ==
  /\ taken[k] # Null /\ taken[k].answer # Null
  /\ told' = [key |-> k, answer |-> taken[k].answer, again |-> FALSE]
  /\ UNCHANGED <<taken, performed, now>>

TellAgain(k) ==
  /\ InForce(k) /\ taken[k].answer # Null
  /\ told' = [key |-> k, answer |-> taken[k].answer, again |-> TRUE]
  /\ UNCHANGED <<taken, performed, now>>

Release(k) ==
  /\ taken[k] # Null /\ ~InForce(k)
  /\ taken' = [taken EXCEPT ![k] = Null]
  /\ UNCHANGED <<performed, now, told>>

\* An answer that says nothing of a key, or a new request.
SayNothing == told' = Null /\ UNCHANGED <<taken, performed, now>>

Pass == now' = now + 1 /\ UNCHANGED <<taken, performed, told>>

Next ==
  \/ Pass
  \/ SayNothing
  \/ \E k \in Keys : \/ Tell(k) \/ TellAgain(k) \/ Release(k)
                     \/ Complete(k) \/ Perform(k) \/ Take(k)

Spec == Init /\ [][Next]_vars
=============================================================================
