----------------------------- MODULE Submission -----------------------------
(***************************************************************************)
(* The two forms of the web client that create something: the new order of *)
(* a customer and the pickup assignment of staff.  Each keeps the          *)
(* idempotency key of what is being submitted in a ref, lets the user press*)
(* the button again at any time, and meets a network that loses requests   *)
(* and answers (new-order-section.tsx, dispatch in order-detail-section.tsx*)
(* and the keys of the service as AtMostOncePerKey of LaundryService       *)
(* leaves them).                                                           *)
(*                                                                         *)
(* An intent is one thing the user wants to happen once; an edition is what*)
(* the form held when it was sent.                                         *)
(***************************************************************************)
EXTENDS Naturals

CONSTANTS
  Slots,       \* requests that may be under way together
  MaxIntents,  \* bounds: intents,
  MaxEdits,    \*   changes of what the form holds,
  MaxDoubles,  \*   presses while a request is under way or has succeeded,
  MaxReloads,  \*   reloads of the page,
  MaxRefusals, \*   requests refused before their key is claimed,
  MaxFaults    \*   requests or answers lost, handlers that crash

ASSUME BoundsAssumption ==
  /\ MaxIntents \in Nat \ {0} /\ MaxEdits \in Nat /\ MaxDoubles \in Nat
  /\ MaxReloads \in Nat /\ MaxRefusals \in Nat /\ MaxFaults \in Nat

VARIABLES
  page,      \* "new order" or "dispatch"
  intent, edition,   \* what the user is at
  filled,    \* the form holds it
  key,       \* the ref: a key, or NoKey
  issued,    \* keys generated so far
  said,      \* the message: "nothing", "sending", "success" or "error"
  calls,     \* requests under way
  records,   \* service: what each key stands for
  performed, \* service: how often each intent was performed
  refilled,  \* history: the user filled an emptied form again, after an error
  edits, doubles, reloads, refusals, faults

form    == <<page, intent, edition, filled, key, issued, said>>
service == <<records, performed>>
counts  == <<refilled, edits, doubles, reloads, refusals, faults>>
vars    == <<form, calls, service, counts>>

NoKey   == 0
Intents == 1..MaxIntents
AllKeys == Nat \ {NoKey}
NoCall  == [key |-> NoKey]

Busy(s) == calls[s] # NoCall

Init ==
  /\ page \in {"new order", "dispatch"}
  /\ intent = 1 /\ edition = 0 /\ filled = TRUE
  /\ key = NoKey /\ issued = 0 /\ said = "nothing"
  /\ calls = [s \in Slots |-> NoCall]
  /\ records = {}
  /\ performed = [i \in Intents |-> 0]
  /\ refilled = FALSE
  /\ edits = 0 /\ doubles = 0 /\ reloads = 0 /\ refusals = 0 /\ faults = 0

\* A press nobody needs: the last attempt has not failed yet.
Unneeded == said = "success" \/ \E s \in Slots : Busy(s) /\ calls[s].heard

\* The key is generated by the first attempt, and kept until a success.
Submit(s) ==
  /\ filled /\ ~Busy(s)
  /\ IF Unneeded THEN doubles < MaxDoubles /\ doubles' = doubles + 1
                 ELSE UNCHANGED doubles
  /\ IF key = NoKey THEN key' = issued + 1 /\ issued' = issued + 1
                    ELSE UNCHANGED <<key, issued>>
  /\ said' = IF page = "new order" THEN "sending" ELSE said
  /\ calls' = [calls EXCEPT ![s] = [key |-> key', intent |-> intent, edition |-> edition,
                                    heard |-> TRUE, answer |-> "none"]]
  /\ UNCHANGED <<page, intent, edition, filled, service, refilled, edits, reloads,
                 refusals, faults>>

(***************************************************************************)
(* The service: the operation once per key, the answer again for the same  *)
(* request, 409 for another one or when a crash left the key in progress;  *)
(* and, for a key that is not known, 400, 422 or 404 without a claim of it.*)
(***************************************************************************)
Under(k) == {r \in records : r.key = k}

Record(c, state) == [key |-> c.key, intent |-> c.intent, edition |-> c.edition,
                     state |-> state]

Perform(c) == performed' = [performed EXCEPT ![c.intent] = @ + 1]

Serve(s) ==
  LET c == calls[s] IN
  /\ Busy(s) /\ c.answer = "none"
  /\ IF Under(c.key) = {}
       THEN /\ Perform(c) /\ records' = records \cup {Record(c, "completed")}
            /\ calls' = [calls EXCEPT ![s].answer = "ok"]
       ELSE /\ calls' = [calls EXCEPT ![s].answer =
                 IF Record(c, "completed") \in records THEN "ok" ELSE "409"]
            /\ UNCHANGED service
  /\ UNCHANGED <<form, counts>>

\* What the form holds is invalid, or the order is not the caller's: the key is
\* left unclaimed.
Reject(s) ==
  /\ Busy(s) /\ calls[s].answer = "none" /\ Under(calls[s].key) = {}
  /\ refusals < MaxRefusals
  /\ calls' = [calls EXCEPT ![s].answer = "4xx"]
  /\ refusals' = refusals + 1
  /\ UNCHANGED <<form, service, refilled, edits, doubles, reloads, faults>>

\* The process dies between the claim of the key and its completion.
CrashWhileServing(s) ==
  LET c == calls[s] IN
  /\ Busy(s) /\ c.answer = "none" /\ Under(c.key) = {} /\ faults < MaxFaults
  /\ records' = records \cup {Record(c, "processing")}
  /\ Perform(c) \/ UNCHANGED performed
  /\ calls' = [calls EXCEPT ![s].answer = "500"]
  /\ faults' = faults + 1
  /\ UNCHANGED <<form, refilled, edits, doubles, reloads, refusals>>

(***************************************************************************)
(* What the page sees.                                                     *)
(***************************************************************************)
\* Mutants: a conflict is taken for the success of an earlier attempt; a
\* success leaves the key.
SucceedOnConflict(s) ==
  /\ Busy(s) /\ calls[s].heard /\ calls[s].answer \in {"ok", "409"}
  /\ key' = NoKey /\ said' = "success"
  /\ filled' = (page = "new order" /\ filled)
  /\ calls' = [calls EXCEPT ![s] = NoCall]
  /\ UNCHANGED <<page, intent, edition, issued, service, counts>>

SucceedKeepingKey(s) ==
  /\ Busy(s) /\ calls[s].heard /\ calls[s].answer = "ok"
  /\ said' = "success"
  /\ filled' = (page = "new order" /\ filled)
  /\ calls' = [calls EXCEPT ![s] = NoCall]
  /\ UNCHANGED <<page, intent, edition, key, issued, service, counts>>

\* The ref is cleared by every success, whichever request it answers; the
\* dispatch form is emptied, the new order page is left.
Succeed(s) ==
  /\ Busy(s) /\ calls[s].heard /\ calls[s].answer = "ok"
  /\ key' = NoKey /\ said' = "success"
  /\ filled' = (page = "new order" /\ filled)
  /\ calls' = [calls EXCEPT ![s] = NoCall]
  /\ UNCHANGED <<page, intent, edition, issued, service, counts>>

\* Mutant: an error clears the key.
RefusedForgettingKey(s) ==
  /\ Busy(s) /\ calls[s].heard /\ calls[s].answer \in {"4xx", "409", "500"}
  /\ said' = "error" /\ key' = NoKey
  /\ calls' = [calls EXCEPT ![s] = NoCall]
  /\ UNCHANGED <<page, intent, edition, filled, issued, service, counts>>

Refused(s) ==
  /\ Busy(s) /\ calls[s].heard /\ calls[s].answer \in {"4xx", "409", "500"}
  /\ said' = "error"
  /\ calls' = [calls EXCEPT ![s] = NoCall]
  /\ UNCHANGED <<page, intent, edition, filled, key, issued, service, counts>>

\* The connection breaks; the service may still get, or have got, the request.
Break(s) ==
  /\ Busy(s) /\ calls[s].heard /\ faults < MaxFaults
  /\ said' = "error"
  /\ calls' = [calls EXCEPT ![s].heard = FALSE]
  /\ faults' = faults + 1
  /\ UNCHANGED <<page, intent, edition, filled, key, issued, service,
                 refilled, edits, doubles, reloads, refusals>>

\* A request nobody waits for any more disappears, served or not.
Vanish(s) ==
  /\ Busy(s) /\ ~calls[s].heard
  /\ calls' = [calls EXCEPT ![s] = NoCall]
  /\ UNCHANGED <<form, service, counts>>

Unheard == [s \in Slots |-> IF Busy(s) THEN [calls[s] EXCEPT !.heard = FALSE] ELSE NoCall]

\* After a success, or with an empty dispatch form, the user goes on: in that
\* form, or away from the page, whose ref and pending answers die with it.
GoOn ==
  /\ said = "success" \/ ~filled
  /\ intent < MaxIntents
  /\ intent' = intent + 1 /\ edition' = 0 /\ filled' = TRUE /\ said' = "nothing"
  /\ IF page = "new order" THEN key' = NoKey /\ calls' = Unheard
                           ELSE UNCHANGED <<key, calls>>
  /\ UNCHANGED <<page, issued, service, counts>>

\* The inputs are never disabled: what the form holds changes at any time.
Edit ==
  /\ filled /\ edits < MaxEdits
  /\ edition' = edition + 1 /\ edits' = edits + 1
  /\ UNCHANGED <<page, intent, filled, key, issued, said, calls, service,
                 refilled, doubles, reloads, refusals, faults>>

\* The last word was an error, but the form is empty: an earlier press succeeded.
Refill ==
  /\ said = "error" /\ ~filled
  /\ filled' = TRUE /\ refilled' = TRUE
  /\ UNCHANGED <<page, intent, edition, key, issued, said, calls, service,
                 edits, doubles, reloads, refusals, faults>>

Reload ==
  /\ said # "success" /\ reloads < MaxReloads
  /\ key' = NoKey /\ said' = "nothing" /\ filled' = TRUE
  /\ calls' = Unheard
  /\ reloads' = reloads + 1
  /\ UNCHANGED <<page, intent, edition, issued, service, refilled, edits, doubles,
                 refusals, faults>>

Next ==
  \/ GoOn \/ Edit \/ Refill \/ Reload
  \/ \E s \in Slots : \/ Submit(s) \/ Serve(s) \/ Reject(s) \/ CrashWhileServing(s)
                      \/ Succeed(s) \/ Refused(s) \/ Break(s) \/ Vanish(s)

Spec == Init /\ [][Next]_vars

-----------------------------------------------------------------------------
Call == [key : AllKeys, intent : Intents, edition : Nat, heard : BOOLEAN,
         answer : {"none", "ok", "4xx", "409", "500"}]

Recorded == [key : AllKeys, intent : Intents, edition : Nat,
             state : {"processing", "completed"}]

\* The form, its requests and the records have the shapes the code gives them.
TypeOK ==
  /\ page \in {"new order", "dispatch"}
  /\ intent \in Intents /\ edition \in Nat /\ filled \in BOOLEAN
  /\ issued \in Nat /\ key \in 0..issued
  /\ said \in {"nothing", "sending", "success", "error"}
  /\ calls \in [Slots -> Call \cup {NoCall}]
  /\ records \subseteq Recorded
  /\ performed \in [Intents -> Nat]
  /\ refilled \in BOOLEAN
  /\ edits \in Nat /\ doubles \in Nat /\ reloads \in Nat /\ refusals \in Nat /\ faults \in Nat

\* The dispatch form when nothing is lost, refused, edited or reloaded.
Smooth == page = "dispatch" /\ reloads = 0 /\ faults = 0 /\ refusals = 0 /\ edits = 0

(* Nothing the network or the service does makes an intent happen twice: that
   takes a reload, or an unneeded press of the button, and on the dispatch form,
   which a success empties, one that the user fills again because an error was
   the last word (the ??= of the key, cleared by a success only).  That does not
   happen when nothing is lost, refused, edited or reloaded; it does when a late
   422, or the 409 of what the form held before, follows the success. *)
PerformedOnce ==
  /\ reloads = 0 /\ (doubles = 0 \/ (page = "dispatch" /\ ~refilled)) =>
       \A i \in Intents : performed[i] <= 1
  /\ Smooth => ~refilled

(* The user is told of a success only when what is in the form has happened,
   unless the button was pressed twice: then the second answer to the last
   intent is taken for the answer to this one. *)
SuccessIsTrue ==
  said = "success" /\ doubles = 0 => performed[intent] > 0

(* A key is refused as used for another request only after what the form holds
   was changed; the keys of different intents never meet. *)
RefusedOnlyAfterEdit ==
  edits = 0 => \A s \in Slots, r \in records :
    Busy(s) /\ r.key = calls[s].key =>
      r.intent = calls[s].intent /\ r.edition = calls[s].edition
=============================================================================
