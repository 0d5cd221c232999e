-------------------------- MODULE SubmissionProofs --------------------------
(***************************************************************************)
(* Proofs about Submission, for any number of requests, intents and        *)
(* mishaps: what the idempotency keys of the two forms achieve.            *)
(***************************************************************************)
EXTENDS Submission, TLAPS

\* What carries a key: a request under way, a record of the service.
Items == {calls[s] : s \in {t \in Slots : Busy(t)}} \cup records

Heard(s) == Busy(s) /\ calls[s].heard

\* Keys are generated one by one, and every key belongs to one intent; the ref
\* holds one of the current intent, and none after a success or with an empty form.
KeyOK ==
  /\ \A x \in Items : x.key \in 1..issued /\ x.intent \in 1..intent
  /\ \A x, y \in Items : x.key = y.key => x.intent = y.intent
  /\ key # NoKey => \A x \in Items : x.key = key => x.intent = intent
  /\ said = "success" => key = NoKey /\ (page = "dispatch" => ~filled)
  /\ ~filled => key = NoKey /\ page = "dispatch"

EditOK == edits = 0 => edition = 0 /\ \A x \in Items : x.edition = 0

\* Without unneeded presses the page hears one request at a time, for what is
\* in the form, and a form is empty after its success only.
HeardOK ==
  doubles = 0 =>
    /\ \A s, t \in Slots : Heard(s) /\ Heard(t) => s = t
    /\ \A s \in Slots : Heard(s) => calls[s].intent = intent /\ said # "success" /\ filled
    /\ ~filled => said = "success"

\* The dispatch form meets no error when nothing fails, is refused or is edited.
NoErrorOK ==
  Smooth =>
    /\ said # "error" /\ ~refilled
    /\ \A s \in Slots : Busy(s) => calls[s].answer \in {"none", "ok"}
    /\ \A r \in records : r.state = "completed"

\* An intent has one key, and none before it is first sent.
Calm == reloads = 0 /\ (doubles = 0 \/ (page = "dispatch" /\ ~refilled))

OneKeyOK ==
  Calm => /\ \A x, y \in Items : x.intent = y.intent => x.key = y.key
          /\ key # NoKey => \A x \in Items : x.intent = intent => x.key = key
          /\ key = NoKey /\ filled /\ said # "success" => \A x \in Items : x.intent # intent

Once == Calm => \A i \in Intents : performed[i] <= 1

\* What was performed is on record, and what is said to be done was performed.
DoneOK ==
  /\ \A i \in Intents : performed[i] > 0 => \E r \in records : r.intent = i
  /\ \A r \in records : r.state = "completed" => performed[r.intent] > 0
  /\ \A s \in Slots : Busy(s) /\ calls[s].answer = "ok" => performed[calls[s].intent] > 0

IInv == /\ TypeOK /\ KeyOK /\ EditOK /\ HeardOK /\ NoErrorOK /\ OneKeyOK /\ DoneOK
        /\ Once /\ SuccessIsTrue

-----------------------------------------------------------------------------
LEMMA CallItem ==
  ASSUME TypeOK, NEW s \in Slots, Busy(s)
  PROVE  /\ calls[s] \in Call /\ calls[s] \in Items
         /\ calls[s].intent \in Intents
BY DEF TypeOK, Items, Busy, Call

\* The items after a step are items before it, as far as their key goes.
SameItem(x, y) == x.key = y.key /\ x.intent = y.intent /\ x.edition = y.edition
ItemsKept      == \A x \in Items' : \E y \in Items : SameItem(x, y)

LEMMA OneCall ==
  ASSUME TypeOK, NEW s \in Slots, Busy(s), NEW c,
         calls' = [calls EXCEPT ![s] = c],
         c = NoCall \/ SameItem(c, calls[s]),
         \/ records' = records
         \/ \E state \in {"processing", "completed"} :
              records' = records \cup {Record(calls[s], state)}
  PROVE  ItemsKept
<1> SUFFICES ASSUME NEW x \in Items'
             PROVE  \E y \in Items : SameItem(x, y)
  BY DEF ItemsKept
<1>1. CASE x \in records
  BY <1>1 DEF Items, SameItem
<1>2. CASE x \in records' \ records
  <2>1. PICK state \in {"processing", "completed"} : x = Record(calls[s], state)
    BY <1>2
  <2> QED
    BY <2>1, CallItem DEF SameItem, Record
<1>3. CASE x \notin records'
  <2>1. PICK t \in Slots : x = calls'[t] /\ calls'[t] # NoCall
    BY <1>3 DEF Items, Busy
  <2>2. CASE t = s
    BY <2>1, <2>2, CallItem DEF TypeOK
  <2>3. CASE t # s
    <3>1. calls'[t] = calls[t] /\ Busy(t)
      BY <2>1, <2>3 DEF TypeOK, Busy
    <3> QED
      BY <2>1, <3>1, CallItem DEF SameItem
  <2> QED
    BY <2>2, <2>3
<1> QED
  BY <1>1, <1>2, <1>3

LEMMA AllUnheard ==
  ASSUME TypeOK, calls' = Unheard, records' = records
  PROVE  /\ ItemsKept
         /\ calls' \in [Slots -> Call \cup {NoCall}]
         /\ \A s \in Slots : Busy(s)' => /\ Busy(s) /\ ~calls'[s].heard
                                        /\ calls'[s].answer = calls[s].answer
                                        /\ calls'[s].intent = calls[s].intent
<1>1. \A s \in Slots : Busy(s) =>
        calls'[s] \in Call /\ SameItem(calls'[s], calls[s]) /\ ~calls'[s].heard
        /\ calls'[s].answer = calls[s].answer
  BY CallItem DEF Unheard, Call, SameItem
<1>2. \A s \in Slots : ~Busy(s) => calls'[s] = NoCall
  BY DEF Unheard
<1>3. ItemsKept
  <2> SUFFICES ASSUME NEW x \in Items'
               PROVE  \E y \in Items : SameItem(x, y)
    BY DEF ItemsKept
  <2>1. CASE x \in records
    BY <2>1 DEF Items, SameItem
  <2>2. CASE x \notin records
    <3>1. PICK s \in Slots : x = calls'[s] /\ calls'[s] # NoCall
      BY <2>2 DEF Items, Busy
    <3> QED
      BY <1>1, <1>2, <3>1, CallItem
  <2> QED
    BY <2>1, <2>2
<1>4. calls' \in [Slots -> Call \cup {NoCall}]
  BY <1>1, <1>2 DEF Unheard
<1>5. \A s \in Slots : Busy(s)' => Busy(s)
  BY <1>2 DEF Busy
<1> QED
  BY <1>1, <1>3, <1>4, <1>5 DEF SameItem

LEMMA Counts ==
  ASSUME TypeOK
  PROVE  /\ intent \in Nat /\ intent > 0 /\ edition \in Nat
         /\ issued \in Nat /\ key \in Nat /\ key <= issued
         /\ edits \in Nat /\ doubles \in Nat /\ reloads \in Nat /\ refusals \in Nat
         /\ faults \in Nat
<1>1. intent \in 1..MaxIntents /\ key \in 0..issued /\ issued \in Nat
  BY DEF TypeOK, Intents
<1>2. /\ edition \in Nat /\ edits \in Nat /\ doubles \in Nat /\ reloads \in Nat
      /\ refusals \in Nat /\ faults \in Nat
  BY DEF TypeOK
<1> QED
  BY <1>1, <1>2, BoundsAssumption

LEMMA FirstIntent == 1 \in Intents /\ NoKey \in 0..0 /\ 0 \in Nat
BY BoundsAssumption DEF Intents, NoKey

LEMMA InitOK == Init => IInv
<1> SUFFICES ASSUME Init PROVE IInv
  OBVIOUS
<1> USE DEF Init
<1>1. Items = {}
  BY DEF Items, Busy
<1>2. TypeOK
  BY FirstIntent DEF TypeOK
<1>3. KeyOK /\ EditOK /\ HeardOK /\ NoErrorOK /\ OneKeyOK
  BY <1>1 DEF KeyOK, EditOK, HeardOK, Heard, Busy, NoErrorOK, OneKeyOK
<1>4. DoneOK /\ Once /\ SuccessIsTrue
  <2>1. \A i \in Intents : performed[i] <= 1 /\ ~(performed[i] > 0)
    <3>1. \A i \in Intents : performed[i] = 0
      OBVIOUS
    <3> HIDE DEF Init
    <3> QED
      BY <3>1
  <2>2. records = {} /\ \A s \in Slots : ~Busy(s)
    BY DEF Busy
  <2> HIDE DEF Init
  <2> QED
    BY <2>1, <2>2 DEF DoneOK, Once, SuccessIsTrue, Init
<1> QED
  BY <1>2, <1>3, <1>4 DEF IInv

\* A new key is nobody's; an old one is the current intent's.
LEMMA SubmitStep ==
  ASSUME IInv, NEW s \in Slots, Submit(s)
  PROVE  IInv'
<1> USE DEF IInv
<1> DEFINE c == calls'[s]
<1>1. /\ key' # NoKey /\ key' \in 1..issued' /\ issued' \in Nat
      /\ issued <= issued'
      /\ \/ key' = key
         \/ key' = issued + 1 /\ key = NoKey /\ issued' = issued + 1
  <2>1. \/ key = NoKey /\ key' = issued + 1 /\ issued' = issued + 1
        \/ key # NoKey /\ key' = key /\ issued' = issued
    BY DEF Submit
  <2> QED
    BY <2>1, Counts DEF NoKey
<1>2. /\ c = [key |-> key', intent |-> intent, edition |-> edition,
              heard |-> TRUE, answer |-> "none"]
      /\ c \in Call /\ c # NoCall
      /\ \A t \in Slots : t # s => calls'[t] = calls[t]
      /\ calls' \in [Slots -> Call \cup {NoCall}]
  <2> DEFINE d == [key |-> key', intent |-> intent, edition |-> edition,
                   heard |-> TRUE, answer |-> "none"]
  <2>1. d \in Call /\ d # NoCall
    <3>1. key' \in AllKeys /\ key' # 0
      BY <1>1 DEF AllKeys, NoKey
    <3>2. intent \in Intents /\ edition \in Nat
      BY DEF TypeOK
    <3> QED
      BY <3>1, <3>2 DEF Call, NoKey, NoCall
  <2>2. calls' = [calls EXCEPT ![s] = d]
    BY DEF Submit
  <2> HIDE DEF d
  <2>3. c = d
    BY <2>2 DEF TypeOK
  <2>4. calls' \in [Slots -> Call \cup {NoCall}] /\ \A t \in Slots : t # s => calls'[t] = calls[t]
    BY <2>1, <2>2 DEF TypeOK
  <2> QED
    BY <2>1, <2>3, <2>4 DEF d
<1> HIDE DEF c
<1>3. \A x \in Items' : x = c \/ x \in Items
  BY <1>2 DEF Items, Busy, Submit, service, c
<1>4. c.key = key' /\ c.intent = intent /\ c.edition = edition /\ c.heard /\ c.answer = "none"
  BY <1>2
<1>5. /\ UNCHANGED <<page, intent, edition, filled, records, performed, refilled, edits,
                     reloads, refusals, faults>>
      /\ said' \in {said, "sending"} /\ filled /\ ~Busy(s)
  BY DEF Submit, service
<1>6. \/ Unneeded /\ doubles' = doubles + 1
      \/ ~Unneeded /\ doubles' = doubles
  BY DEF Submit
<1>7. TypeOK'
  <2>1. doubles' \in Nat /\ key' \in 0..issued'
    BY <1>1, <1>6, Counts
  <2> QED
    BY <1>1, <1>2, <1>5, <2>1 DEF TypeOK
<1>8. intent \in 1..intent /\ intent \in Nat
  BY Counts
<1>9. key = NoKey /\ key' # key => \A x \in Items : x.key # key'
  <2>1. \A x \in Items : x.key \in 1..issued
    BY DEF KeyOK
  <2> QED
    BY <1>1, <2>1, Counts
<1>10. KeyOK'
  <2>1. \A x \in Items' : x.key \in 1..issued' /\ x.intent \in 1..intent
    <3> SUFFICES ASSUME NEW x \in Items'
                 PROVE  x.key \in 1..issued' /\ x.intent \in 1..intent
      OBVIOUS
    <3>1. CASE x = c
      BY <1>1, <1>4, <1>8, <3>1
    <3>2. CASE x \in Items
      <4>1. x.key \in 1..issued /\ x.intent \in 1..intent
        BY <3>2 DEF KeyOK
      <4> QED
        BY <1>1, <4>1, Counts
    <3> QED
      BY <1>3, <3>1, <3>2
  <2>2. \A x \in Items : x.key = key' => x.intent = intent
    BY <1>1, <1>9 DEF KeyOK
  <2>3. \A x, y \in Items' : x.key = y.key => x.intent = y.intent
    BY <1>3, <1>4, <2>2 DEF KeyOK
  <2>4. \A x \in Items' : x.key = key' => x.intent = intent
    BY <1>3, <1>4, <2>2
  <2>5. said' # "success"
    <3>1. CASE page = "new order"
      BY <3>1 DEF Submit
    <3>2. CASE page # "new order"
      BY <1>5, <3>2 DEF Submit, TypeOK, KeyOK
    <3> QED
      BY <3>1, <3>2
  <2> QED
    BY <1>5, <2>1, <2>3, <2>4, <2>5 DEF KeyOK
<1>11. said' # "success"
  BY <1>1, <1>10 DEF KeyOK
<1>12. doubles' = 0 => doubles = 0 /\ ~Unneeded
  BY <1>6, Counts
<1>13. EditOK'
  BY <1>3, <1>4, <1>5 DEF EditOK
<1>14. HeardOK'
  BY <1>2, <1>4, <1>11, <1>12 DEF HeardOK, Heard, Busy, Unneeded, c, Submit
<1>15. NoErrorOK'
  <2>1. \A t \in Slots : Busy(t)' => \/ Busy(t) /\ calls'[t].answer = calls[t].answer
                                    \/ calls'[t].answer = "none"
    BY <1>2, <1>4 DEF Busy, c
  <2>2. Smooth' => Smooth
    BY <1>5 DEF Smooth
  <2> QED
    BY <1>5, <2>1, <2>2 DEF NoErrorOK
<1>16. OneKeyOK'
  <2>1. Calm' => Calm
    BY <1>5, <1>12 DEF Calm
  <2>2. ASSUME Calm', NEW x \in Items, x.intent = intent PROVE x.key = key'
    <3>1. CASE key # NoKey
      BY <1>1, <2>1, <2>2, <3>1 DEF OneKeyOK
    <3>2. CASE key = NoKey
      <4>1. said # "success"
        BY <1>5, <1>12, <2>2 DEF Calm, KeyOK, TypeOK, Unneeded
      <4> QED
        BY <1>5, <2>1, <2>2, <3>2, <4>1 DEF OneKeyOK
    <3> QED
      BY <3>1, <3>2
  <2>3. ASSUME Calm', NEW x \in Items', NEW y \in Items', x.intent = y.intent PROVE x.key = y.key
    <3>1. CASE x \in Items /\ y \in Items
      BY <2>1, <2>3, <3>1 DEF OneKeyOK
    <3>2. CASE x = c \/ y = c
      BY <1>3, <1>4, <2>2, <2>3, <3>2
    <3> QED
      BY <1>3, <3>1, <3>2
  <2>4. ASSUME Calm', NEW x \in Items', x.intent = intent PROVE x.key = key'
    BY <1>3, <1>4, <2>2, <2>4
  <2> QED
    BY <1>1, <1>5, <2>3, <2>4 DEF OneKeyOK
<1>17. DoneOK' /\ Once'
  <2>1. DoneOK'
    BY <1>2, <1>4, <1>5 DEF DoneOK, Busy, c
  <2>2. Once'
    BY <1>5, <1>12 DEF Once, Calm
  <2> QED
    BY <2>1, <2>2
<1>18. SuccessIsTrue'
  BY <1>11 DEF SuccessIsTrue
<1> QED
  BY <1>7, <1>10, <1>13, <1>14, <1>15, <1>16, <1>17, <1>18

(***************************************************************************)
(* The service.                                                            *)
(***************************************************************************)
\* Under one key there is one intent; a calm intent is performed under one key.
LEMMA PerformStep ==
  ASSUME IInv, NEW s \in Slots, Busy(s), Under(calls[s].key) = {}
  PROVE  Calm => \A r \in records : r.intent # calls[s].intent
<1> SUFFICES ASSUME Calm, NEW r \in records, r.intent = calls[s].intent PROVE FALSE
  OBVIOUS
<1>1. r \in Items /\ calls[s] \in Items
  BY CallItem DEF Items, IInv
<1>2. r.key = calls[s].key
  BY <1>1 DEF IInv, OneKeyOK
<1> QED
  BY <1>2 DEF Under

\* What the steps of the service do to the keys and to the form: nothing.
LEMMA KeptStep ==
  ASSUME KeyOK, EditOK, OneKeyOK, HeardOK, ItemsKept, doubles \in Nat,
         UNCHANGED <<page, intent, edition, filled, key, issued, said, refilled, edits,
                     doubles, reloads>>,
         \A t \in Slots : Heard(t)' => Heard(t) /\ calls'[t].intent = calls[t].intent
  PROVE  KeyOK' /\ EditOK' /\ OneKeyOK' /\ HeardOK'
<1>1. KeyOK'
  BY DEF KeyOK, ItemsKept, SameItem
<1>2. EditOK'
  BY DEF EditOK, ItemsKept, SameItem
<1>4. OneKeyOK'
  BY DEF OneKeyOK, Calm, ItemsKept, SameItem
<1>5. HeardOK'
  BY DEF HeardOK
<1> QED
  BY <1>1, <1>2, <1>4, <1>5

LEMMA ServeStep ==
  ASSUME IInv, NEW s \in Slots, Serve(s) \/ Reject(s) \/ CrashWhileServing(s)
  PROVE  IInv'
<1> USE DEF IInv
<1> DEFINE c == calls[s]
           d == calls'[s]
<1>1. /\ Busy(s) /\ c \in Call /\ c \in Items /\ c.intent \in Intents /\ c.answer = "none"
      /\ UNCHANGED <<page, intent, edition, filled, key, issued, said, refilled, edits,
                     doubles, reloads>>
  BY CallItem DEF Serve, Reject, CrashWhileServing, form, counts
<1>2. PICK a \in {"ok", "4xx", "409", "500"} :
        /\ calls' = [calls EXCEPT ![s].answer = a]
        /\ a = "ok" => Record(c, "completed") \in records'
        /\ \/ UNCHANGED <<records, performed>>
           \/ /\ Under(c.key) = {}
              /\ \E state \in {"processing", "completed"} :
                   /\ records' = records \cup {Record(c, state)}
                   /\ Perform(c) \/ (UNCHANGED performed /\ state = "processing")
        /\ \/ faults' = faults + 1 /\ refusals' = refusals
           \/ faults' = faults /\ refusals' = refusals + 1
           \/ /\ faults' = faults /\ refusals' = refusals /\ a \notin {"4xx", "500"}
              /\ records' \subseteq records \cup {Record(c, "completed")}
              /\ a = "409" => Under(c.key) # {} /\ Record(c, "completed") \notin records
  <2>1. CASE Serve(s) /\ Under(c.key) = {}
    BY <2>1 DEF Serve, counts
  <2>2. CASE Serve(s) /\ Under(c.key) # {}
    <3>1. CASE Record(c, "completed") \in records
      BY <2>2, <3>1 DEF Serve, counts, service
    <3>2. CASE Record(c, "completed") \notin records
      BY <2>2, <3>2 DEF Serve, counts, service
    <3> QED
      BY <3>1, <3>2
  <2>3. CASE CrashWhileServing(s)
    BY <2>3 DEF CrashWhileServing
  <2>4. CASE Reject(s)
    BY <2>4 DEF Reject, service
  <2> QED
    BY <2>1, <2>2, <2>3, <2>4
<1>3. /\ d = [c EXCEPT !.answer = a] /\ d \in Call /\ SameItem(d, c) /\ d # NoCall
      /\ d.heard = c.heard /\ d.answer = a
      /\ calls' = [calls EXCEPT ![s] = d]
  <2>1. calls' = [calls EXCEPT ![s] = [c EXCEPT !.answer = a]]
    BY <1>2
  <2>2. d = [c EXCEPT !.answer = a]
    BY <2>1 DEF TypeOK
  <2>3. d \in Call /\ d.key = c.key /\ d.intent = c.intent /\ d.edition = c.edition
          /\ d.heard = c.heard /\ d.answer = a
    BY <1>1, <2>2 DEF Call
  <2>4. d # NoCall
    BY <2>3 DEF Call, NoCall, AllKeys, NoKey
  <2> QED
    BY <2>1, <2>2, <2>3, <2>4 DEF SameItem
<1>4. \A t \in Slots : calls'[t] = (IF t = s THEN d ELSE calls[t]) /\ Busy(t)' = Busy(t)
  BY <1>1, <1>3 DEF TypeOK, Busy
<1> HIDE DEF d, c
<1>5. ItemsKept
  BY <1>1, <1>2, <1>3, OneCall DEF c
<1>6. /\ doubles \in Nat /\ faults \in Nat /\ faults' \in Nat
      /\ refusals \in Nat /\ refusals' \in Nat
  BY <1>2, Counts
<1>7. KeyOK' /\ EditOK' /\ OneKeyOK' /\ HeardOK'
  BY <1>1, <1>2, <1>3, <1>4, <1>5, <1>6, KeptStep DEF Heard, SameItem, c
<1>8. \A state \in {"processing", "completed"} : Record(c, state) \in Recorded
  BY <1>1 DEF Record, Recorded, Call
<1>9. /\ performed' \in [Intents -> Nat]
      /\ \A i \in Intents : performed'[i] >= performed[i]
      /\ \A i \in Intents : i # c.intent => performed'[i] = performed[i]
  <2>1. performed \in [Intents -> Nat]
    BY DEF TypeOK
  <2>2. CASE performed' = performed
    BY <2>1, <2>2
  <2>3. CASE Perform(c)
    BY <1>1, <2>1, <2>3 DEF Perform
  <2> QED
    BY <1>2, <2>2, <2>3
<1>10. TypeOK'
  <2>1. calls' \in [Slots -> Call \cup {NoCall}]
    BY <1>3 DEF TypeOK
  <2>2. records' \subseteq Recorded
    BY <1>2, <1>8 DEF TypeOK
  <2> QED
    BY <1>1, <1>6, <1>9, <2>1, <2>2 DEF TypeOK
<1>11. NoErrorOK'
  <2> SUFFICES ASSUME Smooth' PROVE NoErrorOK'
    BY DEF NoErrorOK
  <2>1. Smooth /\ faults' # faults + 1 /\ refusals' # refusals + 1
    BY <1>1, <1>2, <1>6 DEF Smooth
  <2>2. a # "409"
    <3> SUFFICES ASSUME NEW r \in Under(c.key), a = "409" PROVE FALSE
      BY <1>2, <2>1
    <3>1. r \in records /\ r \in Items /\ r.key = c.key /\ r \in Recorded
      BY DEF Under, Items, TypeOK
    <3>2. r.intent = c.intent
      BY <1>1, <3>1 DEF KeyOK
    <3>3. r.edition = 0 /\ c.edition = 0 /\ r.state = "completed"
      BY <1>1, <2>1, <3>1 DEF NoErrorOK, EditOK, Smooth
    <3>4. r = Record(c, "completed")
      BY <3>1, <3>2, <3>3 DEF Record, Recorded
    <3> QED
      BY <1>2, <2>1, <3>1, <3>4
  <2>3. a = "ok" /\ records' \subseteq records \cup {Record(c, "completed")}
    BY <1>2, <2>1, <2>2
  <2>4. \A r \in records' : r.state = "completed"
    BY <2>1, <2>3 DEF NoErrorOK, Record
  <2>5. \A t \in Slots : Busy(t)' => calls'[t].answer \in {"none", "ok"}
    BY <1>3, <1>4, <2>1, <2>3 DEF NoErrorOK
  <2> QED
    BY <1>1, <2>1, <2>4, <2>5 DEF NoErrorOK
<1>12. DoneOK'
  <2>1. c.intent \in Intents /\ records \subseteq records'
    BY <1>1, <1>2
  <2>2. \A i \in Intents : performed'[i] > 0 => \E r \in records' : r.intent = i
    <3> SUFFICES ASSUME NEW i \in Intents, performed'[i] > 0
                 PROVE  \E r \in records' : r.intent = i
      OBVIOUS
    <3>1. CASE performed' = performed
      BY <2>1, <3>1 DEF DoneOK
    <3>2. CASE performed' # performed
      <4>1. PICK state \in {"processing", "completed"} : Record(c, state) \in records'
        BY <1>2, <3>2
      <4>2. CASE i = c.intent
        BY <4>1, <4>2 DEF Record
      <4>3. CASE i # c.intent
        BY <1>9, <2>1, <4>3 DEF DoneOK
      <4> QED
        BY <4>2, <4>3
    <3> QED
      BY <3>1, <3>2
  <2>3. \A r \in records' : r.state = "completed" => performed'[r.intent] > 0
    <3> SUFFICES ASSUME NEW r \in records', r.state = "completed"
                 PROVE  performed'[r.intent] > 0
      OBVIOUS
    <3>1. CASE r \in records
      <4>1. r.intent \in Intents /\ performed[r.intent] > 0 /\ performed[r.intent] \in Nat
        BY <3>1 DEF DoneOK, TypeOK, Recorded
      <4> QED
        BY <1>9, <4>1
    <3>2. CASE r \notin records
      <4>1. r.intent = c.intent /\ Perform(c)
        BY <1>2, <3>2 DEF Record
      <4>2. performed'[c.intent] = performed[c.intent] + 1 /\ performed[c.intent] \in Nat
        BY <2>1, <4>1 DEF Perform, TypeOK
      <4> QED
        BY <4>1, <4>2
    <3> QED
      BY <3>1, <3>2
  <2>4. ASSUME NEW t \in Slots, Busy(t)', calls'[t].answer = "ok"
        PROVE  performed'[calls'[t].intent] > 0
    <3>1. CASE t = s
      <4>1. Record(c, "completed") \in records' /\ calls'[t].intent = c.intent
        BY <1>2, <1>3, <1>4, <2>4, <3>1 DEF SameItem
      <4> QED
        BY <2>3, <4>1 DEF Record
    <3>2. CASE t # s
      <4>1. /\ Busy(t) /\ calls'[t] = calls[t] /\ calls[t].intent \in Intents
            /\ performed[calls[t].intent] > 0 /\ performed[calls[t].intent] \in Nat
        BY <1>4, <2>4, <3>2, CallItem DEF DoneOK, TypeOK
      <4> QED
        BY <1>9, <4>1
    <3> QED
      BY <3>1, <3>2
  <2> QED
    BY <2>2, <2>3, <2>4 DEF DoneOK
<1>13. Once'
  <2> SUFFICES ASSUME Calm', NEW i \in Intents
               PROVE  performed'[i] <= 1
    BY DEF Once
  <2>1. Calm /\ performed[i] <= 1 /\ performed[i] \in Nat
    BY <1>1 DEF Calm, Once, TypeOK
  <2>2. CASE performed'[i] = performed[i]
    BY <2>1, <2>2
  <2>3. CASE performed'[i] # performed[i]
    <3>1. i = c.intent /\ Perform(c) /\ Under(c.key) = {}
      BY <1>2, <1>9, <2>3
    <3>2. \A r \in records : r.intent # c.intent
      BY <1>1, <2>1, <3>1, PerformStep DEF c
    <3>3. ~(performed[i] > 0)
      BY <3>1, <3>2 DEF DoneOK
    <3>4. performed'[i] = performed[i] + 1
      BY <3>1 DEF Perform, TypeOK
    <3> QED
      BY <2>1, <3>3, <3>4
  <2> QED
    BY <2>2, <2>3
<1>14. SuccessIsTrue'
  <2>1. intent \in Intents /\ performed[intent] \in Nat
    BY DEF TypeOK
  <2> QED
    BY <1>1, <1>9, <2>1 DEF SuccessIsTrue
<1> QED
  BY <1>7, <1>10, <1>11, <1>12, <1>13, <1>14

(***************************************************************************)
(* The page.                                                               *)
(***************************************************************************)
\* A step of the page frees a request or stops hearing it.
LEMMA PageCalls ==
  ASSUME TypeOK, NEW s \in Slots, Busy(s), records' = records,
         \/ calls' = [calls EXCEPT ![s] = NoCall]
         \/ calls' = [calls EXCEPT ![s].heard = FALSE]
  PROVE  /\ ItemsKept
         /\ calls' \in [Slots -> Call \cup {NoCall}]
         /\ \A t \in Slots : Heard(t)' => Heard(t) /\ t # s /\ calls'[t] = calls[t]
         /\ \A t \in Slots : Busy(t)' => /\ Busy(t) /\ calls'[t].answer = calls[t].answer
                                        /\ calls'[t].intent = calls[t].intent
<1>1. calls[s] \in Call
  BY CallItem
<1>2. CASE calls' = [calls EXCEPT ![s] = NoCall]
  <2>1. \A t \in Slots : calls'[t] = IF t = s THEN NoCall ELSE calls[t]
    BY <1>2 DEF TypeOK
  <2>2. ItemsKept
    BY <1>2, OneCall
  <2> QED
    BY <1>2, <2>1, <2>2 DEF TypeOK, Busy, Heard
<1>3. CASE calls' = [calls EXCEPT ![s].heard = FALSE]
  <2> DEFINE d == [calls[s] EXCEPT !.heard = FALSE]
  <2>1. /\ d \in Call /\ SameItem(d, calls[s]) /\ ~d.heard
        /\ d.answer = calls[s].answer /\ d.intent = calls[s].intent
    BY <1>1 DEF Call, SameItem
  <2>2. calls' = [calls EXCEPT ![s] = d]
    BY <1>3
  <2> HIDE DEF d
  <2>3. \A t \in Slots : calls'[t] = IF t = s THEN d ELSE calls[t]
    BY <2>2 DEF TypeOK
  <2>4. ItemsKept
    BY <2>1, <2>2, OneCall
  <2>5. calls' \in [Slots -> Call \cup {NoCall}]
    BY <2>1, <2>2 DEF TypeOK
  <2> QED
    BY <2>1, <2>3, <2>4, <2>5 DEF Busy, Heard
<1> QED
  BY <1>2, <1>3

\* A step that leaves the service alone and hears no more than before keeps
\* what was performed.
LEMMA DoneKept ==
  ASSUME IInv, UNCHANGED <<records, performed>>, Calm' => Calm,
         \A t \in Slots : Busy(t)' => /\ Busy(t) /\ calls'[t].answer = calls[t].answer
                                    /\ calls'[t].intent = calls[t].intent
  PROVE  DoneOK' /\ Once'
<1>1. DoneOK'
  BY DEF IInv, DoneOK
<1>2. Once'
  BY DEF IInv, Once
<1> QED
  BY <1>1, <1>2

LEMMA AnswerStep ==
  ASSUME IInv, NEW s \in Slots, Succeed(s) \/ Refused(s) \/ Break(s)
  PROVE  IInv'
<1> USE DEF IInv
<1>1. /\ Busy(s) /\ Heard(s)
      /\ UNCHANGED <<page, intent, edition, issued, records, performed, refilled, edits,
                     doubles, reloads, refusals>>
      /\ \/ calls' = [calls EXCEPT ![s] = NoCall]
         \/ calls' = [calls EXCEPT ![s].heard = FALSE]
      /\ faults' = faults \/ faults' = faults + 1
  BY DEF Succeed, Refused, Break, Heard, service, counts
<1>2. /\ ItemsKept
      /\ calls' \in [Slots -> Call \cup {NoCall}]
      /\ \A t \in Slots : Heard(t)' => Heard(t) /\ t # s /\ calls'[t] = calls[t]
      /\ \A t \in Slots : Busy(t)' => /\ Busy(t) /\ calls'[t].answer = calls[t].answer
                                     /\ calls'[t].intent = calls[t].intent
  BY <1>1, PageCalls
<1>3. /\ faults' \in Nat /\ (faults' = 0 => faults' = faults)
  BY <1>1, Counts
<1>4. \/ /\ Succeed(s) /\ said' = "success" /\ key' = NoKey
         /\ (page = "dispatch" => ~filled') /\ filled' \in BOOLEAN /\ calls[s].answer = "ok"
         /\ (~filled' => page = "dispatch" \/ ~filled)
      \/ /\ ~Succeed(s) /\ said' = "error" /\ key' = key /\ filled' = filled
         /\ faults' = faults => calls[s].answer \in {"4xx", "409", "500"}
  <2>1. faults + 1 # faults
    BY Counts
  <2>2. CASE Succeed(s)
    <3>1. said' = "success" /\ key' = NoKey /\ calls[s].answer = "ok"
      BY <2>2 DEF Succeed
    <3>2. filled' = (page = "new order" /\ filled)
      BY <2>2 DEF Succeed
    <3>3. page = "new order" \/ page = "dispatch"
      BY DEF TypeOK
    <3> QED
      BY <2>2, <3>1, <3>2, <3>3
  <2>3. CASE ~Succeed(s)
    BY <2>1, <2>3 DEF Refused, Break
  <2> QED
    BY <2>2, <2>3
<1>5. TypeOK'
  <2>1. NoKey \in 0..issued
    BY Counts DEF NoKey
  <2> QED
    BY <1>1, <1>2, <1>3, <1>4, <2>1 DEF TypeOK
<1>6. KeyOK'
  <2>1. /\ \A x \in Items' : x.key \in 1..issued' /\ x.intent \in 1..intent'
        /\ \A x, y \in Items' : x.key = y.key => x.intent = y.intent
    BY <1>1, <1>2 DEF KeyOK, ItemsKept, SameItem
  <2>2. key' # NoKey => \A x \in Items' : x.key = key' => x.intent = intent'
    BY <1>1, <1>2, <1>4 DEF KeyOK, ItemsKept, SameItem
  <2>3. said' = "success" => key' = NoKey /\ (page' = "dispatch" => ~filled')
    BY <1>1, <1>4
  <2>4. ~filled' => key' = NoKey /\ page' = "dispatch"
    BY <1>1, <1>4 DEF KeyOK
  <2> QED
    BY <2>1, <2>2, <2>3, <2>4 DEF KeyOK
<1>7. EditOK'
  BY <1>1, <1>2 DEF EditOK, ItemsKept, SameItem
<1>8. HeardOK'
  BY <1>1, <1>2, <1>4 DEF HeardOK
<1>9. Smooth' => Smooth /\ faults' = faults
  BY <1>1, <1>3 DEF Smooth
<1>10. NoErrorOK'
  BY <1>1, <1>2, <1>4, <1>9 DEF NoErrorOK
<1>11. Calm' => Calm
  BY <1>1 DEF Calm
<1>12. OneKeyOK'
  <2> SUFFICES ASSUME Calm' PROVE OneKeyOK'
    BY DEF OneKeyOK
  <2>1. /\ \A x, y \in Items' : x.intent = y.intent => x.key = y.key
        /\ key # NoKey => \A x \in Items' : x.intent = intent => x.key = key
    BY <1>2, <1>11 DEF OneKeyOK, ItemsKept, SameItem
  <2>2. ASSUME key' = NoKey, filled', said' # "success"
        PROVE  \A x \in Items' : x.intent # intent
    <3>1. key = NoKey /\ filled
      BY <1>4, <2>2
    <3>2. said # "success"
      BY <1>1, <1>11, <3>1 DEF HeardOK, KeyOK, Calm
    <3> QED
      BY <1>2, <1>11, <3>1, <3>2 DEF OneKeyOK, ItemsKept, SameItem
  <2>3. key' # NoKey => key' = key
    BY <1>4
  <2> QED
    BY <1>1, <2>1, <2>2, <2>3 DEF OneKeyOK
<1>13. DoneOK' /\ Once'
  BY <1>1, <1>2, <1>11, DoneKept
<1>14. SuccessIsTrue'
  BY <1>1, <1>4 DEF SuccessIsTrue, HeardOK, DoneOK
<1> QED
  BY <1>5, <1>6, <1>7, <1>8, <1>10, <1>12, <1>13, <1>14

LEMMA VanishStep ==
  ASSUME IInv, NEW s \in Slots, Vanish(s)
  PROVE  IInv'
<1> USE DEF IInv
<1>1. /\ Busy(s) /\ calls' = [calls EXCEPT ![s] = NoCall]
      /\ UNCHANGED <<page, intent, edition, filled, key, issued, said, records, performed,
                     refilled, edits, doubles, reloads, refusals, faults>>
  BY DEF Vanish, form, service, counts
<1>2. /\ ItemsKept
      /\ calls' \in [Slots -> Call \cup {NoCall}]
      /\ \A t \in Slots : Heard(t)' => Heard(t) /\ t # s /\ calls'[t] = calls[t]
      /\ \A t \in Slots : Busy(t)' => /\ Busy(t) /\ calls'[t].answer = calls[t].answer
                                     /\ calls'[t].intent = calls[t].intent
  BY <1>1, PageCalls
<1>3. KeyOK' /\ EditOK' /\ OneKeyOK' /\ HeardOK'
  BY <1>1, <1>2, Counts, KeptStep
<1>4. TypeOK' /\ NoErrorOK'
  BY <1>1, <1>2 DEF TypeOK, NoErrorOK, Smooth
<1>5. DoneOK' /\ Once'
  BY <1>1, <1>2, DoneKept DEF Calm
<1>6. SuccessIsTrue'
  BY <1>1 DEF SuccessIsTrue
<1> QED
  BY <1>3, <1>4, <1>5, <1>6

\* The next intent is new to every key; the page is left with no answer to wait
\* for, or without unneeded presses none is due.
LEMMA GoOnStep ==
  ASSUME IInv, GoOn
  PROVE  IInv'
<1> USE DEF IInv
<1>1. /\ intent' = intent + 1 /\ intent' \in Intents /\ edition' = 0 /\ filled' = TRUE
      /\ said' = "nothing" /\ (said = "success" \/ ~filled)
      /\ UNCHANGED <<page, issued, records, performed, refilled, edits, doubles, reloads,
                     refusals, faults>>
  <2>1. intent \in Nat /\ intent < MaxIntents /\ MaxIntents \in Nat
    BY Counts, BoundsAssumption DEF GoOn
  <2>2. intent + 1 \in 1..MaxIntents
    BY <2>1
  <2> QED
    BY <2>2 DEF GoOn, service, counts, Intents
<1>2. key' = NoKey /\ NoKey \in 0..issued
  <2>1. key = NoKey /\ key' \in {key, NoKey}
    BY <1>1 DEF GoOn, KeyOK
  <2> QED
    BY <2>1, Counts DEF NoKey
<1>3. calls' = Unheard \/ calls' = calls
  BY DEF GoOn
<1>4. /\ ItemsKept
      /\ calls' \in [Slots -> Call \cup {NoCall}]
      /\ \A s \in Slots : Busy(s)' => /\ Busy(s) /\ calls'[s].answer = calls[s].answer
                                     /\ calls'[s].intent = calls[s].intent
      /\ doubles = 0 => \A s \in Slots : ~Heard(s)'
  <2>1. CASE calls' = Unheard
    BY <1>1, <2>1, AllUnheard DEF Heard
  <2>2. CASE calls' = calls
    <3>1. ItemsKept
      BY <1>1, <2>2 DEF ItemsKept, SameItem, Items, Busy
    <3>2. doubles = 0 => \A s \in Slots : ~Heard(s)'
      BY <1>1, <2>2 DEF HeardOK, Heard, Busy
    <3> QED
      BY <2>2, <3>1, <3>2 DEF TypeOK, Busy
  <2> QED
    BY <1>3, <2>1, <2>2
<1>5. TypeOK'
  BY <1>1, <1>2, <1>4 DEF TypeOK
<1>6. \A x \in Items' : x.key \in 1..issued /\ x.intent \in 1..intent
  BY <1>4 DEF KeyOK, ItemsKept, SameItem
<1>7. \A x \in Items' : x.intent # intent' /\ x.intent \in 1..intent'
  BY <1>1, <1>6, Counts
<1>8. KeyOK'
  BY <1>1, <1>2, <1>4, <1>6, <1>7 DEF KeyOK, ItemsKept, SameItem
<1>9. EditOK' /\ HeardOK' /\ NoErrorOK'
  BY <1>1, <1>4 DEF EditOK, HeardOK, NoErrorOK, Smooth, ItemsKept, SameItem
<1>10. OneKeyOK'
  BY <1>1, <1>2, <1>4, <1>7 DEF OneKeyOK, Calm, ItemsKept, SameItem
<1>11. DoneOK' /\ Once'
  BY <1>1, <1>4, DoneKept DEF Calm
<1>12. SuccessIsTrue'
  BY <1>1 DEF SuccessIsTrue
<1> QED
  BY <1>5, <1>8, <1>9, <1>10, <1>11, <1>12

LEMMA ReloadStep ==
  ASSUME IInv, Reload
  PROVE  IInv'
<1> USE DEF IInv
<1>1. /\ calls' = Unheard /\ key' = NoKey /\ filled' = TRUE /\ said' = "nothing"
      /\ UNCHANGED <<page, intent, edition, issued, records, performed, refilled, edits,
                     doubles, refusals, faults>>
  BY DEF Reload, service
<1>2. /\ ItemsKept
      /\ calls' \in [Slots -> Call \cup {NoCall}]
      /\ \A s \in Slots : Busy(s)' => /\ Busy(s) /\ calls'[s].answer = calls[s].answer
                                     /\ calls'[s].intent = calls[s].intent
      /\ \A s \in Slots : ~Heard(s)'
  BY <1>1, AllUnheard DEF Heard
<1>3. reloads' \in Nat /\ reloads' # 0 /\ NoKey \in 0..issued
  BY Counts DEF Reload, NoKey
<1>4. TypeOK'
  BY <1>1, <1>2, <1>3 DEF TypeOK
<1>5. KeyOK' /\ EditOK' /\ HeardOK'
  BY <1>1, <1>2 DEF KeyOK, EditOK, HeardOK, ItemsKept, SameItem
<1>6. NoErrorOK' /\ OneKeyOK'
  BY <1>3 DEF NoErrorOK, OneKeyOK, Calm, Smooth
<1>7. DoneOK' /\ Once'
  BY <1>1, <1>2, <1>3, DoneKept DEF Calm
<1>8. SuccessIsTrue'
  BY <1>1 DEF SuccessIsTrue
<1> QED
  BY <1>4, <1>5, <1>6, <1>7, <1>8

\* An edited form is not smooth any more; a form is filled again only where an
\* unneeded press was answered.
LEMMA FormStep ==
  ASSUME IInv, Edit \/ Refill
  PROVE  IInv'
<1> USE DEF IInv
<1>1. /\ UNCHANGED <<page, intent, key, issued, said, calls, records, performed, doubles,
                     reloads, refusals, faults>>
      /\ filled'
      /\ \/ filled /\ edition' = edition + 1 /\ edits' = edits + 1 /\ refilled' = refilled
         \/ /\ ~filled /\ said = "error" /\ edition' = edition /\ edits' = edits
            /\ refilled' = TRUE
  BY DEF Edit, Refill, service, counts
<1>2. /\ edition' \in Nat /\ edits' \in Nat
      /\ edits' = 0 => edition' = edition /\ edits = 0
  <2>1. edits + 1 # 0 /\ edits + 1 \in Nat /\ edition + 1 \in Nat
    BY Counts
  <2> QED
    BY <1>1, <2>1 DEF TypeOK
<1>3. ~Smooth'
  BY <1>1, Counts DEF NoErrorOK, Smooth
<1>4. Items' = Items
  BY <1>1 DEF Items, Busy
<1>5. TypeOK'
  BY <1>1, <1>2 DEF TypeOK
<1>6. EditOK' /\ NoErrorOK'
  BY <1>1, <1>2, <1>3, <1>4 DEF EditOK, NoErrorOK
<1>7. KeyOK' /\ HeardOK'
  <2>1. said = "success" => page # "dispatch"
    BY <1>1 DEF KeyOK
  <2> QED
    BY <1>1, <1>4, <2>1 DEF KeyOK, HeardOK, Heard, Busy
<1>8. Calm' => Calm /\ filled
  BY <1>1 DEF Calm, HeardOK
<1>9. OneKeyOK'
  BY <1>1, <1>4, <1>8 DEF OneKeyOK
<1>10. DoneOK' /\ Once' /\ SuccessIsTrue'
  BY <1>1, <1>8 DEF DoneOK, Busy, Once, SuccessIsTrue
<1> QED
  BY <1>5, <1>6, <1>7, <1>9, <1>10

LEMMA NextStep ==
  ASSUME IInv, [Next]_vars
  PROVE  IInv'
<1>1. CASE GoOn \/ Reload \/ Edit \/ Refill
  BY <1>1, GoOnStep, ReloadStep, FormStep
<1>2. ASSUME NEW s \in Slots, Submit(s) PROVE IInv'
  BY <1>2, SubmitStep
<1>3. ASSUME NEW s \in Slots, Serve(s) \/ Reject(s) \/ CrashWhileServing(s) PROVE IInv'
  BY <1>3, ServeStep
<1>4. ASSUME NEW s \in Slots, Succeed(s) \/ Refused(s) \/ Break(s) PROVE IInv'
  BY <1>4, AnswerStep
<1>5. ASSUME NEW s \in Slots, Vanish(s) PROVE IInv'
  BY <1>5, VanishStep
<1>6. CASE UNCHANGED vars
  <2> USE <1>6 DEF vars, form, service, counts, IInv
  <2>1. TypeOK' /\ EditOK' /\ HeardOK' /\ NoErrorOK'
    BY DEF TypeOK, EditOK, Items, HeardOK, Heard, Busy, NoErrorOK, Smooth
  <2>2. Items' = Items
    BY DEF Items, Busy
  <2>3. KeyOK' /\ OneKeyOK'
    BY <2>2 DEF KeyOK, OneKeyOK, Calm
  <2>4. DoneOK' /\ Once' /\ SuccessIsTrue'
    BY DEF DoneOK, Busy, Once, Calm, SuccessIsTrue
  <2> QED
    BY <2>1, <2>3, <2>4
<1> QED
  BY <1>1, <1>2, <1>3, <1>4, <1>5, <1>6 DEF Next

-----------------------------------------------------------------------------
(* The inductive invariant holds in every reachable state of the forms. *)
THEOREM FormInvariance == Spec => []IInv
<1>1. Init => IInv
  BY InitOK
<1>2. IInv /\ [Next]_vars => IInv'
  BY NextStep
<1> QED
  BY <1>1, <1>2, PTL DEF Spec

(* The form, its requests and the records keep their types (the refs of
   new-order-section.tsx and order-detail-section.tsx). *)
THEOREM FormTypes == Spec => []TypeOK
<1>1. IInv => TypeOK
  BY DEF IInv
<1> QED
  BY <1>1, FormInvariance, PTL

(* However many requests and answers are lost or refused, forms edited and handlers
   crashed, an intent happens once, up to a reload or an unneeded press; on the
   dispatch form the press has to be one of a form filled again after an error,
   which nothing but a mishap or an edit brings (the ??= of the key). *)
THEOREM IntentsPerformedOnce == Spec => []PerformedOnce
<1>1. IInv => PerformedOnce
  BY DEF IInv, PerformedOnce, Once, Calm, NoErrorOK
<1> QED
  BY <1>1, FormInvariance, PTL

(* A success that is shown is one of what the form holds, unless the button was
   pressed twice (the success branch of submit and dispatch). *)
THEOREM SuccessesAreTrue == Spec => []SuccessIsTrue
<1>1. IInv => SuccessIsTrue
  BY DEF IInv
<1> QED
  BY <1>1, FormInvariance, PTL

(* Without an edit no key is met by a request it was not generated for (the
   key is cleared by every success). *)
THEOREM RefusalsComeFromEdits == Spec => []RefusedOnlyAfterEdit
<1>1. IInv => RefusedOnlyAfterEdit
  <2> SUFFICES ASSUME IInv, edits = 0, NEW s \in Slots, NEW r \in records,
                      Busy(s), r.key = calls[s].key
               PROVE  r.intent = calls[s].intent /\ r.edition = calls[s].edition
    BY DEF RefusedOnlyAfterEdit
  <2>1. r \in Items /\ calls[s] \in Items
    BY CallItem DEF Items, IInv
  <2> QED
    BY <2>1 DEF IInv, KeyOK, EditOK
<1> QED
  BY <1>1, FormInvariance, PTL
=============================================================================
