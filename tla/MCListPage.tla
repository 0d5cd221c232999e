----------------------------- MODULE MCListPage -----------------------------
(* Small instances of ListPage for TLC. *)
EXTENDS ListPage

CONSTANTS ann, bob, open, a1, a2, b1

\* A filtered list may be the whole list, and every list may be empty.
SomeLists ==
  [vf \in {ann, bob} \X {NoFilter, open} |->
     {Empty} \cup (IF vf[1] = bob THEN {b1}
                   ELSE IF vf[2] = open THEN {a1} ELSE {a1, a2})]
=============================================================================
