---------------------------- MODULE MCWebSession ----------------------------
(* Small instances of WebSession for TLC. *)
EXTENDS WebSessionProperties, TLC

\* Tabs are interchangeable; not used where liveness is checked.
TabSymmetry == Permutations(Tabs)
=============================================================================
