--------------------------- MODULE MCRealmImport ---------------------------
(* Small instances of RealmImport for TLC: two overlapping runs. *)
EXTENDS RealmImport

CONSTANTS i1, i2

BothOrigins == [i \in {i1, i2} |->
                  {"localhost", IF i = i1 THEN "deployed" ELSE "preview"}]

\* What is added to a client in between are the origins of the other run.
OnConsole == Facts("profile", "realm", {"nickname"})
               \cup Facts("user", "student-a", {"email"})

\* The last four the script cannot repair.
SomeAges == {{"refresh"}, {"identity", "users"}, {"mappers", "built-ins"},
             {"capability"}, {"client"}, {"account"}, {"setting", "disabled"}}
=============================================================================
