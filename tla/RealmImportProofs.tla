------------------------- MODULE RealmImportProofs -------------------------
(***************************************************************************)
(* Proofs about RealmImport, for any number of runs, origins, edits and    *)
(* failing requests: what overlapping runs of the import leave of each     *)
(* other's work.                                                           *)
(***************************************************************************)
EXTENDS RealmImport, TLAPS

StageSet == {Stages[n] : n \in 1..Len(Stages)}
Working  == StageSet \ {"ready"}

\* The stages before a stage.
Behind(s) == {Stages[n] : n \in {m \in 1..Len(Stages) :
               \E k \in (m + 1)..Len(Stages) : Stages[k] = s}}

ProfileFacts == Facts("profile", "realm", WANTED)

\* What a stage needs of a unit in the end.
Ensured(i, s, u) == Wanted(i, s, u) \cup Asserted(s, u)

\* What a PUT of a representation that another run has read earlier may undo.
Loose(f) ==
  \/ f.kind = "origin"
  \/ f.kind = "attribute" /\ f.name \notin clientAttributes
  \/ f.kind = "profile" /\ f \notin ProfileFacts
  \/ f.kind = "user" /\ f \notin UserFacts

Adding    == {"scopes", "binding", "optional", "roles"}
Replacing == {"attributes", "profile", "users", "origins"}

\* Where a run is: at a unit of a stage, in a realm that exists, or outside.
PlaceOK(i) ==
  /\ stage[i] \in Working => at[i] \in 1..Len(Units(stage[i])) /\ exists = TRUE
  /\ stage[i] \notin Working => at[i] = 0 /\ phase[i] = "look"
  /\ phase[i] = "put" => stage[i] \in Adding \cup Replacing /\ todo[i] # {}
  /\ stage[i] = "users" => phase[i] = "put"

WebAttributes == Facts("attribute", "laundry-web", clientAttributes)

\* What a run holds when it is about to write completes the unit, and takes
\* nothing away that another run wants.
WorkOK(i) ==
  phase[i] = "put" =>
    /\ Asserted(stage[i], Unit(i)) \subseteq realm
    /\ stage[i] \in Adding =>
         Wanted(i, stage[i], Unit(i)) \subseteq realm \cup todo[i]
    /\ stage[i] \in {"attributes", "profile"} =>
         Wanted(i, stage[i], Unit(i)) \subseteq seen[i] \cup todo[i]
    /\ stage[i] = "users" => todo[i] = Wanted(i, "users", Unit(i))
    /\ stage[i] = "origins" => WebAttributes \subseteq seen[i]

\* The units of its stage that a run has behind it.
UnitsOK(i) ==
  stage[i] \in Working \ {"origins"} =>
    \A n \in 1..(at[i] - 1) :
      Ensured(i, stage[i], Units(stage[i])[n]) \subseteq realm

EnsuredOK(i) ==
  \A s \in Behind(stage[i]) \ {"origins"} :
    \A n \in 1..Len(Units(s)) : Ensured(i, s, Units(s)[n]) \subseteq realm

RunOK(i) == PlaceOK(i) /\ WorkOK(i) /\ UnitsOK(i) /\ EnsuredOK(i)

NothingYet == exists = FALSE => realm = {}

IInv == TypeOK /\ NothingYet /\ \A i \in Importers : RunOK(i)

-----------------------------------------------------------------------------
(***************************************************************************)
(* The stages and their units.                                             *)
(***************************************************************************)
LEMMA StagesAre ==
  /\ Len(Stages) = 14
  /\ \A m, n \in 1..14 : Stages[m] = Stages[n] => m = n
  /\ Stages[1] = "scopes" /\ Stages[5] = "attributes" /\ Stages[6] = "profile"
  /\ Stages[8] = "users" /\ Stages[11] = "origins" /\ Stages[12] = "claims"
  /\ Stages[13] = "discovery" /\ Stages[14] = "ready"
  /\ \A n \in 1..14 : Stages[n] \notin {"exists", "create", "failed"}
BY DEF Stages

LEMMA WorkingIs ==
  /\ Working = {Stages[n] : n \in 1..13}
  /\ Working = {"scopes", "binding", "lookup", "optional", "attributes", "profile",
                "userList", "users", "roles", "verify", "origins", "claims", "discovery"}
  /\ StageSet = Working \cup {"ready"}
BY StagesAre DEF Working, StageSet, Stages

LEMMA BehindAfter ==
  ASSUME NEW s \in Working
  PROVE  After(s) \in StageSet /\ Behind(After(s)) = Behind(s) \cup {s}
<1>1. PICK n \in 1..13 : s = Stages[n]
  BY WorkingIs
<1>2. After(s) = Stages[n + 1]
  BY <1>1, StagesAre DEF After
<1>3. Behind(s) = {Stages[m] : m \in 1..(n - 1)}
  BY <1>1, StagesAre DEF Behind
<1>4. Behind(After(s)) = {Stages[m] : m \in 1..n}
  BY <1>2, StagesAre DEF Behind
<1> QED
  BY <1>1, <1>2, <1>3, <1>4, StagesAre DEF StageSet

LEMMA BehindStart ==
  /\ Behind("exists") = {} /\ Behind("create") = {} /\ Behind("failed") = {}
  /\ Behind("scopes") = {}
  /\ "profile" \in Behind("users") /\ "scopes" \in Behind("claims")
  /\ "attributes" \in Behind("origins")
BY StagesAre DEF Behind

LEMMA PassedIs == \A i \in Importers : Passed(i) = Behind(stage[i])
BY DEF Passed, Behind

LEMMA UnitsAre ==
  /\ \A s \in {"scopes", "claims"} :
       Len(Units(s)) = 3 /\ Units(s)[1] = "basic" /\ Units(s)[2] = "roles"
                         /\ Units(s)[3] = "laundry-identity"
  /\ \A s \in {"binding", "optional", "attributes"} :
       Len(Units(s)) = 2 /\ Units(s)[1] = "laundry-web" /\ Units(s)[2] = "laundry-mobile"
  /\ \A s \in {"users", "roles", "verify"} :
       Len(Units(s)) = 2 /\ Units(s)[1] = "student-a" /\ Units(s)[2] = "staff-outlet-a"
  /\ \A s \in {"lookup", "profile", "userList", "discovery"} :
       Len(Units(s)) = 1 /\ Units(s)[1] = "realm"
  /\ Len(Units("origins")) = 1 /\ Units("origins")[1] = "laundry-web"
<1>1. /\ \A s \in {"scopes", "claims"} : Units(s) = REQUIRED_SCOPES
      /\ \A s \in {"binding", "optional", "attributes"} : Units(s) = PUBLIC_CLIENTS
      /\ \A s \in {"users", "roles", "verify"} : Units(s) = users
      /\ \A s \in {"lookup", "profile", "userList", "discovery"} : Units(s) = <<"realm">>
      /\ Units("origins") = <<"laundry-web">>
  BY DEF Units
<1> QED
  BY <1>1 DEF REQUIRED_SCOPES, PUBLIC_CLIENTS, users

LEMMA UnitBound == \A s \in Working : Len(Units(s)) \in 1..3
<1> SUFFICES ASSUME NEW s \in Working
             PROVE  Len(Units(s)) \in {1, 2, 3}
  OBVIOUS
<1>1. CASE s \in {"scopes", "claims"}
  BY <1>1, UnitsAre
<1>2. CASE s \in {"binding", "optional", "attributes", "users", "roles", "verify"}
  BY <1>2, UnitsAre
<1>3. CASE s \in {"lookup", "profile", "userList", "discovery", "origins"}
  BY <1>3, UnitsAre
<1> QED
  BY <1>1, <1>2, <1>3, WorkingIs

LEMMA FirstUnit == \A s \in Working : s # "ready" /\ 1 \in 1..Len(Units(s))
<1> SUFFICES ASSUME NEW s \in Working
             PROVE  s # "ready" /\ 1 \in 1..Len(Units(s))
  OBVIOUS
<1>1. s # "ready"
  BY DEF Working
<1>2. Len(Units(s)) \in 1..3
  BY UnitBound
<1> QED
  BY <1>1, <1>2

(***************************************************************************)
(* The facts the stages write and the template declares.                   *)
(***************************************************************************)
Kinds == {"setting", "scope", "mapper", "client", "default", "optional",
          "attribute", "origin", "account", "user", "userRole", "profile", "role"}

LEMMA FactsAre ==
  ASSUME NEW kind \in Kinds, NEW of \in Owners, NEW names \in SUBSET Names,
         NEW f \in Facts(kind, of, names)
  PROVE  f.kind = kind /\ f.of = of /\ f.name \in names /\ f \in Fact
<1>1. PICK n \in names : f = [kind |-> kind, of |-> of, name |-> n]
  BY DEF Facts
<1> QED
  BY <1>1 DEF Fact, Kinds

LEMMA NamesAre ==
  /\ required \subseteq Names /\ permissions \subseteq Names
  /\ clientAttributes \subseteq Names /\ WANTED \subseteq Names
  /\ realmRoles \subseteq Names /\ "localhost" \in Names /\ "offline_access" \in Names
  /\ clients \subseteq Names /\ fixtures \subseteq Names
  /\ "include.in.token.scope" \in Names /\ "enabled" \in Names /\ "email" \in Names
  /\ \A s \in required : protocolMappers(s) \subseteq Names
  /\ \A c \in clients : optionalClientScopes(c) \subseteq Names
  /\ \A u \in fixtures : userAttributes(u) \subseteq Names
  /\ \A i \in Importers : WebOrigins[i] \subseteq Names
<1>1. /\ required \subseteq Names /\ permissions \subseteq Names
      /\ clientAttributes \subseteq Names /\ WANTED \subseteq Names
      /\ realmRoles \subseteq Names /\ "localhost" \in Names /\ "offline_access" \in Names
      /\ clients \subseteq Names /\ fixtures \subseteq Names
      /\ "include.in.token.scope" \in Names /\ "enabled" \in Names /\ "email" \in Names
      /\ "sub" \in Names /\ "realm roles" \in Names /\ "client roles" \in Names
  BY DEF Names
<1>2. \A s \in required : protocolMappers(s) \subseteq Names
  <2>1. "fixture_domain_id" \in WANTED /\ "outlet_id" \in WANTED
    BY DEF WANTED
  <2> QED
    BY <1>1, <2>1 DEF required, protocolMappers
<1>3. \A c \in clients : optionalClientScopes(c) \subseteq Names
  BY <1>1 DEF optionalClientScopes
<1>4. \A u \in fixtures : userAttributes(u) \subseteq Names
  BY <1>1 DEF userAttributes
<1>5. \A i \in Importers : WebOrigins[i] \subseteq Names
  BY DEF Names
<1> QED
  BY <1>1, <1>2, <1>3, <1>4, <1>5

LEMMA OwnersAre ==
  /\ "realm" \in Owners /\ required \subseteq Owners /\ clients \subseteq Owners
  /\ fixtures \subseteq Owners /\ "laundry-web" \in Owners
BY DEF Owners, clients

\* Nobody's PUT undoes what a stage wants, but the origins.
LEMMA WantedFirm ==
  ASSUME NEW i \in Importers, NEW s \in Working, NEW n \in 1..Len(Units(s)),
         NEW f \in Wanted(i, s, Units(s)[n])
  PROVE  f \in Fact /\ (s # "origins" => ~Loose(f))
<1> DEFINE u == Units(s)[n]
<1>0. u \in Owners
  <2>1. CASE s \in {"scopes", "claims"}
    BY <2>1, UnitsAre, OwnersAre DEF required
  <2>2. CASE s \in {"binding", "optional", "attributes", "origins"}
    BY <2>2, UnitsAre, OwnersAre DEF clients
  <2>3. CASE s \in {"users", "roles", "verify"}
    BY <2>3, UnitsAre, OwnersAre DEF fixtures
  <2>4. CASE s \in {"lookup", "profile", "userList", "discovery"}
    BY <2>4, UnitsAre, OwnersAre
  <2> QED
    BY <2>1, <2>2, <2>3, <2>4, WorkingIs
<1>1. CASE s \in {"scopes", "claims"}
  <2>1. u \in required /\ f \in Facts("mapper", u, protocolMappers(u))
    BY <1>1, UnitsAre DEF required, Wanted
  <2>2. f.kind = "mapper" /\ f \in Fact
    BY <1>0, <2>1, NamesAre, OwnersAre, FactsAre DEF Kinds
  <2> QED
    BY <2>2 DEF Loose
<1>2. CASE s = "binding"
  <2>1. f \in Facts("default", u, required)
    BY <1>2 DEF Wanted
  <2>2. f.kind = "default" /\ f \in Fact
    BY <1>0, <2>1, NamesAre, OwnersAre, FactsAre DEF Kinds
  <2> QED
    BY <2>2 DEF Loose
<1>3. CASE s = "optional"
  <2>1. u \in clients /\ f \in Facts("optional", u, optionalClientScopes(u))
    BY <1>3, UnitsAre DEF clients, Wanted
  <2>2. f.kind = "optional" /\ f \in Fact
    BY <1>0, <2>1, NamesAre, OwnersAre, FactsAre DEF Kinds
  <2> QED
    BY <2>2 DEF Loose
<1>4. CASE s = "attributes"
  <2>1. f \in Facts("attribute", u, clientAttributes)
    BY <1>4 DEF Wanted
  <2>2. f.kind = "attribute" /\ f.name \in clientAttributes /\ f \in Fact
    BY <1>0, <2>1, NamesAre, OwnersAre, FactsAre DEF Kinds
  <2> QED
    BY <2>2 DEF Loose
<1>5. CASE s = "profile"
  <2>1. f \in ProfileFacts
    BY <1>5 DEF ProfileFacts, Wanted
  <2>2. f.kind = "profile" /\ f \in Fact
    BY <2>1, NamesAre, OwnersAre, FactsAre DEF Kinds, ProfileFacts
  <2> QED
    BY <2>1, <2>2 DEF Loose
<1>6. CASE s \in {"users", "verify"}
  <2>1. u \in fixtures /\ f \in Facts("user", u, userAttributes(u))
    BY <1>6, UnitsAre DEF fixtures, Wanted
  <2>2. f.kind = "user" /\ f \in Fact
    BY <1>0, <2>1, NamesAre, OwnersAre, FactsAre DEF Kinds
  <2>3. f \in UserFacts
    BY <2>1 DEF UserFacts
  <2> QED
    BY <2>2, <2>3 DEF Loose
<1>7. CASE s = "roles"
  <2>1. f \in Facts("userRole", u, realmRoles)
    BY <1>7 DEF Wanted
  <2>2. f.kind = "userRole" /\ f \in Fact
    BY <1>0, <2>1, NamesAre, OwnersAre, FactsAre DEF Kinds
  <2> QED
    BY <2>2 DEF Loose
<1>8. CASE s = "origins"
  <2>1. f \in Facts("origin", u, WebOrigins[i])
    BY <1>8 DEF Wanted
  <2>2. f.kind = "origin" /\ f \in Fact
    BY <1>0, <2>1, NamesAre, OwnersAre, FactsAre DEF Kinds
  <2> QED
    BY <1>8, <2>2
<1>9. CASE s \in {"lookup", "userList", "discovery"}
  BY <1>9 DEF Wanted
<1> QED
  BY <1>1, <1>2, <1>3, <1>4, <1>5, <1>6, <1>7, <1>8, <1>9, WorkingIs

LEMMA AssertedFirm ==
  ASSUME NEW s \in Working, NEW n \in 1..Len(Units(s)), NEW f \in Asserted(s, Units(s)[n])
  PROVE  ~Loose(f)
<1> DEFINE u == Units(s)[n]
<1>1. f.kind \in {"client", "account", "scope", "setting"}
  BY DEF Asserted, Declared, Facts
<1> QED
  BY <1>1 DEF Loose

LEMMA EnsuredFirm ==
  ASSUME NEW i \in Importers, NEW s \in Working \ {"origins"}, NEW n \in 1..Len(Units(s)),
         NEW f \in Ensured(i, s, Units(s)[n])
  PROVE  ~Loose(f)
BY WantedFirm, AssertedFirm DEF Ensured

LEMMA DeclaredFacts == \A s \in required : Declared(s) \subseteq Fact
<1> SUFFICES ASSUME NEW s \in required, NEW f \in Declared(s)
             PROVE  f \in Fact
  OBVIOUS
<1>1. CASE f \in Facts("scope", "realm", {s})
  BY <1>1, NamesAre, OwnersAre, FactsAre DEF Kinds
<1>2. CASE f \in Facts("setting", s, {"include.in.token.scope"})
  BY <1>2, NamesAre, OwnersAre, FactsAre DEF Kinds
<1> QED
  BY <1>1, <1>2 DEF Declared

LEMMA TemplateFacts == Template \subseteq Fact
<1> DEFINE Mapped  == UNION {Declared(s) \cup Facts("mapper", s, protocolMappers(s))
                                : s \in required}
           Carried == UNION {Facts("default", c, required)
                             \cup Facts("optional", c, optionalClientScopes(c))
                             \cup Facts("attribute", c, clientAttributes) : c \in clients}
           Plain   == Facts("setting", "realm", {"enabled"})
                        \cup Facts("profile", "realm", {"email"})
                        \cup Facts("scope", "realm", permissions \cup {"offline_access"})
                        \cup Facts("client", "realm", clients)
                        \cup Facts("account", "realm", fixtures)
                        \cup Facts("origin", "laundry-web", {"localhost"})
                        \cup Facts("role", "realm", realmRoles)
<1>1. ASSUME NEW f \in Plain
      PROVE  f \in Fact
  BY NamesAre, OwnersAre, FactsAre DEF Kinds
<1>2. ASSUME NEW s \in required, NEW f \in Facts("mapper", s, protocolMappers(s))
      PROVE  f \in Fact
  BY <1>2, NamesAre, OwnersAre, FactsAre DEF Kinds
<1>3. ASSUME NEW c \in clients,
             NEW f \in Facts("default", c, required)
                       \cup Facts("optional", c, optionalClientScopes(c))
                       \cup Facts("attribute", c, clientAttributes)
      PROVE  f \in Fact
  BY <1>3, NamesAre, OwnersAre, FactsAre DEF Kinds
<1>4. ASSUME NEW f \in UserFacts
      PROVE  f \in Fact
  <2>1. PICK u \in fixtures : f \in Facts("user", u, userAttributes(u))
    BY <1>4 DEF UserFacts
  <2> QED
    BY <2>1, NamesAre, OwnersAre, FactsAre DEF Kinds
<1>5. ASSUME NEW f \in RoleFacts
      PROVE  f \in Fact
  <2>1. PICK u \in fixtures : f \in Facts("userRole", u, realmRoles)
    BY <1>5 DEF RoleFacts
  <2> QED
    BY <2>1, NamesAre, OwnersAre, FactsAre DEF Kinds
<1>6. Template = Plain \cup Mapped \cup Carried \cup UserFacts \cup RoleFacts
  BY Zenon DEF Template
<1>7. Mapped \subseteq Fact
  BY <1>2, DeclaredFacts
<1>8. Carried \subseteq Fact
  BY <1>3
<1> HIDE DEF Mapped, Carried, Plain
<1> QED
  BY <1>1, <1>4, <1>5, <1>6, <1>7, <1>8

-----------------------------------------------------------------------------
(***************************************************************************)
(* What a PUT takes away.                                                  *)
(***************************************************************************)
LEMMA UnitIs ==
  ASSUME NEW i \in Importers, PlaceOK(i), stage[i] \in Working
  PROVE  /\ at[i] \in 1..Len(Units(stage[i])) /\ Unit(i) = Units(stage[i])[at[i]]
         /\ stage[i] = "origins" => Unit(i) = "laundry-web"
         /\ stage[i] = "attributes" => Unit(i) \in clients
         /\ stage[i] = "profile" => Unit(i) = "realm"
         /\ stage[i] \in {"users", "verify", "roles"} => Unit(i) \in fixtures
         /\ stage[i] \in {"scopes", "claims"} => Unit(i) \in required
<1>1. at[i] \in 1..Len(Units(stage[i])) /\ Unit(i) = Units(stage[i])[at[i]]
  BY DEF PlaceOK, Unit
<1>2. CASE stage[i] \in {"scopes", "claims"}
  BY <1>1, <1>2, UnitsAre DEF required
<1>3. CASE stage[i] = "attributes"
  BY <1>1, <1>3, UnitsAre DEF clients
<1>4. CASE stage[i] \in {"users", "verify", "roles"}
  BY <1>1, <1>4, UnitsAre DEF fixtures
<1>5. CASE stage[i] \in {"origins", "profile"}
  BY <1>1, <1>5, UnitsAre
<1> QED
  BY <1>1, <1>2, <1>3, <1>4, <1>5

LEMMA ReplaceTakes ==
  ASSUME IInv, NEW i \in Importers, Replace(i), NEW f \in realm, f \notin realm'
  PROVE  /\ <<f.kind, f.of>> \in Representation(stage[i], Unit(i))
         /\ f \notin seen[i] \/ Stored({f}) = {}
         /\ Loose(f)
<1> DEFINE s == stage[i]
           u == Unit(i)
<1>1. /\ s \in {"attributes", "profile", "users", "origins"} /\ phase[i] = "put"
      /\ realm' = (realm \ In(realm, s, u)) \cup Stored(In(seen[i], s, u) \cup todo[i])
  BY DEF Replace
<1>2. f \in In(realm, s, u) /\ f \notin Stored(In(seen[i], s, u) \cup todo[i])
  BY <1>1
<1>3. PlaceOK(i) /\ WorkOK(i) /\ EnsuredOK(i) /\ s \in Working /\ f \in Fact
  BY <1>1, WorkingIs DEF IInv, RunOK, TypeOK
<1>4. <<f.kind, f.of>> \in Representation(s, u)
  BY <1>2 DEF In
<1>5. f \notin seen[i] \/ Stored({f}) = {}
  BY <1>2, <1>4 DEF Stored, In
<1>6. CASE s \in {"attributes", "origins"}
  <2>1. f.kind \in {"attribute", "origin"} /\ f.of = u
    BY <1>4, <1>6 DEF Representation
  <2>2. f \notin seen[i] /\ f \notin todo[i]
    BY <1>2, <1>4, <2>1 DEF Stored, In
  <2>3. f \notin WebAttributes \/ s # "origins"
    BY <1>1, <1>3, <2>2 DEF WorkOK
  <2>4. f \notin Facts("attribute", u, clientAttributes) \/ s # "attributes"
    BY <1>1, <1>3, <2>2 DEF WorkOK, Wanted
  <2>5. f \notin Facts("attribute", u, clientAttributes)
    BY <1>3, <1>6, <2>3, <2>4, UnitIs DEF WebAttributes
  <2> QED
    BY <1>3, <1>4, <1>5, <2>1, <2>5 DEF Loose, Facts, Fact
<1>7. CASE s = "profile"
  <2>1. f.kind = "profile" /\ f.of = "realm"
    BY <1>4, <1>7 DEF Representation
  <2>2. f \notin ProfileFacts
    <3> SUFFICES ASSUME f \in ProfileFacts
                 PROVE  FALSE
      OBVIOUS
    <3>1. f \in seen[i] \cup todo[i]
      BY <1>1, <1>3, <1>7 DEF WorkOK, Wanted, ProfileFacts
    <3> QED
      BY <1>2, <1>4, <2>1, <3>1 DEF Stored, In
  <2> QED
    BY <1>4, <1>5, <2>1, <2>2 DEF Loose
<1>8. CASE s = "users"
  <2>1. f.kind = "user" /\ f.of = u
    BY <1>4, <1>8 DEF Representation
  <2>2. f \notin UserFacts
    <3> SUFFICES ASSUME f \in UserFacts
                 PROVE  FALSE
      OBVIOUS
    <3>1. PICK v \in fixtures : f \in Facts("user", v, userAttributes(v))
      BY DEF UserFacts
    <3>2. f \in todo[i] /\ f.name \in userAttributes(v)
      <4>1. PICK n \in userAttributes(v) : f = [kind |-> "user", of |-> v, name |-> n]
        BY <3>1 DEF Facts
      <4>2. v = u
        BY <2>1, <4>1
      <4> QED
        BY <1>1, <1>3, <1>8, <3>1, <4>1, <4>2 DEF WorkOK, Wanted
    <3>3. f.name \in WANTED
      BY <3>2 DEF userAttributes
    <3>4. ProfileFacts \subseteq realm
      <4>1. Ensured(i, "profile", Units("profile")[1]) \subseteq realm
        BY <1>3, <1>8, BehindStart, UnitsAre DEF EnsuredOK
      <4> QED
        BY <4>1, UnitsAre DEF Ensured, Wanted, ProfileFacts
    <3>5. Facts("profile", "realm", {f.name}) \subseteq realm
      BY <3>3, <3>4 DEF ProfileFacts, Facts
    <3> QED
      BY <1>2, <3>2, <3>5 DEF Stored
  <2> QED
    BY <1>4, <1>5, <2>1, <2>2 DEF Loose
<1> QED
  BY <1>1, <1>6, <1>7, <1>8

LEMMA NothingElseTakes ==
  ASSUME IInv, [Next]_vars, NEW f \in realm, f \notin realm'
  PROVE  \E i \in Importers : Replace(i)
<1>1. CASE \E i \in Importers : CreateRealm(i)
  <2>1. exists = TRUE => realm' = realm
    BY <1>1 DEF CreateRealm
  <2>2. exists = FALSE => realm = {}
    BY DEF IInv, NothingYet
  <2> QED
    BY <2>1, <2>2 DEF IInv, TypeOK
<1>2. CASE Edit
  BY <1>2 DEF Edit
<1>3. ASSUME NEW i \in Importers,
             Begin(i) \/ Look(i) \/ Reject(i) \/ Rerun(i) \/ Throw(i)
      PROVE  FALSE
  BY <1>3 DEF Begin, Look, Reject, Rerun, Throw
<1>4. CASE \E i \in Importers : Add(i)
  BY <1>4 DEF Add
<1>5. CASE UNCHANGED vars
  BY <1>5 DEF vars
<1> QED
  BY <1>1, <1>2, <1>3, <1>4, <1>5 DEF Next, Run

LEMMA FirmKept ==
  ASSUME IInv, [Next]_vars
  PROVE  \A f \in realm : ~Loose(f) => f \in realm'
BY ReplaceTakes, NothingElseTakes

-----------------------------------------------------------------------------
(***************************************************************************)
(* The steps of a run.                                                     *)
(***************************************************************************)
\* What a step of another run, or of nobody, leaves a run.
Stays(i) == /\ stage'[i] = stage[i] /\ at'[i] = at[i] /\ phase'[i] = phase[i]
            /\ seen'[i] = seen[i] /\ todo'[i] = todo[i]

Grows == /\ \A f \in realm : ~Loose(f) => f \in realm'
         /\ exists = TRUE => exists' = TRUE

LEMMA EnsuredGrows ==
  ASSUME NEW i \in Importers, EnsuredOK(i), Grows
  PROVE  \A s \in Behind(stage[i]) \ {"origins"} : \A n \in 1..Len(Units(s)) :
           Ensured(i, s, Units(s)[n]) \subseteq realm'
<1> SUFFICES ASSUME NEW s \in Behind(stage[i]) \ {"origins"}, NEW n \in 1..Len(Units(s)),
                    NEW f \in Ensured(i, s, Units(s)[n])
             PROVE  f \in realm'
  OBVIOUS
<1>1. f \in realm
  BY DEF EnsuredOK
<1>2. s \in Working
  BY StagesAre, WorkingIs DEF Behind
<1>3. ~Loose(f)
  BY <1>2, EnsuredFirm
<1> QED
  BY <1>1, <1>3 DEF Grows

LEMMA UnitsGrow ==
  ASSUME NEW i \in Importers, PlaceOK(i), UnitsOK(i), Grows,
         stage[i] \in Working \ {"origins"}
  PROVE  \A n \in 1..(at[i] - 1) : Ensured(i, stage[i], Units(stage[i])[n]) \subseteq realm'
<1> SUFFICES ASSUME NEW n \in 1..(at[i] - 1), NEW f \in Ensured(i, stage[i], Units(stage[i])[n])
             PROVE  f \in realm'
  OBVIOUS
<1>1. f \in realm
  BY DEF UnitsOK
<1>2. n \in 1..Len(Units(stage[i]))
  BY UnitBound DEF PlaceOK
<1>3. ~Loose(f)
  BY <1>2, EnsuredFirm
<1> QED
  BY <1>1, <1>3 DEF Grows

LEMMA OtherRun ==
  ASSUME NEW i \in Importers, RunOK(i), Stays(i), Grows
  PROVE  RunOK(i)'
<1>1. PlaceOK(i)'
  BY DEF RunOK, PlaceOK, Stays, Grows
<1>2. EnsuredOK(i)'
  BY EnsuredGrows DEF RunOK, EnsuredOK, Stays
<1>3. UnitsOK(i)'
  BY UnitsGrow DEF RunOK, UnitsOK, Stays
<1>4. WorkOK(i)'
  <2> SUFFICES ASSUME phase[i] = "put"
               PROVE  WorkOK(i)'
    BY DEF WorkOK, Stays
  <2>1. Unit(i)' = Unit(i)
    BY DEF Unit, Stays
  <2>2. stage[i] \in Working
    BY WorkingIs DEF RunOK, PlaceOK, Adding, Replacing
  <2>3. Unit(i) = Units(stage[i])[at[i]] /\ at[i] \in 1..Len(Units(stage[i]))
    BY <2>2, UnitIs DEF RunOK
  <2>4. stage[i] \in Adding =>
          Wanted(i, stage[i], Unit(i)) \subseteq realm' \cup todo[i]
    <3> SUFFICES ASSUME stage[i] \in Adding, NEW f \in Wanted(i, stage[i], Unit(i)),
                        f \notin todo[i]
                 PROVE  f \in realm'
      OBVIOUS
    <3>1. f \in realm
      BY DEF RunOK, WorkOK
    <3>2. ~Loose(f)
      BY <2>2, <2>3, WantedFirm DEF Adding
    <3> QED
      BY <3>1, <3>2 DEF Grows
  <2>5. Asserted(stage[i], Unit(i)) \subseteq realm'
    <3>1. Asserted(stage[i], Unit(i)) \subseteq realm
      BY DEF RunOK, WorkOK
    <3> QED
      BY <2>2, <2>3, <3>1, AssertedFirm DEF Grows
  <2> QED
    BY <2>1, <2>4, <2>5 DEF RunOK, WorkOK, Stays
<1> QED
  BY <1>1, <1>2, <1>3, <1>4 DEF RunOK

LEMMA Lands ==
  ASSUME TypeOK, NEW i \in Importers, NEW s, NEW n, Turn(i, s, n)
  PROVE  /\ stage'[i] = s /\ at'[i] = n
         /\ phase'[i] = IF s = "users" THEN "put" ELSE "look"
         /\ todo'[i] = IF s = "users" THEN Wanted(i, s, Units(s)[n]) ELSE {}
         /\ \A j \in Importers \ {i} :
              stage'[j] = stage[j] /\ at'[j] = at[j] /\ phase'[j] = phase[j]
              /\ todo'[j] = todo[j]
BY DEF TypeOK, Turn

LEMMA UsersWanted ==
  ASSUME NEW i \in Importers, NEW n \in 1..Len(Units("users"))
  PROVE  Wanted(i, "users", Units("users")[n]) # {}
<1> DEFINE u == Units("users")[n]
<1>1. u \in fixtures
  BY UnitsAre DEF fixtures
<1>2. "actor" \in userAttributes(u)
  BY DEF userAttributes, WANTED
<1>3. [kind |-> "user", of |-> u, name |-> "actor"] \in Facts("user", u, userAttributes(u))
  BY <1>2 DEF Facts
<1> QED
  BY <1>3 DEF Wanted

\* A run that turns to a unit, having ensured those before it.
LEMMA TurnOK ==
  ASSUME TypeOK, NEW i \in Importers, NEW s \in StageSet, NEW n, Turn(i, s, n),
         s \in Working => n \in 1..Len(Units(s)) /\ exists' = TRUE,
         s = "ready" => n = 0,
         \A t \in Behind(s) \ {"origins"} : \A m \in 1..Len(Units(t)) :
           Ensured(i, t, Units(t)[m]) \subseteq realm',
         s \in Working \ {"origins"} =>
           \A m \in 1..(n - 1) : Ensured(i, s, Units(s)[m]) \subseteq realm'
  PROVE  RunOK(i)'
<1>1. /\ stage'[i] = s /\ at'[i] = n
      /\ phase'[i] = IF s = "users" THEN "put" ELSE "look"
      /\ todo'[i] = IF s = "users" THEN Wanted(i, s, Units(s)[n]) ELSE {}
  BY Lands
<1>2. PlaceOK(i)'
  BY <1>1, WorkingIs, UsersWanted DEF PlaceOK, Adding, Replacing
<1>3. WorkOK(i)'
  BY <1>1 DEF WorkOK, Unit, Adding, Asserted
<1>4. UnitsOK(i)'
  BY <1>1 DEF UnitsOK
<1>5. EnsuredOK(i)'
  BY <1>1 DEF EnsuredOK
<1> QED
  BY <1>2, <1>3, <1>4, <1>5 DEF RunOK

\* The unit is done, and with the last one the stage.
LEMMA FinishOK ==
  ASSUME TypeOK, NEW i \in Importers, RunOK(i), Grows, stage[i] \in Working, Finish(i),
         stage[i] # "origins" => Ensured(i, stage[i], Unit(i)) \subseteq realm'
  PROVE  RunOK(i)'
<1> DEFINE s == stage[i]
<1>1. /\ PlaceOK(i) /\ UnitsOK(i) /\ EnsuredOK(i)
      /\ at[i] \in 1..Len(Units(s)) /\ Unit(i) = Units(s)[at[i]] /\ Len(Units(s)) \in 1..3
      /\ exists' = TRUE
  BY UnitIs, UnitBound DEF RunOK, PlaceOK, Grows
<1>2. s # "origins" =>
        \A n \in 1..at[i] : Ensured(i, s, Units(s)[n]) \subseteq realm'
  <2> SUFFICES ASSUME s # "origins", NEW n \in 1..at[i]
               PROVE  Ensured(i, s, Units(s)[n]) \subseteq realm'
    OBVIOUS
  <2>1. CASE n = at[i]
    BY <1>1, <2>1
  <2>2. CASE n # at[i]
    <3>1. n \in 1..(at[i] - 1)
      BY <1>1, <2>2
    <3> QED
      BY <1>1, <3>1, UnitsGrow
  <2> QED
    BY <2>1, <2>2
<1>3. \A t \in Behind(s) \ {"origins"} : \A n \in 1..Len(Units(t)) :
        Ensured(i, t, Units(t)[n]) \subseteq realm'
  BY <1>1, EnsuredGrows
<1>4. CASE at[i] = Len(Units(s))
  <2> DEFINE t == After(s)
             n == IF t = "ready" THEN 0 ELSE 1
  <2>1. Turn(i, t, n)
    BY <1>4 DEF Finish, Enter
  <2>2. t \in StageSet /\ Behind(t) = Behind(s) \cup {s}
    BY BehindAfter
  <2>3. \A r \in Behind(t) \ {"origins"} : \A m \in 1..Len(Units(r)) :
          Ensured(i, r, Units(r)[m]) \subseteq realm'
    BY <1>2, <1>3, <1>4, <2>2
  <2>4. t \in Working => t # "ready" /\ n \in 1..Len(Units(t))
    BY FirstUnit
  <2>5. t \in Working => \A m \in 1..(n - 1) : Ensured(i, t, Units(t)[m]) \subseteq realm'
    BY <2>4
  <2> HIDE DEF t, n
  <2>6. t = "ready" => n = 0
    BY DEF n
  <2> QED
    BY <1>1, <2>1, <2>2, <2>3, <2>4, <2>5, <2>6, TurnOK
<1>5. CASE at[i] # Len(Units(s))
  <2> DEFINE n == at[i] + 1
  <2>1. Turn(i, s, n)
    BY <1>5 DEF Finish
  <2>2. s \in StageSet /\ s # "ready"
    BY WorkingIs
  <2>3. n \in 1..Len(Units(s)) /\ n - 1 = at[i]
    BY <1>1, <1>5
  <2> HIDE DEF n
  <2>4. s # "origins" => \A m \in 1..(n - 1) : Ensured(i, s, Units(s)[m]) \subseteq realm'
    BY <1>2, <2>3
  <2> QED
    BY <1>1, <1>3, <2>1, <2>2, <2>3, <2>4, TurnOK
<1> QED
  BY <1>4, <1>5

-----------------------------------------------------------------------------
(***************************************************************************)
(* The invariant: one lemma per action.                                    *)
(***************************************************************************)
LEMMA BeginOK ==
  ASSUME IInv, Grows, NEW i \in Importers, Begin(i)
  PROVE  RunOK(i)'
<1>1. TypeOK /\ RunOK(i) /\ stage[i] = "exists"
  BY DEF IInv, Begin
<1>2. CASE Served
  <2>1. Turn(i, "scopes", 1)
    BY <1>2 DEF Begin, Enter
  <2>2. "scopes" \in Working /\ "scopes" \in StageSet /\ Behind("scopes") = {}
    BY WorkingIs, BehindStart
  <2>3. 1 \in 1..Len(Units("scopes")) /\ exists' = TRUE
    BY <1>1, <1>2, UnitsAre DEF Begin, TypeOK, Served
  <2> QED
    BY <1>1, <2>1, <2>2, <2>3, TurnOK
<1>3. CASE ~Served
  <2>1. /\ stage'[i] = "create" /\ at'[i] = at[i] /\ phase'[i] = phase[i]
    BY <1>1, <1>3 DEF Begin, TypeOK
  <2>2. "create" \notin Working /\ stage[i] \notin Working
    BY <1>1, WorkingIs
  <2>3. at[i] = 0 /\ phase[i] = "look"
    BY <1>1, <2>2 DEF RunOK, PlaceOK
  <2> QED
    BY <2>1, <2>2, <2>3, BehindStart DEF RunOK, PlaceOK, WorkOK, UnitsOK, EnsuredOK
<1> QED
  BY <1>2, <1>3

LEMMA CreateOK ==
  ASSUME IInv, NEW i \in Importers, CreateRealm(i)
  PROVE  RunOK(i)'
<1>1. Turn(i, "scopes", 1) /\ exists' = TRUE /\ TypeOK
  BY DEF CreateRealm, Enter, IInv
<1>2. "scopes" \in Working /\ "scopes" \in StageSet /\ Behind("scopes") = {}
  BY WorkingIs, BehindStart
<1>3. 1 \in 1..Len(Units("scopes"))
  BY UnitsAre
<1> QED
  BY <1>1, <1>2, <1>3, TurnOK

\* A read that finds nothing missing: the unit was ensured.
LEMMA NothingMissing ==
  ASSUME IInv, NEW i \in Importers, stage[i] \in Working \ {"origins"}, Expected(i),
         Missing(i) = {}
  PROVE  Ensured(i, stage[i], Unit(i)) \subseteq realm
<1> DEFINE s == stage[i]
           u == Unit(i)
<1> SUFFICES Wanted(i, s, u) \subseteq realm
  BY DEF Ensured, Expected
<1>1. PlaceOK(i) /\ EnsuredOK(i)
  BY DEF IInv, RunOK
<1>2. CASE s = "scopes"
  BY <1>2 DEF Missing
<1>3. CASE s = "verify"
  BY <1>3 DEF Expected
<1>4. CASE s = "claims"
  <2>1. u = Units(s)[at[i]] /\ at[i] \in 1..Len(Units("scopes")) /\ Units(s) = Units("scopes")
    BY <1>1, <1>4, UnitIs DEF Units
  <2>2. Wanted(i, "scopes", u) \subseteq realm
    BY <1>1, <1>4, <2>1, BehindStart DEF EnsuredOK, Ensured
  <2> QED
    BY <1>4, <2>2 DEF Wanted
<1>5. CASE s \notin {"scopes", "verify", "claims"}
  BY <1>5 DEF Missing
<1> QED
  BY <1>2, <1>3, <1>4, <1>5

LEMMA LookOK ==
  ASSUME IInv, Grows, NEW i \in Importers, Look(i)
  PROVE  RunOK(i)'
<1> DEFINE s == stage[i]
           u == Unit(i)
<1>1. TypeOK /\ RunOK(i) /\ PlaceOK(i) /\ UnitsOK(i) /\ EnsuredOK(i)
  BY DEF IInv, RunOK
<1>2. s \in Working /\ phase[i] = "look" /\ Expected(i) /\ realm' = realm
      /\ exists' = exists
  BY <1>1 DEF Look, PlaceOK
<1>3. CASE Missing(i) = {}
  BY <1>1, <1>2, <1>3, NothingMissing, FinishOK DEF Look
<1>4. CASE Missing(i) # {}
  <2>1. /\ phase'[i] = "put" /\ todo'[i] = Missing(i) /\ stage' = stage /\ at' = at
        /\ s # "optional" => seen'[i] = In(realm, s, u)
    BY <1>1, <1>4 DEF Look, TypeOK
  <2>2. s # "users" /\ s \in Adding \cup Replacing
    <3>1. s \notin {"verify", "claims"}
      BY <1>4 DEF Missing
    <3>2. s \notin {"lookup", "userList", "discovery"}
      BY <1>4 DEF Missing, Wanted
    <3>3. s # "users"
      BY <1>1, <1>2 DEF PlaceOK
    <3> QED
      BY <1>2, <3>1, <3>2, <3>3, WorkingIs DEF Adding, Replacing
  <2>3. PlaceOK(i)'
    BY <1>1, <1>2, <1>4, <2>1, <2>2 DEF PlaceOK
  <2>4. UnitsOK(i)' /\ EnsuredOK(i)'
    BY <1>1, <1>2, <2>1 DEF UnitsOK, EnsuredOK
  <2>5. Unit(i)' = u
    BY <2>1 DEF Unit
  <2>6. Wanted(i, s, u) \subseteq realm \cup Missing(i)
    BY <2>2 DEF Missing, Adding, Replacing
  <2>7. s \in {"attributes", "profile"} => Wanted(i, s, u) \subseteq In(realm, s, u) \cup Missing(i)
    <3>1. CASE s = "attributes"
      BY <2>6, <3>1 DEF Wanted, Facts, In, Representation
    <3>2. CASE s = "profile"
      BY <2>6, <3>2 DEF Wanted, Facts, In, Representation
    <3> QED
      BY <3>1, <3>2
  <2>8. s = "origins" => WebAttributes \subseteq In(realm, s, u)
    <3> SUFFICES ASSUME s = "origins"
                 PROVE  WebAttributes \subseteq In(realm, s, u)
      OBVIOUS
    <3>1. Wanted(i, "attributes", Units("attributes")[1]) \subseteq realm
      BY <1>1, BehindStart, UnitsAre DEF EnsuredOK, Ensured
    <3>2. WebAttributes \subseteq realm
      BY <3>1, UnitsAre DEF Wanted, WebAttributes
    <3>3. u = "laundry-web"
      BY <1>1, <1>2, UnitIs
    <3> QED
      BY <3>2, <3>3 DEF WebAttributes, Facts, In, Representation
  <2>9. WorkOK(i)'
    BY <1>2, <2>1, <2>2, <2>5, <2>6, <2>7, <2>8 DEF WorkOK, Adding, Expected
  <2> QED
    BY <2>3, <2>4, <2>9 DEF RunOK
<1> QED
  BY <1>3, <1>4

LEMMA BatchIs ==
  ASSUME NEW i \in Importers, todo[i] # {}
  PROVE  /\ Batch(i) \subseteq todo[i]
         /\ stage[i] = "roles" => Batch(i) = todo[i]
BY DEF Batch

LEMMA AddOK ==
  ASSUME IInv, Grows, NEW i \in Importers, Add(i)
  PROVE  RunOK(i)'
<1> DEFINE s == stage[i]
           u == Unit(i)
<1>1. TypeOK /\ RunOK(i) /\ PlaceOK(i) /\ UnitsOK(i) /\ EnsuredOK(i) /\ WorkOK(i)
  BY DEF IInv, RunOK
<1>2. /\ s \in Adding /\ phase[i] = "put" /\ todo[i] # {} /\ exists' = exists
      /\ realm' = realm \cup Batch(i) /\ s \in Working /\ s # "origins"
  BY <1>1, WorkingIs DEF Add, PlaceOK, Adding
<1>3. Wanted(i, s, u) \subseteq realm \cup todo[i]
  BY <1>1, <1>2 DEF WorkOK
<1>4. CASE todo[i] = Batch(i)
  <2>1. Asserted(s, u) \subseteq realm
    BY <1>1, <1>2 DEF WorkOK
  <2> QED
    BY <1>1, <1>2, <1>3, <1>4, <2>1, FinishOK DEF Add, Ensured
<1>5. CASE todo[i] # Batch(i)
  <2>1. /\ stage' = stage /\ at' = at /\ phase' = phase
        /\ todo'[i] = todo[i] \ Batch(i)
    BY <1>1, <1>5 DEF Add, TypeOK
  <2>2. todo'[i] # {}
    BY <1>2, <1>5, <2>1, BatchIs
  <2>3. PlaceOK(i)'
    BY <1>1, <1>2, <2>1, <2>2 DEF PlaceOK
  <2>4. UnitsOK(i)' /\ EnsuredOK(i)'
    BY <1>1, <1>2, <2>1, EnsuredGrows, UnitsGrow DEF UnitsOK, EnsuredOK
  <2>5. Unit(i)' = u
    BY <2>1 DEF Unit
  <2>6. WorkOK(i)'
    BY <1>1, <1>2, <1>3, <2>1, <2>5 DEF WorkOK, Adding
  <2> QED
    BY <2>3, <2>4, <2>6 DEF RunOK
<1> QED
  BY <1>4, <1>5

\* What a PUT leaves of the unit: everything it needs, but the origins.
LEMMA ReplaceEnsures ==
  ASSUME IInv, NEW i \in Importers, Replace(i), stage[i] # "origins"
  PROVE  Wanted(i, stage[i], Unit(i)) \subseteq realm'
<1> DEFINE s == stage[i]
           u == Unit(i)
<1>1. PlaceOK(i) /\ WorkOK(i) /\ EnsuredOK(i)
  BY DEF IInv, RunOK
<1>2. /\ s \in {"attributes", "profile", "users"} /\ phase[i] = "put"
      /\ realm' = (realm \ In(realm, s, u)) \cup Stored(In(seen[i], s, u) \cup todo[i])
      /\ s \in Working
  BY WorkingIs DEF Replace
<1> SUFFICES ASSUME NEW f \in Wanted(i, s, u)
             PROVE  f \in realm'
  OBVIOUS
<1>3. CASE s = "attributes"
  <2>1. f \in seen[i] \cup todo[i]
    BY <1>1, <1>2, <1>3 DEF WorkOK
  <2>2. f.kind = "attribute" /\ f.of = u
    BY <1>3 DEF Wanted, Facts
  <2> QED
    BY <1>2, <1>3, <2>1, <2>2 DEF Stored, In, Representation
<1>4. CASE s = "profile"
  <2>1. f \in seen[i] \cup todo[i]
    BY <1>1, <1>2, <1>4 DEF WorkOK
  <2>2. f.kind = "profile" /\ f.of = "realm"
    BY <1>4 DEF Wanted, Facts
  <2> QED
    BY <1>2, <1>4, <2>1, <2>2 DEF Stored, In, Representation
<1>5. CASE s = "users"
  <2>1. f \in todo[i]
    BY <1>1, <1>2, <1>5 DEF WorkOK
  <2>2. f.name \in WANTED
    BY <1>5 DEF Wanted, Facts, userAttributes
  <2>3. ProfileFacts \subseteq realm
    <3>1. Wanted(i, "profile", Units("profile")[1]) \subseteq realm
      BY <1>1, <1>5, BehindStart, UnitsAre DEF EnsuredOK, Ensured
    <3> QED
      BY <3>1, UnitsAre DEF Wanted, ProfileFacts
  <2>4. Facts("profile", "realm", {f.name}) \subseteq realm
    BY <2>2, <2>3 DEF ProfileFacts, Facts
  <2> QED
    BY <1>2, <2>1, <2>4 DEF Stored
<1> QED
  BY <1>2, <1>3, <1>4, <1>5

LEMMA ReplaceOK ==
  ASSUME IInv, Grows, NEW i \in Importers, Replace(i)
  PROVE  RunOK(i)'
<1>1. TypeOK /\ RunOK(i) /\ stage[i] \in Working /\ Finish(i)
  BY WorkingIs DEF IInv, Replace
<1>2. Asserted(stage[i], Unit(i)) \subseteq realm'
  <2>1. Asserted(stage[i], Unit(i)) \subseteq realm
    BY <1>1 DEF RunOK, WorkOK, Replace
  <2>2. Unit(i) = Units(stage[i])[at[i]] /\ at[i] \in 1..Len(Units(stage[i]))
    BY <1>1, UnitIs DEF RunOK
  <2> QED
    BY <1>1, <2>1, <2>2, AssertedFirm DEF Grows
<1> QED
  BY <1>1, <1>2, ReplaceEnsures, FinishOK DEF Ensured

LEMMA LeaveOK ==
  ASSUME TypeOK, NEW i \in Importers, NEW s \in {"failed", "exists"}, Leave(i, s)
  PROVE  RunOK(i)'
<1>1. stage'[i] = s /\ at'[i] = 0 /\ phase'[i] = "look"
  BY DEF Leave, TypeOK
<1>2. s \notin Working /\ Behind(s) = {}
  BY WorkingIs, BehindStart
<1> QED
  BY <1>1, <1>2 DEF RunOK, PlaceOK, WorkOK, UnitsOK, EnsuredOK

-----------------------------------------------------------------------------
LEMMA RealmGrows ==
  ASSUME IInv, [Next]_vars
  PROVE  Grows
<1>1. exists = TRUE => exists' = TRUE
  BY DEF Next, Run, vars, Edit, Begin, CreateRealm, Look, Add, Replace, Reject, Rerun, Throw
<1> QED
  BY <1>1, FirmKept DEF Grows

LEMMA OnlyOneMoves ==
  ASSUME TypeOK, NEW i \in Importers, Run(i) \/ Throw(i), NEW j \in Importers, j # i
  PROVE  Stays(j)
<1>1. ASSUME NEW s, NEW n, Turn(i, s, n), seen'[j] = seen[j]
      PROVE  Stays(j)
  BY <1>1, Lands DEF Stays
<1>2. ASSUME Finish(i), seen'[j] = seen[j]
      PROVE  Stays(j)
  BY <1>1, <1>2 DEF Finish, Enter
<1>3. ASSUME NEW s, Leave(i, s)
      PROVE  Stays(j)
  BY <1>3 DEF Leave, Stays, TypeOK
<1>4. CASE Begin(i)
  <2>1. CASE Served
    BY <1>1, <1>4, <2>1 DEF Begin, Enter
  <2>2. CASE ~Served
    BY <1>4, <2>2 DEF Begin, Stays, TypeOK
  <2> QED
    BY <2>1, <2>2
<1>5. CASE CreateRealm(i)
  BY <1>1, <1>5 DEF CreateRealm, Enter
<1>6. CASE Look(i)
  <2>1. seen'[j] = seen[j]
    BY <1>6 DEF Look, TypeOK
  <2>2. CASE Missing(i) = {}
    BY <1>2, <1>6, <2>1, <2>2 DEF Look
  <2>3. CASE Missing(i) # {}
    BY <1>6, <2>1, <2>3 DEF Look, Stays, TypeOK
  <2> QED
    BY <2>2, <2>3
<1>7. CASE Add(i)
  <2>1. CASE todo[i] = Batch(i)
    BY <1>2, <1>7, <2>1 DEF Add
  <2>2. CASE todo[i] # Batch(i)
    BY <1>7, <2>2 DEF Add, Stays, TypeOK
  <2> QED
    BY <2>1, <2>2
<1>8. CASE Replace(i)
  BY <1>2, <1>8 DEF Replace
<1>9. CASE Reject(i) \/ Rerun(i) \/ Throw(i)
  BY <1>3, <1>9 DEF Reject, Rerun, Throw
<1> QED
  BY <1>4, <1>5, <1>6, <1>7, <1>8, <1>9 DEF Run

LEMMA RunsStep ==
  ASSUME IInv, [Next]_vars, NEW j \in Importers
  PROVE  RunOK(j)'
<1>1. TypeOK /\ RunOK(j) /\ Grows
  BY RealmGrows DEF IInv
<1>2. CASE UNCHANGED vars \/ Edit
  <2>1. Stays(j)
    BY <1>2 DEF vars, run, Edit, Stays
  <2> QED
    BY <1>1, <2>1, OtherRun
<1>3. ASSUME NEW i \in Importers, Run(i) \/ Throw(i)
      PROVE  RunOK(j)'
  <2>1. CASE j # i
    BY <1>1, <1>3, <2>1, OnlyOneMoves, OtherRun
  <2>2. CASE j = i
    <3>1. CASE Begin(i)
      BY <1>1, <2>2, <3>1, BeginOK
    <3>2. CASE CreateRealm(i)
      BY <2>2, <3>2, CreateOK
    <3>3. CASE Look(i)
      BY <1>1, <2>2, <3>3, LookOK
    <3>4. CASE Add(i)
      BY <1>1, <2>2, <3>4, AddOK
    <3>5. CASE Replace(i)
      BY <1>1, <2>2, <3>5, ReplaceOK
    <3>6. CASE Reject(i) \/ Throw(i)
      BY <1>1, <2>2, <3>6, LeaveOK DEF Reject, Throw
    <3>7. CASE Rerun(i)
      BY <1>1, <2>2, <3>7, LeaveOK DEF Rerun
    <3> QED
      BY <1>3, <3>1, <3>2, <3>3, <3>4, <3>5, <3>6, <3>7 DEF Run
  <2> QED
    BY <2>1, <2>2
<1> QED
  BY <1>2, <1>3 DEF Next

\* What the runs hold and write are proper facts, in a realm that exists.
LEMMA HeldAreFacts ==
  ASSUME IInv, NEW i \in Importers
  PROVE  /\ stage[i] \in Working => \A f \in Wanted(i, stage[i], Unit(i)) : f \in Fact
         /\ stage[i] \in Working => \A f \in Missing(i) : f \in Fact
         /\ \A s \in StageSet, n \in 1..3 : s = "users" /\ n \in 1..Len(Units(s)) =>
              \A f \in Wanted(i, s, Units(s)[n]) : f \in Fact
<1>1. PlaceOK(i)
  BY DEF IInv, RunOK
<1>2. stage[i] \in Working => \A f \in Wanted(i, stage[i], Unit(i)) : f \in Fact
  BY <1>1, UnitIs, WantedFirm
<1>3. \A s \in StageSet, n \in 1..3 : s = "users" /\ n \in 1..Len(Units(s)) =>
              \A f \in Wanted(i, s, Units(s)[n]) : f \in Fact
  BY WorkingIs, WantedFirm
<1>4. ASSUME stage[i] \in Working, NEW f \in Missing(i)
      PROVE  f \in Fact
  <2>1. CASE f \in Wanted(i, stage[i], Unit(i))
    BY <1>2, <1>4, <2>1
  <2>2. CASE stage[i] = "scopes" /\ f \in Declared(Unit(i))
    <3>1. Unit(i) \in required
      BY <1>1, <1>4, <2>2, UnitIs
    <3> QED
      BY <2>2, <3>1, DeclaredFacts
  <2> QED
    BY <1>4, <2>1, <2>2 DEF Missing
<1> QED
  BY <1>2, <1>3, <1>4

\* The realm, and what the runs hold of it.
AreFacts == /\ \A f \in realm : f \in Fact
            /\ \A j \in Importers : \A f \in seen[j] \cup todo[j] : f \in Fact

LEMMA FactsHeld == TypeOK => AreFacts
BY DEF TypeOK, AreFacts

\* The todo list of a run that turns to another unit.
LEMMA TurnFacts ==
  ASSUME IInv, NEW i \in Importers, NEW j \in Importers,
         RunOK(j)', \/ \E s \in StageSet, n \in 0..3 : Turn(i, s, n)
                    \/ Finish(i) /\ stage[i] \in Working
  PROVE  /\ \A f \in todo'[j] : f \in Fact
         /\ stage' \in [Importers -> {"exists", "create", "failed"} \cup StageSet]
         /\ at' \in [Importers -> 0..3] /\ phase' \in [Importers -> {"look", "put"}]
<1>1. TypeOK /\ PlaceOK(i) /\ PlaceOK(j)'
  BY DEF IInv, RunOK
<1>2. \E s \in StageSet, n \in 0..3 : Turn(i, s, n)
  <2>1. CASE Finish(i) /\ stage[i] \in Working
    <3>1. at[i] \in 1..Len(Units(stage[i])) /\ Len(Units(stage[i])) \in 1..3
      BY <1>1, <2>1, UnitBound, UnitIs
    <3>2. After(stage[i]) \in StageSet /\ stage[i] \in StageSet
      BY <2>1, BehindAfter, WorkingIs
    <3>3. CASE at[i] = Len(Units(stage[i]))
      <4>1. PICK n \in {0, 1} : Turn(i, After(stage[i]), n)
        BY <2>1, <3>3 DEF Finish, Enter
      <4>2. n \in 0..3
        OBVIOUS
      <4> QED
        BY <3>2, <4>1, <4>2
    <3>4. CASE at[i] # Len(Units(stage[i]))
      <4>1. Turn(i, stage[i], at[i] + 1)
        BY <2>1, <3>4 DEF Finish
      <4>2. \A l \in 1..3 : \A a \in 1..l : a # l => a + 1 \in 0..3
        OBVIOUS
      <4>3. at[i] + 1 \in 0..3
        BY <3>1, <3>4, <4>2
      <4> QED
        BY <3>2, <4>1, <4>3
    <3> QED
      BY <3>3, <3>4
  <2> QED
    BY <2>1
<1>3. PICK s \in StageSet, n \in 0..3 : Turn(i, s, n)
  BY <1>2
<1>4. /\ stage' \in [Importers -> {"exists", "create", "failed"} \cup StageSet]
      /\ at' \in [Importers -> 0..3] /\ phase' \in [Importers -> {"look", "put"}]
  BY <1>1, <1>3 DEF TypeOK, Turn, StageSet
<1>5. CASE j # i
  BY <1>1, <1>3, <1>4, <1>5, Lands, FactsHeld DEF AreFacts
<1>6. CASE j = i
  <2>1. /\ stage'[i] = s /\ at'[i] = n
        /\ todo'[i] = IF s = "users" THEN Wanted(i, s, Units(s)[n]) ELSE {}
    BY <1>1, <1>3, Lands
  <2>2. s = "users" => n \in 1..Len(Units(s))
    BY <1>1, <1>6, <2>1, WorkingIs DEF PlaceOK
  <2> QED
    BY <1>4, <1>6, <2>1, <2>2, HeldAreFacts, UnitBound, WorkingIs
<1> QED
  BY <1>5, <1>6

\* The shapes that follow when everything held is a fact.
LEMMA ShapeIs ==
  ASSUME AreFacts', exists' \in BOOLEAN, exists' = FALSE => realm' = {},
         stage' \in [Importers -> {"exists", "create", "failed"} \cup StageSet],
         at' \in [Importers -> 0..3], phase' \in [Importers -> {"look", "put"}],
         DOMAIN seen' = Importers, seen' = [j \in Importers |-> seen'[j]],
         DOMAIN todo' = Importers, todo' = [j \in Importers |-> todo'[j]],
         faults' \in Nat, edits' \in Nat
  PROVE  TypeOK' /\ NothingYet'
<1>1. NothingYet'
  BY DEF AreFacts, NothingYet
<1>2. realm' \in SUBSET Fact
  BY DEF AreFacts
<1>3. \A j \in Importers : seen'[j] \in SUBSET Fact /\ todo'[j] \in SUBSET Fact
  BY DEF AreFacts
<1>4. seen' \in [Importers -> SUBSET Fact] /\ todo' \in [Importers -> SUBSET Fact]
  BY <1>3
<1> QED
  BY <1>1, <1>2, <1>4 DEF TypeOK, StageSet

LEMMA ShapeStep ==
  ASSUME IInv, [Next]_vars, \A j \in Importers : RunOK(j)'
  PROVE  TypeOK' /\ NothingYet'
<1>1. /\ TypeOK /\ NothingYet /\ AreFacts
      /\ stage \in [Importers -> {"exists", "create", "failed"} \cup StageSet]
  BY FactsHeld DEF IInv, TypeOK, StageSet
<1>2. ASSUME NEW i \in Importers, NEW s \in {"failed", "exists"}, Leave(i, s),
             realm' = realm, exists' = exists, faults' \in Nat, edits' \in Nat
      PROVE  TypeOK' /\ NothingYet'
  <2>1. AreFacts'
    BY <1>1, <1>2 DEF AreFacts, NothingYet, Leave, TypeOK
  <2> QED
    BY <1>1, <1>2, <2>1, ShapeIs DEF Leave, TypeOK, NothingYet
<1>3. ASSUME NEW i \in Importers, Begin(i)
      PROVE  TypeOK' /\ NothingYet'
  <2>1. CASE Served
    <3>1. \E s \in StageSet, n \in 0..3 : Turn(i, s, n)
      <4>1. Turn(i, "scopes", 1) /\ "scopes" \in StageSet /\ 1 \in 0..3
        BY <1>3, <2>1, WorkingIs DEF Begin, Enter
      <4> QED
        BY <4>1
    <3>2. AreFacts'
      BY <1>1, <1>3, <3>1, TurnFacts DEF AreFacts, NothingYet, Begin
    <3>3. todo' = [j \in Importers |-> todo'[j]] /\ DOMAIN todo' = Importers
      BY <1>1, <3>1 DEF Turn, TypeOK
    <3> QED
      BY <1>1, <1>3, <3>1, <3>2, <3>3, TurnFacts, ShapeIs DEF Begin, TypeOK, NothingYet
  <2>2. CASE ~Served
    BY <1>1, <1>3, <2>2, ShapeIs DEF Begin, TypeOK, NothingYet, AreFacts
  <2> QED
    BY <2>1, <2>2
<1>4. ASSUME NEW i \in Importers, CreateRealm(i)
      PROVE  TypeOK' /\ NothingYet'
  <2>1. \E s \in StageSet, n \in 0..3 : Turn(i, s, n)
    <3>1. Turn(i, "scopes", 1) /\ "scopes" \in StageSet /\ 1 \in 0..3
      BY <1>4, WorkingIs DEF CreateRealm, Enter
    <3> QED
      BY <3>1
  <2>2. AreFacts'
    BY <1>1, <1>4, <2>1, TurnFacts, TemplateFacts DEF AreFacts, NothingYet, CreateRealm
  <2>3. todo' = [j \in Importers |-> todo'[j]] /\ DOMAIN todo' = Importers
    BY <1>1, <2>1 DEF Turn, TypeOK
  <2> QED
    BY <1>1, <1>4, <2>1, <2>2, <2>3, TurnFacts, ShapeIs DEF CreateRealm, TypeOK, NothingYet
<1>5. ASSUME NEW i \in Importers, Look(i)
      PROVE  TypeOK' /\ NothingYet'
  <2>1. stage[i] \in Working
    BY <1>5 DEF Look, IInv, RunOK, PlaceOK
  <2>2. /\ \A j \in Importers : \A f \in seen'[j] : f \in Fact
        /\ seen' = [j \in Importers |-> seen'[j]] /\ DOMAIN seen' = Importers
    BY <1>1, <1>5 DEF Look, AreFacts, TypeOK, In
  <2>3. CASE Missing(i) = {}
    <3>1. Finish(i)
      BY <1>5, <2>3 DEF Look
    <3>2. AreFacts'
      BY <1>1, <1>5, <2>1, <2>2, <3>1, TurnFacts DEF AreFacts, NothingYet, Look
    <3>3. todo' = [j \in Importers |-> todo'[j]] /\ DOMAIN todo' = Importers
      BY <1>1, <3>1 DEF Finish, Enter, Turn, TypeOK
    <3> QED
      BY <1>1, <1>5, <2>1, <2>2, <3>1, <3>2, <3>3, TurnFacts, ShapeIs DEF Look, TypeOK, NothingYet
  <2>4. CASE Missing(i) # {}
    <3>1. AreFacts'
      BY <1>1, <1>5, <2>1, <2>2, <2>4, HeldAreFacts DEF AreFacts, NothingYet, Look, TypeOK
    <3> QED
      BY <1>1, <1>5, <2>2, <2>4, <3>1, ShapeIs DEF Look, TypeOK, NothingYet
  <2> QED
    BY <2>3, <2>4
<1>6. ASSUME NEW i \in Importers, Add(i)
      PROVE  TypeOK' /\ NothingYet'
  <2>1. stage[i] \in Working /\ todo[i] # {} /\ exists = TRUE
    BY <1>6 DEF Add, IInv, RunOK, PlaceOK
  <2>2. \A f \in realm' : f \in Fact
    BY <1>1, <1>6, <2>1, BatchIs DEF Add, AreFacts
  <2>3. CASE todo[i] = Batch(i)
    <3>1. Finish(i)
      BY <1>6, <2>3 DEF Add
    <3>2. AreFacts'
      BY <1>1, <1>6, <2>1, <2>2, <3>1, TurnFacts DEF AreFacts, NothingYet, Add
    <3>3. todo' = [j \in Importers |-> todo'[j]] /\ DOMAIN todo' = Importers
      BY <1>1, <3>1 DEF Finish, Enter, Turn, TypeOK
    <3> QED
      BY <1>1, <1>6, <2>1, <3>1, <3>2, <3>3, TurnFacts, ShapeIs DEF Add, TypeOK
  <2>4. CASE todo[i] # Batch(i)
    <3>1. AreFacts'
      BY <1>1, <1>6, <2>2, <2>4 DEF AreFacts, NothingYet, Add, TypeOK
    <3> QED
      BY <1>1, <1>6, <2>1, <2>4, <3>1, ShapeIs DEF Add, TypeOK
  <2> QED
    BY <2>3, <2>4
<1>7. ASSUME NEW i \in Importers, Replace(i)
      PROVE  TypeOK' /\ NothingYet'
  <2>1. stage[i] \in Working /\ Finish(i) /\ exists = TRUE
    BY <1>7 DEF Replace, IInv, RunOK, PlaceOK
  <2>2. \A f \in realm' : f \in Fact
    BY <1>1, <1>7 DEF Replace, AreFacts, Stored, In
  <2>3. AreFacts'
    BY <1>1, <1>7, <2>1, <2>2, TurnFacts DEF AreFacts, NothingYet, Replace
  <2>4. todo' = [j \in Importers |-> todo'[j]] /\ DOMAIN todo' = Importers
    BY <1>1, <2>1 DEF Finish, Enter, Turn, TypeOK
  <2> QED
    BY <1>1, <1>7, <2>1, <2>3, <2>4, TurnFacts, ShapeIs DEF Replace, TypeOK
<1>8. CASE Edit
  <2>1. \A f \in ConsoleEdits : f \in Fact
    BY EditsAssumption
  <2>2. AreFacts'
    BY <1>1, <1>8, <2>1 DEF AreFacts, NothingYet, Edit, run
  <2> QED
    BY <1>1, <1>8, <2>2, ShapeIs DEF Edit, run, TypeOK
<1>9. CASE UNCHANGED vars
  BY <1>1, <1>9, ShapeIs DEF vars, run, TypeOK, NothingYet, AreFacts
<1>10. ASSUME NEW i \in Importers, Reject(i) \/ Rerun(i) \/ Throw(i)
       PROVE  TypeOK' /\ NothingYet'
  BY <1>1, <1>2, <1>10 DEF Reject, Rerun, Throw, TypeOK
<1> QED
  BY <1>3, <1>4, <1>5, <1>6, <1>7, <1>8, <1>9, <1>10 DEF Next, Run

-----------------------------------------------------------------------------
(***************************************************************************)
(* The theorems.                                                           *)
(***************************************************************************)
LEMMA InitHolds == Init => IInv
<1> SUFFICES ASSUME Init
             PROVE  IInv
  OBVIOUS
<1>1. NothingYet
  BY DEF Init, NothingYet
<1>2. TypeOK
  <2>1. realm \in SUBSET Fact
    BY TemplateFacts DEF Init
  <2>2. exists \in BOOLEAN /\ faults \in Nat /\ edits \in Nat
    BY DEF Init
  <2>3. /\ stage \in [Importers -> {"exists", "create", "failed"} \cup StageSet]
        /\ at \in [Importers -> 0..3] /\ phase \in [Importers -> {"look", "put"}]
        /\ seen \in [Importers -> SUBSET Fact] /\ todo \in [Importers -> SUBSET Fact]
    BY DEF Init
  <2> QED
    BY <2>1, <2>2, <2>3 DEF TypeOK, StageSet
<1>3. \A i \in Importers : RunOK(i)
  BY WorkingIs, BehindStart DEF Init, RunOK, PlaceOK, WorkOK, UnitsOK, EnsuredOK
<1> QED
  BY <1>1, <1>2, <1>3 DEF IInv

LEMMA EnsuredIs == EnsuredStays <=> \A i \in Importers : EnsuredOK(i)
BY PassedIs DEF EnsuredStays, EnsuredOK, Ensured

(* Wherever the runs of the script are, at each unit of each stage, the realm
   has what the runs have ensured and a run holds what completes its unit. *)
THEOREM ImportInvariance == Spec => []IInv
<1>1. IInv /\ [Next]_vars => IInv'
  BY RunsStep, ShapeStep DEF IInv
<1> QED
  BY InitHolds, <1>1, PTL DEF Spec

(* The realm and what the runs hold of it are facts of the template, of the
   operator or of the environment. *)
THEOREM ImportTypes == Spec => []TypeOK
<1>1. IInv => TypeOK
  BY DEF IInv
<1> QED
  BY <1>1, ImportInvariance, PTL

(* What a stage of a run has ensured or asserted stays to the end of the run,
   whatever other runs write meanwhile from what they read before, beside an
   operator who adds to the realm (main of import.mjs, the merges of its PUT
   requests, its assertions). *)
THEOREM EnsuredForTheRun == Spec => []EnsuredStays
<1>1. IInv => EnsuredStays
  BY EnsuredIs DEF IInv, RunOK
<1> QED
  BY <1>1, ImportInvariance, PTL

(* The import is additive but for overlapping PUTs: an entry that leaves the
   realm is of the client, user or profile that a run is putting back, which had
   read it before the entry was made, or of a user and no longer declared in the
   profile (ensureClientAttributes, ensureClientOrigins, ensureUserProfile,
   ensureUserAttributes); it is nothing that a run has to ensure, but an origin. *)
THEOREM ImportIsAdditive == Spec => AdditiveUnlessOverlapped
<1> DEFINE Overlapped(f) ==
      /\ \E i \in Importers :
           /\ phase[i] = "put"
           /\ stage[i] \in {"attributes", "profile", "users", "origins"}
           /\ <<f.kind, f.of>> \in Representation(stage[i], Unit(i))
           /\ f \notin seen[i] \/ Stored({f}) = {}
      /\ \A i \in Importers : \A m \in 1..(Len(Stages) - 1) :
           Stages[m] # "origins" =>
             \A n \in 1..Len(Units(Stages[m])) :
               f \notin Wanted(i, Stages[m], Units(Stages[m])[n])
<1>1. IInv /\ [Next]_vars => [\A f \in realm \ realm' : Overlapped(f)]_realm
  <2> SUFFICES ASSUME IInv, [Next]_vars, NEW f \in realm, f \notin realm'
               PROVE  Overlapped(f)
    OBVIOUS
  <2>1. PICK i \in Importers : Replace(i)
    BY NothingElseTakes
  <2>2. /\ <<f.kind, f.of>> \in Representation(stage[i], Unit(i))
        /\ f \notin seen[i] \/ Stored({f}) = {}
        /\ Loose(f)
    BY <2>1, ReplaceTakes
  <2>3. ASSUME NEW j \in Importers, NEW m \in 1..(Len(Stages) - 1),
               Stages[m] # "origins", NEW n \in 1..Len(Units(Stages[m]))
        PROVE  f \notin Wanted(j, Stages[m], Units(Stages[m])[n])
    <3>1. Stages[m] \in Working
      BY StagesAre, WorkingIs
    <3> QED
      BY <2>2, <2>3, <3>1, WantedFirm
  <2>4. phase[i] = "put" /\ stage[i] \in {"attributes", "profile", "users", "origins"}
    BY <2>1 DEF Replace
  <2> QED
    BY <2>2, <2>3, <2>4
<1> QED
  BY <1>1, ImportInvariance, PTL DEF Spec, AdditiveUnlessOverlapped
=============================================================================
