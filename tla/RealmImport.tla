---------------------------- MODULE RealmImport ----------------------------
(***************************************************************************)
(* auth/keycloak/import.mjs: creating the realm in a running Keycloak, or  *)
(* repairing one that an older template created.                           *)
(*                                                                         *)
(* A realm is the set of facts the scripts read and write of it: which     *)
(* scope exists, which mapper a scope has, which scope a client carries... *)
(* A run of the script works through the stages of main() in order and, in *)
(* a stage, through its units (scopes, clients, users): it looks at a unit *)
(* and puts what is missing.  Every request is a step of its own.  Users   *)
(* with the same attributes and client settings of the same kind are one.  *)
(***************************************************************************)
EXTENDS Naturals, Sequences

CONSTANTS
  Importers,     \* runs of the script, from one machine or from several
  WebOrigins,    \* the origins each run registers: localhost and WEB_ORIGINS
  ConsoleEdits,  \* what an operator may add to the realm on the console
  Ages,          \* sets of the parts an existing realm may lack
  MaxFaults,     \* bounds: requests that fail,
  MaxEdits       \*   edits on the console

ASSUME BoundsAssumption == MaxFaults \in Nat /\ MaxEdits \in Nat

VARIABLES
  exists,   \* the realm is there
  realm,    \* its facts
  stage,    \* stage of each run
  at,       \* number of the unit it is at in the stage, 0 outside the stages
  phase,    \* "look": about to read the unit, "put": about to write it
  seen,     \* the representation it works with
  todo,     \* facts still to be written for the unit
  faults, edits

run  == <<stage, at, phase, seen, todo>>
vars == <<exists, realm, run, faults, edits>>

Facts(kind, of, names) == {[kind |-> kind, of |-> of, name |-> n] : n \in names}

(***************************************************************************)
(* What prepare.mjs declares in laundry-realm.json.                        *)
(***************************************************************************)
REQUIRED_SCOPES == <<"basic", "roles", "laundry-identity">>
PUBLIC_CLIENTS  == <<"laundry-web", "laundry-mobile">>
users           == <<"student-a", "staff-outlet-a">>

permissions == {"orders:read", "orders:write", "pickups:read",
                "orders:fulfil", "pickups:write"}
required    == {"basic", "roles", "laundry-identity"}
clients     == {"laundry-web", "laundry-mobile"}
fixtures    == {"student-a", "staff-outlet-a"}

protocolMappers(scope) ==
  CASE scope = "basic" -> {"sub"}
    [] scope = "roles" -> {"realm roles", "client roles"}
    [] scope = "laundry-identity" -> {"fixture_domain_id", "outlet_id"}

optionalClientScopes(client) ==
  IF client = "laundry-web"
    THEN (permissions \ {"pickups:write"}) \cup {"offline_access"}
    ELSE permissions \ {"orders:fulfil"}

clientAttributes == {"pkce", "offline.access"}
realmRoles       == {"actor", "offline_access"}
WANTED           == {"fixture_domain_id", "outlet_id", "actor"}

userAttributes(user) ==
  IF user = "staff-outlet-a" THEN WANTED ELSE WANTED \ {"outlet_id"}

UserFacts == UNION {Facts("user", u, userAttributes(u)) : u \in fixtures}
RoleFacts == UNION {Facts("userRole", u, realmRoles) : u \in fixtures}

Owners == {"realm"} \cup required \cup clients \cup fixtures
Names  == {"sub", "realm roles", "client roles", "localhost", "offline_access",
           "include.in.token.scope", "enabled", "email"}
            \cup required \cup permissions \cup clientAttributes \cup realmRoles
            \cup WANTED \cup clients \cup fixtures \cup {f.name : f \in ConsoleEdits}
            \cup UNION {WebOrigins[i] : i \in Importers}

Fact == [kind : {"setting", "scope", "mapper", "client", "default", "optional",
                 "attribute", "origin", "account", "user", "userRole", "profile", "role"},
         of : Owners, name : Names]

\* An operator adds to what the scripts read, merge and put back as a whole.
ASSUME EditsAssumption ==
  \A f \in ConsoleEdits :
    f \in Fact /\ f.kind \in {"origin", "attribute", "profile", "user"}

\* A required scope, and that its name stays out of the scope claim.
Declared(s) == Facts("scope", "realm", {s})
                 \cup Facts("setting", s, {"include.in.token.scope"})

\* What the realm of the template has.  It declares no user profile: the
\* provider's own entries are one here, the address.
Template ==
  Facts("setting", "realm", {"enabled"}) \cup Facts("profile", "realm", {"email"})
  \cup Facts("scope", "realm", permissions \cup {"offline_access"})
  \cup (UNION {Declared(s) \cup Facts("mapper", s, protocolMappers(s)) : s \in required})
  \cup Facts("client", "realm", clients) \cup Facts("account", "realm", fixtures)
  \cup (UNION {Facts("default", c, required)
               \cup Facts("optional", c, optionalClientScopes(c))
               \cup Facts("attribute", c, clientAttributes) : c \in clients})
  \cup Facts("origin", "laundry-web", {"localhost"})
  \cup Facts("role", "realm", realmRoles)
  \cup UserFacts \cup RoleFacts

\* What a realm created from an older template, or changed by hand, lacks.
Lacking(age) ==
  CASE age = "identity"    -> {f \in Template : "laundry-identity" \in {f.of, f.name}}
    [] age = "mappers"     -> Facts("mapper", "laundry-identity",
                                    protocolMappers("laundry-identity"))
    [] age = "built-ins"   -> {f \in Template : f.of \in {"basic", "roles"}
                                             \/ f.name \in {"basic", "roles"}}
    [] age = "refresh"     -> Facts("attribute", "laundry-web", {"offline.access"})
                              \cup Facts("optional", "laundry-web", {"offline_access"})
    [] age = "users"       -> UserFacts \cup RoleFacts
    [] age = "capability"  -> {f \in Template : f.name = "orders:fulfil"}
    [] age = "client"      -> {f \in Template : "laundry-mobile" \in {f.of, f.name}}
    [] age = "account"     -> {f \in Template : "student-a" \in {f.of, f.name}}
    [] age = "setting"     -> Facts("setting", "laundry-identity",
                                    {"include.in.token.scope"})
    [] age = "disabled"    -> Facts("setting", "realm", {"enabled"})

Init ==
  /\ \/ exists = FALSE /\ realm = {}
     \/ exists = TRUE /\ \E lacks \in Ages :
          realm = Template \ UNION {Lacking(a) : a \in lacks}
  /\ stage = [i \in Importers |-> "exists"]
  /\ at    = [i \in Importers |-> 0]
  /\ phase = [i \in Importers |-> "look"]
  /\ seen  = [i \in Importers |-> {}]
  /\ todo  = [i \in Importers |-> {}]
  /\ faults = 0 /\ edits = 0

(***************************************************************************)
(* The stages of main(), their units, and what a unit needs in the realm.  *)
(***************************************************************************)
\* Mutant: the users are written before their profile.
StagesUsersFirst ==
  <<"scopes", "binding", "lookup", "optional", "attributes", "userList", "users",
    "profile", "roles", "verify", "origins", "claims", "discovery", "ready">>

Stages == <<"scopes", "binding", "lookup", "optional", "attributes", "profile",
            "userList", "users", "roles", "verify", "origins", "claims", "discovery",
            "ready">>

\* The stages a run has behind it.
Passed(i) == {Stages[n] : n \in {m \in 1..Len(Stages) :
               \E k \in (m + 1)..Len(Stages) : Stages[k] = stage[i]}}

After(s) == CHOOSE t \in {Stages[n] : n \in 1..Len(Stages)} :
              \E m \in 1..(Len(Stages) - 1) : Stages[m] = s /\ Stages[m + 1] = t

Units(s) ==
  CASE s \in {"scopes", "claims"}                  -> REQUIRED_SCOPES
    [] s \in {"binding", "optional", "attributes"} -> PUBLIC_CLIENTS
    [] s \in {"users", "roles", "verify"}          -> users
    [] s = "origins"                               -> <<"laundry-web">>
    [] s \in {"lookup", "profile", "userList", "discovery"} -> <<"realm">>

Wanted(i, s, u) ==
  CASE s \in {"scopes", "claims"} -> Facts("mapper", u, protocolMappers(u))
    [] s = "binding"              -> Facts("default", u, required)
    [] s = "optional"             -> Facts("optional", u, optionalClientScopes(u))
    [] s = "attributes"           -> Facts("attribute", u, clientAttributes)
    [] s = "profile"              -> Facts("profile", "realm", WANTED)
    [] s \in {"users", "verify"}  -> Facts("user", u, userAttributes(u))
    [] s = "roles"                -> Facts("userRole", u, realmRoles)
    [] s = "origins"              -> Facts("origin", u, WebOrigins[i])
    [] s \in {"lookup", "userList", "discovery"} -> {}

\* What has to be there of a unit already, and is not put there.
Asserted(s, u) ==
  CASE s \in {"binding", "optional", "attributes", "origins"} ->
         Facts("client", "realm", {u})
    [] s \in {"roles", "verify"}                 -> Facts("account", "realm", {u})
    [] s = "claims" /\ u = "laundry-identity"    -> Declared(u)
    [] s = "discovery"                           -> Facts("setting", u, {"enabled"})
    [] OTHER                                     -> {}

\* What a GET of the unit returns, and a PUT of it replaces as a whole.
Representation(s, u) ==
  CASE s \in {"attributes", "origins"} -> {"attribute", "origin"} \X {u}
    [] s = "profile"                   -> {<<"profile", "realm">>}
    [] s = "users"                     -> {<<"user", u>>}
    [] s = "userList"                  -> ({"user"} \X fixtures)
                                            \cup {<<"account", "realm">>}
    [] s = "lookup"                    -> {<<"scope", "realm">>}
    [] s \in {"scopes", "binding", "optional", "roles", "verify", "claims",
              "discovery"}             -> {}

In(facts, s, u) == {f \in facts : <<f.kind, f.of>> \in Representation(s, u)}

\* The unit a run is at.
Unit(i) == Units(stage[i])[at[i]]

\* A run turns to unit n of stage s.  The users were read with their list.
Turn(i, s, n) ==
  /\ stage' = [stage EXCEPT ![i] = s]
  /\ at'    = [at EXCEPT ![i] = n]
  /\ phase' = [phase EXCEPT ![i] = IF s = "users" THEN "put" ELSE "look"]
  /\ todo'  = [todo EXCEPT ![i] = IF s = "users" THEN Wanted(i, s, Units(s)[n]) ELSE {}]

Enter(i, s) == Turn(i, s, IF s = "ready" THEN 0 ELSE 1)

\* The unit is done; the last one ends the stage.
Finish(i) ==
  IF at[i] = Len(Units(stage[i])) THEN Enter(i, After(stage[i]))
                                  ELSE Turn(i, stage[i], at[i] + 1)

(***************************************************************************)
(* The run.                                                                *)
(***************************************************************************)
\* The discovery document is served.
Served == exists /\ Asserted("discovery", "realm") \subseteq realm

\* A realm that is disabled is taken for one that is not there.
Begin(i) ==
  /\ stage[i] = "exists"
  /\ IF Served THEN Enter(i, "scopes")
     ELSE stage' = [stage EXCEPT ![i] = "create"] /\ UNCHANGED <<at, phase, todo>>
  /\ UNCHANGED <<exists, realm, seen, faults, edits>>

\* 409, when the realm is there all the same, is not an error.  Whether the attributes
\* of the users survive an import that declares no profile is the provider's.
CreateRealm(i) ==
  /\ stage[i] = "create"
  /\ exists' = TRUE
  /\ IF exists THEN UNCHANGED realm ELSE realm' \in {Template, Template \ UserFacts}
  /\ Enter(i, "scopes")
  /\ UNCHANGED <<seen, faults, edits>>

\* The assertions on what is there of a unit.
Expected(i) ==
  LET wanted == Wanted(i, stage[i], Unit(i)) IN
  /\ Asserted(stage[i], Unit(i)) \subseteq realm
  /\ stage[i] = "verify" => wanted \subseteq realm
  /\ stage[i] = "claims" => IF Unit(i) = "laundry-identity"
                              THEN wanted \cap realm # {} ELSE wanted \subseteq realm
  /\ stage[i] = "roles"  =>
       {f.name : f \in wanted \ realm}
         \subseteq {f.name : f \in {g \in realm : g.kind = "role"}}

\* A mapper is written whether it is there or not; a scope that is missing is
\* created first, as declared, but one that is there keeps its settings.  The
\* other stages write only what is missing.
Missing(i) ==
  LET s == stage[i]
      u == Unit(i)
  IN IF s = "scopes"
       THEN Wanted(i, s, u) \cup (IF Facts("scope", "realm", {u}) \subseteq realm
                                    THEN {} ELSE Declared(u))
     ELSE IF s \in {"verify", "claims"} THEN {} ELSE Wanted(i, s, u) \ realm

Look(i) ==
  /\ at[i] # 0 /\ phase[i] = "look" /\ Expected(i)
  /\ seen' = [seen EXCEPT ![i] = IF stage[i] = "optional" THEN @
                                 ELSE In(realm, stage[i], Unit(i))]
  /\ IF Missing(i) = {} THEN Finish(i)
     ELSE /\ phase' = [phase EXCEPT ![i] = "put"]
          /\ todo'  = [todo EXCEPT ![i] = Missing(i)]
          /\ UNCHANGED <<stage, at>>
  /\ UNCHANGED <<exists, realm, faults, edits>>

\* The request at hand: one fact, or all the roles of a user; the scope itself
\* before its mappers.
Batch(i) ==
  LET scopes == {f \in todo[i] : f.kind \in {"scope", "setting"}} IN
  IF stage[i] = "roles" THEN todo[i]
  ELSE IF scopes # {} THEN scopes ELSE {CHOOSE f \in todo[i] : TRUE}

\* Mutant: only the scopes the run has ensured itself are known.
KnownEnsured(i) ==
  /\ stage[i] = "optional" => {f.name : f \in Batch(i)} \subseteq required
  /\ stage[i] = "users" => Facts("account", "realm", {Unit(i)}) \subseteq seen[i]

\* An optional scope is attached by the id the lookup found for its name, a
\* user is written by the id found in the list.
Known(i) ==
  /\ stage[i] = "optional" =>
       {f.name : f \in Batch(i)} \subseteq {f.name : f \in seen[i]}
  /\ stage[i] = "users" => Facts("account", "realm", {Unit(i)}) \subseteq seen[i]

Add(i) ==
  /\ phase[i] = "put" /\ stage[i] \in {"scopes", "binding", "optional", "roles"}
  /\ Known(i)
  /\ realm' = realm \cup Batch(i)
  /\ IF todo[i] = Batch(i) THEN Finish(i)
     ELSE /\ todo' = [todo EXCEPT ![i] = @ \ Batch(i)]
          /\ UNCHANGED <<stage, at, phase>>
  /\ UNCHANGED <<exists, seen, faults, edits>>

\* The provider drops, without an error, a user attribute it has no profile for.
Stored(facts) ==
  {f \in facts : f.kind = "user" => Facts("profile", "realm", {f.name}) \subseteq realm}

\* Mutant: the missing part alone.
ReplaceMissingOnly(i) ==
  /\ phase[i] = "put" /\ stage[i] \in {"attributes", "profile", "users", "origins"}
  /\ Known(i)
  /\ LET s == stage[i]
         u == Unit(i)
     IN realm' = (realm \ In(realm, s, u)) \cup Stored(todo[i])
  /\ Finish(i)
  /\ UNCHANGED <<exists, seen, faults, edits>>

\* PUT of a whole client, profile or user: what was read, and the missing part.
Replace(i) ==
  /\ phase[i] = "put" /\ stage[i] \in {"attributes", "profile", "users", "origins"}
  /\ Known(i)
  /\ LET s == stage[i]
         u == Unit(i)
     IN realm' = (realm \ In(realm, s, u))
                   \cup Stored(In(seen[i], s, u) \cup todo[i])
  /\ Finish(i)
  /\ UNCHANGED <<exists, seen, faults, edits>>

Leave(i, s) ==
  /\ stage' = [stage EXCEPT ![i] = s]
  /\ at'    = [at EXCEPT ![i] = 0]
  /\ phase' = [phase EXCEPT ![i] = "look"]
  /\ seen'  = [seen EXCEPT ![i] = {}]
  /\ todo'  = [todo EXCEPT ![i] = {}]

\* An assertion fails: the script ends with exit code 1.
Reject(i) ==
  /\ at[i] # 0
  /\ IF phase[i] = "look" THEN ~Expected(i) ELSE ~Known(i)
  /\ Leave(i, "failed")
  /\ UNCHANGED <<exists, realm, faults, edits>>

\* A request fails or times out, or the administrator's token has expired.
Throw(i) ==
  /\ stage[i] \notin {"failed", "ready"} /\ faults < MaxFaults
  /\ faults' = faults + 1
  /\ Leave(i, "failed")
  /\ UNCHANGED <<exists, realm, edits>>

Rerun(i) ==
  /\ stage[i] = "failed"
  /\ Leave(i, "exists")
  /\ UNCHANGED <<exists, realm, faults, edits>>

\* An operator registers an origin, sets an attribute of a client or of a user,
\* or declares one in the user profile.
Edit ==
  /\ exists /\ edits < MaxEdits
  /\ \E f \in ConsoleEdits \ realm :
       /\ f.of = "realm" \/ f.of \in {g.name : g \in {h \in realm :
                                            h.kind \in {"client", "account"}}}
       /\ Stored({f}) = {f}
       /\ realm' = realm \cup {f}
  /\ edits' = edits + 1
  /\ UNCHANGED <<exists, run, faults>>

Run(i) == Begin(i) \/ CreateRealm(i) \/ Look(i) \/ Add(i) \/ Replace(i)
            \/ Reject(i) \/ Rerun(i)

Next == Edit \/ \E i \in Importers : Run(i) \/ Throw(i)

\* The script is started again until it succeeds.
Spec == Init /\ [][Next]_vars /\ \A i \in Importers : WF_vars(Run(i))

-----------------------------------------------------------------------------
\* The realm and what the runs hold of it are facts; a run is at a stage of
\* main(), and at one of its units.
TypeOK ==
  /\ exists \in BOOLEAN
  /\ realm \in SUBSET Fact
  /\ stage \in [Importers -> {"exists", "create", "failed"}
                               \cup {Stages[n] : n \in 1..Len(Stages)}]
  /\ at \in [Importers -> 0..3]
  /\ phase \in [Importers -> {"look", "put"}]
  /\ seen \in [Importers -> SUBSET Fact]
  /\ todo \in [Importers -> SUBSET Fact]
  /\ faults \in Nat /\ edits \in Nat

(* What a stage has ensured, or asserted, stays in the realm to the end of the
   run, whatever other runs put back meanwhile of what they read before, beside
   an operator who adds to the realm.  Only the origins are not safe.  In
   particular "ready" is true when it is printed (the order of the stages in
   main, the read-modify-write of clients, profile and users, and the assertions
   of the ensure and verify functions). *)
EnsuredStays ==
  \A i \in Importers : \A s \in Passed(i) \ {"origins"} :
    \A n \in 1..Len(Units(s)) :
      Wanted(i, s, Units(s)[n]) \cup Asserted(s, Units(s)[n]) \subseteq realm

(* Additive, but for PUTs that overlap: an entry leaves the realm only when a
   run puts back a whole client, user or profile that it had read before the
   entry was made (ensureClientAttributes, ensureClientOrigins,
   ensureUserProfile; ensureUserAttributes, which reads all the users before it
   writes the first), or puts back an attribute of a user whose declaration
   another run took out of the profile in this way.  And nothing leaves that a
   stage of any run is to ensure, but the origins. *)
AdditiveUnlessOverlapped ==
  [][\A f \in realm \ realm' :
       /\ \E i \in Importers :
            /\ phase[i] = "put"
            /\ stage[i] \in {"attributes", "profile", "users", "origins"}
            /\ <<f.kind, f.of>> \in Representation(stage[i], Unit(i))
            /\ f \notin seen[i] \/ Stored({f}) = {}
       /\ \A i \in Importers : \A m \in 1..(Len(Stages) - 1) :
            Stages[m] # "origins" =>
              \A n \in 1..Len(Units(Stages[m])) :
                f \notin Wanted(i, Stages[m], Units(Stages[m])[n])]_realm

(* A realm that is enabled and has the clients, the users, the roles and the
   scopes the script only looks up, and whose identity scope, if it is there,
   is kept out of the scope claim, is repaired by every run that is repeated
   until it succeeds, alongside other runs (main, and the tolerance of 409 in
   adminApi and importRealm). *)
LookedUp == {f \in Template : \/ f.kind \in {"role", "client", "account"}
                              \/ f.of = "realm" /\ f.name = "enabled"
                              \/ f.kind = "scope" /\ f.name \notin required}

Repairable ==
  exists => /\ LookedUp \subseteq realm
            /\ Facts("scope", "realm", {"laundry-identity"}) \subseteq realm =>
                 Declared("laundry-identity") \subseteq realm

RepairConverges ==
  \A i \in Importers : Repairable ~> stage[i] = "ready"
=============================================================================
