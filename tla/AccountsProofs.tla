--------------------------- MODULE AccountsProofs ---------------------------
(***************************************************************************)
(* Theorems about Accounts, for every number of runs, script versions,     *)
(* tenants, requests and reverted migrations.                              *)
(***************************************************************************)
EXTENDS Accounts, TLAPS

USE DEF Names, NoId, Ids

LEMMA IdleType == Idle \in Seed
  BY ScriptsAssumption, BoundAssumption DEF Idle, Run, Seed, SeedSteps

LEMMA InitInv == Init => Inv
<1> SUFFICES ASSUME Init PROVE Inv
  OBVIOUS
<1>1. NoToken \in Token /\ NoToken.tenant = 0
  BY DEF NoToken, Token
<1>2. seed \in [Shells -> Seed] /\ \A r \in Shells : RunStands(seed[r], 0)
  <2>1. RunStands(Idle, 0)
    BY DEF Idle, Run, RunStands
  <2>2. QED
    BY <2>1, IdleType DEF Init
<1>3. check \in [Checks -> Check] /\ \A c \in Checks : check[c].token.tenant = 0
  BY <1>1 DEF Init, Check
<1>4. TypeOK
  BY <1>2, <1>3, BoundAssumption DEF Init, TypeOK
<1>5. IdsGivenOut /\ RowsStand /\ TokensStand
  BY <1>2, <1>3 DEF Init, IdsGivenOut, RowsStand, TokensStand, HasId
<1>6. QED
  BY <1>4, <1>5 DEF Inv

-----------------------------------------------------------------------------
(* What a run of the seed script remembers.                                *)

\* A run may remember s when the ids given out are those up to last.
Sound(s, last) == s \in Seed /\ RunStands(s, last)

LEMMA RunsAreSound ==
  ASSUME Inv, NEW r \in Shells
  PROVE  Sound(seed[r], lastId) /\ lastId \in Nat /\ lastId \in 0..MaxId
  BY BoundAssumption DEF Inv, TypeOK, IdsGivenOut, Sound

LEMMA LaterIsSound ==
  ASSUME NEW last \in Nat, NEW later \in Nat, last <= later, NEW s, Sound(s, last)
  PROVE  Sound(s, later)
  BY DEF Sound, RunStands, Seed

LEMMA RunIsSound ==
  ASSUME NEW v \in Scripts, NEW step \in SeedSteps \ {"updateRole"},
         NEW since \in 0..MaxReverts, NEW last \in Nat
  PROVE  Sound(Run(v, step, since), last)
  BY DEF Sound, Run, RunStands, Seed, SeedSteps

LEMMA ThenIsSound ==
  ASSUME NEW last \in Nat, NEW s, Sound(s, last), NEW step \in SeedSteps \ {"updateRole"}
  PROVE  Sound(Then(s, step), last)
  BY DEF Sound, Then, RunStands, Seed, SeedSteps

LEMMA TenantReadyIsSound ==
  ASSUME NEW last \in Nat, NEW s, Sound(s, last), NEW id \in Ids
  PROVE  Sound(TenantReady(s, id), last)
  BY DEF Sound, TenantReady, RunStands, Seed, SeedSteps

LEMMA RoleReadyIsSound ==
  ASSUME NEW last \in Nat, NEW s, Sound(s, last), NEW id \in Ids, id <= last
  PROVE  /\ Sound(RoleReady(s, id), last)
         /\ Sound([s EXCEPT !.at = "updateRole", !.role[s.name] = id], last)
<1>1. /\ RoleReady(s, id) \in Seed
      /\ [s EXCEPT !.at = "updateRole", !.role[s.name] = id] \in Seed
  BY DEF Sound, RoleReady, Seed, SeedSteps
<1>2. RunStands(RoleReady(s, id), last)
  BY DEF Sound, RoleReady, RunStands, Seed, SeedSteps
<1>3. RunStands([s EXCEPT !.at = "updateRole", !.role[s.name] = id], last)
  BY DEF Sound, RunStands, Seed, SeedSteps
<1>4. QED
  BY <1>1, <1>2, <1>3 DEF Sound

LEMMA UserReadyIsSound ==
  ASSUME NEW last \in Nat, NEW s, Sound(s, last)
  PROVE  Sound(UserReady(s), last)
<1>1. CASE s.name = "admin"
  BY <1>1 DEF Sound, UserReady, RunStands, Seed, SeedSteps
<1>2. CASE s.name # "admin"
  BY <1>2, RunIsSound DEF Sound, UserReady, Seed, SeedSteps
<1>3. QED
  BY <1>1, <1>2

-----------------------------------------------------------------------------
(* Steps of the script that change no row.                                 *)

LEMMA ReadKeepsInv ==
  ASSUME Inv, NEW r \in Shells, NEW s, Sound(s, lastId), seed' = [seed EXCEPT ![r] = s],
         UNCHANGED <<schemaVars, tables, lastId, check>>, alone' \subseteq Shells
  PROVE  Inv'
<1>1. UNCHANGED <<schema, reverts, tenants, roles, users>>
  BY DEF schemaVars, tables
<1>2. TypeOK'
  BY <1>1 DEF Inv, TypeOK, Sound
<1>3. IdsGivenOut'
  BY <1>1 DEF Inv, TypeOK, IdsGivenOut, Sound
<1>4. RowsStand' /\ TokensStand'
  BY <1>1 DEF Inv, RowsStand, TokensStand, HasId
<1>5. QED
  BY <1>2, <1>3, <1>4 DEF Inv

LEMMA SeedReads ==
  ASSUME Inv, NEW r \in Shells,
         SeedStart(r) \/ FindTenant(r) \/ FindRole(r) \/ FindUser(r) \/ SeedFails(r)
  PROVE  Inv'
<1> DEFINE s == seed[r]
<1>1. Sound(s, lastId) /\ lastId \in Nat
  BY RunsAreSound
<1>2. \A step \in {"newTenant", "newRole", "newUser", "assignUser"} :
        Sound(Then(s, step), lastId)
  BY <1>1, ThenIsSound DEF SeedSteps
<1>3. SUFFICES \E next : seed' = [seed EXCEPT ![r] = next] /\ Sound(next, lastId)
  <2>1. UNCHANGED <<schemaVars, tables, lastId, check>> /\ alone' \subseteq Shells
    BY DEF SeedStart, FindTenant, FindRole, FindUser, SeedFails, Inv, TypeOK
  <2>2. QED
    BY <1>3, <2>1, ReadKeepsInv
<1>4. CASE SeedStart(r)
  <2>1. reverts \in 0..MaxReverts /\ "findTenant" \in SeedSteps \ {"updateRole"}
    BY DEF Inv, TypeOK, SeedSteps
  <2>2. QED
    BY <1>1, <1>4, <2>1, RunIsSound DEF SeedStart
<1>5. CASE FindTenant(r)
  <2>1. CASE \E t \in TenantNamed(TenantOf[s.script]) :
               seed' = [seed EXCEPT ![r] = TenantReady(s, t.id)]
    <3>1. PICK t \in tenants : seed' = [seed EXCEPT ![r] = TenantReady(s, t.id)]
      BY <2>1 DEF TenantNamed
    <3>2. t.id \in Ids
      BY DEF Inv, TypeOK
    <3>3. QED
      BY <1>1, <3>1, <3>2, TenantReadyIsSound
  <2>2. CASE seed' = [seed EXCEPT ![r] = Then(s, "newTenant")]
    BY <1>2, <2>2
  <2>3. QED
    BY <1>5, <2>1, <2>2 DEF FindTenant
<1>6. CASE FindRole(r)
  <2>1. CASE \E x \in RoleOf(s) :
               \/ seed' = [seed EXCEPT ![r] = RoleReady(s, x.id)]
               \/ seed' = [seed EXCEPT ![r] =
                             [s EXCEPT !.at = "updateRole", !.role[s.name] = x.id]]
    <3>1. PICK x \in roles :
               \/ seed' = [seed EXCEPT ![r] = RoleReady(s, x.id)]
               \/ seed' = [seed EXCEPT ![r] =
                             [s EXCEPT !.at = "updateRole", !.role[s.name] = x.id]]
      BY <2>1 DEF RoleOf
    <3>2. x.id \in Ids /\ x.id <= lastId
      BY DEF Inv, TypeOK, IdsGivenOut
    <3>3. QED
      BY <1>1, <3>1, <3>2, RoleReadyIsSound
  <2>2. CASE seed' = [seed EXCEPT ![r] = Then(s, "newRole")]
    BY <1>2, <2>2
  <2>3. QED
    BY <1>6, <2>1, <2>2 DEF FindRole
<1>7. CASE FindUser(r)
  <2>1. \E next \in {Then(s, "newUser"), Then(s, "assignUser"), UserReady(s)} :
          seed' = [seed EXCEPT ![r] = next]
    BY <1>7 DEF FindUser
  <2>2. QED
    BY <1>1, <1>2, <2>1, UserReadyIsSound
<1>8. CASE SeedFails(r)
  <2>1. Sound(Idle, lastId)
    BY <1>1, IdleType DEF Idle, Run, Sound, RunStands
  <2>2. QED
    BY <1>8, <2>1 DEF SeedFails
<1>9. QED
  BY <1>4, <1>5, <1>6, <1>7, <1>8

-----------------------------------------------------------------------------
(* Steps of the script that write a row.                                   *)

\* A row with a new id is no other row, and no token names it.
LEMMA NewTenantInv ==
  ASSUME Inv, NEW r \in Shells, NewTenant(r)
  PROVE  Inv'
<1> DEFINE t == [id |-> NewId, name |-> TenantOf[seed[r].script]]
           s == TenantReady(seed[r], NewId)
<1>1. lastId \in Nat /\ lastId' = lastId + 1 /\ NewId = lastId + 1 /\ NewId \in Ids
  BY RunsAreSound DEF NewTenant, NewId
<1>2. /\ tenants' = tenants \cup {t} /\ seed' = [seed EXCEPT ![r] = s]
      /\ UNCHANGED <<schema, reverts, roles, users, alone, check>>
  BY DEF NewTenant, schemaVars
<1>3. Sound(s, lastId') /\ \A q \in Shells : Sound(seed[q], lastId')
  BY <1>1, RunsAreSound, LaterIsSound, TenantReadyIsSound
<1>4. seed[r].script \in Scripts
  BY RunsAreSound DEF Sound, Seed
<1>5. \A x \in tenants : x.id # t.id /\ x.name # t.name
  BY <1>1 DEF Inv, IdsGivenOut, NewTenant, TenantNamed, TypeOK
<1>6. TypeOK'
  <2>1. seed' \in [Shells -> Seed] /\ lastId' \in 0..MaxId
    BY <1>1, <1>2, <1>3 DEF Inv, TypeOK, Sound
  <2>2. t \in [id : Ids, name : {TenantOf[v] : v \in Scripts} \cup {"default"}]
    BY <1>1, <1>4
  <2>3. \A x, y \in tenants' : x.id = y.id \/ x.name = y.name => x = y
    BY <1>2, <1>5 DEF Inv, TypeOK
  <2>4. QED
    BY <1>2, <2>1, <2>2, <2>3 DEF Inv, TypeOK
<1>7. IdsGivenOut'
  <2>1. \A q \in Shells : RunStands(seed'[q], lastId')
    BY <1>2, <1>3 DEF Inv, TypeOK, Sound
  <2>2. \A x \in tenants' : x.id <= lastId'
    BY <1>1, <1>2 DEF Inv, IdsGivenOut, TypeOK
  <2>3. /\ \A x \in roles : x.id <= lastId'
        /\ \A u \in users : u.tenant <= lastId'
    BY <1>1 DEF Inv, IdsGivenOut, TypeOK
  <2>4. \A c \in Checks : check[c].token.tenant <= lastId'
    BY <1>1 DEF Inv, IdsGivenOut, TypeOK, Check, Token
  <2>5. QED
    BY <1>2, <2>1, <2>2, <2>3, <2>4 DEF IdsGivenOut
<1>8. \A c \in Checks : check[c].token.tenant # t.id
  BY <1>1 DEF Inv, IdsGivenOut, TypeOK, Check, Token
<1>9. RowsStand' /\ TokensStand'
  BY <1>2, <1>8 DEF Inv, RowsStand, TokensStand, HasId
<1>10. QED
  BY <1>6, <1>7, <1>9 DEF Inv

\* A role goes in under an id no role has, and only under a tenant that is there.
LEMMA InsertRoleInv ==
  ASSUME Inv, NEW r \in Shells, NEW id \in Ids, InsertRole(r, id), schema = "roles",
         ~HasId(roles, id), lastId' \in 0..MaxId, lastId <= lastId', id <= lastId',
         UNCHANGED <<schemaVars, tenants, users, alone, check>>
  PROVE  Inv'
<1> DEFINE s == RoleReady(seed[r], id)
           x == [id |-> id, tenant |-> seed[r].tenant, name |-> seed[r].name,
                 perms |-> PermsOf[seed[r].script][seed[r].name]]
<1>1. lastId \in Nat /\ lastId' \in Nat
  BY RunsAreSound, BoundAssumption
<1>2. /\ roles' = roles \cup {x} /\ seed' = [seed EXCEPT ![r] = s]
      /\ UNCHANGED <<schema, reverts, tenants, users, alone, check>>
  BY DEF InsertRole, schemaVars
<1>3. Sound(s, lastId') /\ \A q \in Shells : Sound(seed[q], lastId')
  BY <1>1, RunsAreSound, LaterIsSound, RoleReadyIsSound
<1>4. HasId(tenants, x.tenant)
  BY DEF InsertRole
<1>5. x \in [id : Ids, tenant : Ids, name : Names, perms : SUBSET Permissions]
  <2>1. seed[r].script \in Scripts /\ seed[r].name \in Names
    BY RunsAreSound DEF Sound, Seed
  <2>2. seed[r].tenant \in Ids
    BY <1>4 DEF HasId, Inv, TypeOK
  <2>3. PermsOf[seed[r].script][seed[r].name] \in SUBSET Permissions
    BY <2>1, PermsAssumption
  <2>4. QED
    BY <2>1, <2>2, <2>3
<1>6. \A y \in roles : y.id # x.id /\ ~(y.tenant = x.tenant /\ y.name = x.name)
  BY DEF InsertRole, RoleOf, HasId
<1>7. TypeOK'
  <2>1. seed' \in [Shells -> Seed]
    BY <1>2, <1>3 DEF Inv, TypeOK, Sound
  <2>2. \A y, z \in roles' :
          y.id = z.id \/ <<y.tenant, y.name>> = <<z.tenant, z.name>> => y = z
    BY <1>2, <1>6 DEF Inv, TypeOK
  <2>3. QED
    BY <1>2, <1>5, <2>1, <2>2 DEF Inv, TypeOK
<1>8. IdsGivenOut'
  <2>1. \A q \in Shells : RunStands(seed'[q], lastId')
    BY <1>2, <1>3 DEF Inv, TypeOK, Sound
  <2>2. \A y \in roles' : y.id <= lastId'
    BY <1>1, <1>2 DEF Inv, IdsGivenOut, TypeOK
  <2>3. /\ \A t \in tenants : t.id <= lastId'
        /\ \A u \in users : u.tenant <= lastId'
    BY <1>1 DEF Inv, IdsGivenOut, TypeOK
  <2>4. \A c \in Checks : check[c].token.tenant <= lastId'
    BY <1>1 DEF Inv, IdsGivenOut, TypeOK, Check, Token
  <2>5. QED
    BY <1>2, <2>1, <2>2, <2>3, <2>4 DEF IdsGivenOut
<1>9. RowsStand' /\ TokensStand'
  BY <1>2, <1>4 DEF Inv, RowsStand, TokensStand, HasId
<1>10. QED
  BY <1>7, <1>8, <1>9 DEF Inv

LEMMA NewRoleInv ==
  ASSUME Inv, NEW r \in Shells, NewRole(r)
  PROVE  Inv'
<1>1. NewId \in Ids /\ lastId' = NewId /\ NewId = lastId + 1 /\ lastId \in Nat
  BY RunsAreSound DEF NewRole, NewId
<1>2. ~HasId(roles, NewId)
  BY <1>1 DEF HasId, Inv, IdsGivenOut, TypeOK
<1>3. /\ InsertRole(r, NewId) /\ schema = "roles"
      /\ UNCHANGED <<schemaVars, tenants, users, alone, check>>
  BY DEF NewRole
<1>4. NewId \in 0..MaxId
  BY <1>1, BoundAssumption
<1>5. QED
  BY <1>1, <1>2, <1>3, <1>4, InsertRoleInv

LEMMA UpdateRoleInv ==
  ASSUME Inv, NEW r \in Shells, UpdateRole(r)
  PROVE  Inv'
<1> DEFINE id == seed[r].role[seed[r].name]
           s == RoleReady(seed[r], id)
           set == PermsOf[seed[r].script][seed[r].name]
<1>1. Sound(seed[r], lastId) /\ lastId \in Nat /\ lastId \in 0..MaxId
  BY RunsAreSound
<1>2. id \in Ids /\ id <= lastId
  BY <1>1 DEF UpdateRole, Sound, RunStands, Seed
<1>3. set \in SUBSET Permissions
  BY <1>1, PermsAssumption DEF Sound, Seed
<1>4. /\ UNCHANGED <<schemaVars, tenants, users, lastId, alone, check>>
      /\ UNCHANGED <<schema, reverts>> /\ schema = "roles"
  BY DEF UpdateRole, schemaVars
<1>5. CASE ~HasId(roles, id) /\ InsertRole(r, id)
  BY <1>1, <1>2, <1>4, <1>5, InsertRoleInv
<1>6. CASE /\ roles' = {IF x.id = id THEN [x EXCEPT !.perms = set] ELSE x : x \in roles}
           /\ seed' = [seed EXCEPT ![r] = s]
  <2>1. Sound(s, lastId)
    BY <1>1, <1>2, RoleReadyIsSound
  <2>2. \A y \in roles' : \E x \in roles :
          /\ y = IF x.id = id THEN [x EXCEPT !.perms = set] ELSE x
          /\ y.id = x.id /\ y.tenant = x.tenant /\ y.name = x.name
          /\ y \in [id : Ids, tenant : Ids, name : Names, perms : SUBSET Permissions]
    BY <1>3, <1>6 DEF Inv, TypeOK
  <2>3. \A y, z \in roles' :
          y.id = z.id \/ <<y.tenant, y.name>> = <<z.tenant, z.name>> => y = z
    BY <2>2 DEF Inv, TypeOK
  <2>4. TypeOK'
    <3>1. seed' \in [Shells -> Seed]
      BY <1>6, <2>1 DEF Inv, TypeOK, Sound
    <3>2. roles' \subseteq [id : Ids, tenant : Ids, name : Names, perms : SUBSET Permissions]
      BY <2>2
    <3>3. QED
      BY <1>4, <2>3, <3>1, <3>2 DEF Inv, TypeOK
  <2>5. IdsGivenOut'
    <3>1. \A q \in Shells : RunStands(seed'[q], lastId)
      BY <1>6, <2>1 DEF Inv, TypeOK, IdsGivenOut, Sound
    <3>2. \A y \in roles' : y.id <= lastId
      BY <2>2 DEF Inv, IdsGivenOut
    <3>3. QED
      BY <1>4, <3>1, <3>2 DEF Inv, IdsGivenOut
  <2>6. RowsStand'
    BY <1>4, <2>2 DEF Inv, RowsStand, HasId
  <2>7. TokensStand'
    BY <1>4 DEF Inv, TokensStand, HasId
  <2>8. QED
    BY <2>4, <2>5, <2>6, <2>7 DEF Inv
<1>7. QED
  BY <1>5, <1>6 DEF UpdateRole

\* Users that keep their names and tenants keep the tokens standing.
LEMMA TokensKept ==
  ASSUME TokensStand, UNCHANGED <<tenants, check>>,
         \A u \in users : \E v \in users' : v.name = u.name /\ v.tenant = u.tenant
  PROVE  TokensStand'
<1> SUFFICES ASSUME NEW c \in Checks, HasId(tenants, check[c].token.tenant)
             PROVE  \E v \in users' : /\ v.name = check[c].token.user
                                      /\ v.tenant = check[c].token.tenant
  BY DEF TokensStand, HasId
<1>1. PICK u \in users : u.name = check[c].token.user /\ u.tenant = check[c].token.tenant
  BY DEF TokensStand
<1>2. QED
  BY <1>1

\* A row of users gets another role; its name and its tenant stay.
LEMMA AssignUserInv ==
  ASSUME Inv, NEW r \in Shells, AssignUser(r)
  PROVE  Inv'
<1> DEFINE s == seed[r]
<1>1. Sound(s, lastId) /\ Sound(UserReady(s), lastId)
  BY RunsAreSound, UserReadyIsSound
<1>2. /\ users' = {IF u.name = s.name THEN [u EXCEPT !.role = s.role[s.name]] ELSE u :
                     u \in users}
      /\ seed' = [seed EXCEPT ![r] = UserReady(s)]
      /\ UNCHANGED <<schema, reverts, tenants, roles, lastId, alone, check>>
  BY DEF AssignUser, schemaVars
<1>3. s.name \in Names /\ s.role[s.name] \in Ids \cup {NoId}
  BY <1>1 DEF Sound, Seed
<1>4. \A v \in users' : \E u \in users :
        /\ v = IF u.name = s.name THEN [u EXCEPT !.role = s.role[s.name]] ELSE u
        /\ v.name = u.name /\ v.tenant = u.tenant
        /\ v \in [name : Names, tenant : Ids \cup {NoId}, role : Ids \cup {NoId}]
  BY <1>2, <1>3 DEF Inv, TypeOK
<1>5. TypeOK'
  <2>1. seed' \in [Shells -> Seed]
    BY <1>1, <1>2 DEF Inv, TypeOK, Sound
  <2>2. \A u, v \in users' : u.name = v.name => u = v
    BY <1>4 DEF Inv, TypeOK
  <2>3. users' \subseteq [name : Names, tenant : Ids \cup {NoId}, role : Ids \cup {NoId}]
    BY <1>4
  <2>4. QED
    BY <1>2, <2>1, <2>2, <2>3 DEF Inv, TypeOK
<1>6. IdsGivenOut'
  <2>1. \A q \in Shells : RunStands(seed'[q], lastId)
    BY <1>1, <1>2 DEF Inv, TypeOK, IdsGivenOut, Sound
  <2>2. \A u \in users' : u.tenant <= lastId
    BY <1>4 DEF Inv, IdsGivenOut
  <2>3. QED
    BY <1>2, <2>1, <2>2 DEF Inv, IdsGivenOut
<1>7. RowsStand'
  BY <1>2 DEF Inv, RowsStand, HasId
<1>8. TokensStand'
  <2>1. ASSUME NEW u \in users
        PROVE  \E v \in users' : v.name = u.name /\ v.tenant = u.tenant
    <3> DEFINE v == IF u.name = s.name THEN [u EXCEPT !.role = s.role[s.name]] ELSE u
    <3>1. v \in users'
      BY <1>2
    <3>2. v.name = u.name /\ v.tenant = u.tenant
      BY DEF Inv, TypeOK
    <3>3. QED
      BY <3>1, <3>2
  <2>2. QED
    BY <1>2, <2>1, TokensKept DEF Inv
<1>9. QED
  BY <1>5, <1>6, <1>7, <1>8 DEF Inv

LEMMA NewUserInv ==
  ASSUME Inv, NEW r \in Shells, NewUser(r)
  PROVE  Inv'
<1> DEFINE s == seed[r]
           v == [name |-> s.name, tenant |-> s.tenant, role |-> s.role[s.name]]
<1>1. Sound(s, lastId) /\ Sound(UserReady(s), lastId)
  BY RunsAreSound, UserReadyIsSound
<1>2. /\ users' = users \cup {v} /\ seed' = [seed EXCEPT ![r] = UserReady(s)]
      /\ UNCHANGED <<schema, reverts, tenants, roles, lastId, alone, check>>
      /\ HasId(tenants, v.tenant) /\ \A u \in users : u.name # v.name
  BY DEF NewUser, schemaVars, UserNamed
<1>3. v \in [name : Names, tenant : Ids \cup {NoId}, role : Ids \cup {NoId}]
  BY <1>1 DEF Sound, Seed
<1>4. v.tenant <= lastId
  BY <1>2 DEF HasId, Inv, IdsGivenOut
<1>5. TypeOK'
  <2>1. seed' \in [Shells -> Seed]
    BY <1>1, <1>2 DEF Inv, TypeOK, Sound
  <2>2. \A u, w \in users' : u.name = w.name => u = w
    BY <1>2 DEF Inv, TypeOK
  <2>3. QED
    BY <1>2, <1>3, <2>1, <2>2 DEF Inv, TypeOK
<1>6. IdsGivenOut'
  <2>1. \A q \in Shells : RunStands(seed'[q], lastId)
    BY <1>1, <1>2 DEF Inv, TypeOK, IdsGivenOut, Sound
  <2>2. QED
    BY <1>2, <1>4, <2>1 DEF Inv, IdsGivenOut
<1>7. RowsStand' /\ TokensStand'
  BY <1>2 DEF Inv, RowsStand, TokensStand, HasId
<1>8. QED
  BY <1>5, <1>6, <1>7 DEF Inv

-----------------------------------------------------------------------------
(* Migrations.                                                             *)

\* The tenant that migration:run makes is new, so no token names a tenant any more.
LEMMA MigrationRunInv ==
  ASSUME Inv, MigrationRun
  PROVE  Inv'
<1>1. /\ schema' = "roles" /\ roles' = {} /\ UNCHANGED <<reverts, seed, alone, check>>
      /\ lastId \in 0..MaxId /\ lastId \in Nat
  BY BoundAssumption DEF MigrationRun, CreateRoles, Inv, TypeOK
<1>2. CASE UNCHANGED <<tenants, users, lastId>>
  BY <1>1, <1>2 DEF Inv, TypeOK, IdsGivenOut, RowsStand, TokensStand, HasId
<1>3. CASE /\ NewId \in Ids /\ lastId' = NewId
           /\ tenants' = {[id |-> NewId, name |-> "default"]}
           /\ users' = {[u EXCEPT !.tenant = NewId] : u \in users}
  <2>1. NewId = lastId + 1 /\ lastId' \in 0..MaxId
    BY <1>1, <1>3 DEF NewId
  <2>2. \A v \in users' : \E u \in users :
          /\ v = [u EXCEPT !.tenant = NewId] /\ v.name = u.name /\ v.tenant = NewId
          /\ v \in [name : Names, tenant : Ids \cup {NoId}, role : Ids \cup {NoId}]
    BY <1>3 DEF Inv, TypeOK
  <2>3. TypeOK'
    <3>1. \A v, w \in users' : v.name = w.name => v = w
      BY <2>2 DEF Inv, TypeOK
    <3>2. users' \subseteq [name : Names, tenant : Ids \cup {NoId}, role : Ids \cup {NoId}]
      BY <2>2
    <3>3. QED
      BY <1>1, <1>3, <2>1, <3>1, <3>2 DEF Inv, TypeOK
  <2>4. \A r \in Shells : RunStands(seed[r], lastId')
    BY <1>1, <1>3, <2>1, RunsAreSound, LaterIsSound DEF Sound
  <2>5. \A c \in Checks : check[c].token.tenant <= lastId
                         /\ check[c].token.tenant \in Ids \cup {NoId}
    BY DEF Inv, IdsGivenOut, TypeOK, Check, Token
  <2>6. IdsGivenOut'
    BY <1>1, <1>3, <2>1, <2>2, <2>4, <2>5 DEF IdsGivenOut
  <2>7. \A c \in Checks : check[c].token.tenant # NewId
    BY <1>1, <2>1, <2>5
  <2>8. RowsStand' /\ TokensStand'
    BY <1>1, <1>3, <2>7 DEF RowsStand, TokensStand, HasId
  <2>9. QED
    BY <2>3, <2>6, <2>8 DEF Inv
<1>4. QED
  BY <1>2, <1>3 DEF MigrationRun, CreateTenants

LEMMA MigrationRevertInv ==
  ASSUME Inv, MigrationRevert
  PROVE  Inv'
<1>1. /\ schema' \in {"users", "tenants"} /\ roles' = {} /\ reverts' \in 0..MaxReverts
      /\ UNCHANGED <<lastId, seed, alone, check>>
  BY BoundAssumption DEF MigrationRevert, DropRoles, DropTenants, Inv, TypeOK, RowsStand
<1>2. CASE users' = {[u EXCEPT !.role = NoId] : u \in users} /\ UNCHANGED tenants
  <2>1. \A v \in users' : \E u \in users :
          /\ v = [u EXCEPT !.role = NoId] /\ v.name = u.name /\ v.tenant = u.tenant
          /\ v \in [name : Names, tenant : Ids \cup {NoId}, role : Ids \cup {NoId}]
    BY <1>2 DEF Inv, TypeOK
  <2>2. TypeOK'
    <3>1. \A v, w \in users' : v.name = w.name => v = w
      BY <2>1 DEF Inv, TypeOK
    <3>2. users' \subseteq [name : Names, tenant : Ids \cup {NoId}, role : Ids \cup {NoId}]
      BY <2>1
    <3>3. QED
      BY <1>1, <1>2, <3>1, <3>2 DEF Inv, TypeOK
  <2>3. IdsGivenOut' /\ RowsStand'
    BY <1>1, <1>2, <2>1 DEF Inv, IdsGivenOut, RowsStand
  <2>4. ASSUME NEW u \in users
        PROVE  \E v \in users' : v.name = u.name /\ v.tenant = u.tenant
    <3>1. [u EXCEPT !.role = NoId] \in users'
      BY <1>2
    <3>2. [u EXCEPT !.role = NoId].name = u.name /\ [u EXCEPT !.role = NoId].tenant = u.tenant
      BY DEF Inv, TypeOK
    <3>3. QED
      BY <3>1, <3>2
  <2>5. TokensStand'
    BY <1>1, <1>2, <2>4, TokensKept DEF Inv
  <2>6. QED
    BY <2>2, <2>3, <2>5 DEF Inv
<1>3. CASE users' = {[u EXCEPT !.tenant = NoId] : u \in users} /\ tenants' = {}
  <2>1. \A v \in users' : \E u \in users :
          /\ v = [u EXCEPT !.tenant = NoId] /\ v.name = u.name /\ v.tenant = NoId
          /\ v \in [name : Names, tenant : Ids \cup {NoId}, role : Ids \cup {NoId}]
    BY <1>3 DEF Inv, TypeOK
  <2>2. TypeOK'
    <3>1. \A v, w \in users' : v.name = w.name => v = w
      BY <2>1 DEF Inv, TypeOK
    <3>2. users' \subseteq [name : Names, tenant : Ids \cup {NoId}, role : Ids \cup {NoId}]
      BY <2>1
    <3>3. QED
      BY <1>1, <1>3, <3>1, <3>2 DEF Inv, TypeOK
  <2>3. IdsGivenOut'
    BY <1>1, <1>3, <2>1, RunsAreSound, BoundAssumption DEF Inv, TypeOK, IdsGivenOut
  <2>4. RowsStand' /\ TokensStand'
    BY <1>1, <1>3 DEF RowsStand, TokensStand, HasId
  <2>5. QED
    BY <2>2, <2>3, <2>4 DEF Inv
<1>4. QED
  BY <1>2, <1>3 DEF MigrationRevert, DropRoles, DropTenants

-----------------------------------------------------------------------------
(* Requests.                                                               *)

\* A request holds a sound token, or the tenant of the user it just read.
LEMMA CheckKeepsInv ==
  ASSUME Inv, NEW c \in Checks, NEW k \in Check, check' = [check EXCEPT ![c] = k],
         \/ k.token = check[c].token
         \/ k.token = NoToken
         \/ \E u \in users : k.token.user = u.name /\ k.token.tenant = u.tenant,
         UNCHANGED <<schemaVars, tables, lastId, seed, alone>>
  PROVE  Inv'
<1>1. UNCHANGED <<schema, reverts, tenants, roles, users>>
  BY DEF schemaVars, tables
<1>2. lastId \in Nat /\ \A t \in tenants : t.id # 0
  BY BoundAssumption DEF Inv, TypeOK
<1>3. TypeOK'
  BY <1>1 DEF Inv, TypeOK
<1>4. IdsGivenOut'
  <2>1. k.token.tenant <= lastId
    BY <1>2 DEF Inv, IdsGivenOut, NoToken
  <2>2. QED
    BY <1>1, <2>1 DEF Inv, TypeOK, IdsGivenOut
<1>5. HasId(tenants, k.token.tenant) =>
        \E u \in users : u.name = k.token.user /\ u.tenant = k.token.tenant
  BY <1>2 DEF Inv, TokensStand, HasId, NoToken
<1>6. RowsStand' /\ TokensStand'
  BY <1>1, <1>5 DEF Inv, TypeOK, RowsStand, TokensStand, HasId
<1>7. QED
  BY <1>3, <1>4, <1>6 DEF Inv

LEMMA ChecksInv ==
  ASSUME Inv, NEW c \in Checks, Checking(c)
  PROVE  Inv'
<1>1. check[c] \in Check /\ NoToken \in Token
  BY DEF Inv, TypeOK, NoToken, Token
<1>2. UNCHANGED <<schemaVars, tables, lastId, seed, alone>>
  BY DEF Checking, Login, NothingRequired, CheckUser, CheckRole
<1>3. ASSUME NEW answer \in {"idle", "granted", "open"}, Answered(c, answer)
      PROVE  Inv'
  <2> DEFINE k == [check[c] EXCEPT !.at = answer, !.token = NoToken, !.role = NoId]
  <2>1. check' = [check EXCEPT ![c] = k] /\ k.token = NoToken /\ k \in Check
    BY <1>1, <1>3 DEF Answered, Check
  <2>2. QED
    BY <1>2, <2>1, CheckKeepsInv
<1>4. CASE \E n \in Names : Login(c, n)
  <2>1. PICK n \in Names : Login(c, n)
    BY <1>4
  <2>2. PICK u \in UserNamed(n) :
          check' = [check EXCEPT ![c].at = "token",
                                 ![c].token = [user |-> n, tenant |-> u.tenant]]
    BY <2>1 DEF Login
  <2> DEFINE k == [check[c] EXCEPT !.at = "token",
                                   !.token = [user |-> n, tenant |-> u.tenant]]
  <2>3. u \in users /\ u.name = n /\ u.tenant \in Ids \cup {NoId}
    BY <2>2 DEF UserNamed, Inv, TypeOK
  <2>4. /\ check' = [check EXCEPT ![c] = k] /\ k \in Check
        /\ k.token = [user |-> n, tenant |-> u.tenant]
    BY <1>1, <2>2, <2>3 DEF Check, Token
  <2>5. k.token.user = u.name /\ k.token.tenant = u.tenant
    BY <2>3, <2>4
  <2>6. QED
    BY <1>2, <2>3, <2>4, <2>5, CheckKeepsInv
<1>5. CASE CheckUser(c)
  <2>1. CASE Denied(c)
    BY <1>3, <2>1 DEF Denied
  <2>2. CASE \E u \in UserNamed(check[c].token.user) :
               check' = [check EXCEPT ![c].at = "role", ![c].role = u.role]
    <3>1. PICK u \in users : check' = [check EXCEPT ![c].at = "role", ![c].role = u.role]
      BY <2>2 DEF UserNamed
    <3> DEFINE k == [check[c] EXCEPT !.at = "role", !.role = u.role]
    <3>2. check' = [check EXCEPT ![c] = k] /\ k \in Check /\ k.token = check[c].token
      BY <1>1, <3>1 DEF Check, Inv, TypeOK
    <3>3. QED
      BY <1>2, <3>2, CheckKeepsInv
  <2>3. QED
    BY <1>5, <2>1, <2>2 DEF CheckUser
<1>6. CASE CheckRole(c)
  BY <1>3, <1>6 DEF CheckRole, Denied
<1>7. CASE NothingRequired(c)
  BY <1>3, <1>7 DEF NothingRequired
<1>8. QED
  BY <1>4, <1>5, <1>6, <1>7 DEF Checking

-----------------------------------------------------------------------------

\* Every step keeps the invariant: one lemma per action or group of actions above.
LEMMA NextInv == Inv /\ [Next]_vars => Inv'
<1> SUFFICES ASSUME Inv, [Next]_vars PROVE Inv'
  OBVIOUS
<1>1. CASE MigrationRun \/ MigrationRevert
  BY <1>1, MigrationRunInv, MigrationRevertInv
<1>2. ASSUME NEW r \in Shells, Seeding(r) PROVE Inv'
  BY <1>2, SeedReads, NewTenantInv, NewRoleInv, UpdateRoleInv, AssignUserInv, NewUserInv
     DEF Seeding
<1>3. CASE UNCHANGED vars
  BY <1>3 DEF vars, schemaVars, tables, Inv, TypeOK, IdsGivenOut, RowsStand, TokensStand,
              HasId, RunStands
<1>4. QED
  BY <1>1, <1>2, <1>3, ChecksInv DEF Next

LEMMA SpecInv == Spec => []Inv
  BY InitInv, NextInv, PTL DEF Spec

\* Unique names and ids, and every value in its type, at every step of any number of
\* concurrent runs of seed-admin.ts, migrations and requests.
THEOREM TypeCorrect == Spec => []TypeOK
<1>1. Inv => TypeOK
  BY DEF Inv
<1>2. QED
  BY <1>1, SpecInv, PTL

LEMMA OnlyCheckRoleGrants ==
  ASSUME TypeOK, [Next]_vars, NEW c \in Checks,
         check[c].at # "granted", check'[c].at = "granted"
  PROVE  \E x \in roles : Allows(c, x)
<1> USE DEF TypeOK, Check
<1>1. check' # check
  OBVIOUS
<1>2. PICK d \in Checks : Checking(d)
  BY <1>1 DEF Next, MigrationRun, MigrationRevert, Seeding, SeedStart, FindTenant,
              NewTenant, FindRole, NewRole, UpdateRole, FindUser, AssignUser, NewUser,
              SeedFails, vars
<1>3. ~\E n \in Names : Login(d, n)
  BY DEF Login
<1>4. ~CheckUser(d) /\ ~NothingRequired(d)
  BY DEF CheckUser, NothingRequired, Denied, Answered
<1>5. CheckRole(d)
  BY <1>2, <1>3, <1>4 DEF Checking
<1>6. QED
  BY <1>5 DEF CheckRole, Denied, Answered

\* RbacGuard.canActivate grants only in the tenant its user is in: the role it read
\* is of the token's tenant, so that tenant stands (RowsStand), and a token whose
\* tenant stands names its user's tenant (TokensStand).
THEOREM GuardKeepsTenants == Spec => GrantedInOwnTenant
<1>1. ASSUME Inv, [Next]_vars, NEW c \in Checks,
             check[c].at # "granted", check'[c].at = "granted"
      PROVE  \E u \in users, x \in roles :
               /\ u.name = check[c].token.user /\ x.id = check[c].role
               /\ u.tenant = check[c].token.tenant /\ x.tenant = u.tenant
  <2>1. PICK x \in roles : Allows(c, x)
    BY <1>1, OnlyCheckRoleGrants DEF Inv
  <2>2. x.id = check[c].role /\ x.tenant = check[c].token.tenant
    BY <2>1 DEF Allows
  <2>3. HasId(tenants, check[c].token.tenant)
    BY <1>1, <2>2 DEF Inv, RowsStand
  <2>4. PICK u \in users : /\ u.name = check[c].token.user
                           /\ u.tenant = check[c].token.tenant
    BY <1>1, <2>3 DEF Inv, TokensStand
  <2>5. QED
    BY <2>2, <2>4
<1>2. Inv /\ [Next]_vars =>
        [ \A c \in Checks : check[c].at # "granted" /\ check'[c].at = "granted" =>
            \E u \in users, x \in roles :
              /\ u.name = check[c].token.user /\ x.id = check[c].role
              /\ u.tenant = check[c].token.tenant /\ x.tenant = u.tenant ]_vars
  BY <1>1
<1>3. QED
  BY <1>2, SpecInv, PTL DEF Spec, GrantedInOwnTenant

=============================================================================
