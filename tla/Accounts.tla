------------------------------ MODULE Accounts ------------------------------
(***************************************************************************)
(* The tables of tenants, roles and users: the migrations that create them *)
(* and revert, the runs of seed-admin.ts that fill them one query at a     *)
(* time, the tokens AuthService.login issues from them, and RbacGuard,     *)
(* which checks such a token against them in two queries.                  *)
(*                                                                         *)
(* Runs of the script, migrations and checks interleave between queries.   *)
(* A user is never deleted and is named once, so its name is its id; a     *)
(* tenant or a role gets an id that no row had before it.                  *)
(***************************************************************************)
EXTENDS Naturals

CONSTANTS
  Shells,      \* where npm run seed:admin is run, again and again
  Scripts,     \* versions of the script and its environment
  TenantOf,    \* ADMIN_TENANT_NAME of each
  PermsOf,     \* the permissions each gives each role
  Permissions, \* permission strings
  Required,    \* the permission a route requires
  Checks,      \* requests that log in, then meet RbacGuard.canActivate
  MaxId,       \* bound: ids of tenants and roles
  MaxReverts   \* bound: times an operator runs migration:revert

Names == {"admin", "approver"}  \* the demo accounts, each with a role of its name
NoId == 0
Ids == 1..MaxId

ASSUME ScriptsAssumption == Scripts # {}
ASSUME PermsAssumption == PermsOf \in [Scripts -> [Names -> SUBSET Permissions]]
ASSUME BoundAssumption == MaxId \in Nat /\ MaxReverts \in Nat

VARIABLES
  schema,   \* the last table created: "users", "tenants" or "roles"
  reverts,  \* migrations reverted so far
  tenants, roles, users,  \* the rows
  lastId,   \* the last id given to a row
  seed,     \* the run in each shell: its script, where it is, what it has read
  alone,    \* history: the last run to start, if it has overlapped no other
  check     \* each request: its token, and what the guard has read

tables == <<tenants, roles, users>>
schemaVars == <<schema, reverts>>
vars == <<schemaVars, tables, lastId, seed, alone, check>>

Token == [user : Names, tenant : Ids \cup {NoId}]
NoToken == [user |-> "admin", tenant |-> NoId]
SeedSteps == {"idle", "findTenant", "newTenant", "findRole", "newRole", "updateRole",
              "findUser", "newUser", "assignUser", "done"}
Seed == [script : Scripts, at : SeedSteps, name : Names, tenant : Ids \cup {NoId},
         role : [Names -> Ids \cup {NoId}], since : 0..MaxReverts]
Check == [at : {"idle", "token", "role", "granted", "open"}, token : Token,
          role : Ids \cup {NoId}]

\* Unique: tenants.name, roles.(tenantId, name), users.username, and every id.
TypeOK ==
  /\ schema \in {"users", "tenants", "roles"} /\ reverts \in 0..MaxReverts
  /\ tenants \subseteq [id : Ids, name : {TenantOf[v] : v \in Scripts} \cup {"default"}]
  /\ roles \subseteq [id : Ids, tenant : Ids, name : Names, perms : SUBSET Permissions]
  /\ users \subseteq [name : Names, tenant : Ids \cup {NoId}, role : Ids \cup {NoId}]
  /\ \A s, t \in tenants : s.id = t.id \/ s.name = t.name => s = t
  /\ \A x, y \in roles : x.id = y.id \/ <<x.tenant, x.name>> = <<y.tenant, y.name>> => x = y
  /\ \A u, v \in users : u.name = v.name => u = v
  /\ lastId \in 0..MaxId
  /\ seed \in [Shells -> Seed] /\ alone \subseteq Shells
  /\ check \in [Checks -> Check]

Run(v, step, since) ==
  [script |-> v, at |-> step, name |-> "admin", tenant |-> NoId,
   role |-> [n \in Names |-> NoId], since |-> since]

Idle == Run(CHOOSE v \in Scripts : TRUE, "idle", 0)

\* Before the tenancy migrations: perhaps a user, with a token that names no tenant.
Init ==
  /\ schema = "users" /\ reverts = 0
  /\ tenants = {} /\ roles = {} /\ lastId = 0
  /\ \/ users = {}
     \/ users = {[name |-> "admin", tenant |-> NoId, role |-> NoId]}
  /\ seed = [r \in Shells |-> Idle] /\ alone = {}
  /\ check \in [Checks -> [at : IF users = {} THEN {"idle"} ELSE {"idle", "token"},
                           token : {NoToken}, role : {NoId}]]

NewId == lastId + 1
TenantNamed(t) == {x \in tenants : x.name = t}
RoleOf(s) == {x \in roles : x.tenant = s.tenant /\ x.name = s.name}
UserNamed(n) == {u \in users : u.name = n}
HasId(S, id) == \E x \in S : x.id = id

-----------------------------------------------------------------------------
(* Migrations, each run or revert in one transaction.                      *)

\* CreateTenantsAndScopeUsers.up: the existing users move into a default tenant.
CreateTenants ==
  /\ NewId \in Ids
  /\ tenants' = {[id |-> NewId, name |-> "default"]}
  /\ users' = {[u EXCEPT !.tenant = NewId] : u \in users}
  /\ lastId' = NewId

\* CreateRoles.up: users have no role yet.
CreateRoles == schema' = "roles" /\ roles' = {}

\* migration:run applies all that is pending.
MigrationRun ==
  /\ schema # "roles"
  /\ IF schema = "users" THEN CreateTenants ELSE UNCHANGED <<tenants, users, lastId>>
  /\ CreateRoles
  /\ UNCHANGED <<reverts, seed, alone, check>>

\* CreateRoles.down
DropRoles ==
  /\ schema' = "tenants" /\ roles' = {}
  /\ users' = {[u EXCEPT !.role = NoId] : u \in users}
  /\ UNCHANGED tenants

\* CreateTenantsAndScopeUsers.down
DropTenants ==
  /\ schema' = "users" /\ tenants' = {}
  /\ users' = {[u EXCEPT !.tenant = NoId] : u \in users}
  /\ UNCHANGED roles

\* migration:revert undoes the last migration.
MigrationRevert ==
  /\ schema # "users" /\ reverts < MaxReverts
  /\ reverts' = reverts + 1
  /\ IF schema = "roles" THEN DropRoles ELSE DropTenants
  /\ UNCHANGED <<lastId, seed, alone, check>>

RoleReady(s, id) ==
  [s EXCEPT !.role[s.name] = id,
            !.at = IF s.name = "admin" THEN "findRole" ELSE "findUser",
            !.name = IF s.name = "admin" THEN "approver" ELSE "admin"]
UserReady(s) ==
  IF s.name = "admin" THEN [s EXCEPT !.at = "findUser", !.name = "approver"]
  ELSE Run(s.script, "done", s.since)
TenantReady(s, id) == [s EXCEPT !.at = "findRole", !.tenant = id]
Then(s, step) == [s EXCEPT !.at = step]

-----------------------------------------------------------------------------
(* Mutated forms of operations below, each with a bug that some property   *)
(* must find.  No specification uses them.                                 *)

NewTenantTwice(r) ==             \* tenants.name is not unique
  /\ seed[r].at = "newTenant" /\ schema # "users" /\ NewId \in Ids
  /\ tenants' = tenants \cup {[id |-> NewId, name |-> TenantOf[seed[r].script]]}
  /\ lastId' = NewId
  /\ seed' = [seed EXCEPT ![r] = TenantReady(@, NewId)]
  /\ UNCHANGED <<schemaVars, roles, users, alone, check>>

InsertRoleTwice(r, id) ==        \* UQ_roles_tenantId_name is missing
  /\ HasId(tenants, seed[r].tenant)
  /\ roles' = roles \cup {[id |-> id, tenant |-> seed[r].tenant, name |-> seed[r].name,
                           perms |-> PermsOf[seed[r].script][seed[r].name]]}
  /\ seed' = [seed EXCEPT ![r] = RoleReady(@, id)]

FindUserSkips(r) ==              \* an existing user is skipped, with or without role
  /\ seed[r].at = "findUser" /\ schema = "roles"
  /\ seed' = [seed EXCEPT ![r] = IF UserNamed(@.name) = {} THEN Then(@, "newUser")
                                 ELSE UserReady(@)]
  /\ UNCHANGED <<schemaVars, tables, lastId, alone, check>>

FindRoleOrCreate(r) ==           \* an existing role is left as it is
  /\ seed[r].at = "findRole" /\ schema = "roles"
  /\ \/ \E x \in RoleOf(seed[r]) : seed' = [seed EXCEPT ![r] = RoleReady(@, x.id)]
     \/ /\ RoleOf(seed[r]) = {}
        /\ seed' = [seed EXCEPT ![r] = Then(@, "newRole")]
  /\ UNCHANGED <<schemaVars, tables, lastId, alone, check>>

AllowsAnyTenant(c, x) ==         \* the role's tenant is not compared
  x.id = check[c].role /\ Required \in x.perms

-----------------------------------------------------------------------------
(* seed(), one action per query.  What a query needs and does not find, a  *)
(* table or a row its foreign key names, or what a unique constraint       *)
(* refuses, is in the guard: the query then only leads to SeedFails.       *)

Resting(r) == seed[r].at \in {"idle", "done"}

SeedStart(r) ==
  /\ Resting(r)
  /\ \E v \in Scripts : seed' = [seed EXCEPT ![r] = Run(v, "findTenant", reverts)]
  /\ alone' = IF \A q \in Shells \ {r} : Resting(q) THEN {r} ELSE {}
  /\ UNCHANGED <<schemaVars, tables, lastId, check>>

FindTenant(r) ==
  /\ seed[r].at = "findTenant" /\ schema # "users"
  /\ \/ \E t \in TenantNamed(TenantOf[seed[r].script]) :
          seed' = [seed EXCEPT ![r] = TenantReady(@, t.id)]
     \/ /\ TenantNamed(TenantOf[seed[r].script]) = {}
        /\ seed' = [seed EXCEPT ![r] = Then(@, "newTenant")]
  /\ UNCHANGED <<schemaVars, tables, lastId, alone, check>>

NewTenant(r) ==
  /\ seed[r].at = "newTenant" /\ schema # "users"
  /\ TenantNamed(TenantOf[seed[r].script]) = {} /\ NewId \in Ids
  /\ tenants' = tenants \cup {[id |-> NewId, name |-> TenantOf[seed[r].script]]}
  /\ lastId' = NewId
  /\ seed' = [seed EXCEPT ![r] = TenantReady(@, NewId)]
  /\ UNCHANGED <<schemaVars, roles, users, alone, check>>

\* ensureRole: findOne, then create, update, or leave as it is.
FindRole(r) ==
  /\ seed[r].at = "findRole" /\ schema = "roles"
  /\ \/ \E x \in RoleOf(seed[r]) :
          seed' = [seed EXCEPT ![r] =
                     IF x.perms = PermsOf[@.script][@.name] THEN RoleReady(@, x.id)
                     ELSE [@ EXCEPT !.at = "updateRole", !.role[@.name] = x.id]]
     \/ /\ RoleOf(seed[r]) = {}
        /\ seed' = [seed EXCEPT ![r] = Then(@, "newRole")]
  /\ UNCHANGED <<schemaVars, tables, lastId, alone, check>>

InsertRole(r, id) ==
  /\ HasId(tenants, seed[r].tenant) /\ RoleOf(seed[r]) = {}
  /\ roles' = roles \cup {[id |-> id, tenant |-> seed[r].tenant, name |-> seed[r].name,
                           perms |-> PermsOf[seed[r].script][seed[r].name]]}
  /\ seed' = [seed EXCEPT ![r] = RoleReady(@, id)]

NewRole(r) ==
  /\ seed[r].at = "newRole" /\ schema = "roles" /\ NewId \in Ids
  /\ InsertRole(r, NewId)
  /\ lastId' = NewId
  /\ UNCHANGED <<schemaVars, tenants, users, alone, check>>

\* save() of a row with an id: an update, or an insert when the row is gone.
UpdateRole(r) ==
  LET s == seed[r]
      id == s.role[s.name]
  IN  /\ s.at = "updateRole" /\ schema = "roles"
      /\ \/ /\ HasId(roles, id)
            /\ roles' = {IF x.id = id THEN [x EXCEPT !.perms = PermsOf[seed[r].script][s.name]] ELSE x :
                           x \in roles}
            /\ seed' = [seed EXCEPT ![r] = RoleReady(@, id)]
         \/ ~HasId(roles, id) /\ InsertRole(r, id)
      /\ UNCHANGED <<schemaVars, tenants, users, lastId, alone, check>>

\* ensureUser: by username alone, in whatever tenant.
FindUser(r) ==
  LET s == seed[r]
  IN  /\ s.at = "findUser" /\ schema = "roles"
      /\ seed' = [seed EXCEPT ![r] =
                    IF UserNamed(s.name) = {} THEN Then(@, "newUser")
                    ELSE IF \E u \in UserNamed(s.name) : u.role = NoId
                    THEN Then(@, "assignUser")
                    ELSE UserReady(@)]
      /\ UNCHANGED <<schemaVars, tables, lastId, alone, check>>

AssignUser(r) ==
  LET s == seed[r]
  IN  /\ s.at = "assignUser" /\ schema = "roles" /\ HasId(roles, s.role[s.name])
      /\ users' = {IF u.name = s.name THEN [u EXCEPT !.role = s.role[s.name]] ELSE u :
                     u \in users}
      /\ seed' = [seed EXCEPT ![r] = UserReady(@)]
      /\ UNCHANGED <<schemaVars, tenants, roles, lastId, alone, check>>

NewUser(r) ==
  LET s == seed[r]
  IN  /\ s.at = "newUser" /\ schema = "roles" /\ UserNamed(s.name) = {}
      /\ HasId(tenants, s.tenant) /\ HasId(roles, s.role[s.name])
      /\ users' = users \cup
           {[name |-> s.name, tenant |-> s.tenant, role |-> s.role[s.name]]}
      /\ seed' = [seed EXCEPT ![r] = UserReady(@)]
      /\ UNCHANGED <<schemaVars, tenants, roles, lastId, alone, check>>

\* A query fails, the database is down or the process is killed: exit code 1.
SeedFails(r) ==
  /\ ~Resting(r)
  /\ seed' = [seed EXCEPT ![r] = Idle]
  /\ UNCHANGED <<schemaVars, tables, lastId, alone, check>>

-----------------------------------------------------------------------------
(* AuthService.login, JwtStrategy.validate and RbacGuard.canActivate.      *)

\* The token carries the tenant of the row that login read, for an hour.
Login(c, n) ==
  /\ check[c].at = "idle" /\ schema = "roles"
  /\ \E u \in UserNamed(n) :
       check' = [check EXCEPT ![c].at = "token",
                              ![c].token = [user |-> n, tenant |-> u.tenant]]
  /\ UNCHANGED <<schemaVars, tables, lastId, seed, alone>>

Answered(c, answer) ==
  check' = [check EXCEPT ![c].at = answer, ![c].token = NoToken, ![c].role = NoId]
Denied(c) == Answered(c, "idle")

\* A handler without @RequirePermission: the guard asks nothing.
NothingRequired(c) ==
  /\ check[c].at = "token"
  /\ Answered(c, "open")
  /\ UNCHANGED <<schemaVars, tables, lastId, seed, alone>>

\* validate() rejects a token without a tenant, the guard a user without a role.
CheckUser(c) ==
  /\ check[c].at = "token"
  /\ \E u \in UserNamed(check[c].token.user) :
       IF check[c].token.tenant # NoId /\ schema = "roles" /\ u.role # NoId
       THEN check' = [check EXCEPT ![c].at = "role", ![c].role = u.role]
       ELSE Denied(c)
  /\ UNCHANGED <<schemaVars, tables, lastId, seed, alone>>

Allows(c, x) ==
  x.id = check[c].role /\ x.tenant = check[c].token.tenant /\ Required \in x.perms

CheckRole(c) ==
  /\ check[c].at = "role"
  /\ IF \E x \in roles : Allows(c, x) THEN Answered(c, "granted") ELSE Denied(c)
  /\ UNCHANGED <<schemaVars, tables, lastId, seed, alone>>

-----------------------------------------------------------------------------

Seeding(r) ==
  \/ SeedStart(r) \/ FindTenant(r) \/ NewTenant(r)
  \/ FindRole(r) \/ NewRole(r) \/ UpdateRole(r)
  \/ FindUser(r) \/ AssignUser(r) \/ NewUser(r) \/ SeedFails(r)

Checking(c) ==
  \/ \E n \in Names : Login(c, n)
  \/ NothingRequired(c) \/ CheckUser(c) \/ CheckRole(c)

Next ==
  \/ MigrationRun \/ MigrationRevert
  \/ \E r \in Shells : Seeding(r)
  \/ \E c \in Checks : Checking(c)

Spec == Init /\ [][Next]_vars

-----------------------------------------------------------------------------
(* What must hold.                                                         *)

Seeds(r, id) == \E t \in TenantNamed(TenantOf[seed[r].script]) : t.id = id

\* A run of the seed script that ended well leaves each account with the role of its
\* name, and in its own tenant if that is the tenant the script seeds, whatever other
\* runs and failed runs came between, until a migration is reverted.
SeededAccountsWork ==
  \A r \in Shells : seed[r].at = "done" /\ seed[r].since = reverts =>
    \A n \in Names : \E u \in users, x \in roles :
      /\ u.name = n /\ x.name = n /\ u.role = x.id
      /\ Seeds(r, u.tenant) => x.tenant = u.tenant

\* erp-plan-2-rbac.md:611: the seed script "creates two working demo accounts".
\* RbacGuard works only for a user whose role is in its own tenant.
DemoAccountsWork ==
  \A r \in Shells : seed[r].at = "done" /\ seed[r].since = reverts =>
    \A n \in Names : \E u \in users, x \in roles :
      u.name = n /\ u.role = x.id /\ x.tenant = u.tenant

\* The database is as script v leaves it.
Settled(v) ==
  \E t \in TenantNamed(TenantOf[v]) : \A n \in Names : \E x \in roles, u \in users :
    /\ x.tenant = t.id /\ x.name = n /\ x.perms = PermsOf[v][n]
    /\ u.name = n /\ u.role = x.id

\* A run that ended well has applied its version's permissions to the roles of its
\* tenant, as ensureRole's comment demands, though older runs, failed runs and reverts
\* came before.  Only a run that overlaps it or follows it may write others.
UpsertApplied ==
  \A r \in alone : seed[r].at = "done" /\ seed[r].since = reverts =>
    \A n \in Names : \E x \in roles :
      Seeds(r, x.tenant) /\ x.name = n /\ x.perms = PermsOf[seed[r].script][n]

\* The script is idempotent: once the database is as a script leaves it, no step of
\* a run of that script changes a row, whatever that run read before.
SettledStays ==
  [][ \A r \in Shells : Settled(seed[r].script) /\ seed'[r] # seed[r] => UNCHANGED tables ]_vars

\* RbacGuard grants a permission only in the tenant its user is in at that moment,
\* though it trusts the tenant in the token and reads user and role separately.
GrantedInOwnTenant ==
  [][ \A c \in Checks : check[c].at # "granted" /\ check'[c].at = "granted" =>
        \E u \in users, x \in roles :
          /\ u.name = check[c].token.user /\ x.id = check[c].role
          /\ u.tenant = check[c].token.tenant /\ x.tenant = u.tenant ]_vars

-----------------------------------------------------------------------------
(* The inductive invariant the proofs rest on.                             *)

\* A run remembers ids up to the last one, and in "updateRole" the role it updates.
RunStands(s, last) ==
  /\ \A n \in Names : s.role[n] <= last
  /\ s.at = "updateRole" => s.role[s.name] # NoId

\* Every id in use was given out: a new row's id is in no row, run or token.
IdsGivenOut ==
  /\ \A t \in tenants : t.id <= lastId
  /\ \A x \in roles : x.id <= lastId
  /\ \A u \in users : u.tenant <= lastId
  /\ \A r \in Shells : RunStands(seed[r], lastId)
  /\ \A c \in Checks : check[c].token.tenant <= lastId

\* Foreign keys, and tables that do not exist.
RowsStand ==
  /\ \A x \in roles : HasId(tenants, x.tenant)
  /\ schema # "roles" => roles = {}

\* A token names the tenant of its user, or one whose row is gone for good.
TokensStand ==
  \A c \in Checks : HasId(tenants, check[c].token.tenant) =>
    \E u \in users : u.name = check[c].token.user /\ u.tenant = check[c].token.tenant

Inv == TypeOK /\ IdsGivenOut /\ RowsStand /\ TokensStand

\* What run s remembers is what the rows T and R say, if they are still there: it found
\* or made its tenant under its name, and its roles in that tenant.
Remembers(s, T, R, last, past) ==
  /\ s.tenant <= last /\ s.since <= past
  /\ s.at \in {"idle", "findTenant", "newTenant", "done"} => \A n \in Names : s.role[n] = NoId
  /\ \A t \in T : t.id = s.tenant => t.name = TenantOf[s.script]
  /\ \A x \in R, n \in Names : x.id = s.role[n] => x.tenant = s.tenant /\ x.name = n

\* No two runs remember one id as different roles: save() may insert it again.
Agree(s, q) ==
  \A n, m \in Names : s.role[n] # NoId /\ s.role[n] = q.role[m] => s.tenant = q.tenant /\ n = m

MemoryStands ==
  \A r \in Shells :
    /\ Remembers(seed[r], tenants, roles, lastId, reverts)
    /\ \A q \in Shells : Agree(seed[r], seed[q])

\* Foreign keys again: an account's role is there and has its name, and its tenant is
\* one that a script seeds.
AccountsStand ==
  /\ \A u \in users : u.role # NoId => \E x \in roles : x.id = u.role /\ x.name = u.name
  /\ \A x \in roles : \E t \in tenants, v \in Scripts : t.id = x.tenant /\ t.name = TenantOf[v]

\* FK_users_tenantId: once there are tenants, every user is in one.
UsersStand == schema # "users" => \A u \in users : HasId(tenants, u.tenant)

\* A run leaves the accounts it has passed with a role, among the rows U, and the one it
\* gives a role to is there.
HasAccount(n, U) == \E u \in U : u.name = n /\ u.role # NoId
Made(s, U, past) ==
  /\ s.at = "assignUser" => \E u \in U : u.name = s.name
  /\ s.since = past =>
       /\ s.at \in {"findUser", "newUser", "assignUser"} /\ s.name = "approver" =>
            HasAccount("admin", U)
       /\ s.at = "done" => \A n \in Names : HasAccount(n, U)
AccountsMade == \A r \in Shells : Made(seed[r], users, reverts)

\* A run that is alone leaves the roles it has passed with its script's permissions, among
\* the rows T and R.
Applied(v, n, T, R) ==
  \E t \in T, x \in R :
    t.name = TenantOf[v] /\ x.tenant = t.id /\ x.name = n /\ x.perms = PermsOf[v][n]
Wrote(s, T, R, past) ==
  /\ s.at \in {"findTenant", "newTenant"} => s.name = "admin"
  /\ s.since = past =>
       /\ s.at \in {"findRole", "newRole", "updateRole"} /\ s.name = "approver" =>
            Applied(s.script, "admin", T, R)
       /\ s.at \in {"findUser", "newUser", "assignUser", "done"} =>
            \A n \in Names : Applied(s.script, n, T, R)
RolesApplied ==
  \A r \in alone :
    Wrote(seed[r], tenants, roles, reverts) /\ \A q \in Shells \ {r} : Resting(q)

=============================================================================
