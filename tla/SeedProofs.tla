------------------------------ MODULE SeedProofs ------------------------------
(***************************************************************************)
(* What runs of seed-admin.ts leave behind, however they interleave with   *)
(* one another, with migrations and with their own failures.               *)
(***************************************************************************)
EXTENDS AccountsProofs

USE DEF Names, NoId, Ids

-----------------------------------------------------------------------------
(* What runs remember.                                                     *)

Memory(s) == Remembers(s, tenants, roles, lastId, reverts)

LEMMA AgreeBack == ASSUME NEW s, NEW q, Agree(s, q) PROVE Agree(q, s)
  BY DEF Agree

\* Run r goes from seed[r] to s, and what the other runs remember stays true.
LEMMA RunMoves ==
  ASSUME Inv, MemoryStands, NEW r \in Shells, NEW s, seed' = [seed EXCEPT ![r] = s],
         Remembers(s, tenants', roles', lastId', reverts'), Agree(s, s),
         \A q \in Shells \ {r} :
           Agree(s, seed[q]) /\ Remembers(seed[q], tenants', roles', lastId', reverts')
  PROVE  MemoryStands'
<1>1. seed' \in [Shells -> Seed \cup {s}]
      /\ \A q \in Shells : seed'[q] = IF q = r THEN s ELSE seed[q]
  BY DEF Inv, TypeOK
<1>2. ASSUME NEW q \in Shells PROVE Remembers(seed'[q], tenants', roles', lastId', reverts')
  BY <1>1
<1>3. ASSUME NEW p \in Shells, NEW q \in Shells PROVE Agree(seed'[p], seed'[q])
  BY <1>1, AgreeBack DEF MemoryStands
<1>4. QED
  BY <1>2, <1>3 DEF MemoryStands

\* Rows that stay, and rows under ids that no run remembers, make no memory false.
LEMMA RowsMove ==
  ASSUME Inv, MemoryStands, lastId' \in Nat, lastId <= lastId', reverts' = reverts,
         \A t \in tenants' : t \in tenants \/ t.id = lastId + 1,
         \A x \in roles' :
           \/ x.id = lastId + 1
           \/ \E y \in roles : y.id = x.id /\ y.tenant = x.tenant /\ y.name = x.name,
         NEW q \in Shells
  PROVE  Remembers(seed[q], tenants', roles', lastId', reverts')
<1> DEFINE s == seed[q]
<1>1. Sound(s, lastId) /\ lastId \in Nat /\ Remembers(s, tenants, roles, lastId, reverts)
  BY RunsAreSound DEF MemoryStands
<1>2. s.tenant \in Nat /\ s.tenant <= lastId /\ s.since <= reverts
      /\ \A n \in Names : s.role[n] \in Nat /\ s.role[n] <= lastId
  BY <1>1 DEF Sound, Seed, RunStands, Remembers
<1>3. s.tenant <= lastId'
  BY <1>1, <1>2
<1>4. ASSUME NEW t \in tenants', t.id = s.tenant PROVE t.name = TenantOf[s.script]
  BY <1>1, <1>2, <1>4 DEF Remembers
<1>5. ASSUME NEW x \in roles', NEW n \in Names, x.id = s.role[n]
      PROVE  x.tenant = s.tenant /\ x.name = n
  BY <1>1, <1>2, <1>5 DEF Remembers
<1>6. QED
  BY <1>1, <1>2, <1>3, <1>4, <1>5 DEF Remembers

\* A run that remembers nothing yet, or nothing any more.
LEMMA BlankMemory ==
  ASSUME Inv, NEW v, NEW step, NEW since, since <= reverts, NEW s, s = Run(v, step, since)
  PROVE  Memory(s) /\ Agree(s, s) /\ \A q \in Shells : Agree(s, seed[q])
<1>1. lastId \in Nat /\ (\A t \in tenants : t.id # 0) /\ (\A x \in roles : x.id # 0)
  BY BoundAssumption DEF Inv, TypeOK
<1>2. s.tenant = 0 /\ s.since = since /\ s.script = v /\ \A n \in Names : s.role[n] = 0
  BY DEF Run
<1>3. Memory(s)
  BY <1>1, <1>2 DEF Memory, Remembers
<1>4. QED
  BY <1>2, <1>3 DEF Agree

\* A run that goes on and remembers what it did.
LEMMA SameMemory ==
  ASSUME NEW s, NEW next, NEW T, NEW R, NEW last, NEW past, Remembers(s, T, R, last, past),
         next.tenant = s.tenant, next.role = s.role, next.script = s.script,
         next.since = s.since,
         next.at \in {"idle", "findTenant", "newTenant", "done"} =>
           s.at \in {"idle", "findTenant", "newTenant", "done"}
  PROVE  /\ Remembers(next, T, R, last, past)
         /\ \A q : Agree(s, q) => Agree(next, q)
         /\ Agree(s, s) => Agree(next, next)
  BY DEF Remembers, Agree

\* A run that has its tenant has no role yet.
LEMMA TenantMemory ==
  ASSUME NEW s \in Seed, NEW T, NEW R, NEW last, NEW past, Remembers(s, T, R, last, past),
         s.at \in {"findTenant", "newTenant"}, NEW t \in T, t.name = TenantOf[s.script],
         t.id <= last, \A u \in T : u.id = t.id => u = t, \A x \in R : x.id # NoId
  PROVE  LET next == TenantReady(s, t.id)
         IN  /\ Remembers(next, T, R, last, past)
             /\ \A q : Agree(next, q)
<1> DEFINE next == TenantReady(s, t.id)
<1>1. /\ next.tenant = t.id /\ next.role = s.role /\ next.script = s.script
      /\ next.since = s.since /\ next.at = "findRole"
  BY DEF TenantReady, Seed
<1>2. \A n \in Names : s.role[n] = 0
  BY DEF Remembers
<1> HIDE DEF next
<1>3. Remembers(next, T, R, last, past)
  BY <1>1, <1>2 DEF Remembers
<1>4. \A q : Agree(next, q)
  BY <1>1, <1>2 DEF Agree
<1>5. QED
  BY <1>3, <1>4 DEF next

\* A run that has found or written a role.
LEMMA RoleMemory ==
  ASSUME Inv, MemoryStands, NEW r \in Shells, NEW T, NEW R, NEW last, NEW past,
         \A q \in Shells : Remembers(seed[q], T, R, last, past),
         NEW x \in R, x.tenant = seed[r].tenant, x.name = seed[r].name,
         \A y \in R : y.id = x.id => y = x,
         NEW next, next.tenant = seed[r].tenant, next.script = seed[r].script,
         next.since = seed[r].since, next.at \notin {"idle", "findTenant", "newTenant", "done"},
         next.role = [seed[r].role EXCEPT ![seed[r].name] = x.id]
  PROVE  /\ Remembers(next, T, R, last, past)
         /\ Agree(next, next) /\ \A q \in Shells : Agree(next, seed[q])
<1> DEFINE s == seed[r]
<1>1. s \in Seed /\ s.name \in Names /\ s.role \in [Names -> Ids \cup {NoId}]
  BY RunsAreSound DEF Sound, Seed
<1>2. \A n \in Names : next.role[n] = IF n = s.name THEN x.id ELSE s.role[n]
  BY <1>1
<1>3. Remembers(s, T, R, last, past)
  OBVIOUS
<1>4. ASSUME NEW y \in R, NEW n \in Names, y.id = next.role[n]
      PROVE  y.tenant = s.tenant /\ y.name = n
  BY <1>2, <1>3, <1>4 DEF Remembers
<1>5. Remembers(next, T, R, last, past)
  BY <1>3, <1>4 DEF Remembers
<1>6. ASSUME NEW q \in Shells, NEW n \in Names, NEW m \in Names,
             next.role[n] # NoId, next.role[n] = seed[q].role[m]
      PROVE  next.tenant = seed[q].tenant /\ n = m
  <2>1. CASE n = s.name
    BY <1>2, <1>6, <2>1 DEF Remembers
  <2>2. CASE n # s.name
    BY <1>2, <1>6, <2>2 DEF MemoryStands, Agree
  <2>3. QED
    BY <2>1, <2>2
<1>7. ASSUME NEW n \in Names, NEW m \in Names,
             next.role[n] # NoId, next.role[n] = next.role[m]
      PROVE  n = m
  <2>1. CASE m = s.name /\ n # s.name
    BY <1>2, <1>3, <1>7, <2>1 DEF Remembers
  <2>2. CASE m # s.name
    BY <1>2, <1>6, <1>7, <2>2
  <2>3. QED
    BY <2>1, <2>2
<1>8. QED
  BY <1>5, <1>6, <1>7 DEF Agree

\* Steps of the script that change no row.
LEMMA ReadMemory ==
  ASSUME Inv, MemoryStands, NEW r \in Shells,
         SeedStart(r) \/ FindTenant(r) \/ FindRole(r) \/ FindUser(r) \/ SeedFails(r)
  PROVE  MemoryStands'
<1> DEFINE s == seed[r]
<1>1. /\ s \in Seed /\ Memory(s) /\ \A q \in Shells : Memory(seed[q]) /\ Agree(s, seed[q])
      /\ reverts \in Nat /\ lastId \in Nat
  BY RunsAreSound, BoundAssumption DEF Sound, MemoryStands, Memory, Inv, TypeOK
<1>2. UNCHANGED <<tenants, roles, users, lastId, reverts>>
  BY DEF SeedStart, FindTenant, FindRole, FindUser, SeedFails, tables, schemaVars
<1> DEFINE Stands(next) ==
             Memory(next) /\ Agree(next, next) /\ \A q \in Shells : Agree(next, seed[q])
<1>3. SUFFICES \E next : seed' = [seed EXCEPT ![r] = next] /\ Stands(next)
  <2>1. PICK next : seed' = [seed EXCEPT ![r] = next] /\ Stands(next)
    BY <1>3
  <2>2. QED
    BY <1>1, <1>2, <2>1, RunMoves DEF Memory
<1>4. ASSUME NEW v, NEW step, NEW since, since <= reverts PROVE Stands(Run(v, step, since))
  <2>1. \A next : next = Run(v, step, since) => Stands(next)
    BY <1>4, BlankMemory
  <2>2. QED
    BY <2>1
<1>5. ASSUME NEW step \in {"newTenant", "newRole", "newUser", "assignUser", "findUser"},
             step = "newTenant" => s.at = "findTenant", NEW n \in Names
      PROVE  Stands(Then(s, step)) /\ Stands([s EXCEPT !.at = step, !.name = n])
  <2>1. ASSUME NEW next, next \in {Then(s, step), [s EXCEPT !.at = step, !.name = n]}
        PROVE  Stands(next)
    <3>1. /\ next.tenant = s.tenant /\ next.role = s.role /\ next.at = step
          /\ next.script = s.script /\ next.since = s.since
      BY <1>1, <2>1 DEF Then, Seed
    <3>2. QED
      BY <1>1, <1>5, <3>1, SameMemory DEF Memory
  <2>2. QED
    BY <2>1
<1>6. CASE SeedStart(r)
  <2>1. reverts <= reverts
    BY <1>1
  <2>2. PICK v \in Scripts : seed' = [seed EXCEPT ![r] = Run(v, "findTenant", reverts)]
    BY <1>6 DEF SeedStart
  <2>3. Stands(Run(v, "findTenant", reverts))
    BY <1>4, <2>1
  <2> HIDE DEF Stands
  <2>4. QED
    BY <2>2, <2>3
<1>7. CASE FindTenant(r)
  <2>1. ASSUME NEW t \in TenantNamed(TenantOf[s.script]) PROVE Stands(TenantReady(s, t.id))
    <3>1. t \in tenants /\ t.name = TenantOf[s.script] /\ s.at = "findTenant"
      BY <1>7 DEF TenantNamed, FindTenant
    <3>2. /\ t.id <= lastId /\ \A u \in tenants : u.id = t.id => u = t
          /\ \A x \in roles : x.id # NoId
      BY <3>1 DEF Inv, TypeOK, IdsGivenOut
    <3>3. Remembers(s, tenants, roles, lastId, reverts)
      BY <1>1 DEF Memory
    <3>4. /\ Remembers(TenantReady(s, t.id), tenants, roles, lastId, reverts)
          /\ \A q : Agree(TenantReady(s, t.id), q)
      BY <1>1, <3>1, <3>2, <3>3, TenantMemory
    <3>5. QED
      BY <3>4 DEF Memory
  <2>2. Stands(Then(s, "newTenant"))
    BY <1>5, <1>7 DEF FindTenant
  <2> HIDE DEF Stands
  <2>3. QED
    BY <1>7, <2>1, <2>2 DEF FindTenant
<1>8. CASE FindRole(r)
  <2>1. ASSUME NEW x \in RoleOf(s), NEW next,
               next \in {RoleReady(s, x.id),
                         [s EXCEPT !.at = "updateRole", !.role[s.name] = x.id]}
        PROVE  Stands(next)
    <3>1. x \in roles /\ x.tenant = s.tenant /\ x.name = s.name
      BY DEF RoleOf
    <3>2. \A y \in roles : y.id = x.id => y = x
      BY <3>1 DEF Inv, TypeOK
    <3>3. /\ next.tenant = s.tenant /\ next.script = s.script /\ next.since = s.since
          /\ next.at \notin {"idle", "findTenant", "newTenant", "done"}
          /\ next.role = [s.role EXCEPT ![s.name] = x.id]
      BY <1>1, <2>1 DEF RoleReady, Seed
    <3>4. \A q \in Shells : Remembers(seed[q], tenants, roles, lastId, reverts)
      BY <1>1 DEF Memory
    <3>5. /\ Remembers(next, tenants, roles, lastId, reverts)
          /\ Agree(next, next) /\ \A q \in Shells : Agree(next, seed[q])
      <4> HIDE DEF Stands
      <4>1. QED
        BY <3>1, <3>2, <3>3, <3>4, RoleMemory
    <3>6. QED
      BY <3>5 DEF Memory
  <2>2. Stands(Then(s, "newRole"))
    BY <1>5
  <2> HIDE DEF Stands
  <2>3. QED
    BY <1>8, <2>1, <2>2 DEF FindRole
<1>9. CASE FindUser(r)
  <2>1. Stands(UserReady(s))
    <3>1. s.since <= reverts
      BY <1>1 DEF Memory, Remembers
    <3> HIDE DEF Stands
    <3>2. QED
      BY <1>4, <1>5, <3>1 DEF UserReady
  <2>2. Stands(Then(s, "newUser")) /\ Stands(Then(s, "assignUser"))
    BY <1>5
  <2> HIDE DEF Stands
  <2>3. QED
    BY <1>9, <2>1, <2>2 DEF FindUser
<1>10. CASE SeedFails(r)
  <2>1. Stands(Idle)
    <3> HIDE DEF Stands
    <3>1. QED
      BY <1>1, <1>4 DEF Idle
  <2> HIDE DEF Stands
  <2>2. QED
    BY <1>10, <2>1 DEF SeedFails
<1>11. QED
  BY <1>6, <1>7, <1>8, <1>9, <1>10

\* Steps of the script that write a row.
LEMMA NewTenantMemory ==
  ASSUME Inv, MemoryStands, NEW r \in Shells, NewTenant(r)
  PROVE  MemoryStands'
<1> DEFINE s == seed[r]
           t == [id |-> NewId, name |-> TenantOf[s.script]]
           next == TenantReady(s, t.id)
<1>1. Inv' /\ s \in Seed /\ lastId \in Nat
  BY NewTenantInv, RunsAreSound DEF Sound
<1>2. /\ tenants' = tenants \cup {t} /\ t.id = lastId + 1 /\ lastId' = lastId + 1
      /\ seed' = [seed EXCEPT ![r] = next] /\ UNCHANGED <<roles, reverts>>
      /\ s.at = "newTenant"
  BY DEF NewTenant, NewId, schemaVars
<1>3. \A q \in Shells : Remembers(seed[q], tenants', roles', lastId', reverts')
  BY <1>1, <1>2, RowsMove
<1>4. /\ t \in tenants' /\ t.id <= lastId' /\ t.name = TenantOf[s.script]
      /\ \A u \in tenants' : u.id = t.id => u = t
      /\ \A x \in roles' : x.id # NoId
  <2>1. TypeOK'
    BY <1>1 DEF Inv
  <2>2. t \in tenants' /\ t.id <= lastId' /\ t.name = TenantOf[s.script]
    BY <1>1, <1>2
  <2> HIDE DEF t
  <2>3. QED
    BY <2>1, <2>2 DEF TypeOK
<1>5. Remembers(next, tenants', roles', lastId', reverts') /\ \A q : Agree(next, q)
  <2> HIDE DEF t
  <2>1. QED
    BY <1>1, <1>2, <1>3, <1>4, TenantMemory
<1> HIDE DEF next
<1>6. QED
  BY <1>2, <1>3, <1>5, RunMoves

\* Run r has written role x of its tenant and its name.
LEMMA RoleWritten ==
  ASSUME Inv, Inv', MemoryStands, NEW r \in Shells, NEW x \in roles',
         x.tenant = seed[r].tenant, x.name = seed[r].name,
         seed' = [seed EXCEPT ![r] = RoleReady(seed[r], x.id)],
         \A q \in Shells : Remembers(seed[q], tenants', roles', lastId', reverts')
  PROVE  MemoryStands'
<1> DEFINE next == RoleReady(seed[r], x.id)
<1>1. seed[r] \in Seed /\ \A y \in roles' : y.id = x.id => y = x
  BY RunsAreSound DEF Sound, Inv, TypeOK
<1>2. /\ next.tenant = seed[r].tenant /\ next.script = seed[r].script
      /\ next.since = seed[r].since
      /\ next.at \notin {"idle", "findTenant", "newTenant", "done"}
      /\ next.role = [seed[r].role EXCEPT ![seed[r].name] = x.id]
  BY <1>1 DEF RoleReady, Seed
<1>3. seed' = [seed EXCEPT ![r] = next]
  OBVIOUS
<1> HIDE DEF next
<1>4. /\ Remembers(next, tenants', roles', lastId', reverts')
      /\ Agree(next, next) /\ \A q \in Shells : Agree(next, seed[q])
  BY <1>1, <1>2, RoleMemory
<1>5. QED
  BY <1>3, <1>4, RunMoves

LEMMA NewRoleMemory ==
  ASSUME Inv, MemoryStands, NEW r \in Shells, NewRole(r)
  PROVE  MemoryStands'
<1> DEFINE s == seed[r]
           x == [id |-> NewId, tenant |-> s.tenant, name |-> s.name,
                 perms |-> PermsOf[s.script][s.name]]
<1>1. Inv' /\ lastId \in Nat
  BY NewRoleInv, RunsAreSound
<1>2. /\ roles' = roles \cup {x} /\ x.id = lastId + 1 /\ lastId' = lastId + 1
      /\ seed' = [seed EXCEPT ![r] = RoleReady(s, x.id)] /\ UNCHANGED <<tenants, reverts>>
      /\ x.tenant = s.tenant /\ x.name = s.name
  BY DEF NewRole, InsertRole, NewId, schemaVars
<1> HIDE DEF x
<1>3. \A q \in Shells : Remembers(seed[q], tenants', roles', lastId', reverts')
  <2>1. \A y \in roles' :
          y.id = lastId + 1 \/ \E z \in roles : z.id = y.id /\ z.tenant = y.tenant /\ z.name = y.name
    BY <1>2
  <2>2. lastId' \in Nat /\ lastId <= lastId' /\ reverts' = reverts
    BY <1>1, <1>2
  <2>3. QED
    BY <1>2, <2>1, <2>2, RowsMove
<1>4. x \in roles'
  BY <1>2
<1>5. QED
  BY <1>1, <1>2, <1>3, <1>4, RoleWritten

\* A role whose row is gone goes in again under the id that the run remembers.
LEMMA UpdateRoleMemory ==
  ASSUME Inv, MemoryStands, NEW r \in Shells, UpdateRole(r)
  PROVE  MemoryStands'
<1> DEFINE s == seed[r]
           id == s.role[s.name]
           set == PermsOf[s.script][s.name]
<1>1. /\ Inv' /\ lastId \in Nat /\ s.name \in Names /\ id # NoId
      /\ UNCHANGED <<tenants, lastId, reverts>>
  BY UpdateRoleInv, RunsAreSound DEF UpdateRole, Sound, RunStands, Seed, schemaVars
<1>2. Remembers(s, tenants, roles, lastId, reverts) /\ \A q \in Shells : Agree(s, seed[q])
  BY DEF MemoryStands
<1>3. CASE /\ HasId(roles, id)
           /\ roles' = {IF x.id = id THEN [x EXCEPT !.perms = set] ELSE x : x \in roles}
           /\ seed' = [seed EXCEPT ![r] = RoleReady(s, id)]
  <2>1. \A y \in roles' : \E x \in roles : x.id = y.id /\ x.tenant = y.tenant /\ x.name = y.name
    BY <1>3 DEF Inv, TypeOK
  <2>2. \A q \in Shells : Remembers(seed[q], tenants', roles', lastId', reverts')
    BY <1>1, <2>1, RowsMove
  <2>3. PICK x \in roles : x.id = id
    BY <1>3 DEF HasId
  <2> DEFINE y == [x EXCEPT !.perms = set]
  <2>4. y \in roles' /\ y.id = id /\ y.tenant = x.tenant /\ y.name = x.name
    BY <1>3, <2>3 DEF Inv, TypeOK
  <2>5. x.tenant = s.tenant /\ x.name = s.name
    BY <1>1, <1>2, <2>3 DEF Remembers
  <2> HIDE DEF y
  <2>6. QED
    BY <1>1, <1>3, <2>2, <2>4, <2>5, RoleWritten
<1>4. CASE InsertRole(r, id)
  <2> DEFINE x == [id |-> id, tenant |-> s.tenant, name |-> s.name, perms |-> set]
  <2>1. /\ roles' = roles \cup {x} /\ seed' = [seed EXCEPT ![r] = RoleReady(s, x.id)]
        /\ x.id = id /\ x.tenant = s.tenant /\ x.name = s.name
    BY <1>4 DEF InsertRole
  <2> HIDE DEF x
  <2>2. ASSUME NEW q \in Shells
        PROVE  Remembers(seed[q], tenants', roles', lastId', reverts')
    <3>1. Remembers(seed[q], tenants, roles, lastId, reverts) /\ Agree(s, seed[q])
      BY <1>2 DEF MemoryStands
    <3>2. \A n \in Names : x.id = seed[q].role[n] => x.tenant = seed[q].tenant /\ x.name = n
      BY <1>1, <2>1, <3>1 DEF Agree
    <3>3. QED
      BY <1>1, <2>1, <3>1, <3>2 DEF Remembers
  <2>3. x \in roles'
    BY <2>1
  <2>4. QED
    BY <1>1, <2>1, <2>2, <2>3, RoleWritten
<1>5. QED
  BY <1>3, <1>4 DEF UpdateRole

LEMMA UserMemory ==
  ASSUME Inv, MemoryStands, NEW r \in Shells, AssignUser(r) \/ NewUser(r)
  PROVE  MemoryStands'
<1> DEFINE s == seed[r]
           next == UserReady(s)
<1>1. /\ seed' = [seed EXCEPT ![r] = next]
      /\ UNCHANGED <<tenants, roles, lastId, reverts>>
      /\ s \in Seed /\ Memory(s) /\ \A q \in Shells : Memory(seed[q]) /\ Agree(s, seed[q])
  BY RunsAreSound DEF AssignUser, NewUser, schemaVars, Sound, MemoryStands, Memory
<1>2. Memory(next) /\ Agree(next, next) /\ \A q \in Shells : Agree(next, seed[q])
  <2>1. CASE s.name = "admin"
    <3>1. /\ next.tenant = s.tenant /\ next.role = s.role /\ next.script = s.script
          /\ next.since = s.since /\ next.at = "findUser"
      BY <1>1, <2>1 DEF UserReady, Seed
    <3> HIDE DEF next
    <3>2. QED
      BY <1>1, <3>1, SameMemory DEF Memory
  <2>2. CASE s.name # "admin"
    <3>1. next = Run(s.script, "done", s.since) /\ s.since <= reverts
      BY <1>1, <2>2 DEF UserReady, Memory, Remembers
    <3> HIDE DEF next
    <3>2. QED
      BY <3>1, BlankMemory
  <2>3. QED
    BY <2>1, <2>2
<1> HIDE DEF next
<1>3. QED
  BY <1>1, <1>2, RunMoves DEF Memory

\* A reverted migration takes rows away, one that runs makes a tenant with a new id.
LEMMA MigrationMemory ==
  ASSUME Inv, MemoryStands, MigrationRun \/ MigrationRevert
  PROVE  MemoryStands'
<1>1. /\ UNCHANGED seed /\ reverts \in Nat /\ reverts' \in Nat /\ reverts <= reverts'
      /\ lastId \in Nat /\ lastId' \in Nat /\ lastId <= lastId' /\ roles' = {}
      /\ \A t \in tenants' : t \in tenants \/ t.id = lastId + 1
  BY BoundAssumption DEF MigrationRun, CreateTenants, CreateRoles, NewId, MigrationRevert,
    DropRoles, DropTenants, Inv, TypeOK, RowsStand
<1>2. ASSUME NEW q \in Shells PROVE Remembers(seed[q], tenants', roles', lastId', reverts')
  <2>1. /\ seed[q].tenant \in Nat /\ seed[q].since \in Nat
        /\ Remembers(seed[q], tenants, roles, lastId, reverts)
    BY RunsAreSound, BoundAssumption DEF Sound, Seed, MemoryStands
  <2>2. QED
    BY <1>1, <2>1 DEF Remembers
<1>3. QED
  BY <1>1, <1>2 DEF MemoryStands

LEMMA MemoryStep == Inv /\ MemoryStands /\ [Next]_vars => MemoryStands'
<1> SUFFICES ASSUME Inv, MemoryStands, [Next]_vars PROVE MemoryStands'
  OBVIOUS
<1>1. CASE MigrationRun \/ MigrationRevert
  BY <1>1, MigrationMemory
<1>2. ASSUME NEW r \in Shells, Seeding(r) PROVE MemoryStands'
  BY <1>2, ReadMemory, NewTenantMemory, NewRoleMemory, UpdateRoleMemory, UserMemory
  DEF Seeding
<1>3. CASE UNCHANGED <<tenants, roles, lastId, reverts, seed>>
  BY <1>3 DEF MemoryStands
<1>4. CASE \E c \in Checks : Checking(c)
  BY <1>3, <1>4 DEF Checking, Login, NothingRequired, CheckUser, CheckRole, schemaVars, tables
<1>5. QED
  BY <1>1, <1>2, <1>3, <1>4 DEF Next, vars, schemaVars, tables

LEMMA InitMemory == Init => MemoryStands
<1> SUFFICES ASSUME Init PROVE MemoryStands
  OBVIOUS
<1>1. \A r \in Shells : seed[r].tenant = 0 /\ seed[r].since = 0
                        /\ \A n \in Names : seed[r].role[n] = 0
  BY DEF Init, Idle, Run
<1>2. tenants = {} /\ roles = {} /\ lastId = 0 /\ reverts = 0
  BY DEF Init
<1>3. ASSUME NEW r \in Shells
      PROVE  /\ Remembers(seed[r], tenants, roles, lastId, reverts)
             /\ \A q : Agree(seed[r], q)
  BY <1>1, <1>2 DEF Remembers, Agree
<1>4. QED
  BY <1>3 DEF MemoryStands

LEMMA AlwaysMemory == Spec => [](Inv /\ MemoryStands)
  BY InitInv, InitMemory, NextInv, MemoryStep, PTL DEF Spec

-----------------------------------------------------------------------------
(* A settled database.                                                     *)

\* Every row of the database is as run r of a script that settled it would write it.
LEMMA NothingToWrite ==
  ASSUME Inv, MemoryStands, NEW r \in Shells, Seeding(r), Settled(seed[r].script)
  PROVE  UNCHANGED tables
<1> DEFINE s == seed[r]
           v == s.script
<1>1. /\ s \in Seed /\ s.name \in Names /\ v \in Scripts
      /\ Remembers(s, tenants, roles, lastId, reverts)
  BY RunsAreSound DEF Sound, Seed, MemoryStands
<1>2. /\ \A y, z \in tenants : y.name = z.name => y = z
      /\ \A y, z \in roles : y.id = z.id \/ (y.tenant = z.tenant /\ y.name = z.name) => y = z
      /\ \A y, z \in users : y.name = z.name => y = z
      /\ users \subseteq [name : Names, tenant : Ids \cup {NoId}, role : Ids \cup {NoId}]
      /\ roles \subseteq [id : Ids, tenant : Ids, name : Names, perms : SUBSET Permissions]
  BY DEF Inv, TypeOK
<1>3. PICK t \in tenants :
        /\ t.name = TenantOf[v]
        /\ \A n \in Names : \E x \in roles, u \in users :
             /\ x.tenant = t.id /\ x.name = n /\ x.perms = PermsOf[v][n]
             /\ u.name = n /\ u.role = x.id
  BY DEF Settled, TenantNamed
<1>4. PICK x \in roles, u \in users :
        /\ x.tenant = t.id /\ x.name = s.name /\ x.perms = PermsOf[v][s.name]
        /\ u.name = s.name /\ u.role = x.id
  BY <1>1, <1>3
<1>5. HasId(tenants, s.tenant) => s.tenant = t.id
  BY <1>1, <1>2, <1>3 DEF HasId, Remembers
<1>6. \A y \in roles : y.id = s.role[s.name] => y.tenant = s.tenant /\ y.name = s.name
  BY <1>1 DEF Remembers
<1>7. CASE SeedStart(r) \/ FindTenant(r) \/ FindRole(r) \/ FindUser(r) \/ SeedFails(r)
  BY <1>7 DEF SeedStart, FindTenant, FindRole, FindUser, SeedFails
<1>8. ~NewTenant(r)
  BY <1>3 DEF NewTenant, TenantNamed
<1>9. \A id : ~InsertRole(r, id)
  BY <1>4, <1>5 DEF InsertRole, RoleOf
<1>10. ~NewRole(r)
  BY <1>9 DEF NewRole
<1>11. CASE UpdateRole(r)
  <2> DEFINE id == s.role[s.name]
             set == PermsOf[v][s.name]
  <2>1. /\ HasId(roles, id) /\ UNCHANGED <<tenants, users>>
        /\ roles' = {IF y.id = id THEN [y EXCEPT !.perms = set] ELSE y : y \in roles}
    BY <1>9, <1>11 DEF UpdateRole
  <2>2. PICK y \in roles : y.id = id
    BY <2>1 DEF HasId
  <2>3. y.tenant = s.tenant /\ y.name = s.name
    BY <1>6, <2>2
  <2>4. HasId(tenants, s.tenant)
    BY <2>2, <2>3 DEF Inv, RowsStand
  <2>5. y = x
    BY <1>2, <1>4, <1>5, <2>3, <2>4
  <2>6. ASSUME NEW z \in roles
        PROVE  (IF z.id = id THEN [z EXCEPT !.perms = set] ELSE z) = z
    <3>1. CASE z.id = id
      <4>1. z.perms = set
        BY <1>2, <1>4, <2>2, <2>5, <3>1
      <4>2. QED
        BY <1>2, <3>1, <4>1
    <3>2. CASE z.id # id
      BY <3>2
    <3>3. QED
      BY <3>1, <3>2
  <2>7. roles' = roles
    <3> HIDE DEF id, set
    <3>1. QED
      BY <2>1, <2>6
  <2>8. QED
    BY <2>1, <2>7 DEF tables
<1>12. CASE AssignUser(r)
  <2> DEFINE id == s.role[s.name]
  <2>1. /\ HasId(roles, id) /\ UNCHANGED <<tenants, roles>>
        /\ users' = {IF w.name = s.name THEN [w EXCEPT !.role = id] ELSE w : w \in users}
    BY <1>12 DEF AssignUser
  <2>2. PICK y \in roles : y.id = id
    BY <2>1 DEF HasId
  <2>3. y.tenant = s.tenant /\ y.name = s.name
    BY <1>6, <2>2
  <2>4. HasId(tenants, s.tenant)
    BY <2>2, <2>3 DEF Inv, RowsStand
  <2>5. y = x
    BY <1>2, <1>4, <1>5, <2>3, <2>4
  <2>6. ASSUME NEW w \in users
        PROVE  (IF w.name = s.name THEN [w EXCEPT !.role = id] ELSE w) = w
    <3>1. CASE w.name = s.name
      <4>1. w.role = id
        BY <1>2, <1>4, <2>2, <2>5, <3>1
      <4>2. QED
        BY <1>2, <3>1, <4>1
    <3>2. CASE w.name # s.name
      BY <3>2
    <3>3. QED
      BY <3>1, <3>2
  <2>7. users' = users
    <3> HIDE DEF id
    <3>1. QED
      BY <2>1, <2>6
  <2>8. QED
    BY <2>1, <2>7 DEF tables
<1>13. ~NewUser(r)
  BY <1>4 DEF NewUser, UserNamed
<1>14. QED
  BY <1>7, <1>8, <1>10, <1>11, <1>12, <1>13 DEF Seeding

LEMMA OnlyItsSteps ==
  ASSUME Inv, [Next]_vars, NEW r \in Shells, seed'[r] # seed[r]
  PROVE  Seeding(r)
<1>1. seed \in [Shells -> Seed] /\ seed' # seed
  BY DEF Inv, TypeOK
<1>2. PICK q \in Shells : Seeding(q)
  BY <1>1 DEF Next, MigrationRun, MigrationRevert, Checking, Login, NothingRequired, CheckUser, CheckRole,
              vars
<1>3. \A p \in Shells \ {q} : seed'[p] = seed[p]
  BY <1>1, <1>2 DEF Seeding, SeedStart, FindTenant, NewTenant, FindRole, NewRole, UpdateRole,
                    InsertRole, FindUser, AssignUser, NewUser, SeedFails
<1>4. QED
  BY <1>2, <1>3

\* seed-admin.ts is idempotent under any interleaving: what a run has read of its tenant
\* and its roles stays true (MemoryStands), so where the database is as the script leaves
\* it, each of the queries that write finds nothing to do or writes what is there.
THEOREM SeedIdempotent == Spec => SettledStays
<1> DEFINE Rule ==
      \A r \in Shells : Settled(seed[r].script) /\ seed'[r] # seed[r] => UNCHANGED tables
<1>1. Inv /\ MemoryStands /\ [Next]_vars => Rule
  BY OnlyItsSteps, NothingToWrite
<1> HIDE DEF Rule
<1>2. Inv /\ MemoryStands /\ [Next]_vars => [Rule]_vars
  BY <1>1
<1>3. Spec => [][Rule]_vars
  BY <1>2, AlwaysMemory, PTL DEF Spec
<1>4. QED
  BY <1>3 DEF SettledStays, Rule

-----------------------------------------------------------------------------
(* Accounts and the rows they name.                                        *)

\* ADMIN_TENANT_NAME is the same in the environment of every run.
OneTenant == \A v, w \in Scripts : TenantOf[v] = TenantOf[w]

LEMMA RolesStay ==
  ASSUME AccountsStand, UNCHANGED users, \A t \in tenants : t \in tenants',
         \A x \in roles : \E y \in roles' : y.id = x.id /\ y.name = x.name,
         \A y \in roles' :
           \/ \E x \in roles : y.tenant = x.tenant
           \/ \E t \in tenants, v \in Scripts : t.id = y.tenant /\ t.name = TenantOf[v]
  PROVE  AccountsStand'
<1>1. ASSUME NEW u \in users', u.role # NoId
      PROVE  \E y \in roles' : y.id = u.role /\ y.name = u.name
  <2>1. PICK x \in roles : x.id = u.role /\ x.name = u.name
    BY <1>1 DEF AccountsStand
  <2>2. PICK y \in roles' : y.id = x.id /\ y.name = x.name
    OBVIOUS
  <2>3. QED
    BY <2>1, <2>2
<1>2. ASSUME NEW y \in roles'
      PROVE  \E t \in tenants', v \in Scripts : t.id = y.tenant /\ t.name = TenantOf[v]
  <2>1. CASE \E x \in roles : y.tenant = x.tenant
    BY <2>1 DEF AccountsStand
  <2>2. QED
    BY <2>1
<1>3. QED
  BY <1>1, <1>2 DEF AccountsStand

LEMMA InsertRoleStands ==
  ASSUME Inv, MemoryStands, AccountsStand, NEW r \in Shells, NEW id, InsertRole(r, id),
         UNCHANGED <<tenants, users>>
  PROVE  AccountsStand'
<1> DEFINE s == seed[r]
           x == [id |-> id, tenant |-> s.tenant, name |-> s.name,
                 perms |-> PermsOf[s.script][s.name]]
<1>1. s.script \in Scripts /\ Remembers(s, tenants, roles, lastId, reverts)
  BY RunsAreSound DEF Sound, Seed, MemoryStands
<1>2. roles' = roles \cup {x} /\ x.tenant = s.tenant
  BY DEF InsertRole
<1>3. PICK t \in tenants : t.id = s.tenant
  BY DEF InsertRole, HasId
<1>4. t.name = TenantOf[s.script]
  BY <1>1, <1>3 DEF Remembers
<1> HIDE DEF x
<1>5. QED
  BY <1>1, <1>2, <1>3, <1>4, RolesStay

LEMMA UpdateRoleStands ==
  ASSUME Inv, MemoryStands, AccountsStand, NEW r \in Shells, UpdateRole(r)
  PROVE  AccountsStand'
<1> DEFINE id == seed[r].role[seed[r].name]
           set == PermsOf[seed[r].script][seed[r].name]
           New(x) == IF x.id = id THEN [x EXCEPT !.perms = set] ELSE x
<1>1. UNCHANGED <<tenants, users>>
  BY DEF UpdateRole
<1>2. CASE roles' = {New(x) : x \in roles}
  <2>1. ASSUME NEW x \in roles
        PROVE  New(x).id = x.id /\ New(x).name = x.name /\ New(x).tenant = x.tenant
    BY DEF Inv, TypeOK
  <2> HIDE DEF New
  <2>2. /\ \A x \in roles : \E y \in roles' : y.id = x.id /\ y.name = x.name
        /\ \A y \in roles' : \E x \in roles : y.tenant = x.tenant
    BY <1>2, <2>1
  <2>3. QED
    BY <1>1, <2>2, RolesStay
<1>3. CASE InsertRole(r, id)
  BY <1>1, <1>3, InsertRoleStands
<1>4. QED
  BY <1>2, <1>3 DEF UpdateRole

\* An account gets a role of its name: the run found or wrote it under that name.
LEMMA UserStands ==
  ASSUME Inv, MemoryStands, AccountsStand, NEW r \in Shells, AssignUser(r) \/ NewUser(r)
  PROVE  AccountsStand'
<1> DEFINE s == seed[r]
           id == s.role[s.name]
<1>1. /\ s.name \in Names /\ Remembers(s, tenants, roles, lastId, reverts)
      /\ \A u \in users : u.name \in Names
      /\ users \subseteq [name : Names, tenant : Ids \cup {NoId}, role : Ids \cup {NoId}]
  BY RunsAreSound DEF Sound, Seed, MemoryStands, Inv, TypeOK
<1>2. HasId(roles, id) /\ UNCHANGED <<tenants, roles>>
  BY DEF AssignUser, NewUser
<1>3. PICK x \in roles : x.id = id
  BY <1>2 DEF HasId
<1>4. x.name = s.name
  BY <1>1, <1>3 DEF Remembers
<1>5. \A w \in users' : w \in users \/ (w.name = s.name /\ w.role = id)
  <2>1. CASE AssignUser(r)
    BY <1>1, <2>1 DEF AssignUser
  <2>2. CASE NewUser(r)
    BY <2>2 DEF NewUser
  <2>3. QED
    BY <2>1, <2>2
<1>6. QED
  BY <1>2, <1>3, <1>4, <1>5 DEF AccountsStand

\* Migrations run and revert where no role exists, or take the accounts' roles away.
LEMMA MigrationStands ==
  ASSUME Inv, AccountsStand, MigrationRun \/ MigrationRevert
  PROVE  AccountsStand'
<1>1. users \subseteq [name : Names, tenant : Ids \cup {NoId}, role : Ids \cup {NoId}]
  BY DEF Inv, TypeOK
<1>2. roles' = {}
  BY DEF MigrationRun, CreateRoles, MigrationRevert, DropRoles, DropTenants, Inv, RowsStand
<1>3. schema # "roles" => \A u \in users : u.role = NoId
  BY DEF Inv, RowsStand, AccountsStand
<1>4. \A u \in users' : u.role = NoId
  <2>1. CASE MigrationRun
    BY <1>1, <1>3, <2>1 DEF MigrationRun, CreateTenants
  <2>2. CASE MigrationRevert
    BY <1>1, <1>3, <2>2 DEF MigrationRevert, DropRoles, DropTenants
  <2>3. QED
    BY <2>1, <2>2
<1>5. QED
  BY <1>2, <1>4 DEF AccountsStand

LEMMA AccountsStep == Inv /\ MemoryStands /\ AccountsStand /\ [Next]_vars => AccountsStand'
<1> SUFFICES ASSUME Inv, MemoryStands, AccountsStand, [Next]_vars PROVE AccountsStand'
  OBVIOUS
<1>1. CASE MigrationRun \/ MigrationRevert
  BY <1>1, MigrationStands
<1>2. ASSUME NEW r \in Shells, Seeding(r) PROVE AccountsStand'
  <2>1. CASE UNCHANGED tables
    BY <2>1 DEF tables, AccountsStand
  <2>2. CASE NewTenant(r)
    BY <2>2, RolesStay DEF NewTenant
  <2>3. CASE NewRole(r)
    BY <2>3, InsertRoleStands DEF NewRole
  <2>4. QED
    BY <1>2, <2>1, <2>2, <2>3, UpdateRoleStands, UserStands
    DEF Seeding, SeedStart, FindTenant, FindRole, FindUser, SeedFails
<1>3. CASE UNCHANGED tables
  BY <1>3 DEF tables, AccountsStand
<1>4. QED
  BY <1>1, <1>2, <1>3 DEF Next, vars, Checking, Login, NothingRequired, CheckUser, CheckRole

LEMMA AlwaysAccounts == Spec => [](Inv /\ MemoryStands /\ AccountsStand)
<1>1. Init => AccountsStand
  BY DEF Init, AccountsStand
<1>2. QED
  BY <1>1, AlwaysMemory, AccountsStep, PTL DEF Spec

-----------------------------------------------------------------------------
(* Accounts that runs have made.                                           *)

\* Only a reverted migration takes a role from an account; no user is ever deleted.
LEMMA AccountsStay ==
  ASSUME Inv, [Next]_vars, NEW n \in Names
  PROVE  /\ (\E u \in users : u.name = n) => \E u \in users' : u.name = n
         /\ HasAccount(n, users) /\ reverts' = reverts => HasAccount(n, users')
<1>1. users \subseteq [name : Names, tenant : Ids \cup {NoId}, role : Ids \cup {NoId}]
  BY DEF Inv, TypeOK
<1>2. ASSUME NEW u \in users
      PROVE  \E w \in users' : w.name = u.name
                               /\ (u.role # NoId /\ reverts' = reverts => w.role # NoId)
  <2>1. CASE users \subseteq users'
    BY <2>1
  <2>2. CASE MigrationRun
    <3> DEFINE New(w) == [w EXCEPT !.tenant = NewId]
    <3>1. New(u).name = u.name /\ New(u).role = u.role
      BY <1>1
    <3>2. users' = users \/ users' = {New(w) : w \in users}
      BY <2>2 DEF MigrationRun, CreateTenants
    <3> HIDE DEF New
    <3>3. QED
      BY <2>1, <3>1, <3>2
  <2>3. CASE MigrationRevert
    <3> DEFINE NoRole(w) == [w EXCEPT !.role = NoId]
               NoTenant(w) == [w EXCEPT !.tenant = NoId]
    <3>1. reverts' # reverts
      BY <2>3, BoundAssumption DEF MigrationRevert, Inv, TypeOK
    <3>2. NoRole(u).name = u.name /\ NoTenant(u).name = u.name
      BY <1>1
    <3>3. users' = {NoRole(w) : w \in users} \/ users' = {NoTenant(w) : w \in users}
      BY <2>3 DEF MigrationRevert, DropRoles, DropTenants
    <3> HIDE DEF NoRole, NoTenant
    <3>4. QED
      BY <3>1, <3>2, <3>3
  <2>4. ASSUME NEW r \in Shells, AssignUser(r)
        PROVE  \E w \in users' : w.name = u.name /\ (u.role # NoId => w.role # NoId)
    <3> DEFINE id == seed[r].role[seed[r].name]
               New(w) == IF w.name = seed[r].name THEN [w EXCEPT !.role = id] ELSE w
    <3>1. HasId(roles, id) /\ users' = {New(w) : w \in users}
      BY <2>4 DEF AssignUser
    <3>2. id # NoId
      BY <3>1 DEF HasId, Inv, TypeOK
    <3>3. New(u).name = u.name /\ (u.role # NoId => New(u).role # NoId)
      BY <1>1, <3>2
    <3> HIDE DEF New
    <3>4. QED
      BY <3>1, <3>3
  <2>5. ASSUME NEW r \in Shells, Seeding(r), ~AssignUser(r) PROVE users \subseteq users'
    BY <2>5 DEF Seeding, SeedStart, FindTenant, NewTenant, FindRole, NewRole, UpdateRole,
                FindUser, NewUser, SeedFails, tables
  <2>6. QED
    BY <2>1, <2>2, <2>3, <2>4, <2>5
    DEF Next, Checking, Login, NothingRequired, CheckUser, CheckRole, tables, vars
<1>3. QED
  BY <1>2 DEF HasAccount

\* What a run has made stays, whatever the others do.
LEMMA MadeStays ==
  ASSUME Inv, [Next]_vars, NEW s, s.name \in Names, s.since \in Nat, s.since <= reverts,
         Made(s, users, reverts)
  PROVE  Made(s, users', reverts')
<1>1. reverts' = reverts \/ reverts' = reverts + 1
  BY DEF Next, vars, schemaVars, MigrationRun, MigrationRevert, Seeding, SeedStart, FindTenant,
         NewTenant, FindRole, NewRole, UpdateRole, FindUser, AssignUser, NewUser, SeedFails,
         Checking, Login, NothingRequired, CheckUser, CheckRole
<1>2. reverts \in Nat
  BY BoundAssumption DEF Inv, TypeOK
<1>3. s.since = reverts' => s.since = reverts /\ reverts' = reverts
  BY <1>1, <1>2
<1>4. \A n \in Names :
        /\ (\E u \in users : u.name = n) => \E u \in users' : u.name = n
        /\ HasAccount(n, users) /\ reverts' = reverts => HasAccount(n, users')
  BY AccountsStay
<1>5. QED
  BY <1>3, <1>4 DEF Made

\* A run that goes to the next account has left the last one with a role.
LEMMA UserReadyMade ==
  ASSUME NEW s \in Seed, NEW U, NEW past, Made(s, U, past), HasAccount(s.name, U),
         s.at \in {"findUser", "newUser", "assignUser"}
  PROVE  Made(UserReady(s), U, past)
<1>1. CASE s.name = "admin"
  <2> DEFINE next == UserReady(s)
  <2>1. next.at = "findUser" /\ next.name = "approver"
    BY <1>1 DEF UserReady, Seed
  <2> HIDE DEF next
  <2>2. Made(next, U, past)
    BY <1>1, <2>1 DEF Made
  <2>3. QED
    BY <2>2 DEF next
<1>2. CASE s.name = "approver"
  <2> DEFINE next == UserReady(s)
  <2>1. next.at = "done" /\ next.since = s.since
    BY <1>2 DEF UserReady, Run
  <2> HIDE DEF next
  <2>2. Made(next, U, past)
    BY <1>2, <2>1 DEF Made
  <2>3. QED
    BY <2>2 DEF next
<1>3. QED
  BY <1>1, <1>2 DEF Seed

LEMMA MadeStep ==
  ASSUME Inv, MemoryStands, AccountsMade, [Next]_vars
  PROVE  AccountsMade'
<1> SUFFICES ASSUME NEW r \in Shells PROVE Made(seed'[r], users', reverts')
  BY DEF AccountsMade
<1> DEFINE s == seed[r]
<1>1. /\ s \in Seed /\ s.name \in Names /\ s.since \in Nat /\ s.since <= reverts
      /\ seed \in [Shells -> Seed] /\ Made(s, users, reverts)
  BY RunsAreSound, BoundAssumption
  DEF Sound, Seed, MemoryStands, Remembers, AccountsMade, Inv, TypeOK
<1>2. Made(s, users', reverts')
  BY <1>1, MadeStays
<1>3. CASE UNCHANGED seed[r]
  BY <1>2, <1>3
<1>4. ASSUME NEW next, seed' = [seed EXCEPT ![r] = next],
             next.at \in {"idle", "findTenant", "newTenant", "findRole", "newRole", "updateRole"}
      PROVE  Made(seed'[r], users', reverts')
  BY <1>1, <1>4 DEF Made
<1>5. ASSUME NEW next, seed' = [seed EXCEPT ![r] = next], next.name = "admin",
             next.at = "findUser"
      PROVE  Made(seed'[r], users', reverts')
  BY <1>1, <1>5 DEF Made
<1>6. CASE SeedStart(r) \/ SeedFails(r)
  BY <1>4, <1>6 DEF SeedStart, SeedFails, Idle, Run
<1>7. CASE FindTenant(r) \/ NewTenant(r)
  BY <1>1, <1>4, <1>7 DEF FindTenant, NewTenant, TenantReady, Then, Seed
<1>8. ASSUME NEW id, seed' = [seed EXCEPT ![r] = RoleReady(s, id)]
      PROVE  Made(seed'[r], users', reverts')
  BY <1>1, <1>4, <1>5, <1>8 DEF RoleReady, Seed
<1>9. CASE FindRole(r)
  <2>1. CASE seed' = [seed EXCEPT ![r] = Then(s, "newRole")]
    BY <1>1, <1>4, <2>1 DEF Then, Seed
  <2>2. ASSUME NEW id,
               seed' = [seed EXCEPT ![r] = [s EXCEPT !.at = "updateRole", !.role[s.name] = id]]
        PROVE  Made(seed'[r], users', reverts')
    BY <1>1, <1>4, <2>2 DEF Seed
  <2>3. QED
    BY <1>8, <1>9, <2>1, <2>2 DEF FindRole
<1>10. CASE NewRole(r) \/ UpdateRole(r)
  BY <1>8, <1>10 DEF NewRole, UpdateRole, InsertRole
<1>11. CASE seed' = [seed EXCEPT ![r] = UserReady(s)]
            /\ HasAccount(s.name, users') /\ s.at \in {"findUser", "newUser", "assignUser"}
  BY <1>1, <1>2, <1>11, UserReadyMade
<1>12. CASE FindUser(r)
  <2>1. users' = users /\ reverts' = reverts /\ s.at = "findUser"
    BY <1>12 DEF FindUser, tables, schemaVars
  <2>2. CASE UserNamed(s.name) = {} /\ seed' = [seed EXCEPT ![r] = Then(s, "newUser")]
    BY <1>1, <1>2, <2>1, <2>2 DEF Then, Seed, Made
  <2>3. CASE UserNamed(s.name) # {} /\ seed' = [seed EXCEPT ![r] = Then(s, "assignUser")]
    BY <1>1, <1>2, <2>1, <2>3 DEF Then, Seed, Made, UserNamed
  <2>4. CASE /\ UserNamed(s.name) # {} /\ ~\E u \in UserNamed(s.name) : u.role = NoId
             /\ seed' = [seed EXCEPT ![r] = UserReady(s)]
    BY <1>11, <2>1, <2>4 DEF UserNamed, HasAccount
  <2>5. CASE UserNamed(s.name) = {}
    BY <1>12, <2>2, <2>5 DEF FindUser
  <2>6. CASE UserNamed(s.name) # {} /\ \E u \in UserNamed(s.name) : u.role = NoId
    BY <1>12, <2>3, <2>6 DEF FindUser
  <2>7. CASE UserNamed(s.name) # {} /\ ~\E u \in UserNamed(s.name) : u.role = NoId
    BY <1>12, <2>4, <2>7 DEF FindUser
  <2>8. QED
    BY <2>5, <2>6, <2>7
<1>13. CASE AssignUser(r) \/ NewUser(r)
  <2> DEFINE id == s.role[s.name]
             New(u) == IF u.name = s.name THEN [u EXCEPT !.role = id] ELSE u
  <2>1. HasId(roles, id) /\ seed' = [seed EXCEPT ![r] = UserReady(s)]
        /\ s.at \in {"newUser", "assignUser"}
    BY <1>13 DEF AssignUser, NewUser
  <2>2. id # NoId
    BY <2>1 DEF HasId, Inv, TypeOK
  <2>3. ASSUME AssignUser(r) PROVE HasAccount(s.name, users')
    <3>1. PICK u \in users : u.name = s.name
      BY <1>1, <2>3 DEF AssignUser, Made
    <3>2. New(u).name = s.name /\ New(u).role # NoId
      BY <2>2, <3>1 DEF Inv, TypeOK
    <3>3. users' = {New(w) : w \in users}
      BY <2>3 DEF AssignUser
    <3> HIDE DEF New, id
    <3>4. QED
      BY <3>2, <3>3 DEF HasAccount
  <2>4. ASSUME NewUser(r) PROVE HasAccount(s.name, users')
    <3> DEFINE w == [name |-> s.name, tenant |-> s.tenant, role |-> id]
    <3>1. w.name = s.name /\ w.role = id /\ users' = users \cup {w}
      BY <2>4 DEF NewUser
    <3> HIDE DEF w, id
    <3>2. QED
      BY <2>2, <3>1 DEF HasAccount
  <2>5. QED
    BY <1>11, <1>13, <2>1, <2>3, <2>4
<1>14. QED
  BY <1>3, <1>6, <1>7, <1>9, <1>10, <1>12, <1>13, OnlyItsSteps DEF Seeding

LEMMA AlwaysMade == Spec => [](Inv /\ AccountsStand /\ AccountsMade)
<1>1. Init => AccountsMade
  <2>1. Idle.at = "idle"
    BY DEF Idle, Run
  <2>2. Init => \A r \in Shells : seed[r] = Idle
    BY DEF Init
  <2>3. QED
    BY <2>1, <2>2 DEF AccountsMade, Made
<1>2. QED
  BY <1>1, AlwaysAccounts, MadeStep, PTL DEF Spec

\* With one tenant name, what seed-admin.ts announces at its end holds: an account it has
\* passed has a role (AccountsMade), the role is there under the account's name and in the
\* tenant of the scripts (AccountsStand), which is one row.  A script for another tenant
\* would find the accounts by their username and leave them the other tenant's roles.
THEOREM SeededAccountsCanWork == OneTenant => (Spec => []SeededAccountsWork)
<1>1. ASSUME OneTenant, Inv, AccountsStand, AccountsMade PROVE SeededAccountsWork
  <2> SUFFICES ASSUME NEW r \in Shells, seed[r].at = "done", seed[r].since = reverts,
                      NEW n \in Names
               PROVE  \E u \in users, x \in roles :
                        /\ u.name = n /\ x.name = n /\ u.role = x.id
                        /\ Seeds(r, u.tenant) => x.tenant = u.tenant
    BY DEF SeededAccountsWork
  <2>1. PICK u \in users : u.name = n /\ u.role # NoId
    BY <1>1 DEF AccountsMade, Made, HasAccount
  <2>2. PICK x \in roles : x.id = u.role /\ x.name = n
    BY <1>1, <2>1 DEF AccountsStand
  <2>3. PICK t \in tenants, v \in Scripts : t.id = x.tenant /\ t.name = TenantOf[v]
    BY <1>1 DEF AccountsStand
  <2>4. ASSUME Seeds(r, u.tenant) PROVE x.tenant = u.tenant
    <3>1. PICK y \in tenants : y.name = TenantOf[seed[r].script] /\ y.id = u.tenant
      BY <2>4 DEF Seeds, TenantNamed
    <3>2. seed[r].script \in Scripts
      BY <1>1, RunsAreSound DEF Sound, Seed
    <3>3. y.name = t.name
      BY <1>1, <2>3, <3>1, <3>2 DEF OneTenant
    <3>4. QED
      BY <1>1, <2>3, <3>1, <3>3 DEF Inv, TypeOK
  <2>5. QED
    BY <2>1, <2>2, <2>4
<1>2. SUFFICES ASSUME OneTenant PROVE Spec => []SeededAccountsWork
  OBVIOUS
<1>3. Inv /\ AccountsStand /\ AccountsMade => SeededAccountsWork
  BY <1>1, <1>2
<1>4. QED
  BY <1>3, AlwaysMade, PTL

-----------------------------------------------------------------------------
(* Roles that a run has written.                                           *)

\* No other run takes a step while r is alone: if one starts, r is alone no more.
LEMMA AloneSteps ==
  ASSUME Inv, RolesApplied, [Next]_vars, NEW r \in alone'
  PROVE  \/ r \in alone /\ UNCHANGED seed /\ ~\E q \in Shells : Seeding(q)
         \/ r \in Shells /\ Seeding(r) /\ (r \in alone \/ SeedStart(r))
<1>1. CASE ~\E q \in Shells : Seeding(q)
  BY <1>1 DEF Next, vars, MigrationRun, MigrationRevert, Checking, Login, NothingRequired, CheckUser, CheckRole
<1>2. ASSUME NEW q \in Shells, Seeding(q)
      PROVE  r \in Shells /\ Seeding(r) /\ (r \in alone \/ SeedStart(r))
  <2>1. CASE SeedStart(q)
    BY <1>2, <2>1 DEF SeedStart
  <2>2. CASE ~SeedStart(q)
    <3>1. ~Resting(q)
      BY <1>2, <2>2 DEF Seeding, Resting, FindTenant, NewTenant, FindRole, NewRole,
        UpdateRole, FindUser, AssignUser, NewUser, SeedFails
    <3>2. alone' = alone
      BY <1>2, <2>2 DEF Seeding, FindTenant, NewTenant, FindRole, NewRole, UpdateRole,
        FindUser, AssignUser, NewUser, SeedFails
    <3>3. q = r
      BY <3>1, <3>2 DEF RolesApplied
    <3>4. QED
      BY <1>2, <3>2, <3>3
  <2>3. QED
    BY <2>1, <2>2
<1>3. QED
  BY <1>1, <1>2

\* A run of the script that has its role goes on.
LEMMA RoleReadyWrote ==
  ASSUME NEW s \in Seed, NEW id, NEW T, NEW R, NEW past,
         s.since = past => Applied(s.script, s.name, T, R),
         s.since = past /\ s.name = "approver" => Applied(s.script, "admin", T, R)
  PROVE  Wrote(RoleReady(s, id), T, R, past)
<1> DEFINE next == RoleReady(s, id)
<1>1. /\ next.script = s.script /\ next.since = s.since
      /\ s.name = "admin" => next.at = "findRole" /\ next.name = "approver"
      /\ s.name = "approver" => next.at = "findUser" /\ next.name = "admin"
      /\ s.name \in {"admin", "approver"}
  BY DEF RoleReady, Seed
<1> HIDE DEF next
<1>2. Wrote(next, T, R, past)
  BY <1>1 DEF Wrote
<1>3. QED
  BY <1>2 DEF next

\* A role that a run finds or writes is of the tenant its script names.
LEMMA RoleIsApplied ==
  ASSUME NEW s, NEW T, NEW R, NEW last, NEW past, Remembers(s, T, R, last, past),
         NEW x \in R, x.tenant = s.tenant, x.name = s.name, HasId(T, s.tenant),
         x.perms = PermsOf[s.script][s.name]
  PROVE  Applied(s.script, s.name, T, R)
<1>1. PICK t \in T : t.id = s.tenant
  BY DEF HasId
<1>2. t.name = TenantOf[s.script]
  BY <1>1 DEF Remembers
<1>3. QED
  BY <1>1, <1>2 DEF Applied

LEMMA MoreApplied ==
  ASSUME NEW v, NEW n, NEW T, NEW R, NEW T2, NEW R2, Applied(v, n, T, R),
         T \subseteq T2, R \subseteq R2
  PROVE  Applied(v, n, T2, R2)
  BY DEF Applied

\* A migration leaves no role that a run could have written.
LEMMA MigrationWrote ==
  ASSUME Inv, NEW s, s.since \in Nat, s.since <= reverts, Wrote(s, tenants, roles, reverts),
         MigrationRun \/ MigrationRevert
  PROVE  Wrote(s, tenants', roles', reverts')
<1>1. CASE MigrationRun
  <2>1. roles = {} /\ reverts' = reverts
    BY <1>1 DEF MigrationRun, Inv, RowsStand
  <2>2. \A v, n : ~Applied(v, n, tenants, roles)
    BY <2>1 DEF Applied
  <2>3. QED
    BY <2>1, <2>2 DEF Wrote
<1>2. CASE MigrationRevert
  <2>1. s.since # reverts'
    BY <1>2, BoundAssumption DEF MigrationRevert, Inv, TypeOK
  <2>2. QED
    BY <2>1 DEF Wrote
<1>3. QED
  BY <1>1, <1>2

LEMMA InsertRoleWrote ==
  ASSUME Inv, MemoryStands, NEW r \in Shells, NEW id, InsertRole(r, id),
         Wrote(seed[r], tenants, roles, reverts), seed[r].at \in {"newRole", "updateRole"},
         UNCHANGED <<tenants, reverts>>
  PROVE  Wrote(seed'[r], tenants', roles', reverts')
<1> DEFINE s == seed[r]
           x == [id |-> id, tenant |-> s.tenant, name |-> s.name,
                 perms |-> PermsOf[s.script][s.name]]
<1>1. s \in Seed /\ seed \in [Shells -> Seed] /\ Remembers(s, tenants, roles, lastId, reverts)
  BY RunsAreSound DEF Sound, MemoryStands, Inv, TypeOK
<1>2. /\ roles' = roles \cup {x} /\ HasId(tenants, s.tenant)
      /\ seed'[r] = RoleReady(s, id)
      /\ x.tenant = s.tenant /\ x.name = s.name /\ x.perms = PermsOf[s.script][s.name]
  BY <1>1 DEF InsertRole
<1> HIDE DEF x
<1>3. PICK t \in tenants : t.id = s.tenant
  BY <1>2 DEF HasId
<1>4. t.name = TenantOf[s.script]
  BY <1>1, <1>3 DEF Remembers
<1>5. Applied(s.script, s.name, tenants', roles')
  BY <1>2, <1>3, <1>4 DEF Applied
<1>6. s.since = reverts /\ s.name = "approver" => Applied(s.script, "admin", tenants', roles')
  <2>1. tenants \subseteq tenants' /\ roles \subseteq roles'
    BY <1>2
  <2>2. QED
    BY <2>1, MoreApplied DEF Wrote
<1>7. QED
  BY <1>1, <1>2, <1>5, <1>6, RoleReadyWrote

\* The update of one role leaves the permissions of the other.
LEMMA UpdateRoleWrote ==
  ASSUME Inv, MemoryStands, NEW r \in Shells, UpdateRole(r),
         Wrote(seed[r], tenants, roles, reverts)
  PROVE  Wrote(seed'[r], tenants', roles', reverts')
<1> DEFINE s == seed[r]
           id == s.role[s.name]
           set == PermsOf[s.script][s.name]
           New(x) == IF x.id = id THEN [x EXCEPT !.perms = set] ELSE x
<1>1. /\ s \in Seed /\ s.name \in Names /\ seed \in [Shells -> Seed]
      /\ Remembers(s, tenants, roles, lastId, reverts)
  BY RunsAreSound DEF Sound, Seed, MemoryStands, Inv, TypeOK
<1>2. s.at = "updateRole" /\ UNCHANGED <<tenants, reverts>>
  BY DEF UpdateRole, schemaVars
<1>3. CASE InsertRole(r, id)
  BY <1>2, <1>3, InsertRoleWrote
<1>4. CASE /\ HasId(roles, id) /\ roles' = {New(x) : x \in roles}
           /\ seed' = [seed EXCEPT ![r] = RoleReady(s, id)]
  <2>1. ASSUME NEW x \in roles
        PROVE  /\ New(x).id = x.id /\ New(x).tenant = x.tenant /\ New(x).name = x.name
               /\ x.id = id => New(x).perms = set
               /\ x.id # id => New(x) = x
    BY DEF Inv, TypeOK
  <2>2. PICK x \in roles : x.id = id
    BY <1>4 DEF HasId
  <2>3. x.tenant = s.tenant /\ x.name = s.name
    BY <1>1, <2>2 DEF Remembers
  <2> HIDE DEF New
  <2>4. PICK t \in tenants : t.id = s.tenant
    BY <2>2, <2>3 DEF Inv, RowsStand, HasId
  <2>5. t.name = TenantOf[s.script]
    BY <1>1, <2>4 DEF Remembers
  <2>6. Applied(s.script, s.name, tenants', roles')
    BY <1>2, <1>4, <2>1, <2>2, <2>3, <2>4, <2>5 DEF Applied
  <2>7. ASSUME s.since = reverts, s.name = "approver"
        PROVE  Applied(s.script, "admin", tenants', roles')
    <3>1. PICK u \in tenants, y \in roles :
            /\ u.name = TenantOf[s.script] /\ y.tenant = u.id /\ y.name = "admin"
            /\ y.perms = PermsOf[s.script]["admin"]
      BY <1>2, <2>7 DEF Wrote, Applied
    <3>2. y.id # id
      BY <1>1, <2>7, <3>1 DEF Remembers
    <3>3. y \in roles'
      BY <1>4, <2>1, <3>2
    <3>4. QED
      BY <1>2, <3>1, <3>3 DEF Applied
  <2>8. QED
    BY <1>1, <1>2, <1>4, <2>6, <2>7, RoleReadyWrote
<1>5. QED
  BY <1>3, <1>4 DEF UpdateRole

LEMMA StepWrote ==
  ASSUME Inv, MemoryStands, NEW r \in Shells, Seeding(r), ~SeedStart(r),
         Wrote(seed[r], tenants, roles, reverts)
  PROVE  Wrote(seed'[r], tenants', roles', reverts')
<1> DEFINE s == seed[r]
<1>1. s \in Seed /\ seed \in [Shells -> Seed] /\ Remembers(s, tenants, roles, lastId, reverts)
  BY RunsAreSound DEF Sound, MemoryStands, Inv, TypeOK
<1>2. CASE FindTenant(r) \/ NewTenant(r)
  <2>1. s.at \in {"findTenant", "newTenant"} /\ s.name = "admin"
    BY <1>2 DEF FindTenant, NewTenant, Wrote
  <2>2. ASSUME NEW next, seed' = [seed EXCEPT ![r] = next], next.name = "admin",
               next.at \in {"newTenant", "findRole"}
        PROVE  Wrote(seed'[r], tenants', roles', reverts')
    BY <1>1, <2>2 DEF Wrote
  <2>3. \A id : TenantReady(s, id).name = "admin" /\ TenantReady(s, id).at = "findRole"
    BY <1>1, <2>1 DEF TenantReady, Seed
  <2>4. Then(s, "newTenant").name = "admin" /\ Then(s, "newTenant").at = "newTenant"
    BY <1>1, <2>1 DEF Then, Seed
  <2>5. QED
    BY <1>2, <2>2, <2>3, <2>4 DEF FindTenant, NewTenant
<1>3. CASE FindRole(r)
  <2>1. s.at = "findRole" /\ UNCHANGED <<tenants, roles, reverts>>
    BY <1>3 DEF FindRole, schemaVars, tables
  <2>2. ASSUME NEW next, seed' = [seed EXCEPT ![r] = next], next.script = s.script,
               next.name = s.name, next.since = s.since, next.at \in {"newRole", "updateRole"}
        PROVE  Wrote(seed'[r], tenants', roles', reverts')
    BY <1>1, <2>1, <2>2 DEF Wrote
  <2>3. CASE seed' = [seed EXCEPT ![r] = Then(s, "newRole")]
    BY <1>1, <2>2, <2>3 DEF Then, Seed
  <2>4. ASSUME NEW id,
               seed' = [seed EXCEPT ![r] = [s EXCEPT !.at = "updateRole", !.role[s.name] = id]]
        PROVE  Wrote(seed'[r], tenants', roles', reverts')
    BY <1>1, <2>2, <2>4 DEF Seed
  <2>5. ASSUME NEW x \in RoleOf(s), x.perms = PermsOf[s.script][s.name],
               seed' = [seed EXCEPT ![r] = RoleReady(s, x.id)]
        PROVE  Wrote(seed'[r], tenants', roles', reverts')
    <3>1. x \in roles /\ x.tenant = s.tenant /\ x.name = s.name
      BY DEF RoleOf
    <3>2. HasId(tenants, s.tenant)
      BY <3>1 DEF Inv, RowsStand
    <3>3. Applied(s.script, s.name, tenants, roles)
      BY <1>1, <2>5, <3>1, <3>2, RoleIsApplied
    <3>4. s.since = reverts /\ s.name = "approver" => Applied(s.script, "admin", tenants, roles)
      BY <2>1 DEF Wrote
    <3>5. QED
      BY <1>1, <2>1, <2>5, <3>3, <3>4, RoleReadyWrote
  <2>6. QED
    BY <1>3, <2>3, <2>4, <2>5 DEF FindRole
<1>4. CASE NewRole(r)
  BY <1>4, InsertRoleWrote DEF NewRole, schemaVars
<1>5. CASE UpdateRole(r)
  BY <1>5, UpdateRoleWrote
<1>6. CASE FindUser(r) \/ AssignUser(r) \/ NewUser(r)
  <2>1. /\ s.at \in {"findUser", "assignUser", "newUser"}
        /\ UNCHANGED <<tenants, roles, reverts>>
    BY <1>6 DEF FindUser, AssignUser, NewUser, schemaVars, tables
  <2>2. ASSUME NEW next, seed' = [seed EXCEPT ![r] = next], next.script = s.script,
               next.since = s.since, next.at \in {"findUser", "assignUser", "newUser", "done"}
        PROVE  Wrote(seed'[r], tenants', roles', reverts')
    BY <1>1, <2>1, <2>2 DEF Wrote
  <2>3. \A step \in {"assignUser", "newUser"} :
          /\ Then(s, step).script = s.script /\ Then(s, step).since = s.since
          /\ Then(s, step).at = step
    BY <1>1 DEF Then, Seed
  <2>4. /\ UserReady(s).script = s.script /\ UserReady(s).since = s.since
        /\ UserReady(s).at \in {"findUser", "done"}
    BY <1>1 DEF UserReady, Run, Seed
  <2>5. \E next \in {UserReady(s), Then(s, "assignUser"), Then(s, "newUser")} :
          seed' = [seed EXCEPT ![r] = next]
    BY <1>6 DEF FindUser, AssignUser, NewUser
  <2>6. QED
    BY <2>2, <2>3, <2>4, <2>5
<1>7. CASE SeedFails(r)
  <2>1. Idle.at = "idle"
    BY DEF Idle, Run
  <2>2. seed'[r] = Idle
    BY <1>1, <1>7 DEF SeedFails
  <2>3. QED
    BY <2>1, <2>2 DEF Wrote
<1>8. QED
  BY <1>2, <1>3, <1>4, <1>5, <1>6, <1>7 DEF Seeding

LEMMA AppliedStep ==
  ASSUME Inv, MemoryStands, RolesApplied, [Next]_vars
  PROVE  RolesApplied'
<1> SUFFICES ASSUME NEW r \in alone'
             PROVE  /\ Wrote(seed'[r], tenants', roles', reverts')
                    /\ \A q \in Shells \ {r} : seed'[q].at \in {"idle", "done"}
  BY DEF RolesApplied, Resting
<1>1. r \in Shells /\ seed \in [Shells -> Seed]
  BY AloneSteps DEF Inv, TypeOK
<1>2. CASE r \in alone /\ UNCHANGED seed /\ ~\E q \in Shells : Seeding(q)
  <2>1. Wrote(seed[r], tenants, roles, reverts)
    BY <1>2 DEF RolesApplied
  <2>2. CASE MigrationRun \/ MigrationRevert
    <3>1. seed[r].since \in Nat /\ seed[r].since <= reverts
      BY <1>1, BoundAssumption DEF Seed, MemoryStands, Remembers
    <3>2. QED
      BY <1>2, <2>1, <2>2, <3>1, MigrationWrote DEF RolesApplied, Resting
  <2>3. CASE UNCHANGED <<tenants, roles, reverts>>
    BY <1>2, <2>1, <2>3 DEF RolesApplied, Resting
  <2>4. QED
    BY <1>2, <2>2, <2>3
    DEF Next, vars, Checking, Login, NothingRequired, CheckUser, CheckRole, schemaVars, tables
<1>3. CASE SeedStart(r)
  <2>1. PICK v \in Scripts : seed' = [seed EXCEPT ![r] = Run(v, "findTenant", reverts)]
    BY <1>3 DEF SeedStart
  <2>2. seed'[r].at = "findTenant" /\ seed'[r].name = "admin"
    BY <1>1, <2>1 DEF Run
  <2>3. \A q \in Shells \ {r} : Resting(q)
    BY <1>3 DEF SeedStart
  <2>4. QED
    BY <1>1, <2>1, <2>2, <2>3 DEF Wrote, Resting
<1>4. CASE r \in alone /\ Seeding(r) /\ ~SeedStart(r)
  <2>1. Wrote(seed'[r], tenants', roles', reverts')
    BY <1>1, <1>4, StepWrote DEF RolesApplied
  <2>2. \A q \in Shells \ {r} : seed'[q] = seed[q]
    BY <1>1, <1>4 DEF Seeding, FindTenant, NewTenant, FindRole, NewRole, UpdateRole,
                      InsertRole, FindUser, AssignUser, NewUser, SeedFails
  <2>3. QED
    BY <1>4, <2>1, <2>2 DEF RolesApplied, Resting
<1>5. QED
  BY <1>2, <1>3, <1>4, AloneSteps

\* What ensureRole promises: a run that overlapped no other ends with its version's
\* permissions in both roles of its tenant.  A role it has passed keeps them (RolesApplied),
\* for what it remembers of the other role is never the row of this one (MemoryStands).
THEOREM PermissionsApplied == Spec => []UpsertApplied
<1>1. Init => RolesApplied
  BY DEF Init, RolesApplied
<1>2. Spec => [](Inv /\ RolesApplied)
  BY <1>1, AlwaysMemory, AppliedStep, PTL DEF Spec
<1>3. ASSUME RolesApplied PROVE UpsertApplied
  BY <1>3 DEF RolesApplied, UpsertApplied, Wrote, Applied, Seeds, TenantNamed
<1>4. QED
  BY <1>2, <1>3, PTL

-----------------------------------------------------------------------------
(* Where the demo accounts do work.                                        *)

\* ADMIN_TENANT_NAME is unset, or what .env.example sets it to.
DefaultTenant == \A v \in Scripts : TenantOf[v] = "default"

LEMMA UsersKept ==
  ASSUME UsersStand, UNCHANGED schema, \A t \in tenants : t \in tenants',
         \A w \in users' : HasId(tenants, w.tenant) \/ \E u \in users : w.tenant = u.tenant
  PROVE  UsersStand'
  BY DEF UsersStand, HasId

LEMMA UsersStep == Inv /\ UsersStand /\ [Next]_vars => UsersStand'
<1> SUFFICES ASSUME Inv, UsersStand, [Next]_vars PROVE UsersStand'
  OBVIOUS
<1>1. users \subseteq [name : Names, tenant : Ids \cup {NoId}, role : Ids \cup {NoId}]
  BY DEF Inv, TypeOK
<1>2. CASE MigrationRun
  <2> DEFINE New(u) == [u EXCEPT !.tenant = NewId]
  <2>1. CASE schema = "users"
    <3>1. \A u \in users : New(u).tenant = NewId
      BY <1>1
    <3>2. users' = {New(u) : u \in users} /\ tenants' = {[id |-> NewId, name |-> "default"]}
      BY <1>2, <2>1 DEF MigrationRun, CreateTenants
    <3> HIDE DEF New
    <3>3. QED
      BY <3>1, <3>2 DEF UsersStand, HasId
  <2>2. CASE schema # "users"
    BY <1>2, <2>2 DEF MigrationRun, UsersStand, HasId
  <2>3. QED
    BY <2>1, <2>2
<1>3. CASE MigrationRevert
  <2> DEFINE NoRole(u) == [u EXCEPT !.role = NoId]
  <2>1. CASE schema = "roles"
    <3>1. \A u \in users : NoRole(u).tenant = u.tenant
      BY <1>1
    <3>2. users' = {NoRole(u) : u \in users} /\ tenants' = tenants
      BY <1>3, <2>1 DEF MigrationRevert, DropRoles
    <3> HIDE DEF NoRole
    <3>3. QED
      BY <2>1, <3>1, <3>2 DEF UsersStand, HasId
  <2>2. CASE schema # "roles"
    BY <1>3, <2>2 DEF MigrationRevert, DropTenants, UsersStand
  <2>3. QED
    BY <2>1, <2>2
<1>4. ASSUME NEW r \in Shells, AssignUser(r) PROVE UsersStand'
  <2> DEFINE s == seed[r]
             New(u) == IF u.name = s.name THEN [u EXCEPT !.role = s.role[s.name]] ELSE u
  <2>1. \A u \in users : New(u).tenant = u.tenant
    BY <1>1
  <2>2. users' = {New(u) : u \in users} /\ UNCHANGED <<schema, tenants>>
    BY <1>4 DEF AssignUser, schemaVars
  <2> HIDE DEF New
  <2>3. \A w \in users' : \E u \in users : w.tenant = u.tenant
    BY <2>1, <2>2
  <2>4. QED
    BY <2>2, <2>3, UsersKept
<1>5. ASSUME NEW r \in Shells, NewUser(r) PROVE UsersStand'
  <2> DEFINE w == [name |-> seed[r].name, tenant |-> seed[r].tenant,
                   role |-> seed[r].role[seed[r].name]]
  <2>1. /\ users' = users \cup {w} /\ UNCHANGED <<schema, tenants>>
        /\ w.tenant = seed[r].tenant /\ HasId(tenants, seed[r].tenant)
    BY <1>5 DEF NewUser, schemaVars
  <2> HIDE DEF w
  <2>2. QED
    BY <2>1, UsersKept
<1>6. CASE UNCHANGED <<schema, users>> /\ \A t \in tenants : t \in tenants'
  BY <1>6, UsersKept
<1>7. ASSUME NEW r \in Shells, Seeding(r), ~AssignUser(r), ~NewUser(r) PROVE UsersStand'
  BY <1>6, <1>7 DEF Seeding, SeedStart, FindTenant, NewTenant, FindRole, NewRole, UpdateRole,
     FindUser, SeedFails, tables, schemaVars
<1>8. QED
  BY <1>2, <1>3, <1>4, <1>5, <1>6, <1>7
  DEF Next, Checking, Login, NothingRequired, CheckUser, CheckRole, tables, schemaVars, vars

\* Where run seed_tenant goes wrong is the whole of it: as long as the script seeds the
\* tenant into which the tenancy migration moves existing users, "default", there is no
\* other tenant, and a finished run leaves accounts that RbacGuard accepts.
THEOREM DefaultAccountsWork == DefaultTenant => (Spec => []DemoAccountsWork)
<1>1. ASSUME DefaultTenant, Inv, AccountsStand, AccountsMade, UsersStand
      PROVE  DemoAccountsWork
  <2> SUFFICES ASSUME NEW r \in Shells, seed[r].at = "done", seed[r].since = reverts,
                      NEW n \in Names
               PROVE  \E u \in users, x \in roles :
                        u.name = n /\ u.role = x.id /\ x.tenant = u.tenant
    BY DEF DemoAccountsWork
  <2>1. PICK u \in users : u.name = n /\ u.role # NoId
    BY <1>1 DEF AccountsMade, Made, HasAccount
  <2>2. PICK x \in roles : x.id = u.role
    BY <1>1, <2>1 DEF AccountsStand
  <2>3. PICK y \in tenants : y.id = x.tenant
    BY <1>1 DEF Inv, RowsStand, HasId
  <2>4. PICK z \in tenants : z.id = u.tenant
    BY <1>1 DEF Inv, RowsStand, UsersStand, HasId
  <2>5. y = z
    <3>1. \A t \in tenants : t.name = "default"
      BY <1>1 DEF Inv, TypeOK, DefaultTenant
    <3>2. QED
      BY <1>1, <3>1 DEF Inv, TypeOK
  <2>6. QED
    BY <2>1, <2>2, <2>3, <2>4, <2>5
<1>2. Spec => [](Inv /\ UsersStand)
  <2>1. Init => UsersStand
    BY DEF Init, UsersStand
  <2>2. QED
    BY <2>1, InitInv, NextInv, UsersStep, PTL DEF Spec
<1>3. SUFFICES ASSUME DefaultTenant PROVE Spec => []DemoAccountsWork
  OBVIOUS
<1>4. Inv /\ AccountsStand /\ AccountsMade /\ UsersStand => DemoAccountsWork
  BY <1>1, <1>3
<1>5. QED
  BY <1>2, <1>4, AlwaysMade, PTL

=============================================================================
