# system-design-nestjs in TLA+

A verification project for this repository: a NestJS task API run in two instances behind
nginx, with PostgreSQL (primary and replica), RabbitMQ, and a Next.js web client. The modules
model the parts where something can go wrong that a unit test would hardly reach; TLC checks
them on small instances; TLAPS proves the theorems for every instance.

Every definition is translated from the source. `PROJECT.json` gives, for each one, the file
and the lines it stands for (`map`), the hazards each property is there for (`hazards`), and a
plausible bug that breaks each property (`mutants`).

## 1. Inventory

### Components, their state and their operations

| component | source | state it keeps | operations | modelled by |
|---|---|---|---|---|
| Task creation | `app/src/tasks` | `tasks` rows, requests in flight | `POST /tasks`: save, publish, answer | `TaskEvents` |
| Event publisher | `app/src/queue/queue.service.ts` | a connection, a confirm channel, the library's buffer of publishes | `publishTaskCreated` with a 2 s timeout, reconnection, `onModuleDestroy` | `TaskEvents` |
| Event consumer | `app/src/queue/queue.consumer.ts` | its own connection and channel, handlers in flight, `processed_events` rows | `handleMessage` (parse, lookup, side effect, save, ack or nack), topology setup, `onModuleDestroy` | `TaskEvents` |
| RabbitMQ topology | `queue.consumer.ts` 33-79, `queue.constants.ts` | `tasks_queue` (quorum, `x-delivery-limit`), `tasks.dlx`, `tasks_queue.dlq` | route, deliver, ack, return, dead-letter | `Rabbit` |
| Process lifecycle | `main.ts`, `docker-compose.yml` | each instance up, closing, draining or ended | SIGTERM, the hooks, drain, exit, crash, start by hand | `TaskEvents` |
| Seed script | `app/src/database/seed-admin.ts` | what one run has read so far | find or create a tenant, two roles, two users | `Accounts` |
| Migrations | `app/src/database/migrations` | the schema; rows of `tenants`, `roles`, `users` | run with backfill, revert | `Accounts` |
| Authentication | `app/src/auth`, `app/src/users` | none; the token carries the claims | `login`, `JwtStrategy.validate` | `Accounts` |
| Access control | `app/src/rbac` | none | `RbacGuard.canActivate`: nothing where no permission is required, else two queries and a comparison | `Accounts` |
| Tenancy context | `app/src/tenancy` | an AsyncLocalStorage per request | bind in an interceptor, check in `afterLoad` | not modelled |
| Task reads | `tasks.service.ts` `findAll`, the replica connection | a lagging copy of `tasks` | `GET /tasks` | `WebClient` |
| Web client: session | `client/src/lib/session.ts`, `features/auth` | a cookie shared by all tabs | login, logout, 401 on create | `WebClient` |
| Web client: tasks | `client/src/features/tasks`, `client/app/tasks` | a query cache per tab | render on the server, create, refetch in the browser | `WebClient` |
| HTTP middleware, health, metrics, nginx, dashboards, UI markup | `app.module.ts`, `main.ts`, `nginx/`, ... | none of their own, or a library's | - | not modelled: library calls with constants, or pure I/O |
| Later phases (`erp-plan-3` to `-7`) | documents only | - | - | not modelled: no code yet |

### Interactions

* `TasksService.create` awaits the save on the primary, then `publishTaskCreated`; it catches
  and logs a failed publish and answers 201 in any case.
* Publisher and consumer are separate connections of `amqp-connection-manager`, each of which
  reconnects and runs its setup function again. Only the consumer's setup declares and binds
  the queue.
* `handleMessage` is called by the library for each delivery; deliveries run concurrently, in
  one process or in two. It shares nothing with other handlers but the database.
* SIGTERM runs both `onModuleDestroy` hooks, which close their channels and connections and await
  the broker's CloseOk; then Nest stops accepting requests, waits for those it serves, and the
  process ends. It does not wait for handlers. docker-compose gives no restart policy.
* No connection to PostgreSQL has a timeout: a primary that is silent is waited for.
* The seed script, the migrations and the API meet only in the database; none of them uses a
  transaction beyond that of one migration run or of one `save`.
* The web client's Server Actions run on the Next.js server: they read and set the session
  cookie of the browser and call the API with its token. `TasksPage` is rendered there too, from
  `GET /tasks`, which reads the replica; the tab keeps what it got in a TanStack Query cache
  that lives as long as the root layout, across the redirects of the actions.

### What is hard, and what makes each component correct

* Task creation and publisher: a crash between commit and publish, a timeout that races the
  confirm, a socket that breaks before the confirm (the library writes the message again),
  a channel closed by the shutdown, a database that is silent. Correct: a request whose row is
  committed is answered unless its process ends; an event that was not reported as failed is not
  lost; no event without its task.
* Consumer: concurrent deliveries of one event, a database failure before or after the side
  effect, an ack on a channel that has closed meanwhile, a lost connection that client and broker
  notice in either order, a consumer the broker cancels, the delivery limit. Correct: no message
  stuck, none dead-lettered before its attempts are used up, the side effect not repeated
  without a redelivery, every confirmed event ends somewhere as long as an instance consumes.
* Lifecycle: hooks that wait for a connection that breaks under them, a drain that waits for what
  the hooks closed. Correct: it ends; where it cannot, `ShutdownCompletes` says so.
* Seed script: two queries per find-or-create, runs cut off anywhere and repeated, two versions
  at once, role ids read before a revert and written after the next migration. Correct:
  names and ids unique, a finished run leaves usable accounts, repetition changes nothing.
* Access control: user and role read separately, a token up to an hour old. Correct: no grant
  outside the tenant the user is in.
* Web client: one cookie and several tabs, each with a page older than the cookie; an answer
  that arrives after another tab's login or logout; a create that is stored though its answer is
  an error; a list that is rendered by the server, kept by the cache and refetched by the
  browser, from a replica that lags. Correct: the form tells the truth about the row, nothing
  is stored twice, a late answer does not end a newer session without a reason, a list does
  not go back in time and is not replaced by an error.

`PROJECT.json` lists these hazards at their lines, with the properties that cover them.

## 2. Modules

| module | what it is |
|---|---|
| `Rabbit` | the broker as the repository's topology has it: one state per message copy, the delivery counter, whether the queue is bound |
| `TaskEvents` | instances, requests, publishes, handlers, connections and faults; composes `Rabbit` (`INSTANCE ... WITH Msgs <- Copies`) |
| `EventLedger` | abstract specification: an event the publisher was told is safe leaves the queue only for `processed_events` or the dead-letter queue, and leaves neither |
| `EventProperties` | the properties of `TaskEvents`, the refinement mapping to `EventLedger`, and the inductive invariant |
| `MCTaskEvents` | fault budgets and symmetry for TLC |
| `EventProofs`, `EventSafetyProofs` | types of `TaskEvents`, what a step may change, and where events are: proved |
| `EventHandlerProofs` | handlers: `NoStuckMessage` and `RepeatNeedsRedelivery`, proved |
| `EventLedgerProofs` | `TaskEvents` implements `EventLedger`, proved |
| `Accounts` | tables, migrations, runs of the seed script, tokens and the guard, with properties and inductive invariant |
| `MCAccounts` | the two script versions and symmetry for TLC |
| `AccountsProofs` | types and `GrantedInOwnTenant`, proved |
| `SeedProofs` | what runs of the seed script leave behind, proved |
| `WebClient` | tabs, cookie, tokens, Server Actions, the API's answers, the replica and the lists, with properties and inductive invariant |
| `MCWebClient` | symmetry for TLC |
| `WebClientProofs` | all four properties of the run `client`, proved |

### `TaskEvents` and the code

The unit of a step is what the program runs between two awaits.

| action | code |
|---|---|
| `Arrive`, `SaveTask`, `SaveTaskFails` | `TasksService.create` up to the save. `SaveTask` is the commit, its answer, and the synchronous start of the publish; `SaveTaskFails` leaves open whether the row was committed |
| `Send`, `Confirm`, `LosePub` | the library: write a buffered publish, resolve it on the confirm, and on a broken connection write it again or reject it |
| `PublishTimeout` | the timer of `Promise.race`; the library keeps the message and may still deliver it |
| `Deliver`, `DeliverJunk` | the consume callback up to the first await: parsing, and `nack(.., false)` for what is not JSON |
| `LookupFails`, `Skip`, `Process` | the answer to `findOne`: it rejects outside the `try` and ends the process; a duplicate is acked; or the side effect runs and `save` starts |
| `Record`, `SaveFails`, `Finish` | the row is committed; `save` rejects (duplicate key, or database down before or after the commit) and the catch nacks; `save` resolves and the message is acked |
| `DropCon`, `NoticeCon`; `AbandonCon`, `Release` | a lost connection of the consumer: the broker sees it first and takes its messages back, then the client closes its channel object; or the other way round |
| `ReconnectPub`, `ReconnectCon` | each service reconnects on its own and runs its setup function |
| `Cancel` | the broker cancels the consumer: `handleMessage(null)` returns, and nobody consumes on the channel again |
| `Sigterm` | both `onModuleDestroy` hooks up to their awaits: publishes reject, channels close under the handlers, Close is sent |
| `ClosePub`, `CloseCon`, `HangCon` | CloseOk arrives; or the connection breaks first, and it never does |
| `Drain`, `Exit` | both hooks have returned and HTTP stops accepting; the requests being served are answered and the process ends |
| `Crash`, `DropPub`, `BrokerDown`, `DbDown`, ..., `Restart` | the environment; `DbDown` picks a database that refuses (`"down"`) or one that is silent (`"mute"`) |

`Ack` and `Requeue` on an orphaned delivery (the client's channel object is closed) throw: in
the `try` of `handleMessage` the throw reaches the catch, whose `nack` throws again; the promise
rejects, nobody handles it, and Node 20 ends the process. This is `Throws`, and it is behind two of
the findings below.

Merged steps: the lookup's answer and the code after it are one step, as `processed_events` only
grows. A loss of the publisher's connection and its notice are one step, as a message written
in between is lost in both cases. The close of a service's channel and that of its connection
are one wait, as both need the same socket. A message returns to the queue when the broker has seen
the channel end, by `Release` after the client's Close.

A request that its process cut off is `"cut"`, one that was answered with an HTTP error is `"error"`.

### `Accounts` and the code

One action per query of `seed-admin.ts`: `FindTenant`, `NewTenant`, `FindRole`, `NewRole`,
`UpdateRole`, `FindUser`, `AssignUser`, `NewUser`; `SeedFails` ends a run between any two of them.
A query whose table is missing, whose foreign key has no row, or which a unique constraint
refuses is disabled, and the run can then only fail. `UpdateRole` inserts when the
row it read is gone, as TypeORM's `save` of an entity with an id does. `MigrationRun` applies
everything pending in one transaction (TypeORM's default), `MigrationRevert` undoes the last;
`CreateTenants`, `CreateRoles`, `DropRoles` and `DropTenants` are the `up`s and `down`s.
`Login` puts the user's tenant in a token; `CheckUser` is `validate` and the guard's first query;
`CheckRole` is its second with the comparison; `NothingRequired` is a handler without a permission.

Abstractions: a user's name is its id, since no code deletes a user and `username` is unique. A
token never expires, which only adds behaviours, and belongs to a request. Passwords are left out.
`RbacGuard` is on no route yet; `Checks` are requests on a route that mounts it as
`erp-plan-2-rbac.md` describes. `RolesService.create` and `UsersService.create` have no caller.
`InitSchema` and `CreateUsers` are taken as applied.

`alone` is a history variable: the last run to start, as long as no other overlaps it.
`UpsertApplied` needs it, as nothing is promised about the permissions that two overlapping
runs of different versions leave.

### `WebClient` and the code

A Server Action is three steps, so that those of other tabs and the clock come between them:
the click, which takes the cookie along; what the API makes of it, a create in two steps; the
arrival of the answer.

| action | code |
|---|---|
| `Open` | an address or a link is loaded (`/` redirects to `/tasks`): `TasksPage` or `LoginPage`, with a new QueryClient |
| `SubmitLogin`, `SubmitLogout`, `SubmitCreate` | the three forms; only pages rendered with a session have the last two, and a create sends the cookie of that moment |
| `Sign`, `AcceptToken`, `RejectToken`, `Store`, `Refuse` | the API: `AuthService.login`, `JwtAuthGuard` before the handler runs (a token may expire between it and the commit), `TasksService.create` (the row is there, the answer may be an error all the same), and every other refusal |
| `AnswerAtOnce` | `logoutAction`, and `createTaskAction` without a token: no request |
| `LoginAnswered`, `LogoutAnswered` | `loginAction` and `logoutAction` from there on: the cookie, the redirect and the page it leads to |
| `CreateAnswered` | `postTask`'s reading of the status and `createTaskAction` after it: `Created` (`revalidatePath`, `onSuccess`), `ToLogin` (401, or no token), `CreateFailed` (the error is thrown on) |
| `AnswerLost` | the browser gets no answer; it keeps the cookies it has |
| `RefetchFails`, `Forget` | the query of the tab: a failed refetch, and `gcTime` |
| `TokenExpires`, `CookieExpires`, `Replicate` | `expiresIn: '1h'`, `maxAge`, streaming replication |

`ShowsTasks` is the page as rendered and mounted: `findAll` on the replica, `Mounted` for
`useQuery` with `initialData`, and `Crashes` when `fetchTasks` throws.

Abstractions: what a tab reads is the number of rows, as rows are only added and the replica
applies them in order. The rendering of a page and its arrival are one step. `RefetchFails`
is a refetch from its start to the failure of its last retry. A second action of a tab waits for
the first in Next's queue, so a tab has one at a time; a reload while one is pending is `AnswerLost`
and `Open`. Validation of the title and of the credentials happens before anything changes.
Users and passwords are left out, as the client treats every account alike.

### What is assumed of the libraries

They are not in the repository. Versions are those of the lock files: `amqp-connection-manager`
4.1, `amqplib` 0.10, `@nestjs/core` 10.4, TypeORM 0.3, Node 20, RabbitMQ 3.

* `ack` and `nack` on a closed channel throw; on a broken socket that was not noticed yet they
  have no effect. The promise returned to a consume callback is not awaited.
* A publish is buffered until the connection is up. One that is unconfirmed when the connection
  breaks is written again or rejected: both are modelled. Closing the wrapper rejects all.
* The broker confirms an unroutable message. It dead-letters a message that came back more
  than `x-delivery-limit` times, and a lost consumer counts like a nack.
* `close()` settles on CloseOk; on a socket that breaks meanwhile, or broke unnoticed, it never
  does. A connection that is down when `close()` is called needs no CloseOk.
* A lost connection is noticed by the client on a socket error or a missed heartbeat, by the broker
  on its own, in either order. A cancelled consumer (the queue's leader moved, an operator)
  gets `null`; the library calls no setup function for that. The queue itself stays.
* What the broker delivers reaches the handler at once: a message in a socket when it breaks
  comes back like one whose handler had not answered.
* `save` of an entity with a key is a SELECT, then an INSERT or UPDATE.
* Next 15: `redirect` in a Server Action changes the page without a reload, so the root layout
  and its QueryClient stay; `<a>` and the address bar load a new document. An environment variable
  without `NEXT_PUBLIC_` is undefined in the browser. An error while rendering, with no
  `error.tsx` in the application, replaces the whole tree.
* TanStack Query 5: `initialData` is used only for a query the cache does not hold; with the default
  `staleTime` of 0 a mounted query is refetched; a failed refetch keeps the data and sets
  `isError`; a mutation is not retried; an unused query is dropped after five minutes.

## 3. Runs

Run one with `tlc -workers 2 -config <Run>.cfg <module>`; each takes from seconds to three minutes.

### Runs that pass

| run | asks | instance |
|---|---|---|
| `failures` | Is an event that was answered without a warning always queued, dead-lettered or processed (`NoSilentLoss`)? Is there ever an event without a task (`NoPhantomEvent`), a message no handler can settle and no broker takes back (`NoStuckMessage`), an event dead-lettered otherwise than by coming back too often (`NoEarlyDeadLetter`), a side effect repeated without a redelivery (`RepeatNeedsRedelivery`)? Does the pipeline implement `EventLedger` (`ImplementsLedger`)? | 2 instances, 1 request, 1 message that is not JSON; a crash, a lost connection and a database outage, or a SIGTERM and a broker outage |
| `shutdown` | Is a committed `POST /tasks` answered or cut off with its process, and does the wait for the database end unless it stays silent (`RequestAnswered`)? Does an instance told to stop end (`ShutdownCompletes`), and a confirmed event reach its end (`EventuallyHandled`)? | 2 instances, 1 request; a SIGTERM with a crash, a database outage, a broker outage or a lost connection, or a cancelled consumer; nothing is repaired necessarily |
| `seed` | Do ids and names stay unique (`TypeOK`), does a finished run leave usable accounts (`SeededAccountsWork`) and, when it ran alone, the permissions of its version (`UpsertApplied`), is the script idempotent (`SettledStays`), does the guard grant in the user's own tenant only (`GrantedInOwnTenant`)? | 2 shells, 2 script versions, 1 request, 5 ids, 2 reverts |
| `client` | Does a create store two rows (`TypeOK`), does the form tell the truth about its row (`ToldTheTruth`), does anything but a logout and the 401 of an older token end a live session (`LiveSessionKept`), does a list go back in time (`MonotonicReads`)? | 2 tabs, 3 tokens, 2 rows |

Every property has a mutant in `PROJECT.json`: a changed definition that the run then refutes.

### Runs that find a disagreement

Each checks one sentence of the repository; TLC gives a trace that breaks it.

| run | sentence | what happens |
|---|---|---|
| `fresh_broker` | README: the queue dead-letters "instead of looping or dropping silently" | before the first consumer has connected, the exchange has no queue, and the broker confirms and discards the event: 201, no warning, no event |
| `db_outage` | README: with `postgres-primary` down "`GET /tasks` (replica) keeps working" | one queued event ends an instance, as `findOne` rejects outside the `try`; it is redelivered, and ends the next |
| `broker_outage` | `tasks.service.ts`: "A broker outage shouldn't turn a successful write into a failed request" | a handler acks on the closed channel, the process ends, and with it a request whose task is committed |
| `sigterm` | README: SIGTERM "drains cleanly instead of cutting off in-flight work" | the consumer's connection closes under a running handler, whose ack ends the process before its requests are answered |
| `redelivery_repeats` | `queue.consumer.ts`: a redelivery is "a safe no-op, not a repeat of the side effect" | a lost connection redelivers the event while its first handler still runs; both pass the lookup |
| `late_dead_letter` | README: events land in the dead-letter queue "after 3 failed attempts"; `queue.consumer.ts`: what "fails MAX_DELIVERY_ATTEMPTS times lands here" | an event whose third attempt failed is back in the queue: the broker dead-letters at the fourth failure, when the returns exceed the limit |
| `client_list` | `.env.example`: of `INTERNAL_API_URL`, "Browser-side code never sees this; it only ever navigates same-origin pages or submits forms to Server Actions" | the list's query runs in the browser on mount, asks `http://nestjs-backend:3000`, fails, and "Failed to load tasks." replaces the tasks; no redirect clears the error |
| `seed_tenant` | `erp-plan-2-rbac.md`: the script "creates two working demo accounts" | an account the tenancy migration put in `default` gets a role of the tenant being seeded, which `RbacGuard` refuses |

`queue.service.ts:77` says of the shutdown "Let in-flight publishes drain". No run is about this
sentence: in `TaskEvents` a publish in flight when `onModuleDestroy` closes its channel is rejected
(`Sigterm`), `create()` logs the warning and answers 201, and the properties of `failures` and
`shutdown` hold with it.

### Bounds, and why they are enough

* Two instances: what differs between instances is whether a handler runs where its request is
  served and whether a second consumer is there; two show both.
* One request in the passing runs, two where a finding needs a second one to be cut off.
  Requests interact only through a process that ends (`Die`, in the violation runs) and
  through the broker's order, which the model leaves open. The theorems hold for any number.
* `MaxSends` = 2: the second copy of an event is the interesting one. A library that has
  written it twice keeps it no longer; the real one has no such limit, and its third copy
  behaves like its second.
* `MaxSends` = 1 in `shutdown` and `late_dead_letter`, where a second copy only repeats the first's
  way; resends are in `failures`.
* `DeliveryLimit` = 1 (3 in the code, and in `late_dead_letter`) lets a message be delivered, come
  back, be delivered again and be dead-lettered. It is a parameter, and the theorems are for every
  value.
* `Budgets`: how often each fault strikes, by kind; a behaviour begins with one of them.
  `failures` has the three faults the code handles itself, together, and the two of a deployment;
  `shutdown` each fault that can keep a stopping instance, its requests or its events waiting,
  together with the SIGTERM, and the cancelled consumer by itself, as both are about who is left to
  consume. Two of a kind would add repetition of the same step, for which the safety theorems stand.
* `work` counts side effects up to 2, meaning two or more.
* `MaxId` = 5 and `MaxReverts` = 2: two tenants and two roles need four ids; the reverts undo
  roles, then tenants, so that rows read before are gone and made again under other ids. The
  instance seeds tenant `acme`, so that `NewTenant` happens and backfilled users are in another
  tenant than the seeded one; seeding `default` is the same without those.
* `Tabs` = 2: an answer is late in one tab because of what another did. `MaxTokens` = 3: a token
  that has expired in a create, the one that took its place, and one more login after it.
  `MaxTasks` = 2: a replica that is behind by none, some or all of the rows. The theorems hold for
  every value of the three.
* `CHECK_DEADLOCK FALSE` (not in the runs of `WebClient`): the system may rest, when requests are done and budgets are used up.

### Fairness

`FairSpec` gives weak fairness to the steps that program, libraries and broker take by
themselves: a database that is up or refuses answers, a timer fires, a buffered publish is written
on an open channel, the broker routes, delivers and takes back what a closed channel held, a
handler goes on, a connection is noticed lost and retried, CloseOk comes on an open socket, a
drained process exits. Node runs every ready callback, `amqp-connection-manager` retries for ever,
and a consumer has no prefetch limit, so a ready message is offered. Arrivals, faults, repairs
(`BrokerUp`, `DbUp`) and restarts have no fairness: nothing in the repository makes them happen.
The properties say what that costs: a silent database holds a request that has not committed, a
hook waits for ever on a connection that broke under it, and an event waits while the broker is
down, the database silent, or no instance left that consumes.
`WebClient` states no fairness and no liveness: what its user waits for, the answer of an action, is a
time limit of Next.js and of the browser that is not in this repository.

## 4. Proofs

Every invariant and action property of the passing runs is a theorem, and so is the refinement. Each
inductive invariant was checked by TLC before it was proved.

For every number of instances, requests, copies, faults, and every delivery limit (the `ASSUME`s
of `TaskEvents` give the constants their types, and say that the placeholder host `"nobody"` is
not an instance):

* `TypeCorrect` (`EventProofs`): `Spec => []TypeOK`. Inductive: `TypeInv` = types, plus that a
  message which is not dead-lettered has attempts left (so that its next delivery is in
  `Deliveries`), that copies beyond `sends` are unwritten, and that a handler in "recorded" has
  its row. Without these, `Deliver` and `Send` would leave their types.
* `NoPhantoms`, `DeadLettersAreExhausted`, `NothingLost` (`EventSafetyProofs`). `StepMoves` says
  once, for all actions, what a step may do to a message, a publish, a request and a handler.
  Over it, `FromTask` (an event exists at each place it passes only after its row), the
  property itself for dead letters, and `NeverLost` are inductive. `NeverLost` needs that a copy
  is acked only after its row is recorded, and a publish confirmed only for a copy the broker
  holds. `NothingLost` assumes `~FreshBroker`, the case `fresh_broker` refutes.
* `NothingStuck` (`EventHandlerProofs`): `Spec => []NoStuckMessage`. Inductive only together with
  `DeliveryInv`: the handler of a delivery sits on an instance, and its message is unacked under it
  or has come back since, so that two handlers never hold one message and whoever settles or loses
  the message of a handler is that handler's own connection. `LinksInv`: a channel belongs to a
  process that runs, and is closed by the client, under its handlers, before the process leaves
  it. The lemmas follow the ways a channel ends: the broker takes messages back (`BackHands`), the
  client closes it first (`LeaveHands`), the process is gone (`DieHands`).
* `RepeatsAreRedeliveries`: from `OncePerDelivery`, which is about an event written once whose
  message never came back. Its side effect ran at most once, and if it ran, in its first delivery
  and after the lookup: the count alone is not inductive, as a second handler in "lookup" could run it
  again. `HandlerMoves` says that only a step from "lookup" to "saving" runs it, `MessageMoves` that
  a message which becomes ready again counts a return.
* `PipelineKeepsLedger` (`EventLedgerProofs`): `~FreshBroker => (Spec => ImplementsLedger)`. The
  ledger's state is a function of the pipeline's (`Confirmed`, `Pending`, `Dead`, `processed`), and
  each step is a step of the ledger or leaves it alone. A confirmed event can leave
  `Pending` only by an ack, and `NeverLost` says that its row is there by then; `HandledCame`, that what a
  handler records was in the queue. Without `~FreshBroker` the broker confirms what it discards.

For any number of shells, script versions, requests, ids and reverts:

* `TypeCorrect` (`AccountsProofs`): uniqueness of names and ids. It needs `IdsGivenOut`: every id in a
  row, a run or a token was given out before, so that a new one is in none.
* `GuardKeepsTenants`: `RbacGuard` grants only in the tenant its user is in. The token's tenant may
  be stale; `TokensStand` says that then its row is gone for good, since users change tenant
  only when tenants are dropped and made again under a new id; `RowsStand` says the role read
  has its tenant, so the token's tenant is not stale at a grant.
* The theorems of `SeedProofs` rest on `MemoryStands`: whatever a run has read between two of its
  queries still agrees with the rows, if they are there. The tenant with the id it remembers has the
  name its script seeds, the role with an id it remembers is the role of that name in that
  tenant, and no two runs remember one id as different roles. The last part is what makes it
  inductive: `save` of a role whose row a revert has deleted inserts it again under the old id, and must
  not make another run's memory of that id false.
* `SeedIdempotent`: `Spec => SettledStays`. In a settled database each query that writes finds its row
  there, or writes the value that is there: by `MemoryStands` the id it writes is that of the settled
  role. `Settled` asks for a role of the script's tenant in each account, and says nothing of the
  account's own tenant, which the script does not change.
* `SeededAccountsCanWork`: `OneTenant => (Spec => []SeededAccountsWork)`. `AccountsMade` says what a
  run's position implies (an account it has passed has a role, the one it is about to give a role to
  is there), `AccountsStand` that an account's role is a row of its name in a tenant some script seeds.
  `OneTenant` says `ADMIN_TENANT_NAME` is the same for all runs. It is needed: with two names
  TLC finds that the accounts of one tenant meet a run for the other, even one after the other, and
  are left with the other tenant's role (the cause is the one `seed_tenant` shows). The other theorems
  hold for any mix of tenants.
* `PermissionsApplied`: `Spec => []UpsertApplied`. `RolesApplied` is about a run that is `alone`:
  the others rest, and each role it has passed has its permissions. Its update of the second role
  cannot hit the first, which `MemoryStands` again gives.
* `DefaultAccountsWork`: `DefaultTenant => (Spec => []DemoAccountsWork)`. The sentence that `seed_tenant`
  refutes for tenant `acme` is true as long as the script seeds `default`, as `.env.example` has it:
  then there is no other tenant, and `UsersStand` (the foreign key of `users.tenantId`) puts every
  user in it.

For any number of tabs, tokens and rows (`WebClientProofs`), from `BoundsAssumption`:

* `TypeCorrect`, `TruthTold`, `LiveSession`, `ReadsAreMonotonic`: the properties of the run `client`.
  Their invariant, `Inv`, adds to the types and `ToldTheTruth` what each tab knows: `CallStands` says
  that a 401 answers an expired token, that a login which succeeded has a token, and that the answer
  of a create tells what was stored; `ListStands` says that the replica has every row a tab lists.
  The proof splits it into the numbers, the tabs and the calls (`InvParts`): most actions
  touch two of the three, and `OneCall` says what the call of one tab needs. `LiveSession` names the
  tab whose step clears the cookie: its call ends there, as a logout or with a 401, and by
  `CallStands` a 401 is for an expired token, so one older than the live one in the cookie.
  `ReadsAreMonotonic` from `ListStands`, as a list is either kept or read from the replica anew.

Only model-checked: the liveness properties `RequestAnswered`, `ShutdownCompletes` and
`EventuallyHandled`: liveness and `ENABLED` are out of this prover's reach, as are induction over
data and `RECURSIVE` operators, which the modules do not use.

## 5. Plan

Done: the event pipeline, the account tables and the web client, in the order of the risk they
carry.

1. Proofs: the conditions under which other sentences refuted in section 3 do hold, as
   `DefaultAccountsWork` does for `seed_tenant`; the safety part of the liveness properties (what
   a waiting request or a drain waits for is always there).
2. If a route loads tenant rows in a bound context: the interceptor and `afterLoad`.
3. If the client gets an address the browser can reach: refetches that succeed, and what
   `invalidateQueries` after a create then promises of the list.

## 6. Not modelled

* Tenancy context: guards run before the interceptor that binds the tenant, and no handler loads a
  row with a `tenantId`, so the check of `afterLoad` never refuses anything; there is no
  behaviour to check until a route does.
* Health, metrics, logging, validation, throttling, helmet, nginx, PgBouncer: library calls with
  constants, or reads without state. What they refuse is an error answer in the models.
* UI components and styles: no state that a property is about.
* The plans of later phases: documents, without code.
