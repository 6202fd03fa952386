# TribeHub backend: specifications, model checking and proofs

This directory holds TLA+ specifications of the TribeHub backend (NestJS,
TypeScript), the TLC configurations that model-check them on small instances,
and proofs checked by TLAPS. `PROJECT.json` lists the runs, the mutants, the
source lines behind every definition, the hazards of the code and the theorems.

Run a check with `tlc -config <file>.cfg <module>.tla`, and the proofs with
`for m in *Proofs.tla; do tlapm $m; done`.

## 1. The system

One Node.js process serves HTTP; several may run side by side. Every `await` is
a point where other requests, timers and processes take steps. What processes
share is PostgreSQL, Redis and Supabase Auth.

| Component | State it keeps | Operations | What makes it correct |
|---|---|---|---|
| `SystemConfigService` | a Map per process, Redis keys `system_config:*` with a TTL, the table `system_configs` | `get`, `isEnabled`, `invalidate(key)`, `invalidate()` | an answer is never older than a bound; a changed flag reaches everybody; an undisturbed `invalidate()` leaves nothing stale |
| `FeatureFlagGuard` | none | `canActivate` | "off" stops requests within the bound, and nothing else refuses one |
| Registration (`AuthService.register`, controller, `UsersRepository`) | table `users`, accounts in Supabase | `register` | one winner per email and username; every user has an account; a 409 is true |
| Logout (`AuthService.logout`, controller, `AuthRepository`) | table `refresh_tokens`, cookies | `logout` | the session has ended when the answer arrives; cookies cleared, whatever the database does; the record of a revocation is final |
| Login | none of its own | `login` | exactly the failures at Supabase are recorded |
| `SecurityMonitorService` | two arrays of timestamps, a timer | `recordFailedLogin`, `recordInvalidToken`, `runCheck`, destroy | every burst alerted, no false alarm, memory bounded |
| `QueueService`, `DefaultWorker` | the BullMQ queue `jobs` in Redis | enqueue, process; an administrator's hand on the BullBoard | every job settles, with a bounded number of starts |
| `QueueMonitorService`, `DiscordAlertService` | a timer | `runCheck`, `sendAlert` | a standing backlog is alerted again and again; polling goes on |
| `AppMonitorService` | a timer, a Redis client | `runCheck` (5xx rate, p95, Redis latency, memory) | the numbers mean what the alert says |
| HTTP pipeline (request id, guards, interceptors, filter, metrics) | the Prometheus registry | one pass per request | each request is logged and counted once, with the status the client got |
| `SupabaseAuthGuard`, `JwtAdminGuard`, admin check in `main.ts` | the secret, each its own copy, read at another time | decide on a header | the copies agree on every header, in every deployment |
| Bootstrap and shutdown (`main.ts`, `app.module.ts`, `instrument.ts`, `PrismaService`, the `onModuleDestroy()` hooks) | the phase of the process, what was read from the environment | start, signal, hooks, exit | nothing is destroyed under a job, unless the signal came too early; every stop ends; logouts keep their promises meanwhile |
| DTOs, health, OpenAPI, seed | none | - | - |

How they interact: the guard calls the flag service; `auth.service.ts` and
`SupabaseAuthGuard` report failures to `SecurityMonitorService`; all three
monitors send through `DiscordAlertService`, awaited inside their checks;
`QueueMonitorService` counts through the connection that `QueueService` owns.

The hard behaviours, all listed with their lines in `PROJECT.json`: fills of
caches that overtake each other, invalidations that race with fills, two stores
that are written one after the other (users and Supabase), a revocation between
a find and an update, checks delayed by their own alerts, lists and sets at
their capacity, workers that die with a job in hand, a Redis connection that is
given up for good, an environment that is read before it is complete, services
that are destroyed one after the other while requests are still served, or, after a
signal during the start, before they are initialised; an administrator who
pauses the queue and takes jobs out of it.

## 2. Modules

| Module | Models | Kind |
|---|---|---|
| `FlagStore` | what the flag loader promises: a store whose reads are at most `StaleBound` ticks late | abstract specification |
| `SystemConfigService` | `system-config.service.ts`, every await a step | implementation of `FlagStore` |
| `InvalidationHistory` | the above with a history variable for `invalidate()` | extends it |
| `FeatureFlagGuard` | `feature-flag.guard.ts` and `isEnabled()`, over `FlagStore` instead of the caches | composition, abstract |
| `GuardedService` | the same guard over `SystemConfigService`, in the processes that serve the requests | composition; implements `FeatureFlagGuard` |
| `Registration` | `AuthService.register()`, its controller, `users`, Supabase accounts | component |
| `Logout` | `AuthService.logout()`, its controller, `refresh_tokens` | component |
| `TokenChecks` | the decisions of the two guards and of the check before the queue board | functions |
| `Lifecycle` | one process from import to exit, over `Logout` and `TokenChecks` | composition |
| `SecurityMonitor` | `security-monitor.service.ts` | component |
| `AuthFailures` | `AuthService.login()` and `SupabaseAuthGuard` as the sources of its events, over `SecurityMonitor` and `TokenChecks` | composition |
| `BurstHistory` | how long a burst waits for its alert, over `AuthFailures` | history |
| `JobLife` | what the queue promises to whoever adds a job: due, running, lost or settled, and never gone | abstract specification |
| `JobQueue` | `queue.service.ts`, `default.worker.ts`, and BullMQ under their options | component |
| `QueueMonitor` | `queue-monitor.service.ts` and the connection of `redis.connection.ts`, over `JobQueue` | composition; implements `JobLife` |
| `RequestPipeline` | `app.module.ts`, the middlewares, interceptors, filter and registry, the handlers as sets of outcomes | component |
| `AppMonitor` | `app-monitor.service.ts`, over `RequestPipeline` | composition |
| `SystemConfigProofs`, `InvalidationProofs`, `FeatureFlagProofs`, `RegistrationProofs`, `LifecycleProofs`, `SecurityProofs`, `QueueProofs`, `PipelineProofs` | theorems about the modules they extend | proofs |
| `MC*` | constants and symmetry of the instances | model checking |

**Convention.** A definition whose name ends in an underscore and a word
(`MemoryLive_Forever`, `Push_Unbounded`) is a plausible mistake in the
definition after it. No specification uses it; put in place of that definition
it makes one property of one run fail, which shows that the property depends on
that piece of code. `PROJECT.json` pairs them under `mutants`.

### SystemConfigService

- `memory[p]` is `memoryCache` of process p, `redis` the shared entries, `db`
  the table. An entry holds the ticks it has left instead of `expiresAt`; a Map
  entry is live while `left >= 0` (`Date.now() > expiresAt` is false in the
  instant of expiry), a Redis entry vanishes at 0. An expired Map entry stays
  until it is looked up, as in `getFromMemory`.
- A call of `get()` is a record with a program counter, one value per await:
  `redis` (GET), `db` (query), `missing` (the query found no row), `setRedis`
  (SET), `setMemory` (the last reply has come, the Map not yet written), `done`.
  `getFromRedis`, `setInRedis`, `deleteFromRedis` and `clearRedisNamespace`
  swallow every error, hence `RedisMiss`, `SkipSetInRedis` and
  `InvalidateFails`, which also stand for "no client". `DbFails` is the catch
  block: the default, nothing cached.
- `invalidate(key)` clears the Map and awaits one DEL; `invalidate()` clears the
  Map and runs SCAN/DEL rounds. SCAN's guarantee is modelled as Redis gives it:
  keys present throughout are returned (`owed`), others may be. DEL is one step.
- The table is written from outside (`DbWrite`): the seed, migrations, Prisma
  Studio. No code in `src/` writes it, and nothing outside tests calls
  `invalidate()`; the constants `KeyInvalidator` and `BulkInvalidator` say which
  processes do, so that both worlds are checked.
- `age[k][r]` is a history variable: ticks since k last held r, saturating.
- `Store == INSTANCE FlagStore WITH db <- db, age <- age, answer <- answer` is
  the refinement: `answer` maps each call to what it has returned, or to nothing
  while it is under way, and `ImplementsFlagStore` is the specification of the
  store under that mapping.

Assumptions: a call takes at most `Latency` ticks (the code has no timeout of
its own; the drivers and `maxRetriesPerRequest: 1` bound it); one `invalidate()`
at a time per process; clocks are monotonic; a command to Redis is applied
before its reply or never (a command resent after a lost connection is not
modelled); a value is opaque, JSON encoding loses nothing. Redis's TTL is
rounded up to whole seconds, and a tick is a second or more.

### FeatureFlagGuard and GuardedService

`FeatureFlagGuard` has requests to a flagged and an open route; the guard's
`isEnabled(key, true)` gets its answer from `FlagStore`, any row of the last
`StaleBound` ticks or a failed read, and `Die` ends requests with their process.
Values are typed (`boolean`, `string`, `number`, ...), with `Boolean()` and the
`"true"`/`"false"` strings of `isEnabled()` modelled by what they do. It is what
a route may rely on.

`GuardedService` is what runs: `Ask` takes `canActivate()`, `isEnabled()` and
`get()` up to the first await, and with a live entry in memory to the decision,
in one JavaScript turn; `Load` is what `get()` awaits; `Decide` is its last turn
with the continuations of `isEnabled()` and `canActivate()`, which have no await
of their own; `Finish` is the answer to the client. `Elsewhere` is whatever the
guard has no part in. `Guard == INSTANCE FeatureFlagGuard` with the `answer` of
`SystemConfigService` is the refinement mapping, and `ImplementsGuard` the
specification of the guard under it.

### Registration

One program counter value per await: two finds (soft-deleted rows invisible),
`signUp`, `argon2.hash`, the insert with the three unique indexes (which do see
soft-deleted rows). `signUp` and the insert may take effect and lose their
reply. The controller turns whatever is not an `HttpException` into a 400; the
insert turns P2002 into 409 and the rest into 500. `Crash` ends a request at any
await. Accounts and rows are never written together, and nothing undoes either.
Nothing deletes accounts.

`auth/README.md:37` has users confirm their email. Supabase then reports no error
for an email that has an account: until the confirmation `signUp()` returns that
account, so that a second registration adopts what the first left behind;
afterwards it makes up a user with a random id (`Obfuscated`), to which the code
links the row (`auth.service.ts:61-73`). A refusal, as of a project that asks for
no confirmation, is one of the outcomes of `SignUpFails`. `Confirm` is the owner
of the email. Ids that are made up never clash; that of an account is
represented by its email.

### Logout

Find (`revokedAt: null`, `expiresAt` later than now), update (`revokedAt: null`),
catch, `clearAuthCookies`. Other holders of the table (`RevokeElsewhere`) revoke
with the reasons the schema names. Init chooses which tokens exist and when they
expire: the code that stores them is not in the repository yet.

cookie-parser turns a cookie `j:` and JSON into a value. For one that is neither
falsy nor a string (`Unreadable`) the hash at `auth.service.ts:127` throws, before
the try block: the answer is a 500 and the cookies stay (`LogoutThrows`). That the
cookies "are always cleared" (`auth.service.ts:115-116`) is therefore true of
failing databases, as the code means it, and not of these cookies;
`CookiesAreCleared` says both.

### TokenChecks and Lifecycle

`TokenChecks` has the three decisions as functions of the header and of whether
a secret is known. `verify()` of jsonwebtoken is external: it returns for a
token signed with the project's secret, within its time.

`Lifecycle` is one process. `Import` reads what is read when modules are
imported: `SENTRY_DSN` (`instrument.ts`) and the secret of `SupabaseAuthGuard`
(a constant of its module); both see the variables of the platform only, because
`ConfigModule.forRoot()` loads the env file in the decorator of `AppModule`,
which is evaluated after everything it imports. `CreateApp` is
`NestFactory.create()`, where `PrismaService` and `QueueService` throw without
their URLs. `Configure` is the rest of `bootstrap()`, with the secret of the
queue board, and ends in `app.listen()`: `Connected` is the end of `$connect()`,
which the global module awaits before the other init hooks run and the worker
starts; `Listen` and `StartFails` end the call. When the start fails with Sentry
on, nothing ends the process (`listen = "failed"`): Sentry's handler takes the
unhandled rejection, and `bootstrap()` has no catch (`main.ts:150`).

A signal makes Nest await the hooks in turn. Their order is that of NestJS 11:
importers before what they import, the global module last (`Importers`). The
hook of the queues waits for the job in hand. A hook that rejects
(`HookRejects`; for example `quit()` on a broken connection,
`system-config.service.ts:74`) ends the stop and the process: the remaining
services are not destroyed. Signals before the shutdown hooks are enabled are a
`Kill`.

The hooks are enabled before `listen()` (`main.ts:142`, `:145`), and nothing makes
the stop wait for the start. `phase` and `listen` are therefore two variables, and
a signal at any moment of `listen()` runs the hooks of the stop beside those of
the start. `early` remembers one that came while `$connect()` was awaited. The
hook of the queues then finds no worker to close (`default.worker.ts:92`), and
the init hook that runs afterwards starts one that nobody closes: it takes jobs
while the other modules are destroyed, against `main.ts:137-141`. `StopIsOrderly`
is about all other stops; `StopEnds` holds of these too.

Logouts are served until the server closes, and that comes last. One that
arrives after the pool has ended is answered by the path of a failed database:
cookies cleared, token still active. `LogoutEndsSession` therefore speaks of
logouts without a failed query, and `StopIsOrderly` promises jobs what it does
not promise requests.

### SecurityMonitor and AuthFailures

Timestamps are ages in ticks. `Push` appends and drops the oldest beyond
`MAX_TIMESTAMPS`; `Prune` keeps everything from the first timestamp inside the
window on. A check prunes both lists, takes both counts, then awaits the alerts
in turn, and arms the timer only after the last. `happened` is the true history.
An alert takes at most `AlertLatency` ticks: `fetch()` without a timeout of the
code's own has that of the runtime. A JavaScript turn is not interrupted: a
check that awaits nothing runs to its end before `Destroy`; `Tick` waits for
whatever is due.

`AuthFailures` says where events come from. A login ends in one of five ways;
the code records what Supabase returns as an error, an outage included, and not
what is thrown. The guard records tokens that were there and could be checked.
`happened` gets what the alert is to speak of (`FailedLogin`, `InvalidToken`),
`list` what the code records, so `WindowIsExact` compares the two. That an outage
is a failed login is the definition of the model, not a result: what
`.env.example:136` means by one is left open.

`BurstHistory` adds one variable: how long a burst of each kind has been without
an alert. The wait ends with an alert of the kind, also one for older events.

### JobQueue and QueueMonitor

`JobQueue` has the lists BullMQ keeps: waiting (first in, first out; stalled
jobs go to the front), delayed, active, failed and completed, the last two
trimmed to `removeOnFail` and `removeOnComplete`. `process()` may return or
throw; today's handlers are placeholders that return. An active job whose
process died or lost its lock (`Abandon`) is found stalled; BullMQ forgives
`MaxStalled` (default 1) stalls.

The BullBoard is mounted without `readOnlyMode` (`bullboard.module.ts:36-39`). Its
operations are `Admin`: pause and resume (no worker takes a job meanwhile), retry
of a failed or completed job (the attempts and stalls used stay used; the starts
are counted anew), removal of any job no worker has locked, and the removal of
the older part of any list (`AdminClean`: empty, clean and obliterate). Promote and
add are the steps `Promote` and `Enqueue`. `tries[j].starts` counts starts until
the job settles. `out` has the jobs that nobody added or somebody removed.

`QueueMonitor` adds the loop of `queue-monitor.service.ts` in the process
`Host`: the two counts of the `Promise.all` are answered one by one, the alerts
sent in turn, the timer armed in `then()`. Whether a count is over its threshold
is all that is kept of it. `conn` is the host's connection: `buildRedisClient()`
retries five times, then gives up (`ended`) and every command is rejected;
before, commands wait. A rejected count ends the loop (`dead`) or, without
Sentry's handler for unhandled rejections, the process (`HostDies`). Jobs that
wait in a paused queue are counted: BullMQ's `getWaitingCount()` includes them.

`JobLife` knows no lists, no order and no capacity. `Life` is the refinement: a
job is `due` when it is in `wait` or delayed, its `runner` is `owner`, it is
`lost` while orphaned; `done` and `failed` are the members of the two trimmed
lists, `spent` the attempts and stalls without the number of starts. `Promote`,
pausing and all steps of the loop and its connection are stutters. Jobs leave
`done` and `failed` when a job settles into the same list. Only an administrator
gives a settled job another start (`Retry`) or takes jobs away (`Withdraw`, to
`out`).

### RequestPipeline and AppMonitor

A request is made once. `AnswerOutsideNest` stands for what Express answers
before Nest (CORS preflights, the BullBoard and the check in front of it).
Inside, in the order the framework gives them: the body parser, the request id
(bound to the global prefix), Basic Auth of the metrics, the guard, the
interceptors around pipes and handler, the filter. `id` only says whether
`req.requestId` has been assigned. An exception is a record of the properties
that are read of it: whether it is an `HttpException`, `status`, `statusCode`;
`InterceptorStatus` and `FilterStatus` read them as the two places do.
`Returned` and `Thrown` are the outcomes of today's handlers; `register` stands
for the auth routes, of which a logout may throw a plain TypeError. Of the errors
of the body parser (`ParserErrors`: 400, 413, 415) Nest converts the malformed
JSON only; the others reach the filter as they are, with a `statusCode`, and are
reported to Sentry, without a request id. The registry holds the counter per
label and status and the histogram as the sequence of its series, in the order
prom-client lists them. How long a request takes is a free choice of bucket.

`AppMonitor` reads that registry when its timer fires. The three checks of the
`Promise.all` are `part["rate"]`, `part["latency"]` and `part["redis"]`, each
done, waiting for PING or for its alert; then the memory; then the timer.
Reading the registry awaits no I/O and is one step with the decisions; that
`getMetricsAsJSON()` never rejects is assumed here (`app-monitor.service.ts:123-124`),
though `RequestPipeline` lets serialising the registry for `/metrics` fail. `conn` is
the client, which keeps a PING while it reconnects and rejects it once it has
given up. `Destroy` clears timer, client and registry, which Nest does one after
the other; a check in flight still arms the timer, as in the code.

## 3. Runs

| Run | Instance | Shows |
|---|---|---|
| `cache_safety` | 2 processes, 1 key, 1 value or no row, 2 calls, TTL 1, latency 1; p1 calls both forms of `invalidate()` and restarts; calls symmetric | age invariant; answers at most `2*TTL + 2*Latency` late; refinement of `FlagStore`; after an undisturbed `invalidate()` nothing stale is left or served in that process |
| `guarded_service` | 2 processes, one restarts, 2 requests, a flagged and an open route, a flag off or absent, TTL 1, latency 1, nobody calls `invalidate()` | refinement of `FeatureFlagGuard`; every request decided; a settled flag decides every request |
| `invalidation_next_read` | both processes invalidate by key | **violated**: see findings |
| `flag_guard` | 2 requests, a flagged and an open route, four values that `isEnabled()` tells apart, bound 1 | kill switch; refusals only when meant |
| `registration` | 2 requests, 2 emails, 2 usernames, fully symmetric; confirmations at any time | one winner, users have accounts, true conflicts, confirmed orphans stay orphans |
| `lifecycle` | 5 deployments, 2 logouts, 1 token, an unreadable cookie, 2 instants, a job at a time, signals from `listen()` on | session ended, cookies cleared, revocation final, always answered, in a process that starts, stops and dies; token checks agree; the stop is orderly and ends |
| `env_file` | the same | **violated**: see findings |
| `security_monitor` | window 4, interval 1, alert latency 1, lists of 2, thresholds 1, 3 events per kind, every outcome and header | windows exact, no false alarm, bursts alerted within their deadline |
| `job_queue` | 2 processes, 2 jobs, 2 attempts, 1 forgiven stall, 2 failed jobs kept, thresholds 1, an administrator who pauses, retries, removes and cleans | bounded starts, honest failures, one state at a time, refinement of `JobLife`; jobs settle unless paused for ever, both backlogs alerted |
| `queue_polling` | the same | **violated**: see findings |
| `app_monitor` | 2 requests over 6 kinds of route, 2 buckets, percentile 50, 5xx threshold 40% | status, log, counter, report and alert agree; checks go on without Redis |
| `p95_alert` | 2 requests, 2 routes, percentile 95 | **violated**: see findings |

Why the bounds are enough. Two calls and two processes suffice for a fill to
overtake a fill, an invalidation or a restart, in the same and in another
process; keys do not interact except in a bulk invalidation, where one key with
`SCAN` batches of any size already has every order of fill, return and delete.
With TTL and latency 1 every entry expires while a call is in flight and while
it is not, which is what the bound is about. Two requests and two names are what
a uniqueness race needs. The theorems of section 5 hold for all sizes, and cover
every invariant of the passing runs; three of the type invariants are left to
them.
A list of two with a threshold of one and three events reaches the capacity and
drops. The threshold of the queue is one below the number of failed jobs kept,
the tightest the code allows.

The deployments of `lifecycle` are all variables on the platform, all in the
file, no secret, and a missing URL of either kind: each branch of the start.
Two logouts with one token and a clock of two instants have every race between
find, update, expiry and revocation by others; a second token would only run
beside the first.

The percentile is 95 in the code; with 50, two requests tell "at least" from
"more than", as a hundred do with 95. Two requests give the registry one series
of two or two of one, in either order, and two opinions on one counter.

Symmetry is used in safety runs only, on sets whose members no definition
tells apart.

Bounds of the models themselves: `MaxTime` (Logout; the clock stops, nothing
else does), `MaxEvents` (SecurityMonitor; events within `Horizon`), `Job`
(the number of job ids), saturation of `age` at `StaleBound + 1`, of timestamps
at `Window + 1`, of `tries`. `guarded_service` is without `invalidate()`: no code
in `src/` calls it, the promise is that flags take effect without it, and it
clears entries only, which the refinement is proved for anyway.

`app_monitor` and `p95_alert` run without the deadlock check: after `Destroy`
and with every request answered the system stops. No other run does.

### Fairness

- `GuardedService`: a process takes up the requests that reach it, and each
  step of a call is taken in the end (`WF`): Redis, the pool of the database and
  the event loop answer or fail. Time passes. Nobody has to make a request, to
  write, invalidate or restart.
- `Lifecycle`: each step of a request (a query ends, by rows, by an error, or
  refused by the pool that has ended), jobs end, and what a hook awaits settles.
  Nobody has to start the process or to send it a signal, a request or a job;
  no hook has to reject.
- `QueueMonitor`: workers take jobs while there are some and the queue is not
  paused (`WF`: one that is paused and resumed for ever may starve, and
  `JobsSettle` speaks of queues that are resumed in the end for good), handlers
  end, BullMQ promotes delayed and finds stalled jobs, reconnecting ends by
  success or by giving up. The monitor has one `WF` for all its steps: its timer
  fires, its counts are answered while there is a connection, `sendAlert` ends (it
  catches everything). Nobody has to pause, resume, retry or remove. Nothing
  keeps a connection up: the properties say what they need of it.
- `AppMonitor`: timers fire, Discord answers, a client that stays connected gets
  replies, reconnecting ends one way or the other. No request has to be made.

### Findings

1. `invalidation_next_read`: `FEATURE-FLAGS.md` promises that after
   `invalidate()` "the next read goes straight to the database". A `get()` in
   flight that read the old row refills the Map after it was cleared. What does
   hold is `SettledReadsAreCurrent`: the promise is kept when no `get()` of that
   key runs in the process while `invalidate()` does and no other process is
   about to write the old row to Redis.
2. `env_file`: `.env.example` has `SUPABASE_JWT_SECRET` in the env file, for
   `SupabaseAuthGuard`. The guard reads it when its module is imported, before
   the file is loaded, and then refuses every token. What does hold is
   `ChecksAgree`: on the platform all three checks agree, and the guard never
   passes what the others call unauthorized.
3. `queue_polling`: `runCheck().then(...)` without a catch, and a connection
   that is given up after five attempts: one rejected count ends the polling.
4. `p95_alert`: `computeP95Ms()` holds the buckets of all routes against the
   count of the last one. What does hold is `LatencyOfOneRoute`.

Not runs of their own, but stated by properties that hold:

- `ServedAreCounted`: `docs/observability.md` says the logging interceptor "wraps
  every request". It wraps those that get past the guards; refusals, 404s and
  rejected bodies leave no line and no count.
- `CookiesAreCleared`: `auth.service.ts:115-116` says cookies are always cleared. A
  logout whose cookie cannot be hashed clears none.
- `StopIsOrderly`: `main.ts:137-141` enables the hooks so that workers are closed.
  After a signal during the connection to the database a worker starts and is
  never closed.
- `OrphansStayOrphans`: a user who registers again after the failure of the second
  store is told "User registered successfully", and once the email is confirmed
  the row is linked to an id that does not exist.
- `ServerErrorsAreReported`: errors of the client in the body reach Sentry.

## 4. Properties worth reading

- `CacheAgeInv`: the age of a value plus the life it has left is bounded per
  level. It is the reason why fills that overtake each other do no harm, and it
  is inductive.
- `ImplementsGuard`: routes cannot tell three levels of caches in several
  processes from one store that is read a little late.
- `SwitchesTakeEffect`: no cycle of refills keeps an old value alive.
- `SettledIsFresh`: what a process has in its Map, in Redis and in flight after
  an undisturbed invalidation.
- `OrphansStayOrphans`: a failed registration whose account was created can be
  repaired by trying again before the email is confirmed, and never after.
- `RevocationIsFinal`: the second `revokedAt: null` is needed.
- `ChecksAgree`: three copies of one decision, each with a secret of its own age.
- `StopIsOrderly`, `StopEnds`: the order of the hooks protects jobs, unless the
  signal came before the init hooks had run, and ends though work keeps arriving.
- `WindowIsExact`: pruning, capacity and delayed checks together lose nothing.
- `BurstsMeetTheirDeadline`: how late an alert can be when a check has just
  counted without the burst and Discord is slow: the interval, the alerts of
  the kinds before, and one more. `Span` says how close a burst must be, given
  interval and alert latency. `Span` and deadline are exact: with a longer
  `Span` or a shorter deadline the run fails.
- `ServedAreCounted`, `ErrorRateIsReal`: the response, two interceptors and the
  filter each work out a status; the alert rests on their agreement.
- `ImplementsJobLife`, `OneStateAtATime`: six lists, their order and trimming,
  workers that die, locks that expire and an administrator do nothing to a job
  that one who knows only its attempts would not expect; nothing but a removal on
  the board makes one go.
- `JobsSettle`: also with a process that has given up its connection for good.
- `WaitingBacklogIsAlerted`: a queue that somebody paused and forgot is reported by
  its backlog, and by nothing else.

## 5. Proofs

Every state invariant of the passing runs is proved for all values of the
constants, and so are every action property and every refinement.

| Theorem | States |
|---|---|
| `SystemConfigProofs!CacheAgesAreBounded` | `Spec => []CacheAgeInv` |
| `SystemConfigProofs!TypeCorrect` | `Spec => []TypeOK` |
| `SystemConfigProofs!StalenessIsBounded` | `Spec => AnswersBoundedStale` |
| `SystemConfigProofs!RedisIsFilledFromTheTable` | `Spec => RedisFillIsRecent` |
| `SystemConfigProofs!ServiceImplementsFlagStore` | `Spec => ImplementsFlagStore`, the refinement |
| `SystemConfigProofs!RequestsFollowTheirCalls` | `GuardedSpec => []GuardedInv` |
| `SystemConfigProofs!GuardedServiceIsTheService` | `GuardedSpec => Spec` of `SystemConfigService` |
| `SystemConfigProofs!GuardedServiceImplementsGuard` | `GuardedSpec => ImplementsGuard`, the refinement |
| `SystemConfigProofs!KillSwitchReachesTheRoutes` | `GuardedSpec => Guard!KillSwitch` |
| `SystemConfigProofs!RefusalsReachTheRoutes` | `GuardedSpec => Guard!RefusalsAreMeant` |
| `InvalidationProofs!SettledStaysFresh` | `HSpec => []SettledIsFresh` |
| `InvalidationProofs!SettledReadsStayCurrent` | `HSpec => SettledReadsAreCurrent` |
| `FeatureFlagProofs!GuardTypeCorrect` | `GuardSpec => []GuardTypeOK` |
| `FeatureFlagProofs!KillSwitchWorks` | `GuardSpec => KillSwitch` |
| `FeatureFlagProofs!RefusalsAreAlwaysMeant` | `GuardSpec => RefusalsAreMeant` |
| `RegistrationProofs!RegistrationTypeCorrect` | `Spec => []TypeOK` |
| `RegistrationProofs!OneRegistrationWins` | `Spec => []OneWinner` |
| `RegistrationProofs!EveryUserHasAnAccount` | `Spec => []UsersHaveAccounts` |
| `RegistrationProofs!ConflictsAreReal` | `Spec => []ConflictIsReal` |
| `RegistrationProofs!ConfirmedOrphansStay` | `Spec => OrphansStayOrphans` |
| `LifecycleProofs!LogoutsInAProcess` | `LSpec => Spec` of `Logout` |
| `LifecycleProofs!LifecycleTypeCorrect` | `LSpec => []LTypeOK` |
| `LifecycleProofs!TokenChecksAgree` | `LSpec => []ChecksAgree` |
| `LifecycleProofs!TheStopIsOrderly` | `LSpec => []StopIsOrderly` |
| `LifecycleProofs!SessionsEnd` | `LSpec => []LogoutEndsSession` |
| `LifecycleProofs!OnlyUnreadableCookiesStay` | `LSpec => []CookiesAreCleared` |
| `LifecycleProofs!RevocationsAreFinal` | `LSpec => RevocationIsFinal` |
| `SecurityProofs!AuthImplementsMonitor` | `AuthSpec => Spec` of `SecurityMonitor` |
| `SecurityProofs!SecurityTypeCorrect` | `AuthSpec => []TypeOK` |
| `SecurityProofs!CountsAreExact` | `AuthSpec => []WindowIsExact` |
| `SecurityProofs!NoFalseAlarm` | `AuthSpec => []AlertsAreTrue` |
| `SecurityProofs!HistoryIsTheMonitor` | `WSpec => AuthSpec` |
| `SecurityProofs!BurstsAreAlertedInTime` | `WSpec => []BurstsMeetTheirDeadline` |
| `QueueProofs!QueueTypeCorrect` | `Spec => []TypeOK` |
| `QueueProofs!StartsStayBounded` | `Spec => []StartsAreBounded` |
| `QueueProofs!FailedJobsAreExhausted` | `Spec => []FailedJobsHadTheirTries` |
| `QueueProofs!QueueImplementsJobLife` | `Spec => ImplementsJobLife`, the refinement |
| `QueueProofs!JobsAreInOneState` | `Spec => []OneStateAtATime` |
| `PipelineProofs!PipelineTypeCorrect` | `Spec => []TypeOK` |
| `PipelineProofs!WhatIsServedIsCounted` | `Spec => []ServedAreCounted` |
| `PipelineProofs!ErrorRateIsExact` | `Spec => ErrorRateIsReal` |
| `PipelineProofs!LatencyIsReal` | `Spec => LatencyOfOneRoute` |
| `PipelineProofs!ServerErrorsReachSentry` | `Spec => []ServerErrorsAreReported` |

**Assumptions.** Each component module names what it assumes of its constants
(`SystemConfigAssumption`, `FlagStoreAssumption`, `GuardAssumption`,
`GuardedServiceAssumption`,
`RegistrationAssumption`, `LogoutAssumption`, `LifecycleAssumption`,
`SecurityMonitorAssumption`, `JobQueueAssumption`, `QueueMonitorAssumption`,
`PipelineAssumption`, `AppMonitorAssumption`), and TLC evaluates each in a run.
Sets of processes, keys, calls, requests, tokens, emails and names are
arbitrary, infinite ones included; only jobs and requests to the pipeline, which
the code counts, are assumed to be finitely many. Thresholds below the capacity
of what they count (`SecurityMonitorAssumption`, `QueueMonitorAssumption`) are
what the defaults of the code satisfy.

**The arguments.** Each module has one inductive invariant; a step lemma has one
case per action.

- `CacheAgeInv`. That an answer is at most `StaleBound` old is not inductive: it
  needs to know how old an entry may be when it is copied. Per level,
  *age + life left <= bound*: `TTL + Latency` for Redis, `StaleBound` for a Map,
  and for a call *age <= time in flight* (plus `TTL + Latency` if the row came
  from Redis). A tick adds one to the age and takes one from the life; a copy
  passes a row to a level whose bound is larger by what a fresh TTL and a call
  can add. For the refinement every action maps to a write, a tick, an answer, a
  default or a release of `FlagStore`, or to a stutter.
- `HInv`. While an invalidation is quiet, an old row that Redis still has is in
  the batch of its DEL or owed by its SCAN, and no call is about to write an old
  one. When it ends undisturbed, nothing can be left: Map, Redis and the calls
  under way are fresh until something disturbs them. Uses `CacheAgeInv`, because
  `HSpec => Spec`.
- `GuardInv`. A request under way asks for the flag of its own route. With that
  and the store's bound, the answer decides what the theorems say.
- `GuardedInv`. The refinement needs to know which call belongs to which request
  (`LinkInv`): a request asks exactly as long as its call has no answer, for the
  key of its route. Then a memory hit, `SetInMemory` and `ReturnDefault` are a
  `Decide` with the row of the call, `DbFails` is a `DecideOnError`, and the rest
  of `get()` is a stutter. The bounds come from `CacheAgeInv`, because
  `GuardedSpec => Spec`. `KillSwitchReachesTheRoutes` puts the ends together:
  nobody passes a flag that has been off for `2*TTL + 2*Latency` ticks, unless
  the table could not be read.
- `RInv`. Past `signUp`, the account for the email exists, and the request holds
  its id, a made-up one or none (`Carries`), which is why a user never lacks an
  account and no row is linked to another's; unique indexes give the winner. Once
  an email is confirmed, nobody gets hold of its account's id again.
- `LogoutInv`. Past the update, or past a find without a row, a request that met
  no error has a token that is not active, and time and the others' revocations
  only keep it so (`Ended`). `LogoutsInAProcess` carries this into the process
  of `Lifecycle`.
- `LInv`. What was captured is what the environment held at that phase
  (`ReadOnce`); a destroyed module has destroyed importers, and one hook runs at a
  time (`InOrder`); unless the signal was early, the worker is closed by the time
  its module is destroyed (`WorkerInOrder`).
- `SecurityInv`. Counted from the newest on, list and history agree on the
  window as far as the list reaches, and both are sorted (`Graded`: those not
  older than t are the k newest, for every t). Pruning, dropping the oldest and
  ageing keep suffixes, so they keep both. What a check has counted is still in
  the history, no older than the window and the alerts since.
- `DeadlineInv`. A burst that waits is in one of two positions (`Waits`). Either
  the check under way has counted it and has not come to its alert yet
  (`Ahead`): then the wait is at most what had passed before the check, and the
  alerts since. Or it has not, and is still younger than `Span` and the wait
  together; what is left of the check and the interval keeps that within the
  window until the next check begins, which then counts it: list and history
  agree there (`SecurityInv`), up to a capacity above the threshold.
- `QueueInv`. A job is in one place, and the starts it had are those its counts
  of failed attempts and stalls account for, plus one while it runs.
  For `JobLife`, each operation on a list is one on the set of its members:
  trimming forgets some and keeps the new one (`KeptSettles`), and a removed job
  is gone from the list because it was in it once (`QueueInv`,
  `RemovedJob`).
  That a job is in one state is proved of `JobLife`, where it is short
  (`LifeKeepsOneState`), and holds of the queue by the refinement.
- `PipelineInv`. Each request on its own satisfies what its path so far says
  (`RequestInv`); counters and buckets equal the cardinalities of the sets of
  requests they stand for, and a label has at most one series. With one series
  the buckets that reach the percentile are those of all requests, and adding
  the bucket of +Inf to them does not change the least.

- `ErrorRateIsReal` holds two sums over the counters against two cardinalities.
  `Sum` is a fold: it takes out one chosen element of the set at a time. That
  the function it chooses exists on every finite set (`SumsExist`), and that its
  value is the number of requests counted (`SumCounts`), both go by a least
  counterexample on the cardinality, the step being that a request has one label
  and one status (`CountedOnce`). The rest is `PipelineInv`: the counter of a
  label and a status is the number of its requests.

**Model-checked only.** Liveness (the prover has no ENABLED):
`RequestsAreDecided`, `SwitchesTakeEffect`, `LogoutIsAnswered`, `StopEnds`,
`JobsSettle`, `BacklogIsAlerted`, `WaitingBacklogIsAlerted`, `MonitoringGoesOn`.

## 6. Not modelled

- DTOs and validators, health and app controllers, OpenAPI, the seed: no state,
  or data alone. A body that fails validation is an outcome of `RequestPipeline`.
- CORS, the validation pipe, Swagger, the sampling rates of Sentry: options
  given once. `Bootstrap` is therefore partly modelled.
- The layout of alerts, log lines beyond their number and status, messages.
- Tables of the schema that no code reads or writes.
- Inside of the libraries: `verify()`, argon2, prom-client, BullMQ, Redis and
  Supabase are modelled by how the code uses them, and marked external.
- A signal that arrives before the shutdown hooks are enabled kills the process,
  as it does by default. Of one that arrives between that and the end of
  `listen()` (`main.ts:142-145`) the order of the hooks on both sides is modelled;
  what the init hooks of the three monitors and of the caches leave behind when
  their modules have been destroyed before (timers, clients) is not.
- On the BullBoard: editing the data of a job, the concurrency and rate limits of
  the queue, its logs and metrics, and adding a job with options other than the
  defaults of `QueueService`. The board's login is `BoardCheck`.
- `getMetricsAsJSON()` rejecting in a check of `AppMonitorService`, see section 2.
- How `createHash()` and cookie-parser treat a cookie, but for whether the hash
  throws.

## 7. What is left

Worth doing when the code grows: `Login` and `Logout` over one table once
refresh tokens are stored; job handlers with effects, and with them at-least-once
delivery as a property; the percentile over several routes when `computeP95Ms()`
adds up the counts; `AuthFailures` with the secret of `Lifecycle` instead of a
free one, once a controller uses the guards.
