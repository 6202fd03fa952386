------------------------------ MODULE Lifecycle ------------------------------
(***************************************************************************)
(* One process of the backend from its start to its end, and the logouts   *)
(* it serves meanwhile.                                                    *)
(*                                                                         *)
(* The start: modules are imported, which reads some environment variables *)
(* for good; ConfigModule.forRoot() loads the env file; the providers are  *)
(* constructed; main.ts sets the application up, enables the shutdown      *)
(* hooks and calls listen(), which connects to the database, runs the      *)
(* other init hooks and opens the port.  The stop: a signal makes Nest     *)
(* await onModuleDestroy() of module after module, then close the HTTP     *)
(* server, then send itself the signal again.  A signal during listen()    *)
(* does not stop it: the two go on side by side.  Requests are served      *)
(* until the server closes, also when what they need is gone.              *)
(*                                                                         *)
(* A name with an underscore is a wrong version of the definition after    *)
(* it, for the runs to catch; nothing uses it here.                        *)
(***************************************************************************)
EXTENDS Logout, TokenChecks

CONSTANT Deployments  \* where each environment variable may be defined

\* Railway sets variables of the process; a developer has an env file.
Variable == {"SUPABASE_JWT_SECRET", "SENTRY_DSN", "DATABASE_URL", "REDIS_URL"}
Place == {"platform", "file", "nowhere"}

\* The modules with an onModuleDestroy().
Module == {"queues", "systemConfig", "observability", "metrics", "prisma"}

ASSUME LifecycleAssumption ==
  Deployments \subseteq [Variable -> Place] /\ None \notin Module

VARIABLES
  where,      \* where[v]: where variable v is defined
  captured,   \* what was read from the environment, once
  phase,      \* what bootstrap() or the stop is doing
  listen,     \* how far app.listen() has got
  worker,     \* the BullMQ worker of DefaultWorker
  job,        \* is it running a job?
  early,      \* did the signal come before the init hooks had run?
  destroyed,  \* modules whose onModuleDestroy() has resolved
  hook        \* the module whose onModuleDestroy() is awaited, or None

environment == <<where, captured>>
stop == <<early, destroyed, hook>>
process == <<environment, phase, listen, worker, job, stop>>
lvars == <<vars, process>>

Phase == {"down", "imported", "created", "running", "destroying", "closing"}
\* failed: and nothing ended the process.
ListenState == {"none", "connecting", "binding", "up", "failed"}
WorkerState == {"none", "runs", "closing", "closed"}
Captured == [guard : BOOLEAN, board : BOOLEAN, sentry : BOOLEAN]
NothingRead == [guard |-> FALSE, board |-> FALSE, sentry |-> FALSE]

LTypeOK ==
  /\ TypeOK
  /\ where \in Deployments /\ captured \in Captured
  /\ phase \in Phase /\ listen \in ListenState
  /\ worker \in WorkerState /\ job \in BOOLEAN
  /\ early \in BOOLEAN
  /\ destroyed \subseteq Module /\ hook \in Module \cup {None}

LInit ==
  /\ Init
  /\ where \in Deployments /\ captured = NothingRead
  /\ phase = "down" /\ listen = "none"
  /\ worker = "none" /\ job = FALSE
  /\ early = FALSE /\ destroyed = {} /\ hook = None

-----------------------------------------------------------------------------
(* The start *)

\* process.env before the env file is loaded, and after.
OnPlatform(v) == where[v] = "platform"
Defined(v) == where[v] # "nowhere"

\* The process ends here and now: what it has in hand is lost.
Die ==
  /\ captured' = NothingRead
  /\ phase' = "down" /\ listen' = "none"
  /\ worker' = "none" /\ job' = FALSE
  /\ early' = FALSE /\ destroyed' = {} /\ hook' = None
  /\ UNCHANGED where

\* import './instrument' and './app.module': instrument.ts reads SENTRY_DSN,
\* supabase-auth.guard.ts its secret.  The decorator of AppModule calls
\* ConfigModule.forRoot() when everything it imports has been evaluated.
Import ==
  /\ phase = "down"
  /\ phase' = "imported"
  /\ captured' = [NothingRead EXCEPT
       !.guard = OnPlatform("SUPABASE_JWT_SECRET"),
       !.sentry = OnPlatform("SENTRY_DSN")]
  /\ UNCHANGED <<vars, where, listen, worker, job, stop>>

\* NestFactory.create(): PrismaService and QueueService throw without their
\* URLs, and Nest ends the process.
CreateApp ==
  /\ phase = "imported"
  /\ IF Defined("DATABASE_URL") /\ Defined("REDIS_URL")
     THEN phase' = "created" /\ UNCHANGED <<environment, listen, worker, job, stop>>
     ELSE Die
  /\ UNCHANGED vars

Configure_AsImported ==
  /\ phase = "created"
  /\ phase' = "running" /\ listen' = "connecting"
  /\ captured' = [captured EXCEPT !.board = captured.guard]
  /\ UNCHANGED <<vars, where, worker, job, stop>>

\* The rest of bootstrap(): the secret of the queue board is read, shutdown
\* hooks are enabled, and app.listen() is called.
Configure ==
  /\ phase = "created"
  /\ phase' = "running" /\ listen' = "connecting"
  /\ captured' = [captured EXCEPT !.board = Defined("SUPABASE_JWT_SECRET")]
  /\ UNCHANGED <<vars, where, worker, job, stop>>

\* $connect() of the global module resolves, and the other init hooks run.
\* None of them asks whether its module has been destroyed meanwhile.
Connected ==
  /\ listen = "connecting"
  /\ listen' = "binding" /\ worker' = "runs"
  /\ UNCHANGED <<vars, environment, phase, job, stop>>

Listen ==
  /\ listen = "binding"
  /\ listen' = "up"
  /\ UNCHANGED <<vars, environment, phase, worker, job, stop>>

\* $connect() or the port fails.  Nothing catches it in bootstrap(): the
\* unhandled rejection ends the process, unless Sentry, which only reports
\* it, is on.
StartFails ==
  /\ listen \in {"connecting", "binding"}
  /\ IF captured.sentry
     THEN listen' = "failed" /\ UNCHANGED <<environment, phase, worker, job, stop>>
     ELSE Die
  /\ UNCHANGED vars

-----------------------------------------------------------------------------
(* Jobs and logouts *)

TakeJob_WhileClosing ==
  /\ worker \in {"runs", "closing"} /\ ~ job
  /\ job' = TRUE
  /\ UNCHANGED <<vars, environment, phase, listen, worker, stop>>

\* worker.close() takes no more jobs, and waits for those in hand.
TakeJob ==
  /\ worker = "runs" /\ ~ job
  /\ job' = TRUE
  /\ UNCHANGED <<vars, environment, phase, listen, worker, stop>>

JobEnds ==
  /\ job
  /\ job' = FALSE
  /\ UNCHANGED <<vars, environment, phase, listen, worker, stop>>

\* A port that opens when the server has been closed is there for no request:
\* the signal has been sent again.
Accepting == listen = "up" /\ phase \in {"running", "destroying"}

Accept(r) == Accepting /\ Arrives(r) /\ UNCHANGED process

Open(m) == m \notin destroyed

\* pool.end() lets queries finish; later ones are refused, which the logout
\* absorbs as it absorbs every error of the database.
Query(r) ==
  /\ \/ Open("prisma") /\ (FindActive(r) \/ Revoke(r) \/ DbFails(r))
     \/ ~ Open("prisma") /\ UNCHANGED tokens /\ DbFails(r)
  /\ UNCHANGED process

Reply(r) == Finish(r) /\ UNCHANGED process

-----------------------------------------------------------------------------
(* The stop *)

\* SIGTERM or SIGINT, once the hooks are enabled; a second one is ignored.
Signal ==
  /\ phase = "running"
  /\ phase' = "destroying"
  /\ early' = (listen = "connecting")
  /\ UNCHANGED <<vars, environment, listen, worker, job, destroyed, hook>>

\* Nest destroys a module after those that import it, the global one last.
Importers(m) ==
  CASE m = "observability" -> {"queues"}
    [] m = "metrics" -> {"observability"}
    [] m = "prisma" -> Module \ {"prisma"}
    [] OTHER -> {}

\* The worker is closed if there is one by now.
CallHook(m) ==
  /\ phase = "destroying" /\ hook = None
  /\ Open(m) /\ Importers(m) \subseteq destroyed
  /\ hook' = m
  /\ worker' = IF m = "queues" /\ worker = "runs" THEN "closing" ELSE worker
  /\ UNCHANGED <<vars, environment, phase, listen, job, early, destroyed>>

HookResolves_NotAwaited ==
  /\ hook # None
  /\ destroyed' = destroyed \cup {hook} /\ hook' = None
  /\ worker' = IF worker = "closing" THEN "closed" ELSE worker
  /\ UNCHANGED <<vars, environment, phase, listen, job, early>>

HookResolves ==
  /\ hook # None
  /\ worker = "closing" => ~ job
  /\ destroyed' = destroyed \cup {hook} /\ hook' = None
  /\ worker' = IF worker = "closing" THEN "closed" ELSE worker
  /\ UNCHANGED <<vars, environment, phase, listen, job, early>>

\* queue.close(), worker.close(), redisClient.quit(), $disconnect() and
\* pool.end() are awaited without a catch: when one rejects, Nest logs it and
\* exits, and the other modules are not destroyed.
HookRejects ==
  /\ hook \in {"queues", "systemConfig", "prisma"}
  /\ Die
  /\ Crash(Request)

CloseServer ==
  /\ phase = "destroying" /\ destroyed = Module
  /\ phase' = "closing"
  /\ UNCHANGED <<vars, environment, listen, worker, job, stop>>

\* The HTTP server is closed when the requests in flight are answered; the
\* signal, sent again, then ends the process.
Exit ==
  /\ phase = "closing"
  /\ \A r \in Request : logouts[r].pc = "idle"
  /\ Die
  /\ UNCHANGED vars

\* SIGKILL, a crash, or a signal before the hooks are enabled.
Kill ==
  /\ phase # "down"
  /\ Die
  /\ Crash(Request)

-----------------------------------------------------------------------------

StartStep == CreateApp \/ Configure \/ Connected \/ Listen \/ StartFails
StopStep ==
  (\E m \in Module : CallHook(m)) \/ HookResolves \/ CloseServer \/ Exit
Serve(r) == Query(r) \/ Reply(r)
Elsewhere ==
  /\ Tick \/ \E t \in Token, reason \in {"rotation", "admin"} :
               RevokeElsewhere(t, reason)
  /\ UNCHANGED process

LNext ==
  \/ Import \/ StartStep
  \/ TakeJob \/ JobEnds
  \/ \E r \in Request : Accept(r) \/ Serve(r)
  \/ Signal \/ StopStep \/ HookRejects \/ Kill
  \/ Elsewhere

LSpec == LInit /\ [][LNext]_lvars

\* Queries are answered, jobs end, and what a hook awaits settles in the end.
\* Nobody has to start the process or to send it a signal, a request or a
\* job, and no hook has to reject.
LFairSpec ==
  /\ LSpec
  /\ WF_lvars(JobEnds) /\ WF_lvars(StopStep)
  /\ \A r \in Request : WF_lvars(Serve(r))

-----------------------------------------------------------------------------

\* Invariant: while requests are served, the board and the admin guard decide
\* alike on every header, and SupabaseAuthGuard passes no token the admin
\* guard calls unauthorized; it passes all the others when the secret is a
\* variable of the platform.  Each reads the secret at another time: at
\* import, in bootstrap(), at the request.
Admin(h) == JwtAdminGuard(h, Defined("SUPABASE_JWT_SECRET"))
ChecksAgree ==
  Accepting => \A h \in Header :
    /\ BoardCheck(h, captured.board) = Admin(h)
    /\ SupabaseAuthGuard(h, captured.guard) = 200 => Admin(h) # 401
    /\ OnPlatform("SUPABASE_JWT_SECRET") /\ Admin(h) # 401 =>
         SupabaseAuthGuard(h, captured.guard) = 200

\* Invariant: .env.example:4 and 35 have the secret of SupabaseAuthGuard in the
\* file .env.development: wherever it is defined, the guard passes valid
\* tokens.
GuardTakesValidTokens ==
  Accepting /\ Defined("SUPABASE_JWT_SECRET") => \A h \in Header :
    h.bearer /\ Verifies(h) => SupabaseAuthGuard(h, captured.guard) = 200

\* Invariant: unless the signal came before the init hooks had run, no service
\* is destroyed under a job: the worker is closed, and has finished what it
\* had in hand, before the modules its module imports and the pool go; and
\* the server closes only when every hook has resolved.  After an early
\* signal the worker may start when its module has been destroyed, and nobody
\* closes it: main.ts:137-141 promises more.  Requests have no such promise at
\* all: they are accepted until the server closes, and a logout that comes
\* after the pool has gone is answered without its token revoked.
StopIsOrderly ==
  ~ early => /\ job => destroyed \subseteq {"systemConfig"}
             /\ phase = "closing" => ~ job /\ destroyed = Module

\* Liveness: a process that got the signal ends, though the worker takes jobs
\* until its hook is called and requests come in until the server closes.
StopEnds == phase \in {"destroying", "closing"} ~> phase = "down"
=============================================================================
