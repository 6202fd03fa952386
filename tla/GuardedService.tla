--------------------------- MODULE GuardedService ---------------------------
(***************************************************************************)
(* FeatureFlagGuard over the caches of SystemConfigService: requests whose *)
(* guard runs get() in the process that serves them, while flags change,   *)
(* caches are invalidated and processes restart.  FeatureFlagGuard has the *)
(* same guard over the store that these caches implement.                  *)
(***************************************************************************)
EXTENDS SystemConfigService

CONSTANTS
  Route,    \* handlers
  FlagOf    \* FlagOf[h]: the key of @FeatureFlag on h or its class, or None

ASSUME GuardedServiceAssumption ==
  /\ FlagOf \in [Route -> Key \cup {None}]
  /\ \A v \in Value : v.type \in {"boolean", "string", "number", "null", "object"}

VARIABLE request  \* request[c]: the request whose guard makes call c

guardedVars == <<vars, request>>

\* The same guard over a store without caches.
Guard == INSTANCE FeatureFlagGuard WITH
           db <- db, age <- age, answer <- answer, request <- request

GuardedInit == Init /\ request = [c \in Call |-> Guard!NoRequest]

-----------------------------------------------------------------------------

FlagOfRequest(c) == FlagOf[request[c].route]

\* A request arrives.  Without a flag on its route canActivate() is done.
Arrive(c, h) ==
  /\ request[c].pc = "idle"
  /\ request' = [request EXCEPT ![c] =
       [pc |-> IF FlagOf[h] = None THEN "allowed" ELSE "asking", route |-> h]]
  /\ UNCHANGED vars

Decides_FailClosed(c) ==
  request' = [request EXCEPT ![c].pc =
    IF calls'[c].src = "dbError" THEN "denied"
    ELSE Guard!Decision(Guard!Opens(calls'[c].row))]

\* get() has answered, with the row or with the default of a flag without
\* one, and isEnabled() and canActivate() go on without another await.
Decides(c) ==
  request' = [request EXCEPT ![c].pc = Guard!Decision(Guard!Opens(calls'[c].row))]

\* Process p takes the request up: canActivate(), isEnabled() and get() up
\* to the first await, which a live entry in memory spares them.
Ask(c, p) ==
  /\ request[c].pc = "asking"
  /\ \/ GetHitsMemory(c, p, FlagOfRequest(c)) /\ Decides(c)
     \/ GetMissesMemory(c, p, FlagOfRequest(c)) /\ UNCHANGED request

Load(c) ==
  /\ \/ RedisHit(c) \/ RedisMiss(c)
     \/ DbFound(c) \/ DbMissing(c)
     \/ SetInRedis(c) \/ SkipSetInRedis(c)
  /\ UNCHANGED request

Decide(c) ==
  /\ ReturnDefault(c) \/ DbFails(c) \/ SetInMemory(c)
  /\ Decides(c)

Finish(c) ==
  /\ request[c].pc \in {"allowed", "denied"}
  /\ \/ Respond(c)
     \/ calls[c].pc = "idle" /\ UNCHANGED vars
  /\ request' = [request EXCEPT ![c] = Guard!NoRequest]

\* Requests die with the process that serves them.
Die(p) ==
  /\ Restart(p)
  /\ request' = [c \in Call |->
       IF calls[c].proc = p THEN Guard!NoRequest ELSE request[c]]

Elsewhere ==
  /\ \/ \E p \in Process, k \in Key : InvalidateKey(p, k)
     \/ \E p \in Process : InvalidateAll(p) \/ InvalidateStep(p)
     \/ \E k \in Key, r \in Row : DbWrite(k, r)
     \/ Tick
  /\ UNCHANGED request

GuardedNext ==
  \/ \E c \in Call, h \in Route : Arrive(c, h)
  \/ \E c \in Call, p \in Process : Ask(c, p)
  \/ \E c \in Call : Load(c) \/ Decide(c) \/ Finish(c)
  \/ \E p \in Process : Die(p)
  \/ Elsewhere

GuardedSpec == GuardedInit /\ [][GuardedNext]_guardedVars

\* A process takes up the requests that reach it, what get() awaits is
\* answered in the end, by a value or by an error, and time passes.  Nobody
\* has to make a request, invalidate, restart or write the table.
GuardedFairness ==
  /\ \A c \in Call :
       /\ WF_guardedVars(\E p \in Process : Ask(c, p))
       /\ WF_guardedVars(Load(c) \/ Decide(c))
  /\ WF_guardedVars(Tick /\ UNCHANGED request)

GuardedFairSpec == GuardedSpec /\ GuardedFairness

-----------------------------------------------------------------------------

\* Refinement: routes cannot tell the caches from a store that is read at
\* most StaleBound ticks late, also when memory answers in the same turn and
\* when requests die half way.
ImplementsGuard == Guard!GuardSpec

\* Liveness: every request is let through, refused or dies with its process,
\* whatever Redis and the table do.
RequestsAreDecided ==
  \A c \in Call : request[c].pc = "asking" ~> request[c].pc # "asking"

Follows(c, r) ==
  request'[c].pc = Guard!Decision(Guard!Opens(r)) \/ answer'[c].failed

\* Liveness: a flag that stops changing in the end decides every request to
\* its routes, in every process and without a call of invalidate(), as the
\* TTLs promise.
SwitchesTakeEffect ==
  \A k \in Key, r \in Row :
    <>[](db[k] = r) =>
      <>[][\A c \in Call :
            (Guard!Allows(c) \/ Guard!Denies(c)) /\ FlagOfRequest(c) = k
              => Follows(c, r)]_guardedVars

=============================================================================
