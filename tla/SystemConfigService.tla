------------------------- MODULE SystemConfigService -------------------------
(***************************************************************************)
(* The three-level lookup of feature flags in system-config.service.ts:    *)
(* the in-memory Map of each process, the Redis cache they share, and the  *)
(* table system_configs.  Processes share nothing else, so a flag changed  *)
(* in the table reaches a caller only when the entries above it expire or  *)
(* are invalidated, while other calls of get() refill them.                *)
(*                                                                         *)
(* Every await of get() and of invalidate() is a point where other calls,  *)
(* other processes, the clock and the database may take steps.             *)
(*                                                                         *)
(* Time is counted in ticks, by entries as the ticks they have left, by    *)
(* calls as the ticks they have been in flight, and by the history         *)
(* variable age as the ticks since a key last held a row.  Nothing         *)
(* counts without bound, so time itself has none.                          *)
(*                                                                         *)
(* A definition whose name ends in an underscore and a word, such as       *)
(* MemoryLive_Forever, is a wrong version of the one that follows it: the  *)
(* runs are shown to catch it.  Nothing uses it here.                      *)
(***************************************************************************)
EXTENDS Integers, FiniteSets

CONSTANTS
  Process,          \* backend processes running this service
  Key,              \* configuration keys
  Value,            \* JSON values a row may hold
  Call,             \* calls of get() that may be in flight together
  None,             \* null, undefined: no row, no entry, nothing
  RedisConfigured,  \* is REDIS_URL set?
  TTL,              \* SYSTEM_CONFIG_CACHE_TTL_SECONDS, in ticks
  Latency,          \* the longest a call stays in flight, in ticks
  KeyInvalidator,   \* processes that call invalidate(key)
  BulkInvalidator,  \* processes that call invalidate()
  Restartable       \* processes that may crash or be redeployed

ASSUME SystemConfigAssumption ==
  /\ None \notin Process \cup Key \cup Value
  /\ RedisConfigured \in BOOLEAN
  /\ TTL \in Nat \ {0}
  /\ Latency \in Nat
  /\ KeyInvalidator \subseteq Process
  /\ BulkInvalidator \subseteq Process
  /\ Restartable \subseteq Process

\* A row may be written to Redis Latency ticks after it was read, copied
\* from there to memory TTL ticks later by a call that takes Latency ticks,
\* and be served from memory for TTL ticks more.
StaleBound ==
  IF RedisConfigured THEN 2 * TTL + 2 * Latency ELSE TTL + Latency

VARIABLES
  db,       \* db[k]: the row of key k in system_configs, or None
  age,      \* age[k][r]: ticks since the row of k was r, up to MaxAge
  memory,   \* memory[p]: the memoryCache of process p
  redis,    \* redis[k]: the entry under REDIS_KEY_PREFIX + k
  calls,    \* calls[c]: where call c of get() is
  inval     \* inval[p]: where the invalidate() of process p is

stores == <<db, age>>
vars == <<db, age, memory, redis, calls, inval>>

Row == Value \cup {None}
MaxAge == StaleBound + 1

Entry == [value : Row, left : -1..TTL]
NoEntry == [value |-> None, left |-> -1]

\* Awaiting Redis, the table, the table's "no such row", the SET, the last
\* reply before memory is filled; done: the caller has its answer.
CallPc == {"idle", "redis", "db", "missing", "setRedis", "setMemory", "done"}
InFlight == CallPc \ {"idle", "done"}

\* Where the row a call carries comes from; "dbError": the catch block.
Source == {"none", "memory", "redis", "db", "dbError"}

CallState == [pc : CallPc, proc : Process \cup {None}, key : Key \cup {None},
              row : Row, src : Source, lat : 0..Latency]
NoCall == [pc |-> "idle", proc |-> None, key |-> None,
           row |-> None, src |-> "none", lat |-> 0]

\* keys: what an invalidation was asked to clear; owed: the keys SCAN has
\* yet to return; batch: the keys it has just returned; last: the cursor is 0.
InvalState == [pc : {"idle", "del", "scan", "delBatch"}, keys : SUBSET Key,
               batch : SUBSET Key, owed : SUBSET Key, last : BOOLEAN]
NoInval == [pc |-> "idle", keys |-> {}, batch |-> {}, owed |-> {},
            last |-> FALSE]

TypeOK ==
  /\ db \in [Key -> Row]
  /\ age \in [Key -> [Row -> 0..MaxAge]]
  /\ memory \in [Process -> [Key -> Entry]]
  /\ redis \in [Key -> Entry]
  /\ calls \in [Call -> CallState]
  /\ inval \in [Process -> InvalState]

Init ==
  /\ db \in [Key -> Row]
  /\ age = [k \in Key |-> [r \in Row |-> IF r = db[k] THEN 0 ELSE MaxAge]]
  /\ memory = [p \in Process |-> [k \in Key |-> NoEntry]]
  /\ redis = [k \in Key |-> NoEntry]
  /\ calls = [c \in Call |-> NoCall]
  /\ inval = [p \in Process |-> NoInval]

-----------------------------------------------------------------------------
(* get(): first level, the Map of the process, read without an await *)

NewEntry(r) == [value |-> r, left |-> TTL]

MemoryLive_Forever(e) == e.value # None

\* Expired entries stay in the Map until somebody looks them up.
MemoryLive(e) == e.value # None /\ e.left >= 0

GetHitsMemory_Renews(c, p, k) ==
  /\ calls[c].pc = "idle"
  /\ MemoryLive(memory[p][k])
  /\ memory' = [memory EXCEPT ![p][k] = NewEntry(@.value)]
  /\ calls' = [calls EXCEPT ![c] =
       [pc |-> "done", proc |-> p, key |-> k, row |-> memory[p][k].value,
        src |-> "memory", lat |-> 0]]
  /\ UNCHANGED <<stores, redis, inval>>

GetHitsMemory(c, p, k) ==
  /\ calls[c].pc = "idle"
  /\ MemoryLive(memory[p][k])
  /\ calls' = [calls EXCEPT ![c] =
       [pc |-> "done", proc |-> p, key |-> k, row |-> memory[p][k].value,
        src |-> "memory", lat |-> 0]]
  /\ UNCHANGED <<stores, memory, redis, inval>>

GetMissesMemory(c, p, k) ==
  /\ calls[c].pc = "idle"
  /\ ~ MemoryLive(memory[p][k])
  /\ memory' = [memory EXCEPT ![p][k] = NoEntry]
  /\ calls' = [calls EXCEPT ![c] =
       [NoCall EXCEPT !.pc = "redis", !.proc = p, !.key = k]]
  /\ UNCHANGED <<stores, redis, inval>>

-----------------------------------------------------------------------------
(* get(): second level, Redis *)

RedisHit_WritesBack(c) ==
  LET k == calls[c].key IN
  /\ calls[c].pc = "redis"
  /\ RedisConfigured
  /\ redis[k].value # None
  /\ calls' = [calls EXCEPT ![c].pc = "setRedis", ![c].src = "redis",
                            ![c].row = redis[k].value]
  /\ UNCHANGED <<stores, memory, redis, inval>>

RedisHit(c) ==
  LET k == calls[c].key IN
  /\ calls[c].pc = "redis"
  /\ RedisConfigured
  /\ redis[k].value # None
  /\ calls' = [calls EXCEPT ![c].pc = "setMemory", ![c].src = "redis",
                            ![c].row = redis[k].value]
  /\ UNCHANGED <<stores, memory, redis, inval>>

RedisMiss_Retries(c) ==
  /\ calls[c].pc = "redis"
  /\ UNCHANGED vars

\* No client, no entry, or an error, which getFromRedis() turns into a miss.
RedisMiss(c) ==
  /\ calls[c].pc = "redis"
  /\ calls' = [calls EXCEPT ![c].pc = "db"]
  /\ UNCHANGED <<stores, memory, redis, inval>>

-----------------------------------------------------------------------------
(* get(): third level, the table, and the caches it fills *)

DbFound(c) ==
  LET k == calls[c].key IN
  /\ calls[c].pc = "db"
  /\ db[k] # None
  /\ calls' = [calls EXCEPT ![c].pc = "setRedis", ![c].src = "db",
                            ![c].row = db[k]]
  /\ UNCHANGED <<stores, memory, redis, inval>>

DbMissing(c) ==
  /\ calls[c].pc = "db"
  /\ db[calls[c].key] = None
  /\ calls' = [calls EXCEPT ![c].pc = "missing", ![c].src = "db"]
  /\ UNCHANGED <<stores, memory, redis, inval>>

\* A call that is answered is in flight no longer.
Answered(s) == [s EXCEPT !.pc = "done", !.lat = 0]

\* An absent row is not cached: the caller gets its default.
ReturnDefault(c) ==
  /\ calls[c].pc = "missing"
  /\ calls' = [calls EXCEPT ![c] = Answered(@)]
  /\ UNCHANGED <<stores, memory, redis, inval>>

DbFails(c) ==
  /\ calls[c].pc = "db"
  /\ calls' = [calls EXCEPT ![c] = Answered([@ EXCEPT !.src = "dbError"])]
  /\ UNCHANGED <<stores, memory, redis, inval>>

SetInRedis(c) ==
  /\ calls[c].pc = "setRedis"
  /\ RedisConfigured
  /\ redis' = [redis EXCEPT ![calls[c].key] = NewEntry(calls[c].row)]
  /\ calls' = [calls EXCEPT ![c].pc = "setMemory"]
  /\ UNCHANGED <<stores, memory, inval>>

\* No client, or an error, which setInRedis() swallows.
SkipSetInRedis(c) ==
  /\ calls[c].pc = "setRedis"
  /\ calls' = [calls EXCEPT ![c].pc = "setMemory"]
  /\ UNCHANGED <<stores, memory, redis, inval>>

SetInMemory(c) ==
  LET p == calls[c].proc
      k == calls[c].key
  IN
  /\ calls[c].pc = "setMemory"
  /\ memory' = [memory EXCEPT ![p][k] = NewEntry(calls[c].row)]
  /\ calls' = [calls EXCEPT ![c] = Answered(@)]
  /\ UNCHANGED <<stores, redis, inval>>

\* The caller's continuation runs with the value it awaited.
Respond(c) ==
  /\ calls[c].pc = "done"
  /\ calls' = [calls EXCEPT ![c] = NoCall]
  /\ UNCHANGED <<stores, memory, redis, inval>>

-----------------------------------------------------------------------------
(* invalidate(): memory is cleared before Redis is awaited *)

Cached(cache) == {k \in Key : cache[k].value # None}
Without(cache, K) == [k \in Key |-> IF k \in K THEN NoEntry ELSE cache[k]]

\* SCAN owes nobody the keys that are gone.
NoLongerOwed(inv, K) ==
  [p \in Process |-> [inv[p] EXCEPT !.owed = @ \ K]]

InvalidateKey_RedisOnly(p, k) ==
  /\ p \in KeyInvalidator
  /\ inval[p].pc = "idle"
  /\ inval' = [inval EXCEPT ![p] =
       [NoInval EXCEPT !.pc = "del", !.keys = {k}, !.batch = {k}]]
  /\ UNCHANGED <<stores, memory, redis, calls>>

InvalidateKey(p, k) ==
  /\ p \in KeyInvalidator
  /\ inval[p].pc = "idle"
  /\ memory' = [memory EXCEPT ![p][k] = NoEntry]
  /\ inval' = [inval EXCEPT ![p] =
       [NoInval EXCEPT !.pc = "del", !.keys = {k}, !.batch = {k}]]
  /\ UNCHANGED <<stores, redis, calls>>

InvalidateAll_RedisOnly(p) ==
  /\ p \in BulkInvalidator
  /\ inval[p].pc = "idle"
  /\ inval' = [inval EXCEPT ![p] =
       [NoInval EXCEPT !.pc = "scan", !.keys = Key, !.owed = Cached(redis)]]
  /\ UNCHANGED <<stores, memory, redis, calls>>

InvalidateAll(p) ==
  /\ p \in BulkInvalidator
  /\ inval[p].pc = "idle"
  /\ memory' = [memory EXCEPT ![p] = Without(@, Key)]
  /\ inval' = [inval EXCEPT ![p] =
       [NoInval EXCEPT !.pc = "scan", !.keys = Key, !.owed = Cached(redis)]]
  /\ UNCHANGED <<stores, redis, calls>>

DeleteFromRedis_WithoutPrefix(p) ==
  /\ inval[p].pc = "del"
  /\ RedisConfigured
  /\ inval' = [inval EXCEPT ![p] = NoInval]
  /\ UNCHANGED <<stores, memory, redis, calls>>

DeleteFromRedis(p) ==
  /\ inval[p].pc = "del"
  /\ RedisConfigured
  /\ redis' = Without(redis, inval[p].batch)
  /\ inval' = NoLongerOwed([inval EXCEPT ![p] = NoInval], inval[p].batch)
  /\ UNCHANGED <<stores, memory, calls>>

ScanRedis_FirstBatchOnly(p) ==
  /\ inval[p].pc = "scan"
  /\ RedisConfigured
  /\ \E batch \in SUBSET Cached(redis) :
       inval' = [inval EXCEPT ![p] =
         IF batch = {} THEN NoInval
         ELSE [@ EXCEPT !.pc = "delBatch", !.batch = batch, !.last = TRUE]]
  /\ UNCHANGED <<stores, memory, redis, calls>>

\* SCAN returns, over its iterations, every key that was there from its
\* first to its last, and perhaps keys that were there for part of it.
ScanRedis(p) ==
  /\ inval[p].pc = "scan"
  /\ RedisConfigured
  /\ \E batch \in SUBSET Cached(redis), last \in BOOLEAN :
       /\ last => inval[p].owed \subseteq batch
       /\ last \/ batch # {}
       /\ inval' = [inval EXCEPT ![p] =
            IF batch = {} THEN NoInval
            ELSE [@ EXCEPT !.pc = "delBatch", !.batch = batch, !.last = last]]
  /\ UNCHANGED <<stores, memory, redis, calls>>

DeleteBatch(p) ==
  /\ inval[p].pc = "delBatch"
  /\ redis' = Without(redis, inval[p].batch)
  /\ inval' = NoLongerOwed([inval EXCEPT ![p] =
       IF inval[p].last THEN NoInval
       ELSE [@ EXCEPT !.pc = "scan", !.batch = {}]], inval[p].batch)
  /\ UNCHANGED <<stores, memory, calls>>

\* No client, or an error in a DEL or a SCAN: both helpers swallow it, and
\* the rest of the keys keep their entries.
InvalidateFails(p) ==
  /\ inval[p].pc # "idle"
  /\ inval' = [inval EXCEPT ![p] = NoInval]
  /\ UNCHANGED <<stores, memory, redis, calls>>

-----------------------------------------------------------------------------
(* The world around the service *)

\* A crash or a redeployment: the process starts again with nothing in it.
Restart(p) ==
  /\ p \in Restartable
  /\ memory' = [memory EXCEPT ![p] = Without(@, Key)]
  /\ calls' = [c \in Call |-> IF calls[c].proc = p THEN NoCall ELSE calls[c]]
  /\ inval' = [inval EXCEPT ![p] = NoInval]
  /\ UNCHANGED <<stores, redis>>

\* Prisma Studio, a migration or the seed: nothing in src/ writes the table.
DbWrite(k, r) ==
  /\ r # db[k]
  /\ db' = [db EXCEPT ![k] = r]
  /\ age' = [age EXCEPT ![k][r] = 0]
  /\ UNCHANGED <<memory, redis, calls, inval>>

Older(k) == [r \in Row |->
  IF r = db[k] THEN 0 ELSE IF age[k][r] < MaxAge THEN age[k][r] + 1 ELSE MaxAge]

\* Map entries stay when they expire, Redis drops its own.
TickMemory(e) == [e EXCEPT !.left = IF e.left >= 0 THEN @ - 1 ELSE -1]
TickRedis_NoExpiry(e) == e

TickRedis(e) == IF e.left > 0 THEN [e EXCEPT !.left = @ - 1] ELSE NoEntry

\* No call is in flight longer than Latency.
Tick ==
  /\ \A c \in Call : calls[c].pc \in InFlight => calls[c].lat < Latency
  /\ age' = [k \in Key |-> Older(k)]
  /\ memory' = [p \in Process |-> [k \in Key |-> TickMemory(memory[p][k])]]
  /\ redis' = [k \in Key |-> TickRedis(redis[k])]
  /\ calls' = [c \in Call |-> IF calls[c].pc \in InFlight
                              THEN [calls[c] EXCEPT !.lat = @ + 1]
                              ELSE calls[c]]
  /\ inval' = NoLongerOwed(inval, {k \in Key : redis[k].left <= 0})
  /\ UNCHANGED db

-----------------------------------------------------------------------------

CallStep(c) ==
  \/ RedisHit(c) \/ RedisMiss(c)
  \/ DbFound(c) \/ DbMissing(c) \/ ReturnDefault(c) \/ DbFails(c)
  \/ SetInRedis(c) \/ SkipSetInRedis(c) \/ SetInMemory(c)
  \/ Respond(c)

InvalidateStep(p) ==
  \/ DeleteFromRedis(p) \/ ScanRedis(p) \/ DeleteBatch(p)
  \/ InvalidateFails(p)

Next ==
  \/ \E c \in Call, p \in Process, k \in Key :
       GetHitsMemory(c, p, k) \/ GetMissesMemory(c, p, k)
  \/ \E c \in Call : CallStep(c)
  \/ \E p \in Process, k \in Key : InvalidateKey(p, k)
  \/ \E p \in Process : InvalidateAll(p) \/ InvalidateStep(p)
  \/ \E p \in Process : Restart(p)
  \/ \E k \in Key, r \in Row : DbWrite(k, r)
  \/ Tick

Spec == Init /\ [][Next]_vars

-----------------------------------------------------------------------------
(* Safety *)

HeldNow == \A k \in Key : age[k][db[k]] = 0

\* How old what Redis holds, what a process holds and what a call carries
\* may be, by the time it has left or has spent in flight.
RedisAge ==
  \A k \in Key : redis[k].value # None =>
    /\ RedisConfigured
    /\ redis[k].left >= 0
    /\ age[k][redis[k].value] + redis[k].left <= TTL + Latency

MemoryAge ==
  \A p \in Process, k \in Key : MemoryLive(memory[p][k]) =>
    age[k][memory[p][k].value] + memory[p][k].left <= StaleBound

CallAge ==
  \A c \in Call :
    LET s == calls[c] IN
    s.pc \in InFlight =>
      /\ s.proc \in Process /\ s.key \in Key
      /\ s.pc \in {"redis", "db"} => s.row = None /\ s.src = "none"
      /\ s.pc \in {"setRedis", "setMemory"} => s.row # None
      /\ s.pc = "missing" => s.row = None /\ s.src = "db"
      /\ s.pc = "setRedis" => s.src = "db"
      /\ s.pc = "setMemory" => s.src \in {"redis", "db"}
      /\ s.src = "db" => age[s.key][s.row] <= s.lat
      /\ s.src = "redis" => /\ RedisConfigured
                           /\ age[s.key][s.row] <= TTL + Latency + s.lat

\* Invariant: whatever is cached or on its way to a cache was in the table,
\* and what is left of its life never adds up to more than the bound of its
\* level, however the fills of several processes overtake each other.
CacheAgeInv == TypeOK /\ HeldNow /\ RedisAge /\ MemoryAge /\ CallAge

\* Call c gets its answer in this step.
Answers(c) == calls[c].pc # "done" /\ calls'[c].pc = "done"

\* Action property: get() never answers with a row that left the table more
\* than StaleBound ticks ago, unless the table could not be read.
AnswersBoundedStale ==
  [][\A c \in Call : Answers(c) /\ calls'[c].src # "dbError" =>
       age'[calls'[c].key][calls'[c].row] <= StaleBound]_vars

\* Action property: a row enters Redis only from the table and while it is
\* at most Latency ticks old.  A value copied from Redis to a Map is never
\* written back, which would renew its life for ever.
RedisFillIsRecent ==
  [][\A k \in Key :
       redis'[k].value # None /\ redis'[k].left = TTL /\ redis'[k] # redis[k]
         => age'[k][redis'[k].value] <= Latency]_vars

-----------------------------------------------------------------------------
(* What the caches implement: a store with bounded staleness *)

answer == [c \in Call |->
  IF calls[c].pc = "done"
  THEN [key |-> calls[c].key, row |-> calls[c].row,
        failed |-> calls[c].src = "dbError"]
  ELSE None]

\* The refinement mapping: the table and its history are the store's own,
\* caches and calls in flight are hidden, a call that is done is an answer.
Store == INSTANCE FlagStore WITH db <- db, age <- age, answer <- answer

\* Refinement: callers cannot tell the three levels from one table read
\* at most StaleBound ticks late.
ImplementsFlagStore == Store!StoreSpec
=============================================================================
