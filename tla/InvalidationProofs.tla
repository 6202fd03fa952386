------------------------- MODULE InvalidationProofs -------------------------
(***************************************************************************)
(* Theorems about InvalidationHistory, for every set of processes, keys,   *)
(* values and calls, every TTL and every latency.                          *)
(***************************************************************************)
EXTENDS InvalidationHistory, SystemConfigProofs

\* No call is about to write an old row of k to Redis.
NoOldFill(k) ==
  \A c \in Call : calls[c].pc = "setRedis" /\ calls[c].key = k =>
    calls[c].row = db[k]

\* Whatever old row Redis still holds, the invalidation of p will delete: the
\* batch has it, or the scan owes it.
WillGo(p, k) ==
  /\ inval[p].pc = "del" => k \in inval[p].batch
  /\ inval[p].pc \in {"scan", "delBatch"} /\ redis[k].value \notin {None, db[k]} =>
       k \in inval[p].owed

Quiet(p, k) ==
  /\ inval[p].pc # "idle" /\ k \in inval[p].keys
  /\ memory[p][k].value = None
  /\ \A c \in Call : ~ Reads(c, p, k)
  /\ WillGo(p, k)

Fresh(p, k) ==
  /\ MemoryLive(memory[p][k]) => memory[p][k].value = db[k]
  /\ redis[k].value # None => redis[k].value = db[k]
  /\ \A c \in Call :
       Reads(c, p, k) /\ calls[c].src # "none" => calls[c].row = db[k]

\* What the last reply of SCAN owes is in its batch.
LastBatch(p) ==
  inval[p].pc = "delBatch" /\ inval[p].last => inval[p].owed \subseteq inval[p].batch

KeyInv(p, k) ==
  /\ status[p][k] = "quiet" => NoOldFill(k) /\ Quiet(p, k)
  /\ status[p][k] = "settled" => NoOldFill(k) /\ Fresh(p, k)

\* The inductive invariant, beside CacheAgeInv.
HInv ==
  /\ status \in [Process -> [Key -> {"quiet", "busy", "settled", "finished", "none"}]]
  /\ \A p \in Process : LastBatch(p)
  /\ \A p \in Process, k \in Key : KeyInv(p, k)

-----------------------------------------------------------------------------
(* What a step does to a call, to a Map and to Redis *)

\* From s to t: ended, called anew, or in flight with the row it had, the one
\* Redis held or the one the table held.
Moves(s, t) ==
  \/ t.pc \notin InFlight
  \/ t.pc = "redis" /\ t.src = "none"
  \/ /\ s.pc \in InFlight /\ t.proc = s.proc /\ t.key = s.key
     /\ \/ t.row = s.row /\ t.src = s.src /\ (t.pc = "setRedis" => s.pc = "setRedis")
        \/ /\ t.pc = "setMemory" /\ redis[s.key].value # None
           /\ t.row = redis[s.key].value
        \/ t.row = db[s.key]

LEMMA CallMoves ==
  ASSUME CacheAgeInv, [Next]_vars, NEW c \in Call
  PROVE  Moves(calls[c], calls'[c])
<1>0. /\ \A d \in Call : calls[d] \in CallState
      /\ calls[c].pc \in CallPc
  BY DEF CacheAgeInv, TypeOK, CallState
<1>a. ASSUME NEW d \in Call, NEW t, calls' = [calls EXCEPT ![d] = t],
             Moves(calls[d], t)
      PROVE  Moves(calls[c], calls'[c])
  <2>1. CASE c = d
    BY <1>a, <2>1 DEF CacheAgeInv, TypeOK
  <2>2. CASE c # d
    <3>1. calls'[c] = calls[c]
      BY <1>a, <2>2 DEF CacheAgeInv, TypeOK
    <3> QED
      BY <3>1 DEF Moves
  <2> QED
    BY <2>1, <2>2
<1>b. \A s \in CallState : Answered(s).pc \notin InFlight
  BY DEF Answered, CallState, InFlight
<1>c. ASSUME calls'[c] = calls[c] PROVE Moves(calls[c], calls'[c])
  BY <1>c DEF Moves
<1>1. ASSUME NEW d \in Call, NEW p \in Process, NEW k \in Key,
             GetHitsMemory(d, p, k)
      PROVE  Moves(calls[c], calls'[c])
  <2> DEFINE t == [pc |-> "done", proc |-> p, key |-> k,
                   row |-> memory[p][k].value, src |-> "memory", lat |-> 0]
  <2>1. t.pc \notin InFlight
    BY DEF InFlight
  <2> QED
    BY <1>1, <1>a, <2>1 DEF GetHitsMemory, Moves
<1>2. ASSUME NEW d \in Call, NEW p \in Process, NEW k \in Key,
             GetMissesMemory(d, p, k)
      PROVE  Moves(calls[c], calls'[c])
  <2> DEFINE t == [NoCall EXCEPT !.pc = "redis", !.proc = p, !.key = k]
  <2>1. t.pc = "redis" /\ t.src = "none"
    BY DEF NoCall
  <2> QED
    BY <1>2, <1>a, <2>1 DEF GetMissesMemory, Moves
<1>3. ASSUME NEW d \in Call, RedisHit(d)
      PROVE  Moves(calls[c], calls'[c])
  <2> DEFINE t == [calls[d] EXCEPT !.pc = "setMemory", !.src = "redis",
                                   !.row = redis[calls[d].key].value]
  <2>1. /\ t.pc = "setMemory" /\ t.row = redis[calls[d].key].value
        /\ t.proc = calls[d].proc /\ t.key = calls[d].key
    BY <1>0 DEF CallState
  <2>2. Moves(calls[d], t)
    BY <1>3, <2>1 DEF RedisHit, Moves, InFlight, CallPc
  <2> QED
    BY <1>3, <1>a, <2>2 DEF RedisHit
<1>4. ASSUME NEW d \in Call, RedisMiss(d)
      PROVE  Moves(calls[c], calls'[c])
  <2> DEFINE t == [calls[d] EXCEPT !.pc = "db"]
  <2>1. /\ t.pc = "db" /\ t.row = calls[d].row /\ t.src = calls[d].src
        /\ t.proc = calls[d].proc /\ t.key = calls[d].key
    BY <1>0 DEF CallState
  <2>2. Moves(calls[d], t)
    BY <1>4, <2>1 DEF RedisMiss, Moves, InFlight, CallPc
  <2> QED
    BY <1>4, <1>a, <2>2 DEF RedisMiss
<1>5. ASSUME NEW d \in Call, DbFound(d)
      PROVE  Moves(calls[c], calls'[c])
  <2> DEFINE t == [calls[d] EXCEPT !.pc = "setRedis", !.src = "db",
                                   !.row = db[calls[d].key]]
  <2>1. /\ t.row = db[calls[d].key]
        /\ t.proc = calls[d].proc /\ t.key = calls[d].key
    BY <1>0 DEF CallState
  <2>2. Moves(calls[d], t)
    BY <1>5, <2>1 DEF DbFound, Moves, InFlight, CallPc
  <2> QED
    BY <1>5, <1>a, <2>2 DEF DbFound
<1>6. ASSUME NEW d \in Call, DbMissing(d)
      PROVE  Moves(calls[c], calls'[c])
  <2> DEFINE t == [calls[d] EXCEPT !.pc = "missing", !.src = "db"]
  <2>1. calls[d].row = None
    BY <1>6 DEF DbMissing, CacheAgeInv, CallAge, InFlight, CallPc
  <2>2. /\ t.row = db[calls[d].key]
        /\ t.proc = calls[d].proc /\ t.key = calls[d].key
    BY <1>0, <1>6, <2>1 DEF CallState, DbMissing
  <2>3. Moves(calls[d], t)
    BY <1>6, <2>2 DEF DbMissing, Moves, InFlight, CallPc
  <2> QED
    BY <1>6, <1>a, <2>3 DEF DbMissing
<1>7. ASSUME NEW d \in Call, SetInRedis(d) \/ SkipSetInRedis(d)
      PROVE  Moves(calls[c], calls'[c])
  <2> DEFINE t == [calls[d] EXCEPT !.pc = "setMemory"]
  <2>1. /\ t.pc = "setMemory" /\ t.row = calls[d].row /\ t.src = calls[d].src
        /\ t.proc = calls[d].proc /\ t.key = calls[d].key
    BY <1>0 DEF CallState
  <2>2. Moves(calls[d], t)
    BY <1>7, <2>1 DEF SetInRedis, SkipSetInRedis, Moves, InFlight, CallPc
  <2> QED
    BY <1>7, <1>a, <2>2 DEF SetInRedis, SkipSetInRedis
<1>8. ASSUME NEW d \in Call, ReturnDefault(d) \/ SetInMemory(d)
      PROVE  Moves(calls[c], calls'[c])
  <2>1. Moves(calls[d], Answered(calls[d]))
    BY <1>0, <1>b DEF Moves
  <2> QED
    BY <1>8, <1>a, <2>1 DEF ReturnDefault, SetInMemory
<1>9. ASSUME NEW d \in Call, DbFails(d)
      PROVE  Moves(calls[c], calls'[c])
  <2>1. [calls[d] EXCEPT !.src = "dbError"] \in CallState
    BY <1>0 DEF CallState, Source
  <2>2. Moves(calls[d], Answered([calls[d] EXCEPT !.src = "dbError"]))
    BY <1>b, <2>1 DEF Moves
  <2> QED
    BY <1>9, <1>a, <2>2 DEF DbFails
<1>10. ASSUME NEW d \in Call, Respond(d)
       PROVE  Moves(calls[c], calls'[c])
  <2>1. Moves(calls[d], NoCall)
    BY DEF Moves, NoCall, InFlight
  <2> QED
    BY <1>10, <1>a, <2>1 DEF Respond
<1>11. ASSUME NEW p \in Process, Restart(p)
       PROVE  Moves(calls[c], calls'[c])
  <2>1. calls'[c] \in {NoCall, calls[c]}
    BY <1>11 DEF Restart
  <2> QED
    BY <2>1 DEF Moves, NoCall, InFlight
<1>12. CASE Tick
  <2>1. calls[c].pc \in InFlight =>
          calls'[c] = [calls[c] EXCEPT !.lat = calls[c].lat + 1]
    BY <1>12 DEF Tick
  <2>2. calls[c].pc \notin InFlight => calls'[c] = calls[c]
    BY <1>12 DEF Tick
  <2>3. calls[c].pc \in InFlight =>
          /\ calls'[c].row = calls[c].row /\ calls'[c].src = calls[c].src
          /\ calls'[c].proc = calls[c].proc /\ calls'[c].key = calls[c].key
          /\ calls'[c].pc = calls[c].pc
    BY <1>0, <2>1 DEF CallState
  <2> QED
    BY <2>2, <2>3 DEF Moves
<1>13. CASE UNCHANGED calls
  BY <1>13, <1>c
<1> QED
  BY <1>1, <1>2, <1>3, <1>4, <1>5, <1>6, <1>7, <1>8, <1>9, <1>10, <1>11,
     <1>12, <1>13
  DEF Next, CallStep, InvalidateStep, vars, InvalidateKey, InvalidateAll,
      DeleteFromRedis, ScanRedis, DeleteBatch, InvalidateFails, DbWrite

LEMMA MemoryMoves ==
  ASSUME CacheAgeInv, [Next]_vars, NEW p \in Process, NEW k \in Key
  PROVE  \/ memory'[p][k].value = None
         \/ /\ memory'[p][k].value = memory[p][k].value
            /\ MemoryLive(memory[p][k])' => MemoryLive(memory[p][k])
         \/ \E c \in Call : /\ Reads(c, p, k) /\ calls[c].src # "none"
                            /\ memory'[p][k].value = calls[c].row
<1> DEFINE Goal ==
      \/ memory'[p][k].value = None
      \/ /\ memory'[p][k].value = memory[p][k].value
         /\ MemoryLive(memory[p][k])' => MemoryLive(memory[p][k])
      \/ \E c \in Call : /\ Reads(c, p, k) /\ calls[c].src # "none"
                         /\ memory'[p][k].value = calls[c].row
<1>0. memory \in [Process -> [Key -> Entry]] /\ memory[p][k] \in Entry
  BY DEF CacheAgeInv, TypeOK
<1>a. ASSUME memory'[p][k] = memory[p][k] PROVE Goal
  BY <1>a
<1>b. ASSUME memory'[p][k] = NoEntry PROVE Goal
  BY <1>b DEF NoEntry
<1>1. ASSUME NEW c \in Call, NEW q \in Process, NEW l \in Key,
             GetMissesMemory(c, q, l)
      PROVE  Goal
  <2>1. memory'[p][k] \in {NoEntry, memory[p][k]}
    BY <1>0, <1>1 DEF GetMissesMemory
  <2> QED
    BY <1>a, <1>b, <2>1
<1>2. ASSUME NEW c \in Call, SetInMemory(c)
      PROVE  Goal
  <2>1. /\ calls[c].pc = "setMemory" /\ calls[c].proc \in Process
        /\ calls[c].key \in Key /\ calls[c].src # "none"
    BY <1>2 DEF SetInMemory, CacheAgeInv, CallAge, InFlight, CallPc
  <2>2. CASE calls[c].proc = p /\ calls[c].key = k
    <3>1. memory'[p][k] = NewEntry(calls[c].row)
      BY <1>0, <1>2, <2>2 DEF SetInMemory
    <3> QED
      BY <2>1, <2>2, <3>1 DEF NewEntry, Reads, InFlight, CallPc
  <2>3. CASE ~ (calls[c].proc = p /\ calls[c].key = k)
    <3>1. memory'[p][k] = memory[p][k]
      BY <1>0, <1>2, <2>1, <2>3 DEF SetInMemory
    <3> QED
      BY <1>a, <3>1
  <2> QED
    BY <2>2, <2>3
<1>3. ASSUME NEW q \in Process, NEW l \in Key, InvalidateKey(q, l)
      PROVE  Goal
  <2>1. memory'[p][k] \in {NoEntry, memory[p][k]}
    BY <1>0, <1>3 DEF InvalidateKey
  <2> QED
    BY <1>a, <1>b, <2>1
<1>4. ASSUME NEW q \in Process, InvalidateAll(q) \/ Restart(q)
      PROVE  Goal
  <2>1. memory'[p][k] \in {NoEntry, memory[p][k]}
    BY <1>0, <1>4 DEF InvalidateAll, Restart, Without
  <2> QED
    BY <1>a, <1>b, <2>1
<1>5. CASE Tick
  <2>1. memory'[p][k] = TickMemory(memory[p][k])
    BY <1>5 DEF Tick
  <2>2. /\ memory'[p][k].value = memory[p][k].value
        /\ memory'[p][k].left =
             IF memory[p][k].left >= 0 THEN memory[p][k].left - 1 ELSE -1
    BY <1>0, <2>1 DEF TickMemory, Entry
  <2>3. memory[p][k].left \in -1..TTL /\ TTL \in Nat
    BY <1>0, SystemConfigAssumption DEF Entry
  <2> QED
    BY <2>2, <2>3 DEF MemoryLive
<1>6. CASE UNCHANGED memory
  BY <1>6, <1>a
<1> QED
  BY <1>1, <1>2, <1>3, <1>4, <1>5, <1>6
  DEF Next, CallStep, InvalidateStep, vars, GetHitsMemory, RedisHit, RedisMiss,
      DbFound, DbMissing, ReturnDefault, DbFails, SetInRedis, SkipSetInRedis,
      Respond, DeleteFromRedis, ScanRedis, DeleteBatch, InvalidateFails, DbWrite

LEMMA RedisMoves ==
  ASSUME CacheAgeInv, [Next]_vars, NEW k \in Key
  PROVE  \/ redis'[k].value \in {None, redis[k].value}
         \/ \E c \in Call : /\ calls[c].pc = "setRedis" /\ calls[c].key = k
                            /\ redis'[k].value = calls[c].row
<1> DEFINE Goal ==
      \/ redis'[k].value \in {None, redis[k].value}
      \/ \E c \in Call : /\ calls[c].pc = "setRedis" /\ calls[c].key = k
                         /\ redis'[k].value = calls[c].row
<1>0. redis \in [Key -> Entry] /\ redis[k] \in Entry
  BY DEF CacheAgeInv, TypeOK
<1>1. ASSUME NEW c \in Call, SetInRedis(c)
      PROVE  Goal
  <2>1. calls[c].pc = "setRedis"
    BY <1>1 DEF SetInRedis
  <2>2. redis'[k] = IF calls[c].key = k THEN NewEntry(calls[c].row) ELSE redis[k]
    BY <1>0, <1>1 DEF SetInRedis
  <2> QED
    BY <2>1, <2>2 DEF NewEntry
<1>2. ASSUME NEW p \in Process, DeleteFromRedis(p) \/ DeleteBatch(p)
      PROVE  Goal
  <2>1. redis'[k] \in {NoEntry, redis[k]}
    BY <1>2 DEF DeleteFromRedis, DeleteBatch, Without
  <2> QED
    BY <2>1 DEF NoEntry
<1>3. CASE Tick
  <2>1. redis'[k] = TickRedis(redis[k])
    BY <1>3 DEF Tick
  <2> QED
    BY <1>0, <2>1 DEF TickRedis, NoEntry, Entry
<1>4. CASE UNCHANGED redis
  BY <1>4
<1> QED
  BY <1>1, <1>2, <1>3, <1>4
  DEF Next, CallStep, InvalidateStep, vars, GetHitsMemory, GetMissesMemory,
      RedisHit, RedisMiss, DbFound, DbMissing, ReturnDefault, DbFails,
      SkipSetInRedis, SetInMemory, Respond, InvalidateKey, InvalidateAll,
      ScanRedis, InvalidateFails, Restart, DbWrite

-----------------------------------------------------------------------------
(* What a step does to an invalidation *)

\* Redis has lost the keys K, and the scan no longer owes them.
AfterLoss(inv, next, K) ==
  /\ next.pc = inv.pc /\ next.keys = inv.keys
  /\ next.batch = inv.batch /\ next.last = inv.last
  /\ next.owed = inv.owed \ K

LEMMA NotOwed ==
  ASSUME NEW inv \in [Process -> InvalState], NEW K, NEW p \in Process
  PROVE  AfterLoss(inv[p], NoLongerOwed(inv, K)[p], K)
BY DEF NoLongerOwed, InvalState, AfterLoss

\* The ways in which the invalidation of p goes on, or that of others and the
\* clock take keys from what it owes.
Lost(p, K) ==
  /\ AfterLoss(inval[p], inval'[p], K)
  /\ \A k \in Key \cap K : redis'[k].value = None

Begins(p) ==
  /\ inval[p].pc = "idle" /\ UNCHANGED <<db, redis, calls>>
  /\ \/ \E k \in Key : /\ inval'[p] = [NoInval EXCEPT !.pc = "del", !.keys = {k},
                                                      !.batch = {k}]
                       /\ memory'[p][k] = NoEntry
     \/ /\ inval'[p] = [NoInval EXCEPT !.pc = "scan", !.keys = Key,
                                       !.owed = Cached(redis)]
        /\ \A k \in Key : memory'[p][k] = NoEntry

Scans(p) ==
  /\ inval[p].pc = "scan" /\ UNCHANGED <<db, redis, calls>>
  /\ \E batch \in SUBSET Key, last \in BOOLEAN :
       /\ last => inval[p].owed \subseteq batch
       /\ batch # {}
       /\ inval'[p] = [inval[p] EXCEPT !.pc = "delBatch", !.batch = batch,
                                       !.last = last]

NextBatch(p) ==
  /\ inval[p].pc = "delBatch" /\ ~ inval[p].last
  /\ inval'[p].pc = "scan" /\ inval'[p].keys = inval[p].keys
  /\ inval'[p].owed = inval[p].owed \ inval[p].batch
  /\ \A k \in Key \cap inval[p].batch : redis'[k].value = None

LEMMA InvalMoves ==
  ASSUME CacheAgeInv, [Next]_vars, NEW p \in Process
  PROVE  \/ inval'[p].pc = "idle"
         \/ \E K \in SUBSET Key : Lost(p, K)
         \/ Begins(p) \/ Scans(p) \/ NextBatch(p)
<1> DEFINE Goal ==
      \/ inval'[p].pc = "idle"
      \/ \E K \in SUBSET Key : Lost(p, K)
      \/ Begins(p) \/ Scans(p) \/ NextBatch(p)
<1>0. /\ inval \in [Process -> InvalState] /\ inval[p] \in InvalState
      /\ memory \in [Process -> [Key -> Entry]]
      /\ NoInval.pc = "idle" /\ NoInval \in InvalState
  BY DEF CacheAgeInv, TypeOK, NoInval, InvalState
<1>a. ASSUME inval'[p] = inval[p] PROVE Goal
  <2>1. Lost(p, {})
    BY <1>0, <1>a DEF Lost, AfterLoss, InvalState
  <2> QED
    BY <2>1
<1>b. ASSUME inval'[p] = NoInval PROVE Goal
  BY <1>0, <1>b
<1>1. ASSUME NEW q \in Process, NEW l \in Key, InvalidateKey(q, l)
      PROVE  Goal
  <2>1. CASE p = q
    <3>1. Begins(p)
      BY <1>0, <1>1, <2>1 DEF InvalidateKey, Begins, stores
    <3> QED
      BY <3>1
  <2>2. CASE p # q
    BY <1>0, <1>1, <1>a, <2>2 DEF InvalidateKey
  <2> QED
    BY <2>1, <2>2
<1>2. ASSUME NEW q \in Process, InvalidateAll(q)
      PROVE  Goal
  <2>1. CASE p = q
    <3>1. Begins(p)
      BY <1>0, <1>2, <2>1 DEF InvalidateAll, Begins, stores, Without
    <3> QED
      BY <3>1
  <2>2. CASE p # q
    BY <1>0, <1>2, <1>a, <2>2 DEF InvalidateAll
  <2> QED
    BY <2>1, <2>2
<1>3. ASSUME NEW q \in Process, DeleteFromRedis(q)
      PROVE  Goal
  <2> DEFINE inv == [inval EXCEPT ![q] = NoInval]
             K == inval[q].batch
  <2>1. /\ inv \in [Process -> InvalState] /\ inval' = NoLongerOwed(inv, K)
        /\ K \in SUBSET Key /\ redis' = Without(redis, K)
    BY <1>0, <1>3 DEF DeleteFromRedis, InvalState
  <2>n. AfterLoss(inv[p], inval'[p], K)
    <3> HIDE DEF inv, K
    <3> QED
      BY <2>1, NotOwed DEF AfterLoss
  <2>k. \A k \in Key \cap K : redis'[k].value = None
    BY <2>1 DEF Without, NoEntry
  <2>2. CASE p = q
    <3>1. inv[p].pc = "idle"
      BY <1>0, <2>2
    <3> QED
      BY <2>n, <3>1 DEF AfterLoss
  <2>3. CASE p # q
    <3>1. inv[p] = inval[p]
      BY <1>0, <2>3
    <3> HIDE DEF inv, K
    <3>2. Lost(p, K)
      BY <2>n, <2>k, <3>1 DEF Lost
    <3> QED
      BY <2>1, <3>2
  <2> QED
    BY <2>2, <2>3
<1>4. ASSUME NEW q \in Process, ScanRedis(q)
      PROVE  Goal
  <2>1. CASE p = q
    <3>1. PICK batch \in SUBSET Cached(redis), last \in BOOLEAN :
            /\ last => inval[q].owed \subseteq batch
            /\ last \/ batch # {}
            /\ inval' = [inval EXCEPT ![q] =
                 IF batch = {} THEN NoInval
                 ELSE [@ EXCEPT !.pc = "delBatch", !.batch = batch, !.last = last]]
      BY <1>4 DEF ScanRedis
    <3>2. CASE batch = {}
      BY <1>0, <1>b, <2>1, <3>1, <3>2
    <3>3. CASE batch # {}
      <4>1. inval'[p] = [inval[p] EXCEPT !.pc = "delBatch", !.batch = batch,
                                         !.last = last]
        BY <1>0, <2>1, <3>1, <3>3
      <4>2. Scans(p)
        BY <1>4, <2>1, <3>1, <3>3, <4>1 DEF Scans, ScanRedis, stores, Cached
      <4> QED
        BY <4>2
    <3> QED
      BY <3>2, <3>3
  <2>2. CASE p # q
    <3>1. inval'[p] = inval[p]
      BY <1>0, <1>4, <2>2 DEF ScanRedis
    <3> QED
      BY <3>1, <1>a
  <2> QED
    BY <2>1, <2>2
<1>5. ASSUME NEW q \in Process, DeleteBatch(q)
      PROVE  Goal
  <2> DEFINE s == IF inval[q].last THEN NoInval
                  ELSE [inval[q] EXCEPT !.pc = "scan", !.batch = {}]
             inv == [inval EXCEPT ![q] = s]
             K == inval[q].batch
  <2>0. inval[q] \in InvalState
    BY <1>0
  <2>1. s \in InvalState
    BY <1>0, <2>0 DEF InvalState
  <2>2. /\ inval' = NoLongerOwed(inv, K) /\ redis' = Without(redis, K)
        /\ inval[q].pc = "delBatch"
    BY <1>5 DEF DeleteBatch
  <2>3. K \in SUBSET Key /\ inv \in [Process -> InvalState]
    BY <1>0, <2>0, <2>1 DEF InvalState
  <2>n. AfterLoss(inv[p], inval'[p], K)
    <3> HIDE DEF inv, K
    <3> QED
      BY <2>2, <2>3, NotOwed DEF AfterLoss
  <2>k. \A k \in Key \cap K : redis'[k].value = None
    BY <2>2 DEF Without, NoEntry
  <2>4. CASE p = q /\ inval[q].last
    <3>1. inv[p].pc = "idle"
      BY <1>0, <2>4
    <3> QED
      BY <2>n, <3>1 DEF AfterLoss
  <2>5. CASE p = q /\ ~ inval[q].last
    <3>1. /\ inv[p].pc = "scan" /\ inv[p].keys = inval[p].keys
          /\ inv[p].owed = inval[p].owed
      BY <1>0, <2>5 DEF InvalState
    <3>2. NextBatch(p)
      BY <2>2, <2>5, <2>n, <2>k, <3>1 DEF NextBatch, AfterLoss
    <3> QED
      BY <3>2
  <2>6. CASE p # q
    <3>1. inv[p] = inval[p]
      BY <1>0, <2>6
    <3> HIDE DEF inv, K
    <3>2. Lost(p, K)
      BY <2>n, <2>k, <3>1 DEF Lost
    <3> QED
      BY <2>3, <3>2
  <2> QED
    BY <2>4, <2>5, <2>6
<1>6. ASSUME NEW q \in Process, InvalidateFails(q) \/ Restart(q)
      PROVE  Goal
  <2>1. inval'[p] \in {NoInval, inval[p]}
    BY <1>0, <1>6 DEF InvalidateFails, Restart
  <2> QED
    BY <1>a, <1>b, <2>1
<1>7. CASE Tick
  <2> DEFINE K == {k \in Key : redis[k].left <= 0}
  <2>1. inval' = NoLongerOwed(inval, K)
    BY <1>7 DEF Tick
  <2>2. \A k \in K : redis'[k].value = None
    <3> SUFFICES ASSUME NEW k \in K PROVE redis'[k] = NoEntry
      BY DEF NoEntry
    <3>1. redis[k].left \in -1..TTL /\ redis[k].left <= 0
      BY DEF CacheAgeInv, TypeOK, Entry
    <3> QED
      BY <1>7, <3>1, SystemConfigAssumption DEF Tick, TickRedis
  <2>3. Lost(p, K)
    BY <1>0, <2>1, <2>2, NotOwed DEF Lost
  <2> QED
    BY <2>3
<1>8. CASE UNCHANGED inval
  BY <1>8, <1>a
<1> QED
  BY <1>1, <1>2, <1>3, <1>4, <1>5, <1>6, <1>7, <1>8
  DEF Next, CallStep, InvalidateStep, vars, GetHitsMemory, GetMissesMemory,
      RedisHit, RedisMiss, DbFound, DbMissing, ReturnDefault, DbFails,
      SetInRedis, SkipSetInRedis, SetInMemory, Respond, DbWrite

LEMMA LastBatchStep ==
  ASSUME CacheAgeInv, [Next]_vars, NEW p \in Process, LastBatch(p)
  PROVE  LastBatch(p)'
<1>0. inval[p] \in InvalState
  BY DEF CacheAgeInv, TypeOK
<1>1. CASE inval'[p].pc = "idle"
  BY <1>1 DEF LastBatch
<1>2. ASSUME NEW K \in SUBSET Key, Lost(p, K) PROVE LastBatch(p)'
  BY <1>2 DEF Lost, AfterLoss, LastBatch
<1>3. CASE Begins(p) \/ NextBatch(p)
  <2>1. inval'[p].pc \in {"del", "scan"}
    BY <1>3 DEF Begins, NextBatch, NoInval
  <2> QED
    BY <2>1 DEF LastBatch
<1>4. CASE Scans(p)
  BY <1>0, <1>4 DEF Scans, LastBatch, InvalState
<1> QED
  BY <1>1, <1>2, <1>3, <1>4, InvalMoves

-----------------------------------------------------------------------------
(* The invariant is kept, for one process and one key *)

LEMMA NoOldFillStays ==
  ASSUME CacheAgeInv, [Next]_vars, NEW k \in Key, NoOldFill(k), db'[k] = db[k]
  PROVE  NoOldFill(k)'
<1> SUFFICES ASSUME NEW c \in Call, calls'[c].pc = "setRedis", calls'[c].key = k
             PROVE  calls'[c].row = db[k]
  BY DEF NoOldFill
<1>1. "setRedis" \in InFlight
  BY DEF InFlight, CallPc
<1>2. Moves(calls[c], calls'[c])
  BY CallMoves
<1> QED
  BY <1>1, <1>2 DEF Moves, NoOldFill

LEMMA RedisStaysFresh ==
  ASSUME CacheAgeInv, [Next]_vars, NEW k \in Key, NoOldFill(k)
  PROVE  redis'[k].value \in {None, db[k], redis[k].value}
BY RedisMoves DEF NoOldFill

LEMMA FreshStays ==
  ASSUME CacheAgeInv, [Next]_vars, NEW p \in Process, NEW k \in Key,
         NoOldFill(k), Fresh(p, k), db'[k] = db[k]
  PROVE  Fresh(p, k)'
<1>1. MemoryLive(memory[p][k])' => memory'[p][k].value = db[k]
  <2>1. MemoryLive(memory[p][k])' => memory'[p][k].value # None
    BY DEF MemoryLive
  <2> QED
    BY <2>1, MemoryMoves DEF Fresh
<1>2. redis'[k].value # None => redis'[k].value = db[k]
  BY RedisStaysFresh DEF Fresh
<1>3. ASSUME NEW c \in Call, Reads(c, p, k)', calls'[c].src # "none"
      PROVE  calls'[c].row = db[k]
  <2>1. Moves(calls[c], calls'[c])
    BY CallMoves
  <2>2. calls'[c].pc \in InFlight /\ calls'[c].proc = p /\ calls'[c].key = k
    BY <1>3 DEF Reads
  <2> QED
    BY <1>3, <2>1, <2>2 DEF Moves, Reads, Fresh
<1> QED
  BY <1>1, <1>2, <1>3 DEF Fresh

LEMMA QuietStays ==
  ASSUME CacheAgeInv, [Next]_vars, NEW p \in Process, NEW k \in Key,
         NoOldFill(k), Quiet(p, k), db'[k] = db[k],
         inval'[p].pc # "idle", \A c \in Call : ~ Reads(c, p, k)'
  PROVE  Quiet(p, k)'
<1>0. /\ inval[p].pc # "idle" /\ k \in inval[p].keys
      /\ inval[p] \in InvalState
  BY DEF Quiet, CacheAgeInv, TypeOK
<1>1. memory'[p][k].value = None
  BY MemoryMoves DEF Quiet
<1>2. redis'[k].value \notin {None, db[k]} => redis'[k].value = redis[k].value
  BY RedisStaysFresh
<1>3. ASSUME NEW K \in SUBSET Key, Lost(p, K)
      PROVE  k \in inval'[p].keys /\ WillGo(p, k)'
  <2>1. redis'[k].value \notin {None, db[k]} => k \notin K
    BY <1>3 DEF Lost
  <2> QED
    BY <1>0, <1>2, <1>3, <2>1 DEF Lost, AfterLoss, Quiet, WillGo
<1>4. CASE Scans(p)
  <2>1. PICK batch \in SUBSET Key, last \in BOOLEAN :
          inval'[p] = [inval[p] EXCEPT !.pc = "delBatch", !.batch = batch,
                                       !.last = last]
    BY <1>4 DEF Scans
  <2>2. /\ inval'[p].pc = "delBatch" /\ inval'[p].keys = inval[p].keys
        /\ inval'[p].owed = inval[p].owed
    BY <1>0, <2>1 DEF InvalState
  <2> QED
    BY <1>0, <1>1, <1>4, <2>2 DEF Scans, Quiet, WillGo
<1>5. CASE NextBatch(p)
  <2>1. redis'[k].value \notin {None, db[k]} => k \notin inval[p].batch
    BY <1>5 DEF NextBatch
  <2> QED
    BY <1>0, <1>1, <1>2, <1>5, <2>1 DEF NextBatch, Quiet, WillGo
<1>6. ~ Begins(p)
  BY <1>0 DEF Begins
<1> QED
  BY <1>1, <1>3, <1>4, <1>5, <1>6, InvalMoves DEF Quiet

LEMMA QuietBegins ==
  ASSUME CacheAgeInv, [Next]_vars, NEW p \in Process, NEW k \in Key,
         Starts(p), k \in inval'[p].keys, \A c \in Call : ~ InTheWay(c, p, k)
  PROVE  NoOldFill(k)' /\ Quiet(p, k)'
<1>1. Begins(p)
  <2>1. inval[p].pc = "idle" /\ inval'[p].pc # "idle"
    BY DEF Starts
  <2> QED
    BY <2>1, InvalMoves DEF Lost, AfterLoss, Scans, NextBatch
<1>2. UNCHANGED <<db, redis, calls>>
  BY <1>1 DEF Begins
<1>3. NoOldFill(k)' /\ \A c \in Call : ~ Reads(c, p, k)'
  BY <1>2 DEF NoOldFill, InTheWay, Reads
<1>4. ASSUME NEW l \in Key,
             inval'[p] = [NoInval EXCEPT !.pc = "del", !.keys = {l}, !.batch = {l}],
             memory'[p][l] = NoEntry
      PROVE  Quiet(p, k)'
  <2>1. inval'[p].pc = "del" /\ inval'[p].keys = {l} /\ inval'[p].batch = {l}
    BY <1>4 DEF NoInval
  <2> QED
    BY <1>3, <1>4, <2>1 DEF Quiet, WillGo, NoEntry
<1>5. ASSUME inval'[p] = [NoInval EXCEPT !.pc = "scan", !.keys = Key,
                                         !.owed = Cached(redis)],
             memory'[p][k] = NoEntry
      PROVE  Quiet(p, k)'
  <2>1. inval'[p].pc = "scan" /\ inval'[p].owed = Cached(redis)
    BY <1>5 DEF NoInval
  <2> QED
    BY <1>2, <1>3, <1>5, <2>1 DEF Quiet, WillGo, NoEntry, Cached
<1> QED
  BY <1>1, <1>3, <1>4, <1>5 DEF Begins

LEMMA QuietEnds ==
  ASSUME CacheAgeInv, NEW p \in Process, NEW k \in Key,
         NoOldFill(k), Quiet(p, k), LastBatch(p),
         inval'[p].pc = "idle", Deletes(p)
  PROVE  NoOldFill(k)' /\ Fresh(p, k)'
<1>0. inval \in [Process -> InvalState] /\ inval[p] \in InvalState
  BY DEF CacheAgeInv, TypeOK
<1>1. UNCHANGED <<db, memory, calls>>
  BY DEF Deletes, DeleteFromRedis, ScanRedis, DeleteBatch, stores
<1>2. redis'[k].value \in {None, db[k]}
  <2>1. CASE DeleteFromRedis(p)
    <3>1. k \in inval[p].batch
      BY <2>1 DEF DeleteFromRedis, Quiet, WillGo
    <3> QED
      BY <2>1, <3>1 DEF DeleteFromRedis, Without, NoEntry
  <2>2. CASE ScanRedis(p)
    <3>1. PICK batch \in SUBSET Cached(redis), last \in BOOLEAN :
            /\ last => inval[p].owed \subseteq batch
            /\ last \/ batch # {}
            /\ inval' = [inval EXCEPT ![p] =
                 IF batch = {} THEN NoInval
                 ELSE [@ EXCEPT !.pc = "delBatch", !.batch = batch, !.last = last]]
      BY <2>2 DEF ScanRedis
    <3>2. batch # {} => inval'[p].pc = "delBatch"
      BY <1>0, <3>1 DEF InvalState
    <3>3. inval[p].owed = {}
      BY <3>1, <3>2
    <3> QED
      BY <2>2, <3>3 DEF ScanRedis, Quiet, WillGo
  <2>3. CASE DeleteBatch(p)
    <3> DEFINE s == IF inval[p].last THEN NoInval
                    ELSE [inval[p] EXCEPT !.pc = "scan", !.batch = {}]
               inv == [inval EXCEPT ![p] = s]
               K == inval[p].batch
    <3>1. inval' = NoLongerOwed(inv, K) /\ redis' = Without(redis, K)
          /\ inval[p].pc = "delBatch"
      BY <2>3 DEF DeleteBatch
    <3>2. s \in InvalState
      BY <1>0 DEF InvalState, NoInval
    <3>3. inv \in [Process -> InvalState] /\ inv[p] = s
      BY <1>0, <3>2
    <3>4. inval'[p].pc = s.pc
      <4> HIDE DEF s, inv, K
      <4> QED
        BY <3>1, <3>3, NotOwed DEF AfterLoss
    <3>5. inval[p].last
      BY <1>0, <3>4 DEF InvalState
    <3>6. inval[p].owed \subseteq K
      BY <3>1, <3>5 DEF LastBatch
    <3> QED
      BY <3>1, <3>6 DEF Quiet, WillGo, Without, NoEntry
  <2> QED
    BY <2>1, <2>2, <2>3 DEF Deletes
<1> QED
  BY <1>1, <1>2 DEF NoOldFill, Fresh, Quiet, MemoryLive, Reads

LEMMA KeyInvStep ==
  ASSUME CacheAgeInv, HInv, HNext, NEW p \in Process, NEW k \in Key
  PROVE  KeyInv(p, k)'
<1>0. /\ [Next]_vars /\ status'[p][k] = NextStatus(p, k)
      /\ LastBatch(p) /\ KeyInv(p, k)
  BY DEF HNext, HInv
<1>1. ASSUME status'[p][k] = "quiet" PROVE NoOldFill(k)' /\ Quiet(p, k)'
  <2>1. /\ db'[k] = db[k]
        /\ \/ /\ Starts(p) /\ k \in inval'[p].keys
              /\ \A c \in Call : ~ InTheWay(c, p, k)
           \/ /\ status[p][k] = "quiet" /\ ~ Ends(p)
              /\ \A c \in Call : ~ Reads(c, p, k)'
    BY <1>0, <1>1 DEF NextStatus
  <2>2. CASE status[p][k] = "quiet" /\ ~ Ends(p)
             /\ \A c \in Call : ~ Reads(c, p, k)'
    <3>1. NoOldFill(k) /\ Quiet(p, k)
      BY <1>0, <2>2 DEF KeyInv
    <3>2. inval'[p].pc # "idle"
      BY <2>2, <3>1 DEF Ends, Quiet
    <3> QED
      BY <1>0, <2>1, <2>2, <3>1, <3>2, NoOldFillStays, QuietStays
  <2> QED
    BY <1>0, <2>1, <2>2, QuietBegins
<1>2. ASSUME status'[p][k] = "settled" PROVE NoOldFill(k)' /\ Fresh(p, k)'
  <2>1. /\ db'[k] = db[k]
        /\ \/ status[p][k] = "settled"
           \/ status[p][k] = "quiet" /\ Ends(p) /\ Deletes(p)
    BY <1>0, <1>2 DEF NextStatus
  <2>2. CASE status[p][k] = "settled"
    <3>1. NoOldFill(k) /\ Fresh(p, k)
      BY <1>0, <2>2 DEF KeyInv
    <3> QED
      BY <1>0, <2>1, <3>1, NoOldFillStays, FreshStays
  <2>3. CASE status[p][k] = "quiet" /\ Ends(p) /\ Deletes(p)
    <3>1. NoOldFill(k) /\ Quiet(p, k) /\ inval'[p].pc = "idle"
      BY <1>0, <2>3 DEF KeyInv, Ends
    <3> QED
      BY <1>0, <2>3, <3>1, QuietEnds
  <2> QED
    BY <2>1, <2>2, <2>3
<1> QED
  BY <1>1, <1>2 DEF KeyInv

-----------------------------------------------------------------------------

LEMMA HInvInit == HInit => HInv
<1> SUFFICES ASSUME HInit PROVE HInv
  OBVIOUS
<1>1. \A p \in Process, k \in Key : status[p][k] = "none"
  BY DEF HInit
<1>2. \A p \in Process : inval[p].pc = "idle"
  BY DEF HInit, Init, NoInval
<1> QED
  BY <1>1, <1>2 DEF HInit, HInv, LastBatch, KeyInv

LEMMA HInvStep == CacheAgeInv /\ HInv /\ [HNext]_hvars => HInv'
<1> SUFFICES ASSUME CacheAgeInv, HInv, [HNext]_hvars PROVE HInv'
  OBVIOUS
<1>1. CASE HNext
  <2>1. [Next]_vars
    BY <1>1 DEF HNext
  <2>2. status' \in [Process -> [Key -> {"quiet", "busy", "settled", "finished", "none"}]]
    <3>1. \A p \in Process, k \in Key :
            NextStatus(p, k) \in {"quiet", "busy", "settled", "finished", "none"}
      BY DEF NextStatus, HInv
    <3> QED
      BY <1>1, <3>1 DEF HNext
  <2> QED
    BY <1>1, <2>1, <2>2, LastBatchStep, KeyInvStep DEF HInv
<1>2. CASE UNCHANGED hvars
  BY <1>2 DEF hvars, vars, HInv, LastBatch, KeyInv, NoOldFill, Quiet, WillGo,
     Fresh, Reads, MemoryLive
<1> QED
  BY <1>1, <1>2

\* A history changes nothing: what is proved of the service holds here.
LEMMA HistoryOnly == HSpec => Spec
<1>1. HInit => Init
  BY DEF HInit
<1>2. [HNext]_hvars => [Next]_vars
  BY DEF HNext, hvars
<1> QED
  BY <1>1, <1>2, PTL DEF HSpec, Spec

\* The invariant that follows an invalidation from its start: while it is
\* quiet, whatever old row Redis holds it will still delete, and no call can
\* put one back (system-config.service.ts:149-159).
THEOREM InvalidationInvariant == HSpec => [](CacheAgeInv /\ HInv)
<1>1. HSpec => []CacheAgeInv
  BY HistoryOnly, CacheAgesAreBounded, PTL
<1> QED
  BY <1>1, HInvInit, HInvStep, PTL DEF HSpec

\* After a quiet invalidate() nothing the process can be served for the key
\* differs from the table (system-config.service.ts:143-159).
THEOREM SettledStaysFresh == HSpec => []SettledIsFresh
<1>1. HInv => SettledIsFresh
  BY DEF HInv, KeyInv, Fresh, SettledIsFresh
<1> QED
  BY <1>1, InvalidationInvariant, PTL

LEMMA SettledAnswer ==
  ASSUME CacheAgeInv, HInv, [HNext]_hvars, NEW c \in Call, NEW p \in Process,
         NEW k \in Key, status[p][k] = "settled", Answers(c),
         calls'[c].proc = p, calls'[c].key = k, calls'[c].src # "dbError"
  PROVE  calls'[c].row = db[k]
<1>0. /\ Fresh(p, k) /\ calls[c] \in CallState
      /\ \A d \in Call : calls[d] \in CallState
  BY DEF HInv, KeyInv, CacheAgeInv, TypeOK
<1>1. [Next]_vars
  BY DEF HNext, hvars
<1>2. ASSUME NEW q \in Process, NEW l \in Key, GetHitsMemory(c, q, l)
      PROVE  calls'[c].row = db[k]
  <2>1. calls'[c] = [pc |-> "done", proc |-> q, key |-> l,
          row |-> memory[q][l].value, src |-> "memory", lat |-> 0]
    BY <1>2 DEF GetHitsMemory, CacheAgeInv, TypeOK
  <2> QED
    BY <1>0, <1>2, <2>1 DEF GetHitsMemory, Fresh
<1>3. CASE ReturnDefault(c) \/ SetInMemory(c)
  <2>1. calls'[c] = Answered(calls[c]) /\ calls[c].pc \in {"missing", "setMemory"}
    BY <1>3 DEF ReturnDefault, SetInMemory, CacheAgeInv, TypeOK
  <2>2. /\ calls'[c].row = calls[c].row /\ calls[c].proc = p /\ calls[c].key = k
        /\ calls[c].pc \in InFlight /\ calls[c].src # "none"
    BY <1>0, <2>1 DEF Answered, CallState, CacheAgeInv, CallAge, InFlight, CallPc
  <2> QED
    BY <1>0, <2>2 DEF Fresh, Reads
<1> QED
  BY <1>1, <1>2, <1>3, AnswerKinds

\* After a quiet invalidate() every get() of the process answers with the row
\* as it is, until the row is written again (system-config.service.ts:143-145).
THEOREM SettledReadsStayCurrent == HSpec => SettledReadsAreCurrent
<1>1. CacheAgeInv /\ HInv /\ [HNext]_hvars =>
        [\A c \in Call, p \in Process, k \in Key :
           /\ status[p][k] = "settled" /\ Answers(c)
           /\ calls'[c].proc = p /\ calls'[c].key = k
           /\ calls'[c].src # "dbError"
           => calls'[c].row = db[k]]_hvars
  BY SettledAnswer
<1> QED
  BY <1>1, InvalidationInvariant, PTL DEF HSpec, SettledReadsAreCurrent
=============================================================================
