------------------------- MODULE SystemConfigProofs -------------------------
(***************************************************************************)
(* Theorems about SystemConfigService for every set of processes, keys,    *)
(* values and calls, every TTL and every latency.                          *)
(***************************************************************************)
EXTENDS GuardedService, TLAPS

-----------------------------------------------------------------------------
(* Type correctness of one step *)

LEMMA BoundIsNat == StaleBound \in Nat /\ MaxAge \in Nat /\ MaxAge = StaleBound + 1
BY SystemConfigAssumption DEF StaleBound, MaxAge

LEMMA InitInv == Init => CacheAgeInv
<1> SUFFICES ASSUME Init PROVE CacheAgeInv
  OBVIOUS
<1>1. TypeOK
  <2> USE SystemConfigAssumption, BoundIsNat DEF Init
  <2>1. NoEntry \in Entry
    BY DEF NoEntry, Entry, Row
  <2>2. NoCall \in CallState
    BY DEF NoCall, CallState, CallPc, Source, Row
  <2>3. NoInval \in InvalState
    BY DEF NoInval, InvalState
  <2>4. age \in [Key -> [Row -> 0..MaxAge]]
    OBVIOUS
  <2> QED
    BY <2>1, <2>2, <2>3, <2>4 DEF TypeOK
<1>2. HeldNow
  BY DEF Init, HeldNow
<1>3. RedisAge /\ MemoryAge
  BY DEF Init, RedisAge, MemoryAge, MemoryLive, NoEntry
<1>4. CallAge
  BY DEF Init, CallAge, NoCall, InFlight
<1> QED
  BY <1>1, <1>2, <1>3, <1>4 DEF CacheAgeInv

LEMMA TypeOKStep ==
  ASSUME CacheAgeInv, [Next]_vars
  PROVE  TypeOK'
<1> USE DEF CacheAgeInv, stores
<1> DEFINE Types(d, a, m, r, cs, i) ==
      /\ d \in [Key -> Row] /\ a \in [Key -> [Row -> 0..MaxAge]]
      /\ m \in [Process -> [Key -> Entry]] /\ r \in [Key -> Entry]
      /\ cs \in [Call -> CallState] /\ i \in [Process -> InvalState]
<1>0. Types(db, age, memory, redis, calls, inval)
  BY DEF TypeOK
<1>a. NoEntry \in Entry /\ NoCall \in CallState /\ NoInval \in InvalState
  BY SystemConfigAssumption DEF NoEntry, Entry, NoCall, CallState, CallPc,
     Source, NoInval, InvalState, Row
<1>b. \A r \in Row : NewEntry(r) \in Entry
  BY SystemConfigAssumption DEF NewEntry, Entry
<1>c. \A c \in Call : calls[c].pc \in InFlight =>
        calls[c].proc \in Process /\ calls[c].key \in Key
  BY DEF CallAge
<1>d. \A s \in CallState : Answered(s) \in CallState
  <2> SUFFICES ASSUME NEW s \in CallState PROVE Answered(s) \in CallState
    OBVIOUS
  <2>1. 0 \in 0..Latency /\ "done" \in CallPc
    BY SystemConfigAssumption DEF CallPc
  <2> QED
    BY <2>1 DEF Answered, CallState
<1>1. ASSUME NEW c \in Call, NEW p \in Process, NEW k \in Key,
             GetHitsMemory(c, p, k)
      PROVE  TypeOK'
  <2>1. memory[p][k].value \in Row
    BY <1>0 DEF Entry
  <2> QED
    BY <1>0, <1>1, <2>1, SystemConfigAssumption
    DEF GetHitsMemory, TypeOK, CallState, CallPc, Source
<1>2. ASSUME NEW c \in Call, NEW p \in Process, NEW k \in Key,
             GetMissesMemory(c, p, k)
      PROVE  TypeOK'
  <2>1. [NoCall EXCEPT !.pc = "redis", !.proc = p, !.key = k] \in CallState
    BY <1>a DEF CallState, CallPc
  <2> QED
    BY <1>0, <1>2, <1>a, <2>1 DEF GetMissesMemory, TypeOK
<1>3. ASSUME NEW c \in Call, RedisHit(c)
      PROVE  TypeOK'
  <2>1. redis[calls[c].key].value \in Row
    BY <1>0, <1>3, <1>c DEF RedisHit, InFlight, CallPc, Entry
  <2>2. [calls[c] EXCEPT !.pc = "setMemory", !.src = "redis",
                         !.row = redis[calls[c].key].value] \in CallState
    BY <1>0, <2>1 DEF CallState, CallPc, Source
  <2> QED
    BY <1>0, <1>3, <2>2 DEF RedisHit, TypeOK
<1>4. ASSUME NEW c \in Call, RedisMiss(c)
      PROVE  TypeOK'
  <2>1. [calls[c] EXCEPT !.pc = "db"] \in CallState
    BY <1>0 DEF CallState, CallPc
  <2> QED
    BY <1>0, <1>4, <2>1 DEF RedisMiss, TypeOK
<1>5. ASSUME NEW c \in Call, DbFound(c)
      PROVE  TypeOK'
  <2>1. db[calls[c].key] \in Row
    BY <1>0, <1>5, <1>c DEF DbFound, InFlight, CallPc
  <2>2. [calls[c] EXCEPT !.pc = "setRedis", !.src = "db",
                         !.row = db[calls[c].key]] \in CallState
    BY <1>0, <2>1 DEF CallState, CallPc, Source
  <2> QED
    BY <1>0, <1>5, <2>2 DEF DbFound, TypeOK
<1>6. ASSUME NEW c \in Call, DbMissing(c)
      PROVE  TypeOK'
  <2>1. [calls[c] EXCEPT !.pc = "missing", !.src = "db"] \in CallState
    BY <1>0 DEF CallState, CallPc, Source
  <2> QED
    BY <1>0, <1>6, <2>1 DEF DbMissing, TypeOK
<1>7. ASSUME NEW c \in Call, ReturnDefault(c)
      PROVE  TypeOK'
  BY <1>0, <1>7, <1>d DEF ReturnDefault, TypeOK
<1>8. ASSUME NEW c \in Call, DbFails(c)
      PROVE  TypeOK'
  <2>1. [calls[c] EXCEPT !.src = "dbError"] \in CallState
    BY <1>0 DEF CallState, Source
  <2> QED
    BY <1>0, <1>8, <1>d, <2>1 DEF DbFails, TypeOK
<1>9. ASSUME NEW c \in Call, SetInRedis(c)
      PROVE  TypeOK'
  <2>1. NewEntry(calls[c].row) \in Entry
    BY <1>0, <1>b DEF CallState
  <2>2. [calls[c] EXCEPT !.pc = "setMemory"] \in CallState
    BY <1>0 DEF CallState, CallPc
  <2> QED
    BY <1>0, <1>9, <2>1, <2>2 DEF SetInRedis, TypeOK
<1>10. ASSUME NEW c \in Call, SkipSetInRedis(c)
       PROVE  TypeOK'
  <2>1. [calls[c] EXCEPT !.pc = "setMemory"] \in CallState
    BY <1>0 DEF CallState, CallPc
  <2> QED
    BY <1>0, <1>10, <2>1 DEF SkipSetInRedis, TypeOK
<1>11. ASSUME NEW c \in Call, SetInMemory(c)
       PROVE  TypeOK'
  <2>1. NewEntry(calls[c].row) \in Entry
    BY <1>0, <1>b DEF CallState
  <2> QED
    BY <1>0, <1>11, <1>d, <2>1 DEF SetInMemory, TypeOK
<1>12. ASSUME NEW c \in Call, Respond(c)
       PROVE  TypeOK'
  BY <1>0, <1>12, <1>a DEF Respond, TypeOK
<1>13. ASSUME NEW p \in Process, NEW k \in Key, InvalidateKey(p, k)
       PROVE  TypeOK'
  <2>1. [NoInval EXCEPT !.pc = "del", !.keys = {k}, !.batch = {k}] \in InvalState
    BY <1>a DEF InvalState
  <2> QED
    BY <1>0, <1>13, <1>a, <2>1 DEF InvalidateKey, TypeOK
<1>e. \A cache \in [Key -> Entry] : \A K : Without(cache, K) \in [Key -> Entry]
  BY <1>a DEF Without
<1>f. \A inv \in [Process -> InvalState] : \A K :
        NoLongerOwed(inv, K) \in [Process -> InvalState]
  BY DEF NoLongerOwed, InvalState
<1>14. ASSUME NEW p \in Process, InvalidateAll(p)
       PROVE  TypeOK'
  <2>1. [NoInval EXCEPT !.pc = "scan", !.keys = Key, !.owed = Cached(redis)]
          \in InvalState
    BY <1>a DEF InvalState, Cached
  <2> QED
    BY <1>0, <1>14, <1>e, <2>1 DEF InvalidateAll, TypeOK
<1>15. ASSUME NEW p \in Process, DeleteFromRedis(p)
       PROVE  TypeOK'
  <2>1. [inval EXCEPT ![p] = NoInval] \in [Process -> InvalState]
    BY <1>0, <1>a
  <2> QED
    BY <1>0, <1>15, <1>e, <1>f, <2>1 DEF DeleteFromRedis, TypeOK
<1>16. ASSUME NEW p \in Process, ScanRedis(p)
       PROVE  TypeOK'
  <2>1. PICK batch \in SUBSET Cached(redis), last \in BOOLEAN :
          inval' = [inval EXCEPT ![p] =
            IF batch = {} THEN NoInval
            ELSE [@ EXCEPT !.pc = "delBatch", !.batch = batch, !.last = last]]
    BY <1>16 DEF ScanRedis
  <2>2. [inval[p] EXCEPT !.pc = "delBatch", !.batch = batch, !.last = last]
          \in InvalState
    BY <1>0 DEF InvalState, Cached
  <2> QED
    BY <1>0, <1>16, <1>a, <2>1, <2>2 DEF ScanRedis, TypeOK
<1>17. ASSUME NEW p \in Process, DeleteBatch(p)
       PROVE  TypeOK'
  <2>1. [inval[p] EXCEPT !.pc = "scan", !.batch = {}] \in InvalState
    BY <1>0 DEF InvalState
  <2>2. [inval EXCEPT ![p] = IF inval[p].last THEN NoInval
          ELSE [@ EXCEPT !.pc = "scan", !.batch = {}]] \in [Process -> InvalState]
    BY <1>0, <1>a, <2>1
  <2> QED
    BY <1>0, <1>17, <1>e, <1>f, <2>2 DEF DeleteBatch, TypeOK
<1>18. ASSUME NEW p \in Process, InvalidateFails(p)
       PROVE  TypeOK'
  BY <1>0, <1>18, <1>a DEF InvalidateFails, TypeOK
<1>19. ASSUME NEW p \in Process, Restart(p)
       PROVE  TypeOK'
  BY <1>0, <1>19, <1>a, <1>e DEF Restart, TypeOK
<1>20. ASSUME NEW k \in Key, NEW r \in Row, DbWrite(k, r)
       PROVE  TypeOK'
  BY <1>0, <1>20, BoundIsNat DEF DbWrite, TypeOK
<1>21. ASSUME Tick
       PROVE  TypeOK'
  <2>1. \A k \in Key : Older(k) \in [Row -> 0..MaxAge]
    BY <1>0, BoundIsNat DEF Older
  <2>2. \A e \in Entry : TickMemory(e) \in Entry /\ TickRedis(e) \in Entry
    BY <1>a, SystemConfigAssumption DEF TickMemory, TickRedis, Entry
  <2>3. \A c \in Call : calls[c].pc \in InFlight =>
          [calls[c] EXCEPT !.lat = @ + 1] \in CallState
    <3> SUFFICES ASSUME NEW c \in Call, calls[c].pc \in InFlight
                 PROVE  [calls[c] EXCEPT !.lat = @ + 1] \in CallState
      OBVIOUS
    <3>1. calls[c] \in CallState /\ calls[c].lat < Latency
      BY <1>0, <1>21 DEF Tick
    <3>2. calls[c].lat + 1 \in 0..Latency
      BY <3>1, SystemConfigAssumption DEF CallState
    <3> QED
      BY <3>1, <3>2 DEF CallState
  <2> QED
    BY <1>0, <1>21, <1>f, <2>1, <2>2, <2>3 DEF Tick, TypeOK
<1>22. CASE UNCHANGED vars
  BY <1>0, <1>22 DEF vars, TypeOK
<1> QED
  BY <1>1, <1>2, <1>3, <1>4, <1>5, <1>6, <1>7, <1>8, <1>9, <1>10, <1>11,
     <1>12, <1>13, <1>14, <1>15, <1>16, <1>17, <1>18, <1>19, <1>20, <1>21,
     <1>22 DEF Next, CallStep, InvalidateStep

-----------------------------------------------------------------------------
(* Ages: what DbWrite and Tick, the only steps that change them, do to them *)

LEMMA AgesStep ==
  ASSUME CacheAgeInv, [Next]_vars
  PROVE  \/ Tick
         \/ \E k \in Key, r \in Row : DbWrite(k, r)
         \/ UNCHANGED <<db, age>>
BY DEF Next, CallStep, InvalidateStep, vars, stores, GetHitsMemory,
   GetMissesMemory, RedisHit, RedisMiss, DbFound, DbMissing, ReturnDefault,
   DbFails, SetInRedis, SkipSetInRedis, SetInMemory, Respond, InvalidateKey,
   InvalidateAll, DeleteFromRedis, ScanRedis, DeleteBatch, InvalidateFails,
   Restart

LEMMA DbWriteAges ==
  ASSUME TypeOK, NEW k \in Key, NEW r \in Row, DbWrite(k, r)
  PROVE  \A l \in Key, x \in Row : age'[l][x] <= age[l][x]
<1>1. \A l \in Key, x \in Row : age[l][x] \in 0..MaxAge
  BY DEF TypeOK
<1> QED
  BY <1>1, BoundIsNat DEF DbWrite, TypeOK

LEMMA TickAges ==
  ASSUME TypeOK, Tick
  PROVE  \A l \in Key, x \in Row : age'[l][x] <= age[l][x] + 1
<1>1. \A l \in Key, x \in Row : age[l][x] \in 0..MaxAge
  BY DEF TypeOK
<1>2. \A l \in Key, x \in Row : Older(l)[x] <= age[l][x] + 1
  BY <1>1, BoundIsNat DEF Older
<1> QED
  BY <1>2 DEF Tick

LEMMA HeldNowStep ==
  ASSUME CacheAgeInv, [Next]_vars
  PROVE  HeldNow'
<1> USE DEF CacheAgeInv
<1>1. CASE Tick
  BY <1>1 DEF Tick, TypeOK, HeldNow, Older
<1>2. ASSUME NEW k \in Key, NEW r \in Row, DbWrite(k, r)
      PROVE  HeldNow'
  BY <1>2 DEF DbWrite, TypeOK, HeldNow
<1>3. CASE UNCHANGED <<db, age>>
  BY <1>3 DEF HeldNow
<1> QED
  BY <1>1, <1>2, <1>3, AgesStep

-----------------------------------------------------------------------------
(* Redis *)

LEMMA RedisAgeStep ==
  ASSUME CacheAgeInv, [Next]_vars
  PROVE  RedisAge'
<1> USE DEF CacheAgeInv
<1>0. /\ \A k \in Key, x \in Row : age[k][x] \in 0..MaxAge
      /\ \A k \in Key : redis[k] \in Entry
      /\ \A k \in Key : redis[k].value \in Row /\ redis[k].left \in -1..TTL
  BY DEF TypeOK, Entry
<1>a. TTL \in Nat /\ Latency \in Nat /\ MaxAge \in Nat
  BY SystemConfigAssumption, BoundIsNat
<1>1. CASE Tick
  <2> SUFFICES ASSUME NEW k \in Key, redis'[k].value # None
               PROVE  /\ RedisConfigured
                      /\ redis'[k].left >= 0
                      /\ age'[k][redis'[k].value] + redis'[k].left
                           <= TTL + Latency
    BY DEF RedisAge
  <2>1. redis'[k] = TickRedis(redis[k])
    BY <1>1 DEF Tick
  <2>2. /\ redis[k].left > 0
        /\ redis'[k].value = redis[k].value
        /\ redis'[k].left = redis[k].left - 1
    BY <2>1, <1>0 DEF TickRedis, NoEntry, Entry
  <2>3. age'[k][redis[k].value] <= age[k][redis[k].value] + 1
    BY <1>0, <1>1, TickAges
  <2>4. age'[k][redis[k].value] \in 0..MaxAge
    BY <1>0, TypeOKStep DEF TypeOK
  <2> QED
    BY <1>0, <1>a, <2>2, <2>3, <2>4 DEF RedisAge
<1>2. ASSUME NEW l \in Key, NEW r \in Row, DbWrite(l, r)
      PROVE  RedisAge'
  <2> SUFFICES ASSUME NEW k \in Key, redis[k].value # None
               PROVE  age'[k][redis[k].value] + redis[k].left <= TTL + Latency
    BY <1>2 DEF RedisAge, DbWrite
  <2>1. age'[k][redis[k].value] <= age[k][redis[k].value]
    BY <1>0, <1>2, DbWriteAges
  <2>2. age'[k][redis[k].value] \in 0..MaxAge
    BY <1>0, TypeOKStep DEF TypeOK
  <2> QED
    BY <1>0, <1>a, <2>1, <2>2 DEF RedisAge
<1>3. ASSUME NEW c \in Call, SetInRedis(c)
      PROVE  RedisAge'
  <2>1. calls[c] \in CallState /\ calls[c].pc = "setRedis"
    BY <1>3 DEF TypeOK, SetInRedis
  <2>2. /\ calls[c].key \in Key
        /\ age[calls[c].key][calls[c].row] <= calls[c].lat
        /\ calls[c].lat <= Latency
    BY <2>1, <1>a DEF CallAge, InFlight, CallPc, CallState
  <2>3. age[calls[c].key][calls[c].row] + TTL <= TTL + Latency
    BY <2>1, <2>2, <1>0, <1>a DEF CallState
  <2> QED
    BY <1>0, <1>a, <1>3, <2>1, <2>2, <2>3
    DEF SetInRedis, RedisAge, NewEntry, stores, TypeOK
<1>4. ASSUME NEW p \in Process, DeleteFromRedis(p) \/ DeleteBatch(p)
      PROVE  RedisAge'
  <2>1. age' = age /\ redis' = Without(redis, inval[p].batch)
    BY <1>4 DEF DeleteFromRedis, DeleteBatch, stores
  <2> QED
    BY <2>1 DEF RedisAge, Without, NoEntry
<1>5. CASE UNCHANGED <<age, redis>>
  BY <1>5 DEF RedisAge
<1> QED
  BY <1>1, <1>2, <1>3, <1>4, <1>5
  DEF Next, CallStep, InvalidateStep, vars, stores, GetHitsMemory,
      GetMissesMemory, RedisHit, RedisMiss, DbFound, DbMissing, ReturnDefault,
      DbFails, SkipSetInRedis, SetInMemory, Respond, InvalidateKey,
      InvalidateAll, ScanRedis, InvalidateFails, Restart

-----------------------------------------------------------------------------
(* Memory *)

\* What a call has when it fills the Map may live for TTL ticks more.
LEMMA FillAge ==
  ASSUME CacheAgeInv, NEW c \in Call, calls[c].pc = "setMemory"
  PROVE  /\ calls[c].proc \in Process /\ calls[c].key \in Key
         /\ calls[c].row \in Value
         /\ age[calls[c].key][calls[c].row] + TTL <= StaleBound
<1> USE DEF CacheAgeInv
<1>1. /\ calls[c] \in CallState
      /\ TTL \in Nat /\ Latency \in Nat /\ RedisConfigured \in BOOLEAN
  BY SystemConfigAssumption DEF TypeOK
<1>2. /\ calls[c].proc \in Process /\ calls[c].key \in Key
      /\ calls[c].row # None /\ calls[c].src \in {"redis", "db"}
  BY DEF CallAge, InFlight, CallPc
<1>3. /\ calls[c].row \in Value /\ calls[c].lat \in 0..Latency
      /\ age[calls[c].key][calls[c].row] \in 0..MaxAge
  BY <1>1, <1>2 DEF CallState, Row, TypeOK
<1>4. CASE calls[c].src = "redis"
  <2>1. /\ RedisConfigured
        /\ age[calls[c].key][calls[c].row] <= TTL + Latency + calls[c].lat
    BY <1>4 DEF CallAge, InFlight, CallPc
  <2> QED
    BY <1>1, <1>2, <1>3, <2>1, BoundIsNat DEF StaleBound
<1>5. CASE calls[c].src = "db"
  <2>1. age[calls[c].key][calls[c].row] <= calls[c].lat
    BY <1>5 DEF CallAge, InFlight, CallPc
  <2> QED
    BY <1>1, <1>2, <1>3, <2>1, BoundIsNat DEF StaleBound
<1> QED
  BY <1>2, <1>4, <1>5

LEMMA MemoryAgeStep ==
  ASSUME CacheAgeInv, [Next]_vars
  PROVE  MemoryAge'
<1> USE DEF CacheAgeInv
<1>0. /\ \A k \in Key, x \in Row : age[k][x] \in 0..MaxAge
      /\ \A p \in Process, k \in Key :
           /\ memory[p][k] \in Entry
           /\ memory[p][k].value \in Row /\ memory[p][k].left \in -1..TTL
  BY DEF TypeOK, Entry
<1>a. TTL \in Nat /\ StaleBound \in Nat /\ MaxAge \in Nat
  BY SystemConfigAssumption, BoundIsNat
<1>b. \A k \in Key, x \in Row : age'[k][x] \in 0..MaxAge
  BY TypeOKStep DEF TypeOK
<1>1. CASE Tick
  <2> SUFFICES ASSUME NEW p \in Process, NEW k \in Key,
                      MemoryLive(memory'[p][k])
               PROVE  age'[k][memory'[p][k].value] + memory'[p][k].left
                        <= StaleBound
    BY DEF MemoryAge, MemoryLive
  <2>1. memory'[p][k] = TickMemory(memory[p][k])
    BY <1>1 DEF Tick
  <2>2. /\ MemoryLive(memory[p][k])
        /\ memory'[p][k].value = memory[p][k].value
        /\ memory'[p][k].left = memory[p][k].left - 1
    BY <2>1, <1>0 DEF TickMemory, MemoryLive, Entry
  <2>3. age'[k][memory[p][k].value] <= age[k][memory[p][k].value] + 1
    BY <1>0, <1>1, TickAges
  <2> QED
    BY <1>0, <1>a, <1>b, <2>2, <2>3 DEF MemoryAge
<1>2. ASSUME NEW l \in Key, NEW r \in Row, DbWrite(l, r)
      PROVE  MemoryAge'
  <2> SUFFICES ASSUME NEW p \in Process, NEW k \in Key,
                      MemoryLive(memory[p][k])
               PROVE  age'[k][memory[p][k].value] + memory[p][k].left
                        <= StaleBound
    BY <1>2 DEF MemoryAge, MemoryLive, DbWrite
  <2>1. age'[k][memory[p][k].value] <= age[k][memory[p][k].value]
    BY <1>0, <1>2, DbWriteAges
  <2> QED
    BY <1>0, <1>a, <1>b, <2>1 DEF MemoryAge
<1>3. ASSUME NEW c \in Call, SetInMemory(c)
      PROVE  MemoryAge'
  <2>1. /\ calls[c].proc \in Process /\ calls[c].key \in Key
        /\ age[calls[c].key][calls[c].row] + TTL <= StaleBound
    BY <1>3, FillAge DEF SetInMemory
  <2>2. /\ age' = age
        /\ memory' = [memory EXCEPT ![calls[c].proc][calls[c].key] =
                                      NewEntry(calls[c].row)]
    BY <1>3 DEF SetInMemory, stores
  <2> QED
    BY <2>1, <2>2 DEF MemoryAge, MemoryLive, NewEntry, TypeOK
<1>4. ASSUME age' = age,
             \A p \in Process, k \in Key :
               memory'[p][k] \in {memory[p][k], NoEntry}
      PROVE  MemoryAge'
  BY <1>4 DEF MemoryAge, MemoryLive, NoEntry
<1>5. ASSUME NEW c \in Call, NEW p \in Process, NEW k \in Key,
             GetMissesMemory(c, p, k)
      PROVE  MemoryAge'
  BY <1>4, <1>5 DEF GetMissesMemory, TypeOK, stores
<1>6. ASSUME NEW p \in Process, NEW k \in Key, InvalidateKey(p, k)
      PROVE  MemoryAge'
  BY <1>4, <1>6 DEF InvalidateKey, TypeOK, stores
<1>7. ASSUME NEW p \in Process, InvalidateAll(p) \/ Restart(p)
      PROVE  MemoryAge'
  BY <1>4, <1>7 DEF InvalidateAll, Restart, Without, TypeOK, stores
<1>8. CASE UNCHANGED <<age, memory>>
  BY <1>8 DEF MemoryAge
<1> QED
  BY <1>1, <1>2, <1>3, <1>5, <1>6, <1>7, <1>8
  DEF Next, CallStep, InvalidateStep, vars, stores, GetHitsMemory,
      RedisHit, RedisMiss, DbFound, DbMissing, ReturnDefault, DbFails,
      SetInRedis, SkipSetInRedis, Respond, DeleteFromRedis, ScanRedis,
      DeleteBatch, InvalidateFails

-----------------------------------------------------------------------------
(* Calls *)

LEMMA CallAgeStep ==
  ASSUME CacheAgeInv, [Next]_vars
  PROVE  CallAge'
<1> USE DEF CacheAgeInv
<1> DEFINE Good(s, a) ==
      s.pc \in InFlight =>
        /\ s.proc \in Process /\ s.key \in Key
        /\ s.pc \in {"redis", "db"} => s.row = None /\ s.src = "none"
        /\ s.pc \in {"setRedis", "setMemory"} => s.row # None
        /\ s.pc = "missing" => s.row = None /\ s.src = "db"
        /\ s.pc = "setRedis" => s.src = "db"
        /\ s.pc = "setMemory" => s.src \in {"redis", "db"}
        /\ s.src = "db" => a[s.key][s.row] <= s.lat
        /\ s.src = "redis" => /\ RedisConfigured
                              /\ a[s.key][s.row] <= TTL + Latency + s.lat
<1>0. \A c \in Call : calls[c] \in CallState /\ Good(calls[c], age)
  BY DEF CallAge, TypeOK
<1>a. /\ TTL \in Nat /\ Latency \in Nat /\ MaxAge \in Nat
      /\ \A k \in Key, x \in Row : /\ age[k][x] \in 0..MaxAge
                                   /\ age'[k][x] \in 0..MaxAge
  BY SystemConfigAssumption, BoundIsNat, TypeOKStep DEF TypeOK
<1>b. ASSUME NEW c \in Call, NEW s, Good(s, age), age' = age,
             calls' = [calls EXCEPT ![c] = s]
      PROVE  CallAge'
  <2>1. \A d \in Call : calls'[d] = IF d = c THEN s ELSE calls[d]
    BY <1>b DEF TypeOK
  <2>2. \A d \in Call : Good(calls'[d], age')
    BY <1>0, <1>b, <2>1
  <2> QED
    BY <2>2 DEF CallAge
<1> HIDE DEF Good
<1>1. ASSUME NEW c \in Call, NEW p \in Process, NEW k \in Key,
             GetHitsMemory(c, p, k)
      PROVE  CallAge'
  <2> DEFINE s == [pc |-> "done", proc |-> p, key |-> k,
                   row |-> memory[p][k].value, src |-> "memory", lat |-> 0]
  <2>1. Good(s, age)
    BY DEF Good, InFlight
  <2> QED
    BY <1>b, <1>1, <2>1 DEF GetHitsMemory, stores
<1>2. ASSUME NEW c \in Call, NEW p \in Process, NEW k \in Key,
             GetMissesMemory(c, p, k)
      PROVE  CallAge'
  <2> DEFINE s == [NoCall EXCEPT !.pc = "redis", !.proc = p, !.key = k]
  <2>1. Good(s, age)
    BY DEF Good, NoCall
  <2> QED
    BY <1>b, <1>2, <2>1 DEF GetMissesMemory, stores
<1>3. ASSUME NEW c \in Call, RedisHit(c)
      PROVE  CallAge'
  <2> DEFINE k == calls[c].key
             s == [calls[c] EXCEPT !.pc = "setMemory", !.src = "redis",
                                   !.row = redis[k].value]
  <2>1. k \in Key /\ calls[c].proc \in Process
    BY <1>0, <1>3 DEF Good, RedisHit, InFlight, CallPc
  <2>2. redis[k] \in Entry /\ redis[k].value # None
    BY <1>3, <2>1 DEF RedisHit, TypeOK
  <2>3. /\ RedisConfigured /\ redis[k].left >= 0
        /\ age[k][redis[k].value] + redis[k].left <= TTL + Latency
    BY <2>1, <2>2 DEF RedisAge
  <2>4. calls[c].lat \in 0..Latency
    BY <1>0 DEF CallState
  <2>5. age[k][redis[k].value] <= TTL + Latency + calls[c].lat
    BY <1>a, <2>1, <2>2, <2>3, <2>4 DEF Entry
  <2>6. /\ s.pc = "setMemory" /\ s.src = "redis" /\ s.row = redis[k].value
        /\ s.proc = calls[c].proc /\ s.key = k /\ s.lat = calls[c].lat
    BY <1>0 DEF CallState
  <2>7. Good(s, age)
    BY <2>1, <2>2, <2>3, <2>5, <2>6 DEF Good
  <2> QED
    BY <1>b, <1>3, <2>7 DEF RedisHit, stores
<1>4. ASSUME NEW c \in Call, RedisMiss(c)
      PROVE  CallAge'
  <2> DEFINE s == [calls[c] EXCEPT !.pc = "db"]
  <2>1. /\ s.pc = "db" /\ s.src = calls[c].src /\ s.row = calls[c].row
        /\ s.proc = calls[c].proc /\ s.key = calls[c].key
    BY <1>0 DEF CallState
  <2>2. Good(s, age)
    BY <1>0, <1>4, <2>1 DEF Good, RedisMiss, InFlight, CallPc
  <2> QED
    BY <1>b, <1>4, <2>2 DEF RedisMiss, stores
<1>5. ASSUME NEW c \in Call, DbFound(c)
      PROVE  CallAge'
  <2> DEFINE k == calls[c].key
             s == [calls[c] EXCEPT !.pc = "setRedis", !.src = "db",
                                   !.row = db[k]]
  <2>1. k \in Key /\ calls[c].proc \in Process
    BY <1>0, <1>5 DEF Good, DbFound, InFlight, CallPc
  <2>2. age[k][db[k]] = 0 /\ db[k] # None /\ calls[c].lat \in 0..Latency
    BY <1>0, <1>5, <2>1 DEF HeldNow, DbFound, CallState
  <2>3. /\ s.pc = "setRedis" /\ s.src = "db" /\ s.row = db[k]
        /\ s.proc = calls[c].proc /\ s.key = k /\ s.lat = calls[c].lat
    BY <1>0 DEF CallState
  <2>4. Good(s, age)
    BY <1>a, <2>1, <2>2, <2>3 DEF Good
  <2> QED
    BY <1>b, <1>5, <2>4 DEF DbFound, stores
<1>6. ASSUME NEW c \in Call, DbMissing(c)
      PROVE  CallAge'
  <2> DEFINE k == calls[c].key
             s == [calls[c] EXCEPT !.pc = "missing", !.src = "db"]
  <2>1. k \in Key /\ calls[c].proc \in Process /\ calls[c].row = None
    BY <1>0, <1>6 DEF Good, DbMissing, InFlight, CallPc
  <2>2. age[k][None] = 0 /\ calls[c].lat \in 0..Latency
    BY <1>0, <1>6, <2>1 DEF HeldNow, DbMissing, CallState
  <2>3. /\ s.pc = "missing" /\ s.src = "db" /\ s.row = None
        /\ s.proc = calls[c].proc /\ s.key = k /\ s.lat = calls[c].lat
    BY <1>0, <2>1 DEF CallState
  <2>4. Good(s, age)
    BY <1>a, <2>1, <2>2, <2>3 DEF Good
  <2> QED
    BY <1>b, <1>6, <2>4 DEF DbMissing, stores
<1>7. ASSUME NEW c \in Call, SetInRedis(c) \/ SkipSetInRedis(c)
      PROVE  CallAge'
  <2> DEFINE s == [calls[c] EXCEPT !.pc = "setMemory"]
  <2>1. /\ s.pc = "setMemory" /\ s.src = calls[c].src /\ s.row = calls[c].row
        /\ s.proc = calls[c].proc /\ s.key = calls[c].key
        /\ s.lat = calls[c].lat /\ calls[c].pc = "setRedis"
    BY <1>0, <1>7 DEF CallState, SetInRedis, SkipSetInRedis
  <2>2. Good(s, age)
    BY <1>0, <2>1 DEF Good, InFlight, CallPc
  <2> QED
    BY <1>b, <1>7, <2>2 DEF SetInRedis, SkipSetInRedis, stores
<1>c. \A s \in CallState : Good(Answered(s), age)
  <2> SUFFICES ASSUME NEW s \in CallState PROVE Answered(s).pc = "done"
    BY DEF Good, InFlight
  <2> QED
    BY DEF Answered, CallState
<1>8. ASSUME NEW c \in Call, ReturnDefault(c) \/ SetInMemory(c)
      PROVE  CallAge'
  BY <1>0, <1>b, <1>c, <1>8 DEF ReturnDefault, SetInMemory, stores
<1>9. ASSUME NEW c \in Call, DbFails(c)
      PROVE  CallAge'
  <2>1. [calls[c] EXCEPT !.src = "dbError"] \in CallState
    BY <1>0 DEF CallState, Source
  <2> QED
    BY <1>b, <1>c, <1>9, <2>1 DEF DbFails, stores
<1>d. Good(NoCall, age)
  BY DEF Good, NoCall, InFlight
<1>10. ASSUME NEW c \in Call, Respond(c)
       PROVE  CallAge'
  BY <1>b, <1>d, <1>10 DEF Respond, stores
<1>11. ASSUME NEW p \in Process, Restart(p)
       PROVE  CallAge'
  <2>1. \A d \in Call : calls'[d] \in {calls[d], NoCall} /\ age' = age
    BY <1>11 DEF Restart, stores
  <2>2. \A d \in Call : Good(calls'[d], age')
    BY <1>0, <1>d, <2>1
  <2> QED
    BY <2>2 DEF CallAge, Good
<1>12. ASSUME NEW l \in Key, NEW r \in Row, DbWrite(l, r)
       PROVE  CallAge'
  <2> SUFFICES ASSUME NEW c \in Call PROVE Good(calls[c], age')
    BY <1>12 DEF CallAge, DbWrite, Good
  <2>1. calls[c].row \in Row /\ calls[c].lat \in 0..Latency
    BY <1>0 DEF CallState
  <2>2. \A k \in Key, x \in Row : age'[k][x] <= age[k][x]
    BY <1>12, DbWriteAges
  <2> QED
    BY <1>0, <1>a, <2>1, <2>2 DEF Good
<1>13. CASE Tick
  <2> SUFFICES ASSUME NEW c \in Call, calls[c].pc \in InFlight
               PROVE  Good(calls'[c], age')
    BY <1>13 DEF CallAge, Good, Tick
  <2>1. calls'[c] = [calls[c] EXCEPT !.lat = @ + 1]
    BY <1>13 DEF Tick
  <2>2. /\ calls'[c].pc = calls[c].pc /\ calls'[c].src = calls[c].src
        /\ calls'[c].row = calls[c].row /\ calls'[c].proc = calls[c].proc
        /\ calls'[c].key = calls[c].key /\ calls'[c].lat = calls[c].lat + 1
        /\ calls[c].row \in Row /\ calls[c].lat \in 0..Latency
    BY <1>0, <2>1 DEF CallState
  <2>3. \A k \in Key, x \in Row : age'[k][x] <= age[k][x] + 1
    BY <1>13, TickAges
  <2> QED
    BY <1>0, <1>a, <2>2, <2>3 DEF Good
<1>14. CASE UNCHANGED <<age, calls>>
  BY <1>14 DEF CallAge
<1> QED
  BY <1>1, <1>2, <1>3, <1>4, <1>5, <1>6, <1>7, <1>8, <1>9, <1>10, <1>11,
     <1>12, <1>13, <1>14
  DEF Next, CallStep, InvalidateStep, vars, stores, InvalidateKey,
      InvalidateAll, DeleteFromRedis, ScanRedis, DeleteBatch, InvalidateFails

-----------------------------------------------------------------------------
(* The invariant, and the action properties that follow from it *)

\* Theorem: for any number of processes, keys and concurrent calls, nothing
\* stale enters a cache with enough life left to break its level's bound.
THEOREM CacheAgesAreBounded == Spec => []CacheAgeInv
<1>1. Init => CacheAgeInv
  BY InitInv
<1>2. CacheAgeInv /\ [Next]_vars => CacheAgeInv'
  BY TypeOKStep, HeldNowStep, RedisAgeStep, MemoryAgeStep, CallAgeStep
  DEF CacheAgeInv
<1> QED
  BY <1>1, <1>2, PTL DEF Spec

\* Theorem: every state of the service is of its type.
THEOREM TypeCorrect == Spec => []TypeOK
<1>1. CacheAgeInv => TypeOK
  BY DEF CacheAgeInv
<1> QED
  BY <1>1, CacheAgesAreBounded, PTL

\* The three steps that answer a call, but for the one without the table.
LEMMA AnswerKinds ==
  ASSUME CacheAgeInv, [Next]_vars, NEW c \in Call, Answers(c),
         calls'[c].src # "dbError"
  PROVE  \/ \E p \in Process, k \in Key : GetHitsMemory(c, p, k)
         \/ ReturnDefault(c) \/ SetInMemory(c)
<1> USE DEF CacheAgeInv
<1>0. calls \in [Call -> CallState]
  BY DEF TypeOK
<1>1. ASSUME NEW e \in Call, NEW p \in Process, NEW k \in Key,
             GetHitsMemory(e, p, k)
      PROVE  e = c
  BY <1>0, <1>1 DEF GetHitsMemory, Answers
<1>2. ASSUME NEW e \in Call, ReturnDefault(e) \/ SetInMemory(e)
      PROVE  e = c
  BY <1>0, <1>2 DEF ReturnDefault, SetInMemory, Answers
<1>3. ASSUME NEW e \in Call, DbFails(e)
      PROVE  FALSE
  <2>1. [calls[e] EXCEPT !.src = "dbError"] \in CallState
    BY <1>0 DEF CallState, Source
  <2>2. e = c /\ calls'[c].src = "dbError"
    BY <1>0, <1>3, <2>1 DEF DbFails, Answers, Answered, CallState
  <2> QED
    BY <2>2
<1>4. CASE Tick
  <2>1. calls[c] \in CallState
    BY <1>0
  <2>2. calls'[c].pc = calls[c].pc
    BY <1>4, <2>1 DEF Tick, CallState
  <2> QED
    BY <2>2 DEF Answers
<1>5. ASSUME NEW e \in Call, NEW p \in Process, NEW k \in Key,
             GetMissesMemory(e, p, k)
      PROVE  FALSE
  BY <1>0, <1>5 DEF GetMissesMemory, Answers, NoCall
<1>6. ASSUME NEW e \in Call,
             \/ RedisHit(e) \/ RedisMiss(e) \/ DbFound(e) \/ DbMissing(e)
             \/ SetInRedis(e) \/ SkipSetInRedis(e) \/ Respond(e)
      PROVE  FALSE
  <2>1. calls[e] \in CallState
    BY <1>0
  <2>2. calls'[e].pc # "done" /\ (c # e => calls'[c] = calls[c])
    BY <1>0, <1>6, <2>1
    DEF RedisHit, RedisMiss, DbFound, DbMissing, SetInRedis, SkipSetInRedis,
        Respond, NoCall, CallState
  <2> QED
    BY <2>2 DEF Answers
<1>7. ASSUME NEW p \in Process, Restart(p)
      PROVE  FALSE
  BY <1>7 DEF Restart, Answers, NoCall
<1>8. CASE UNCHANGED calls
  BY <1>8 DEF Answers
<1> QED
  BY <1>1, <1>2, <1>3, <1>4, <1>5, <1>6, <1>7, <1>8
  DEF Next, CallStep, InvalidateStep, vars, InvalidateKey, InvalidateAll,
      DeleteFromRedis, ScanRedis, DeleteBatch, InvalidateFails, DbWrite

LEMMA AnswerStep ==
  ASSUME CacheAgeInv, [Next]_vars, NEW c \in Call, Answers(c),
         calls'[c].src # "dbError"
  PROVE  /\ UNCHANGED <<db, age>>
         /\ calls'[c].key \in Key /\ calls'[c].row \in Row
         /\ age[calls'[c].key][calls'[c].row] <= StaleBound
         /\ \A d \in Call \ {c} : calls'[d] = calls[d]
<1> USE DEF CacheAgeInv
<1>0. /\ calls \in [Call -> CallState]
      /\ TTL \in Nat /\ Latency \in Nat
      /\ \A k \in Key, x \in Row : age[k][x] \in 0..MaxAge
  BY SystemConfigAssumption DEF TypeOK
<1>1. ASSUME NEW e \in Call, NEW p \in Process, NEW k \in Key,
             GetHitsMemory(e, p, k)
      PROVE  /\ UNCHANGED <<db, age>>
             /\ calls'[c].key \in Key /\ calls'[c].row \in Row
             /\ age[calls'[c].key][calls'[c].row] <= StaleBound
             /\ \A d \in Call \ {c} : calls'[d] = calls[d]
  <2>1. e = c /\ UNCHANGED <<db, age>>
    BY <1>0, <1>1 DEF GetHitsMemory, Answers, stores
  <2>2. /\ calls'[c].key = k /\ calls'[c].row = memory[p][k].value
        /\ \A d \in Call \ {c} : calls'[d] = calls[d]
    BY <1>0, <1>1, <2>1 DEF GetHitsMemory
  <2>3. memory[p][k] \in Entry /\ MemoryLive(memory[p][k])
    BY <1>1 DEF GetHitsMemory, TypeOK
  <2>4. /\ memory[p][k].value \in Row /\ memory[p][k].left \in Nat
        /\ age[k][memory[p][k].value] + memory[p][k].left <= StaleBound
    BY <1>0, <2>3 DEF MemoryAge, Entry, MemoryLive
  <2> QED
    BY <1>0, <2>1, <2>2, <2>4, BoundIsNat
<1>2. ASSUME NEW e \in Call, ReturnDefault(e)
      PROVE  /\ UNCHANGED <<db, age>>
             /\ calls'[c].key \in Key /\ calls'[c].row \in Row
             /\ age[calls'[c].key][calls'[c].row] <= StaleBound
             /\ \A d \in Call \ {c} : calls'[d] = calls[d]
  <2>1. e = c /\ UNCHANGED <<db, age>>
    BY <1>0, <1>2 DEF ReturnDefault, Answers, stores
  <2>2. /\ calls'[c].key = calls[c].key /\ calls'[c].row = calls[c].row
        /\ \A d \in Call \ {c} : calls'[d] = calls[d]
    BY <1>0, <1>2, <2>1 DEF ReturnDefault, Answered, CallState
  <2>3. /\ calls[c].key \in Key /\ calls[c].lat \in 0..Latency
        /\ calls[c].row \in Row
        /\ age[calls[c].key][calls[c].row] <= calls[c].lat
    BY <1>0, <1>2, <2>1 DEF ReturnDefault, CallAge, InFlight, CallPc, CallState
  <2> QED
    BY <1>0, <2>1, <2>2, <2>3 DEF StaleBound
<1>3. ASSUME NEW e \in Call, SetInMemory(e)
      PROVE  /\ UNCHANGED <<db, age>>
             /\ calls'[c].key \in Key /\ calls'[c].row \in Row
             /\ age[calls'[c].key][calls'[c].row] <= StaleBound
             /\ \A d \in Call \ {c} : calls'[d] = calls[d]
  <2>1. e = c /\ UNCHANGED <<db, age>>
    BY <1>0, <1>3 DEF SetInMemory, Answers, stores
  <2>2. /\ calls'[c].key = calls[c].key /\ calls'[c].row = calls[c].row
        /\ \A d \in Call \ {c} : calls'[d] = calls[d]
    BY <1>0, <1>3, <2>1 DEF SetInMemory, Answered, CallState
  <2>3. /\ calls[c].key \in Key /\ calls[c].row \in Value
        /\ age[calls[c].key][calls[c].row] + TTL <= StaleBound
    BY <1>3, <2>1, FillAge DEF SetInMemory
  <2> QED
    BY <1>0, <2>1, <2>2, <2>3, BoundIsNat DEF Row
<1> QED
  BY <1>1, <1>2, <1>3, AnswerKinds

\* Theorem: no answer of get() is staler than StaleBound, whatever the
\* number of processes and however their calls interleave.
THEOREM StalenessIsBounded == Spec => AnswersBoundedStale
<1>1. CacheAgeInv /\ [Next]_vars =>
        [\A c \in Call : Answers(c) /\ calls'[c].src # "dbError" =>
           age'[calls'[c].key][calls'[c].row] <= StaleBound]_vars
  BY AnswerStep
<1> QED
  BY <1>1, CacheAgesAreBounded, PTL DEF Spec, AnswersBoundedStale

LEMMA RedisFillStep ==
  ASSUME CacheAgeInv, [Next]_vars
  PROVE  \A k \in Key :
           redis'[k].value # None /\ redis'[k].left = TTL /\ redis'[k] # redis[k]
             => age'[k][redis'[k].value] <= Latency
<1> DEFINE Recent == \A k \in Key :
             redis'[k].value # None /\ redis'[k].left = TTL /\ redis'[k] # redis[k]
               => age'[k][redis'[k].value] <= Latency
<1> SUFFICES Recent
  OBVIOUS
<1> USE DEF CacheAgeInv
<1>0. TTL \in Nat \ {0} /\ Latency \in Nat
  BY SystemConfigAssumption
<1>1. CASE Tick
  <2>1. \A k \in Key : redis[k].left \in -1..TTL /\ redis[k] \in Entry
    BY DEF TypeOK, Entry
  <2>2. \A k \in Key : redis'[k].left # TTL
    BY <1>0, <1>1, <2>1 DEF Tick, TickRedis, NoEntry, Entry
  <2> QED
    BY <2>2
<1>2. ASSUME NEW c \in Call, SetInRedis(c)
      PROVE  Recent
  <2>1. calls[c] \in CallState /\ calls[c].pc = "setRedis"
    BY <1>2 DEF TypeOK, SetInRedis
  <2>2. /\ calls[c].key \in Key /\ calls[c].row \in Row
        /\ age[calls[c].key][calls[c].row] <= calls[c].lat
        /\ calls[c].lat \in 0..Latency
    BY <2>1 DEF CallAge, InFlight, CallPc, CallState
  <2>3. age[calls[c].key][calls[c].row] <= Latency
    BY <1>0, <2>2, BoundIsNat DEF TypeOK
  <2>4. /\ age' = age
        /\ redis' = [redis EXCEPT ![calls[c].key] = NewEntry(calls[c].row)]
    BY <1>2 DEF SetInRedis, stores
  <2> QED
    BY <2>2, <2>3, <2>4 DEF NewEntry, TypeOK
<1>3. ASSUME NEW p \in Process, DeleteFromRedis(p) \/ DeleteBatch(p)
      PROVE  Recent
  BY <1>3 DEF DeleteFromRedis, DeleteBatch, Without, NoEntry
<1>4. CASE redis' = redis
  BY <1>4
<1> QED
  BY <1>1, <1>2, <1>3, <1>4
  DEF Next, CallStep, InvalidateStep, vars, GetHitsMemory,
      GetMissesMemory, RedisHit, RedisMiss, DbFound, DbMissing,
      ReturnDefault, DbFails, SkipSetInRedis, SetInMemory, Respond,
      InvalidateKey, InvalidateAll, ScanRedis, InvalidateFails, Restart,
      DbWrite

\* Theorem: Redis is filled from the table only, never from a Map.
THEOREM RedisIsFilledFromTheTable == Spec => RedisFillIsRecent
<1>1. CacheAgeInv /\ [Next]_vars =>
        [\A k \in Key :
          redis'[k].value # None /\ redis'[k].left = TTL /\ redis'[k] # redis[k]
            => age'[k][redis'[k].value] <= Latency]_vars
  BY RedisFillStep
<1> QED
  BY <1>1, CacheAgesAreBounded, PTL DEF Spec, RedisFillIsRecent

-----------------------------------------------------------------------------
(* Refinement *)

LEMMA StoreInitStep == Init => Store!StoreInit
BY DEF Init, Store!StoreInit, Store!Row, Store!MaxAge, Row, MaxAge, answer,
       NoCall

LEMMA AnswerUnchanged ==
  ASSUME \A c \in Call : \/ calls'[c] = calls[c]
                         \/ calls[c].pc # "done" /\ calls'[c].pc # "done"
  PROVE  answer' = answer
BY DEF answer

\* Each step of the service, as a step of the store.
LEMMA MapsToWrite ==
  ASSUME NEW k \in Key, NEW r \in Row, DbWrite(k, r)
  PROVE  Store!StoreWrite(k, r)
<1>1. answer' = answer
  BY AnswerUnchanged DEF DbWrite
<1> QED
  BY <1>1 DEF DbWrite, Store!StoreWrite

LEMMA MapsToTick ==
  ASSUME CacheAgeInv, Tick
  PROVE  Store!StoreTick
<1>0. \A c \in Call : calls[c] \in CallState
  BY DEF CacheAgeInv, TypeOK
<1>1. \A c \in Call : \/ calls'[c] = calls[c]
                      \/ calls[c].pc # "done" /\ calls'[c].pc # "done"
  <2> SUFFICES ASSUME NEW c \in Call, calls[c].pc \in InFlight
               PROVE  calls[c].pc # "done" /\ calls'[c].pc # "done"
    BY DEF Tick
  <2>1. calls'[c].pc = calls[c].pc
    BY <1>0 DEF Tick, CallState
  <2> QED
    BY <2>1 DEF InFlight
<1>2. answer' = answer
  BY <1>1, AnswerUnchanged
<1> QED
  BY <1>2
  DEF Tick, Older, Store!StoreTick, Store!Row, Store!MaxAge, Row, MaxAge

\* The steps that answer from memory, from the table or from Redis.
LEMMA WhoAnswers ==
  ASSUME CacheAgeInv, NEW c \in Call,
         \/ \E p \in Process, k \in Key : GetHitsMemory(c, p, k)
         \/ ReturnDefault(c) \/ SetInMemory(c)
  PROVE  /\ [Next]_vars /\ Answers(c) /\ calls'[c].src # "dbError"
         /\ calls[c].pc \in InFlight => calls'[c].key = calls[c].key
<1>0. calls \in [Call -> CallState]
  BY DEF CacheAgeInv, TypeOK
<1>1. ASSUME NEW p \in Process, NEW k \in Key, GetHitsMemory(c, p, k)
      PROVE  /\ [Next]_vars /\ Answers(c) /\ calls'[c].src # "dbError"
             /\ calls[c].pc \notin InFlight
  BY <1>0, <1>1 DEF GetHitsMemory, Answers, Next, InFlight
<1>2. ASSUME ReturnDefault(c) \/ SetInMemory(c)
      PROVE  /\ [Next]_vars /\ Answers(c) /\ calls'[c].src # "dbError"
             /\ calls'[c].key = calls[c].key
  <2>1. /\ calls[c].pc \in {"missing", "setMemory"}
        /\ calls' = [calls EXCEPT ![c] = Answered(@)]
    BY <1>2 DEF ReturnDefault, SetInMemory
  <2>2. calls[c].src # "dbError"
    BY <2>1 DEF CacheAgeInv, CallAge, InFlight, CallPc
  <2>3. Answers(c) /\ calls'[c].src # "dbError" /\ calls'[c].key = calls[c].key
    BY <1>0, <2>1, <2>2 DEF Answers, Answered, CallState
  <2> QED
    BY <1>2, <2>3 DEF Next, CallStep
<1> QED
  BY <1>1, <1>2

LEMMA MapsToAnswer ==
  ASSUME CacheAgeInv, [Next]_vars, NEW c \in Call, Answers(c),
         calls'[c].src # "dbError"
  PROVE  /\ calls'[c].key \in Key /\ calls'[c].row \in Row
         /\ Store!StoreAnswer(c, calls'[c].key, calls'[c].row)
<1> DEFINE k == calls'[c].key
           r == calls'[c].row
<1>1. /\ UNCHANGED <<db, age>> /\ k \in Key /\ r \in Row
      /\ age[k][r] <= StaleBound
      /\ \A d \in Call \ {c} : calls'[d] = calls[d]
  BY AnswerStep
<1>2. answer[c] = None
  BY DEF Answers, answer
<1>3. answer' = [answer EXCEPT ![c] = [key |-> k, row |-> r, failed |-> FALSE]]
  BY <1>1 DEF Answers, answer
<1> QED
  BY <1>1, <1>2, <1>3 DEF Store!StoreAnswer

LEMMA MapsToDefault ==
  ASSUME CacheAgeInv, NEW c \in Call, DbFails(c)
  PROVE  /\ calls[c].key \in Key /\ calls[c].pc \in InFlight
         /\ calls'[c].pc = "done" /\ calls'[c].row = None
         /\ calls'[c].key = calls[c].key
         /\ \A d \in Call \ {c} : calls'[d] = calls[d]
         /\ Store!StoreDefault(c, calls[c].key)
<1>0. calls \in [Call -> CallState]
  BY DEF CacheAgeInv, TypeOK
<1>1. /\ calls[c].pc = "db" /\ calls[c].row = None /\ calls[c].key \in Key
      /\ calls[c].pc \in InFlight
  BY DEF DbFails, CacheAgeInv, CallAge, InFlight, CallPc
<1>2. [calls[c] EXCEPT !.src = "dbError"] \in CallState
  BY <1>0 DEF CallState, Source
<1>3. /\ calls'[c].pc = "done" /\ calls'[c].src = "dbError"
      /\ calls'[c].row = None /\ calls'[c].key = calls[c].key
      /\ \A d \in Call \ {c} : calls'[d] = calls[d]
  BY <1>0, <1>1, <1>2 DEF DbFails, Answered, CallState
<1>4. answer' = [answer EXCEPT ![c] =
                   [key |-> calls[c].key, row |-> None, failed |-> TRUE]]
  BY <1>3 DEF answer
<1>5. Store!StoreDefault(c, calls[c].key)
  BY <1>1, <1>4 DEF DbFails, Store!StoreDefault, answer, stores
<1> QED
  BY <1>1, <1>3, <1>5

LEMMA MapsToRelease ==
  ASSUME CacheAgeInv
  PROVE  /\ \A c \in Call : Respond(c) => Store!StoreRelease({c})
         /\ \A p \in Process :
              Restart(p) => Store!StoreRelease({c \in Call : calls[c].proc = p})
<1>1. ASSUME NEW c \in Call, Respond(c)
      PROVE  Store!StoreRelease({c})
  <2>1. \A d \in Call : calls'[d] = IF d = c THEN NoCall ELSE calls[d]
    BY <1>1 DEF Respond, CacheAgeInv, TypeOK
  <2>2. answer' = [d \in Call |-> IF d \in {c} THEN None ELSE answer[d]]
    BY <2>1 DEF answer, NoCall
  <2> QED
    BY <1>1, <2>2 DEF Respond, Store!StoreRelease, stores
<1>2. ASSUME NEW p \in Process, Restart(p)
      PROVE  Store!StoreRelease({c \in Call : calls[c].proc = p})
  <2> DEFINE S == {c \in Call : calls[c].proc = p}
  <2>1. answer' = [d \in Call |-> IF d \in S THEN None ELSE answer[d]]
    BY <1>2 DEF Restart, answer, NoCall
  <2> QED
    BY <1>2, <2>1 DEF Restart, Store!StoreRelease, stores
<1> QED
  BY <1>1, <1>2

\* What a call does between its first await and its answer.
Underway(c) ==
  \/ RedisHit(c) \/ RedisMiss(c) \/ DbFound(c) \/ DbMissing(c)
  \/ SetInRedis(c) \/ SkipSetInRedis(c)

LEMMA CallsUnderWay ==
  ASSUME CacheAgeInv, NEW c \in Call, Underway(c)
  PROVE  /\ calls[c].pc \in InFlight /\ calls'[c].pc \in InFlight
         /\ calls'[c].key = calls[c].key
         /\ \A d \in Call \ {c} : calls'[d] = calls[d]
<1>0. calls \in [Call -> CallState]
  BY DEF CacheAgeInv, TypeOK
<1> QED
  BY <1>0 DEF Underway, RedisHit, RedisMiss, DbFound, DbMissing, SetInRedis,
     SkipSetInRedis, CallState, InFlight, CallPc

LEMMA MapsToStutter ==
  ASSUME CacheAgeInv, NEW c \in Call,
         \/ \E p \in Process, k \in Key : GetMissesMemory(c, p, k)
         \/ Underway(c)
  PROVE  UNCHANGED <<db, age, answer>>
<1>1. ASSUME NEW p \in Process, NEW k \in Key, GetMissesMemory(c, p, k)
      PROVE  UNCHANGED <<db, age, answer>>
  <2>1. \A d \in Call : \/ calls'[d] = calls[d]
                        \/ calls[d].pc # "done" /\ calls'[d].pc # "done"
    BY <1>1 DEF GetMissesMemory, NoCall, CacheAgeInv, TypeOK
  <2> QED
    BY <1>1, <2>1, AnswerUnchanged DEF GetMissesMemory, stores
<1>2. ASSUME Underway(c)
      PROVE  UNCHANGED <<db, age, answer>>
  <2>1. \A d \in Call : \/ calls'[d] = calls[d]
                        \/ calls[d].pc # "done" /\ calls'[d].pc # "done"
    BY <1>2, CallsUnderWay DEF InFlight
  <2>2. UNCHANGED <<db, age>>
    BY <1>2
    DEF Underway, RedisHit, RedisMiss, DbFound, DbMissing, SetInRedis,
        SkipSetInRedis, stores
  <2> QED
    BY <2>1, <2>2, AnswerUnchanged
<1> QED
  BY <1>1, <1>2

LEMMA StoreStep ==
  ASSUME CacheAgeInv, [Next]_vars
  PROVE  [Store!StoreNext]_(Store!storeVars)
<1> DEFINE Goal == [Store!StoreNext]_(Store!storeVars)
<1>a. ASSUME UNCHANGED <<db, age, answer>>
      PROVE  Goal
  BY <1>a DEF Store!storeVars
<1>1. ASSUME NEW k \in Key, NEW r \in Row, DbWrite(k, r)
      PROVE  Goal
  BY <1>1, MapsToWrite DEF Store!StoreNext, Store!Row, Row
<1>2. CASE Tick
  BY <1>2, MapsToTick DEF Store!StoreNext
<1>3. ASSUME NEW c \in Call,
             \/ \E p \in Process, k \in Key : GetHitsMemory(c, p, k)
             \/ ReturnDefault(c) \/ SetInMemory(c)
      PROVE  Goal
  BY <1>3, WhoAnswers, MapsToAnswer DEF Store!StoreNext, Store!Row, Row
<1>4. ASSUME NEW c \in Call, DbFails(c)
      PROVE  Goal
  BY <1>4, MapsToDefault DEF Store!StoreNext
<1>5. ASSUME NEW c \in Call, Respond(c)
      PROVE  Goal
  BY <1>5, MapsToRelease DEF Store!StoreNext
<1>6. ASSUME NEW p \in Process, Restart(p)
      PROVE  Goal
  BY <1>6, MapsToRelease DEF Store!StoreNext
<1>7. ASSUME NEW c \in Call,
             \/ \E p \in Process, k \in Key : GetMissesMemory(c, p, k)
             \/ Underway(c)
      PROVE  Goal
  BY <1>7, <1>a, MapsToStutter
<1>8. CASE UNCHANGED <<db, age, calls>>
  BY <1>a, <1>8, AnswerUnchanged
<1> QED
  BY <1>1, <1>2, <1>3, <1>4, <1>5, <1>6, <1>7, <1>8
  DEF Next, CallStep, Underway, InvalidateStep, vars, stores, InvalidateKey,
      InvalidateAll, DeleteFromRedis, ScanRedis, DeleteBatch, InvalidateFails

\* Theorem: the three levels implement a single store whose reads are at most
\* StaleBound ticks late; callers, the guard among them, may reason about it.
THEOREM ServiceImplementsFlagStore == Spec => ImplementsFlagStore
<1>1. Init => Store!StoreInit
  BY StoreInitStep
<1>2. CacheAgeInv /\ [Next]_vars => [Store!StoreNext]_(Store!storeVars)
  BY StoreStep
<1> QED
  BY <1>1, <1>2, CacheAgesAreBounded, PTL
  DEF Spec, ImplementsFlagStore, Store!StoreSpec

-----------------------------------------------------------------------------
(* The guard over the caches *)

\* How a request and the call of get() that its guard makes go together.
Linked(c) ==
  /\ request[c].pc = "asking" =>
       request[c].route \in Route /\ FlagOfRequest(c) \in Key
  /\ calls[c].pc \in InFlight =>
       request[c].pc = "asking" /\ calls[c].key = FlagOfRequest(c)
  /\ calls[c].pc = "done" => request[c].pc \in {"allowed", "denied"}

LinkInv ==
  /\ request \in [Call -> Guard!RequestState]
  /\ \A c \in Call : Linked(c)

\* The inductive invariant.
GuardedInv == CacheAgeInv /\ LinkInv

LEMMA DecisionIsOne == \A open : Guard!Decision(open) \in {"allowed", "denied"}
BY DEF Guard!Decision

LEMMA RequestsGoOn ==
  ASSUME LinkInv, NEW c \in Call, NEW q \in {"idle", "asking", "allowed", "denied"},
         request' = [request EXCEPT ![c].pc = q]
  PROVE  /\ request' \in [Call -> Guard!RequestState]
         /\ request'[c].pc = q /\ request'[c].route = request[c].route
         /\ \A d \in Call \ {c} : request'[d] = request[d]
BY DEF LinkInv, Guard!RequestState

\* A step of the guarded service is a step of the service.
LEMMA GuardedStepIsAStep ==
  ASSUME LinkInv, [GuardedNext]_guardedVars
  PROVE  [Next]_vars
<1>1. ASSUME NEW c \in Call, NEW p \in Process, Ask(c, p)
      PROVE  Next
  <2>1. FlagOfRequest(c) \in Key
    BY <1>1 DEF Ask, LinkInv, Linked
  <2> QED
    BY <1>1, <2>1 DEF Ask, Next
<1>2. ASSUME NEW c \in Call, Load(c) \/ Decide(c)
      PROVE  Next
  BY <1>2 DEF Load, Decide, Next, CallStep
<1>3. ASSUME NEW c \in Call, Finish(c)
      PROVE  [Next]_vars
  BY <1>3 DEF Finish, Next, CallStep
<1>4. ASSUME NEW p \in Process, Die(p)
      PROVE  Next
  BY <1>4 DEF Die, Next
<1>5. CASE Elsewhere
  BY <1>5 DEF Elsewhere, Next
<1>6. CASE \E c \in Call, h \in Route : Arrive(c, h)
  BY <1>6 DEF Arrive
<1>7. CASE UNCHANGED guardedVars
  BY <1>7 DEF guardedVars
<1> QED
  BY <1>1, <1>2, <1>3, <1>4, <1>5, <1>6, <1>7 DEF GuardedNext

LEMMA LinkStep ==
  ASSUME CacheAgeInv, LinkInv, [GuardedNext]_guardedVars
  PROVE  LinkInv'
<1>0. calls \in [Call -> CallState] /\ request \in [Call -> Guard!RequestState]
  BY DEF CacheAgeInv, TypeOK, LinkInv
<1>n. Guard!NoRequest \in Guard!RequestState /\ Guard!NoRequest.pc = "idle"
  BY DEF Guard!NoRequest, Guard!RequestState
<1>k. NoCall.pc = "idle" /\ "idle" \notin InFlight /\ "done" \notin InFlight
  BY DEF NoCall, InFlight
<1>1. ASSUME NEW c \in Call, NEW h \in Route, Arrive(c, h)
      PROVE  LinkInv'
  <2> DEFINE q == [pc |-> IF FlagOf[h] = None THEN "allowed" ELSE "asking",
                   route |-> h]
  <2>1. /\ request[c].pc = "idle" /\ request' = [request EXCEPT ![c] = q]
        /\ calls' = calls
    BY <1>1 DEF Arrive, vars
  <2>2. q \in Guard!RequestState
    BY DEF Guard!RequestState
  <2>3. calls[c].pc \notin InFlight \cup {"done"}
    BY <2>1 DEF LinkInv, Linked
  <2>4. Linked(c)'
    BY <1>0, <2>1, <2>3, GuardedServiceAssumption DEF Linked, FlagOfRequest
  <2>5. \A d \in Call \ {c} : Linked(d)'
    BY <1>0, <2>1 DEF LinkInv, Linked, FlagOfRequest
  <2> QED
    BY <1>0, <2>1, <2>2, <2>4, <2>5 DEF LinkInv
<1>2. ASSUME NEW c \in Call, calls[c].pc = "idle" \/ calls[c].pc \in InFlight,
             calls'[c].pc = "done", \A d \in Call \ {c} : calls'[d] = calls[d],
             Decides(c)
      PROVE  LinkInv'
  <2>1. /\ request' \in [Call -> Guard!RequestState]
        /\ request'[c].pc \in {"allowed", "denied"}
        /\ \A d \in Call \ {c} : request'[d] = request[d]
    BY <1>2, DecisionIsOne, RequestsGoOn DEF Decides
  <2>2. Linked(c)'
    BY <1>2, <1>k, <2>1 DEF Linked
  <2>3. \A d \in Call \ {c} : Linked(d)'
    BY <1>2, <2>1 DEF LinkInv, Linked, FlagOfRequest
  <2> QED
    BY <2>1, <2>2, <2>3 DEF LinkInv
<1>3. ASSUME NEW c \in Call, NEW p \in Process, Ask(c, p)
      PROVE  LinkInv'
  <2> DEFINE k == FlagOfRequest(c)
  <2>1. k \in Key /\ request[c].pc = "asking"
    BY <1>3 DEF Ask, LinkInv, Linked
  <2>2. CASE GetHitsMemory(c, p, k) /\ Decides(c)
    BY <1>0, <1>2, <2>2 DEF GetHitsMemory
  <2>3. CASE GetMissesMemory(c, p, k) /\ UNCHANGED request
    <3>1. /\ calls'[c].pc = "redis" /\ calls'[c].key = k
          /\ \A d \in Call \ {c} : calls'[d] = calls[d]
      BY <1>0, <2>3 DEF GetMissesMemory, NoCall
    <3>2. Linked(c)'
      BY <2>1, <2>3, <3>1 DEF LinkInv, Linked, FlagOfRequest
    <3>3. \A d \in Call \ {c} : Linked(d)'
      BY <2>3, <3>1 DEF LinkInv, Linked, FlagOfRequest
    <3> QED
      BY <1>0, <2>3, <3>2, <3>3 DEF LinkInv
  <2> QED
    BY <1>3, <2>2, <2>3 DEF Ask
<1>4. ASSUME NEW c \in Call, Load(c)
      PROVE  LinkInv'
  <2>1. Underway(c) /\ UNCHANGED request
    BY <1>4 DEF Load, Underway
  <2>2. /\ calls[c].pc \in InFlight /\ calls'[c].pc \in InFlight
        /\ calls'[c].key = calls[c].key
        /\ \A d \in Call \ {c} : calls'[d] = calls[d]
    BY <2>1, CallsUnderWay
  <2>3. \A d \in Call : Linked(d)'
    BY <1>k, <2>1, <2>2 DEF LinkInv, Linked, FlagOfRequest
  <2> QED
    BY <1>0, <2>1, <2>3 DEF LinkInv
<1>5. ASSUME NEW c \in Call, Decide(c)
      PROVE  LinkInv'
  <2>1. CASE DbFails(c)
    BY <1>2, <1>5, <2>1, MapsToDefault DEF Decide
  <2>2. CASE ReturnDefault(c) \/ SetInMemory(c)
    <3>1. calls[c].pc \in InFlight
      BY <2>2 DEF ReturnDefault, SetInMemory, InFlight, CallPc
    <3>2. calls'[c].pc = "done" /\ \A d \in Call \ {c} : calls'[d] = calls[d]
      BY <2>2, WhoAnswers, AnswerStep DEF Answers
    <3> QED
      BY <1>2, <1>5, <3>1, <3>2 DEF Decide
  <2> QED
    BY <1>5, <2>1, <2>2 DEF Decide
<1>6. ASSUME NEW c \in Call, Finish(c)
      PROVE  LinkInv'
  <2>1. /\ request[c].pc \in {"allowed", "denied"}
        /\ request' = [request EXCEPT ![c] = Guard!NoRequest]
    BY <1>6 DEF Finish
  <2>2. calls'[c].pc = "idle" /\ \A d \in Call \ {c} : calls'[d] = calls[d]
    BY <1>0, <1>6, <1>k DEF Finish, Respond, vars
  <2>3. Linked(c)'
    BY <1>0, <1>n, <1>k, <2>1, <2>2 DEF Linked
  <2>4. \A d \in Call \ {c} : Linked(d)'
    BY <1>0, <2>1, <2>2 DEF LinkInv, Linked, FlagOfRequest
  <2> QED
    BY <1>0, <1>n, <2>1, <2>3, <2>4 DEF LinkInv
<1>7. ASSUME NEW p \in Process, Die(p)
      PROVE  LinkInv'
  <2>1. \A d \in Call :
          /\ request'[d] = IF calls[d].proc = p THEN Guard!NoRequest ELSE request[d]
          /\ calls'[d] = IF calls[d].proc = p THEN NoCall ELSE calls[d]
    BY <1>7 DEF Die, Restart
  <2>2. request' \in [Call -> Guard!RequestState]
    BY <1>0, <1>7, <1>n DEF Die
  <2>3. \A d \in Call : Linked(d)'
    BY <1>n, <1>k, <2>1 DEF LinkInv, Linked, FlagOfRequest
  <2> QED
    BY <2>2, <2>3 DEF LinkInv
<1>8. ASSUME UNCHANGED request,
             \A c \in Call : /\ calls'[c].pc = calls[c].pc
                             /\ calls'[c].key = calls[c].key
      PROVE  LinkInv'
  BY <1>8 DEF LinkInv, Linked, FlagOfRequest
<1>9. CASE Elsewhere
  <2>1. CASE Tick
    <3>1. \A c \in Call : /\ calls'[c].pc = calls[c].pc
                          /\ calls'[c].key = calls[c].key
      BY <1>0, <2>1 DEF Tick, CallState
    <3> QED
      BY <1>8, <1>9, <3>1 DEF Elsewhere
  <2>2. CASE ~ Tick
    <3>1. calls' = calls /\ UNCHANGED request
      BY <1>9, <2>2 DEF Elsewhere, InvalidateKey, InvalidateAll, InvalidateStep,
         DeleteFromRedis, ScanRedis, DeleteBatch, InvalidateFails, DbWrite
    <3> QED
      BY <1>8, <3>1
  <2> QED
    BY <2>1, <2>2
<1>10. CASE UNCHANGED guardedVars
  BY <1>8, <1>10 DEF guardedVars, vars
<1> QED
  BY <1>1, <1>3, <1>4, <1>5, <1>6, <1>7, <1>9, <1>10 DEF GuardedNext

LEMMA InitGuardedInv == GuardedInit => GuardedInv
<1> SUFFICES ASSUME GuardedInit PROVE GuardedInv
  OBVIOUS
<1>1. CacheAgeInv
  BY InitInv DEF GuardedInit
<1>2. request \in [Call -> Guard!RequestState]
  BY DEF GuardedInit, Guard!NoRequest, Guard!RequestState
<1>3. \A c \in Call : Linked(c)
  BY DEF GuardedInit, Init, Linked, Guard!NoRequest, NoCall, InFlight
<1> QED
  BY <1>1, <1>2, <1>3 DEF GuardedInv, LinkInv

LEMMA GuardedInvStep ==
  ASSUME GuardedInv, [GuardedNext]_guardedVars
  PROVE  GuardedInv'
<1>1. [Next]_vars
  BY GuardedStepIsAStep DEF GuardedInv
<1>2. CacheAgeInv'
  BY <1>1, TypeOKStep, HeldNowStep, RedisAgeStep, MemoryAgeStep, CallAgeStep
  DEF GuardedInv, CacheAgeInv
<1>3. LinkInv'
  BY LinkStep DEF GuardedInv
<1> QED
  BY <1>2, <1>3 DEF GuardedInv

\* Theorem: a request asks as long as the get() of its guard is under way, for
\* the flag of its route, and is decided from the moment it is answered.
THEOREM RequestsFollowTheirCalls == GuardedSpec => []GuardedInv
BY InitGuardedInv, GuardedInvStep, PTL DEF GuardedSpec

\* Theorem: the guard takes the service through no step of its own, so that
\* what is proved of the caches holds under it.
THEOREM GuardedServiceIsTheService == GuardedSpec => Spec
<1>1. GuardedInit => Init
  BY DEF GuardedInit
<1>2. GuardedInv /\ [GuardedNext]_guardedVars => [Next]_vars
  BY GuardedStepIsAStep DEF GuardedInv
<1> QED
  BY <1>1, <1>2, RequestsFollowTheirCalls, PTL DEF GuardedSpec, Spec

\* The store of the guard is the store of the service.
LEMMA SameStore ==
  /\ \A k, r : Store!StoreWrite(k, r) => Guard!StoreWrite(k, r)
  /\ Store!StoreTick => Guard!StoreTick
  /\ \A c, k, r : Store!StoreAnswer(c, k, r) => Guard!StoreAnswer(c, k, r)
  /\ \A c, k : Store!StoreDefault(c, k) => Guard!StoreDefault(c, k)
  /\ \A S : Store!StoreRelease(S) => Guard!StoreRelease(S)
BY DEF Store!StoreWrite, Guard!StoreWrite, Store!StoreTick, Guard!StoreTick,
       Store!StoreAnswer, Guard!StoreAnswer, Store!StoreDefault,
       Guard!StoreDefault, Store!StoreRelease, Guard!StoreRelease,
       Store!Row, Guard!Row, Store!MaxAge, Guard!MaxAge

LEMMA GuardInitStep == GuardedInit => Guard!GuardInit
BY StoreInitStep
DEF GuardedInit, Guard!GuardInit, Guard!StoreInit, Store!StoreInit,
    Store!Row, Guard!Row, Store!MaxAge, Guard!MaxAge

\* A call that is answered with a row decides its request.
LEMMA MapsToDecision ==
  ASSUME GuardedInv, [Next]_vars, NEW c \in Call, request[c].pc = "asking",
         Answers(c), calls'[c].src # "dbError",
         calls'[c].key = FlagOfRequest(c), Decides(c)
  PROVE  \E r \in Row : Guard!Decide(c, r)
<1>1. /\ calls'[c].row \in Row
      /\ Store!StoreAnswer(c, FlagOfRequest(c), calls'[c].row)
  BY MapsToAnswer DEF GuardedInv
<1>2. Guard!StoreAnswer(c, FlagOf[request[c].route], calls'[c].row)
  BY <1>1, SameStore DEF FlagOfRequest
<1>3. Guard!Decide(c, calls'[c].row)
  BY <1>2 DEF Guard!Decide, Decides
<1> QED
  BY <1>1, <1>3

LEMMA GuardStep ==
  ASSUME GuardedInv, [GuardedNext]_guardedVars
  PROVE  [Guard!GuardNext]_(Guard!guardVars)
<1> DEFINE Goal == [Guard!GuardNext]_(Guard!guardVars)
<1> USE DEF GuardedInv
<1>0. [Next]_vars
  BY GuardedStepIsAStep
<1>r. Row = Guard!Row
  BY DEF Row, Guard!Row
<1>a. ASSUME UNCHANGED <<db, age, answer, request>>
      PROVE  Goal
  BY <1>a DEF Guard!guardVars, Guard!storeVars
<1>b. ASSUME NEW c \in Call, NEW r \in Row, Guard!Decide(c, r)
      PROVE  Goal
  BY <1>b, <1>r DEF Guard!GuardNext
<1>1. ASSUME NEW c \in Call, NEW h \in Route, Arrive(c, h)
      PROVE  Goal
  <2>1. UNCHANGED <<db, age, answer>>
    BY <1>1, AnswerUnchanged DEF Arrive, vars
  <2>2. Guard!CanActivate(c, h)
    BY <1>1, <2>1 DEF Arrive, Guard!CanActivate, Guard!storeVars
  <2> QED
    BY <2>2 DEF Guard!GuardNext
<1>2. ASSUME NEW c \in Call, NEW p \in Process, Ask(c, p)
      PROVE  Goal
  <2> DEFINE k == FlagOfRequest(c)
  <2>1. k \in Key /\ request[c].pc = "asking"
    BY <1>2 DEF Ask, LinkInv, Linked
  <2>2. CASE GetHitsMemory(c, p, k) /\ Decides(c)
    <3>1. calls'[c].key = k
      BY <2>2 DEF GetHitsMemory, CacheAgeInv, TypeOK
    <3>2. Answers(c) /\ calls'[c].src # "dbError"
      BY <2>1, <2>2, WhoAnswers
    <3> QED
      BY <1>0, <1>b, <2>1, <2>2, <3>1, <3>2, MapsToDecision
  <2>3. CASE GetMissesMemory(c, p, k) /\ UNCHANGED request
    BY <1>a, <2>1, <2>3, MapsToStutter
  <2> QED
    BY <1>2, <2>2, <2>3 DEF Ask
<1>3. ASSUME NEW c \in Call, Load(c)
      PROVE  Goal
  <2>1. Underway(c) /\ UNCHANGED request
    BY <1>3 DEF Load, Underway
  <2> QED
    BY <1>a, <2>1, MapsToStutter
<1>4. ASSUME NEW c \in Call, Decide(c)
      PROVE  Goal
  <2>1. CASE DbFails(c)
    <3>1. /\ request[c].pc = "asking" /\ calls[c].key = FlagOfRequest(c)
          /\ calls'[c].row = None
          /\ Store!StoreDefault(c, calls[c].key)
      BY <2>1, MapsToDefault DEF LinkInv, Linked
    <3>2. Guard!StoreDefault(c, FlagOf[request[c].route])
      BY <3>1, SameStore DEF FlagOfRequest
    <3>3. Guard!DecideOnError(c)
      BY <1>4, <3>1, <3>2 DEF Decide, Decides, Guard!DecideOnError
    <3> QED
      BY <3>3 DEF Guard!GuardNext
  <2>2. CASE ReturnDefault(c) \/ SetInMemory(c)
    <3>1. calls[c].pc \in InFlight
      BY <2>2 DEF ReturnDefault, SetInMemory, InFlight, CallPc
    <3>2. request[c].pc = "asking" /\ calls[c].key = FlagOfRequest(c)
      BY <3>1 DEF LinkInv, Linked
    <3>3. /\ Answers(c) /\ calls'[c].src # "dbError"
          /\ calls'[c].key = FlagOfRequest(c)
      BY <2>2, <3>1, <3>2, WhoAnswers
    <3>4. Decides(c)
      BY <1>4 DEF Decide
    <3> QED
      BY <1>0, <1>b, <3>2, <3>3, <3>4, MapsToDecision
  <2> QED
    BY <1>4, <2>1, <2>2 DEF Decide
<1>5. ASSUME NEW c \in Call, Finish(c)
      PROVE  Goal
  <2>1. CASE Respond(c)
    <3>1. Guard!StoreRelease({c})
      BY <2>1, MapsToRelease, SameStore
    <3> QED
      BY <1>5, <3>1 DEF Finish, Guard!Finish, Guard!GuardNext
  <2>2. CASE calls[c].pc = "idle" /\ UNCHANGED vars
    <3>1. UNCHANGED <<db, age, answer>>
      BY <2>2, AnswerUnchanged DEF vars
    <3>2. answer' = [d \in Call |-> IF d \in {c} THEN None ELSE answer[d]]
      BY <2>2, <3>1 DEF answer
    <3>3. Guard!StoreRelease({c})
      BY <3>1, <3>2 DEF Guard!StoreRelease
    <3> QED
      BY <1>5, <3>3 DEF Finish, Guard!Finish, Guard!GuardNext
  <2> QED
    BY <1>5, <2>1, <2>2 DEF Finish
<1>6. ASSUME NEW p \in Process, Die(p)
      PROVE  Goal
  <2> DEFINE S == {c \in Call : calls[c].proc = p}
  <2>1. Guard!StoreRelease(S)
    BY <1>6, MapsToRelease, SameStore DEF Die
  <2>2. request' = [c \in Call |->
          IF c \in S THEN Guard!NoRequest ELSE request[c]]
    BY <1>6 DEF Die
  <2>3. Guard!Die(S)
    BY <2>1, <2>2 DEF Guard!Die
  <2> QED
    BY <2>3 DEF Guard!GuardNext
<1>7. CASE Elsewhere
  <2>1. CASE Tick
    BY <1>7, <2>1, MapsToTick, SameStore DEF Elsewhere, Guard!GuardNext
  <2>2. ASSUME NEW k \in Key, NEW r \in Row, DbWrite(k, r)
        PROVE  Goal
    <3>1. Guard!StoreWrite(k, r) /\ UNCHANGED request
      BY <1>7, <2>2, MapsToWrite, SameStore DEF Elsewhere
    <3> QED
      BY <1>r, <3>1 DEF Guard!GuardNext
  <2>3. CASE UNCHANGED <<db, age, calls>>
    BY <1>7, <1>a, <2>3, AnswerUnchanged DEF Elsewhere
  <2> QED
    BY <1>7, <2>1, <2>2, <2>3
    DEF Elsewhere, InvalidateKey, InvalidateAll, InvalidateStep,
        DeleteFromRedis, ScanRedis, DeleteBatch, InvalidateFails, stores
<1>8. CASE UNCHANGED guardedVars
  BY <1>8, <1>a, AnswerUnchanged DEF guardedVars, vars
<1> QED
  BY <1>1, <1>2, <1>3, <1>4, <1>5, <1>6, <1>7, <1>8 DEF GuardedNext

\* Theorem: over the caches of the processes the guard does what it does over
\* a store that is read at most StaleBound ticks late.
THEOREM GuardedServiceImplementsGuard == GuardedSpec => ImplementsGuard
<1>1. GuardedInit => Guard!GuardInit
  BY GuardInitStep
<1>2. GuardedInv /\ [GuardedNext]_guardedVars =>
        [Guard!GuardNext]_(Guard!guardVars)
  BY GuardStep
<1> QED
  BY <1>1, <1>2, RequestsFollowTheirCalls, PTL
  DEF GuardedSpec, ImplementsGuard, Guard!GuardSpec

\* What was off is closed and what was on is open, for every JSON value.
LEMMA OffAndOn ==
  \A r : /\ Guard!Opens(r) => ~ Guard!Off(r)
         /\ Guard!On(r) => Guard!Opens(r)
BY DEF Guard!Opens, Guard!IsEnabled, Guard!Truthy, Guard!Off, Guard!On

\* A request is decided when its get() answers, in memory or after an await.
LEMMA WhoDecidesIt ==
  ASSUME GuardedInv, [GuardedNext]_guardedVars, NEW c \in Call,
         request[c].pc = "asking", request'[c].pc \in {"allowed", "denied"}
  PROVE  (\E r \in Row : Guard!Decide(c, r)) \/ Guard!DecideOnError(c)
<1>0. request \in [Call -> Guard!RequestState] /\ request'[c] # request[c]
  BY DEF GuardedInv, LinkInv
<1>1. Guard!GuardNext
  BY <1>0, GuardStep DEF Guard!guardVars
<1>2. ASSUME NEW d \in Call, d # c,
             \/ \E h \in Route : Guard!CanActivate(d, h)
             \/ \E r \in Row : Guard!Decide(d, r)
             \/ Guard!DecideOnError(d) \/ Guard!Finish(d)
      PROVE  FALSE
  BY <1>0, <1>2
  DEF Guard!CanActivate, Guard!Decide, Guard!DecideOnError, Guard!Finish
<1>3. ASSUME (\E h \in Route : Guard!CanActivate(c, h)) \/ Guard!Finish(c)
      PROVE  FALSE
  BY <1>3 DEF Guard!CanActivate, Guard!Finish
<1>4. ASSUME NEW S \in SUBSET Call, Guard!Die(S)
      PROVE  FALSE
  BY <1>0, <1>4 DEF Guard!Die, Guard!NoRequest
<1> QED
  BY <1>0, <1>1, <1>2, <1>3, <1>4 DEF Guard!GuardNext, Guard!Row, Row

\* Theorem: the kill switch works through the caches.  A request is let in
\* only if its flag was not off at some time in the last StaleBound ticks, or
\* the table could not be read.
THEOREM KillSwitchReachesTheRoutes == GuardedSpec => Guard!KillSwitch
<1>1. GuardedInv /\ [GuardedNext]_guardedVars =>
        [\A c \in Call : Guard!Allows(c) =>
           \/ answer'[c].failed
           \/ \E r \in Guard!Recent(FlagOf[request[c].route]) : ~ Guard!Off(r)
        ]_(Guard!guardVars)
  <2> SUFFICES ASSUME GuardedInv, [GuardedNext]_guardedVars,
                      NEW c \in Call, Guard!Allows(c)
               PROVE  \/ answer'[c].failed
                      \/ \E r \in Guard!Recent(FlagOf[request[c].route]) :
                           ~ Guard!Off(r)
    OBVIOUS
  <2>0. request \in [Call -> Guard!RequestState]
    BY DEF GuardedInv, LinkInv
  <2>1. ASSUME NEW r \in Row, Guard!Decide(c, r)
        PROVE  \E s \in Guard!Recent(FlagOf[request[c].route]) : ~ Guard!Off(s)
    <3>1. Guard!Opens(r)
      BY <2>0, <2>1 DEF Guard!Allows, Guard!Decide, Guard!Decision
    <3> QED
      BY <2>1, <3>1, OffAndOn
      DEF Guard!Decide, Guard!StoreAnswer, Guard!Recent, Guard!Row, Row
  <2>2. ASSUME Guard!DecideOnError(c)
        PROVE  answer'[c].failed
    BY <2>2 DEF Guard!DecideOnError, Guard!StoreDefault, answer
  <2> QED
    BY <2>1, <2>2, WhoDecidesIt DEF Guard!Allows
<1> QED
  BY <1>1, RequestsFollowTheirCalls, PTL DEF GuardedSpec, Guard!KillSwitch

\* Theorem: nor do the caches make a missing flag or a failing table block.
\* A request is refused only if its flag was, in the last StaleBound ticks,
\* there and not on.
THEOREM RefusalsReachTheRoutes == GuardedSpec => Guard!RefusalsAreMeant
<1>1. GuardedInv /\ [GuardedNext]_guardedVars =>
        [\A c \in Call : Guard!Denies(c) =>
           /\ FlagOf[request[c].route] # None
           /\ ~ answer'[c].failed
           /\ \E r \in Guard!Recent(FlagOf[request[c].route]) : ~ Guard!On(r)
        ]_(Guard!guardVars)
  <2> SUFFICES ASSUME GuardedInv, [GuardedNext]_guardedVars,
                      NEW c \in Call, Guard!Denies(c)
               PROVE  /\ FlagOf[request[c].route] # None
                      /\ ~ answer'[c].failed
                      /\ \E r \in Guard!Recent(FlagOf[request[c].route]) :
                           ~ Guard!On(r)
    OBVIOUS
  <2>0. request \in [Call -> Guard!RequestState]
    BY DEF GuardedInv, LinkInv
  <2>1. FlagOf[request[c].route] # None
    BY SystemConfigAssumption
    DEF Guard!Denies, GuardedInv, LinkInv, Linked, FlagOfRequest
  <2>2. ~ Guard!DecideOnError(c)
    <3>1. Guard!Decision(Guard!Opens(None)) = "allowed"
      BY DEF Guard!Decision, Guard!Opens
    <3> QED
      BY <2>0, <3>1 DEF Guard!Denies, Guard!DecideOnError, Guard!RequestState
  <2>3. ASSUME NEW r \in Row, Guard!Decide(c, r)
        PROVE  /\ ~ answer'[c].failed
               /\ \E s \in Guard!Recent(FlagOf[request[c].route]) : ~ Guard!On(s)
    <3>1. ~ Guard!Opens(r)
      BY <2>0, <2>3 DEF Guard!Denies, Guard!Decide, Guard!Decision
    <3>2. ~ answer'[c].failed
      BY <2>3 DEF Guard!Decide, Guard!StoreAnswer, answer
    <3> QED
      BY <2>3, <3>1, <3>2, OffAndOn
      DEF Guard!Decide, Guard!StoreAnswer, Guard!Recent, Guard!Row, Row
  <2> QED
    BY <2>1, <2>2, <2>3, WhoDecidesIt DEF Guard!Denies
<1> QED
  BY <1>1, RequestsFollowTheirCalls, PTL DEF GuardedSpec, Guard!RefusalsAreMeant

=============================================================================
