------------------------ MODULE InvalidationHistory ------------------------
(***************************************************************************)
(* What a caller of SystemConfigService.invalidate() may rely on when it   *)
(* returns.  A history variable follows, for each process and key, the     *)
(* last invalidation since the row was last written.                       *)
(***************************************************************************)
EXTENDS SystemConfigService

VARIABLE
  \* status[p][k] of the last invalidate() of k in p, if the row of k has not
  \* been written since it was called:
  \*   "quiet"     running, and no get() has got in its way so far;
  \*   "busy"      running, and one has;
  \*   "settled"   returned, and it was quiet throughout;
  \*   "finished"  returned, and it was not;
  \*   "none"      there is none, or it failed.
  status

hvars == <<vars, status>>

Reads(c, p, k) ==
  calls[c].pc \in InFlight /\ calls[c].proc = p /\ calls[c].key = k

\* A get() of p may have seen the old row in Redis; that of any process may
\* have read it in the table and be about to write it to Redis.
InTheWay(c, p, k) ==
  \/ Reads(c, p, k)
  \/ /\ calls[c].pc = "setRedis" /\ calls[c].key = k
     /\ calls[c].row # db[k]

Starts(p) == inval[p].pc = "idle" /\ inval'[p].pc # "idle"
Ends(p) == inval[p].pc # "idle" /\ inval'[p].pc = "idle"
Deletes(p) == DeleteFromRedis(p) \/ ScanRedis(p) \/ DeleteBatch(p)

NextStatus(p, k) ==
  IF db'[k] # db[k] THEN "none"
  ELSE IF Starts(p) /\ k \in inval'[p].keys
    THEN IF \E c \in Call : InTheWay(c, p, k) THEN "busy" ELSE "quiet"
  ELSE IF status[p][k] \notin {"quiet", "busy"} THEN status[p][k]
  ELSE IF Ends(p)
    THEN IF ~ Deletes(p) THEN "none"
         ELSE IF status[p][k] = "quiet" THEN "settled" ELSE "finished"
  ELSE IF \E c \in Call : Reads(c, p, k)' THEN "busy"
  ELSE status[p][k]

HInit == Init /\ status = [p \in Process |-> [k \in Key |-> "none"]]

HNext ==
  /\ Next
  /\ status' = [p \in Process |-> [k \in Key |-> NextStatus(p, k)]]

HSpec == HInit /\ [][HNext]_hvars

-----------------------------------------------------------------------------

\* Invariant: after a quiet invalidate(), nothing the process can still be
\* served for the key differs from the table: not its Map, not Redis, not a
\* reply on its way.  This has to survive the fills of the other processes,
\* expiries, restarts and invalidations that fail half way.
SettledIsFresh ==
  \A p \in Process, k \in Key : status[p][k] = "settled" =>
    /\ MemoryLive(memory[p][k]) => memory[p][k].value = db[k]
    /\ redis[k].value # None => redis[k].value = db[k]
    /\ \A c \in Call :
         Reads(c, p, k) /\ calls[c].src # "none" => calls[c].row = db[k]

\* Action property: "Call this after updating a flag in the DB to force a
\* refresh on the next read" (system-config.service.ts:143-145) holds when
\* no get() runs while invalidate() does: until the row is written again
\* every get() of the process answers with the row as it is.
SettledReadsAreCurrent ==
  [][\A c \in Call, p \in Process, k \in Key :
       /\ status[p][k] = "settled" /\ Answers(c)
       /\ calls'[c].proc = p /\ calls'[c].key = k
       /\ calls'[c].src # "dbError"
       => calls'[c].row = db[k]]_hvars

\* Action property: what FEATURE-FLAGS.md:126-127 says of invalidate()
\* without that condition: "so the next read goes straight to the database".
\* A get() called when invalidate() has returned is not answered from the
\* Map of the process with a row the table no longer holds.
NextReadGoesToDb ==
  [][\A c \in Call, p \in Process, k \in Key :
       status[p][k] \in {"settled", "finished"} =>
         ~ (GetHitsMemory(c, p, k) /\ memory[p][k].value # db[k])]_hvars
=============================================================================
