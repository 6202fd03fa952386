------------------------------ MODULE AppMonitor ------------------------------
(***************************************************************************)
(* AppMonitorService over the registry that the pipeline fills: a timer,   *)
(* three checks at once (5xx rate, p95 of the latency, PING), then the     *)
(* memory, then the timer again.  Time itself is not needed: requests may  *)
(* come and go between any two steps of a check.                           *)
(***************************************************************************)
EXTENDS RequestPipeline, FiniteSetsExt

CONSTANTS
  RedisConfigured,   \* is REDIS_URL set?
  ErrorPercent,      \* APP_ALERT_5XX_RATE_THRESHOLD, in percent
  Percentile,        \* 95 in the code
  LatencyThreshold   \* APP_ALERT_LATENCY_P95_MS: the last bucket within it

ASSUME AppMonitorAssumption ==
  /\ RedisConfigured \in BOOLEAN
  /\ ErrorPercent \in 0..100 /\ Percentile \in 1..100
  /\ LatencyThreshold \in Nat

VARIABLES
  loop,      \* where the loop of checks is
  part,      \* part[p]: how far check p is
  conn,      \* the connection of redisClient
  destroyed  \* has onModuleDestroy() run?

monitor == <<loop, part>>
vars == <<pipeline, monitor, conn, destroyed>>

\* armed: the timer runs; off: there is none and nothing will set it.
Loop == {"armed", "checking", "memory", "off"}
Part == {"rate", "latency", "redis", "memory"}
Progress == {"done", "pinging", "alerting"}
Idle == [p \in Part |-> "done"]

\* The series that getMetricsAsJSON() reads: onModuleDestroy() of
\* MetricsService empties the registry.
Registered == ~ destroyed

TypeOK ==
  /\ PipelineTypeOK
  /\ loop \in Loop /\ part \in [Part -> Progress]
  /\ conn \in {"up", "down", "ended"}
  /\ destroyed \in BOOLEAN

\* onModuleInit() connects without waiting, and arms the timer.
Init ==
  /\ PipelineInit
  /\ loop = "armed" /\ part = Idle
  /\ conn = "down"
  /\ destroyed = FALSE

-----------------------------------------------------------------------------
(* What the checks make of the registry *)

Sum(S) == MapThenSumSet(LAMBDA x : counter[x[1]][x[2]], S)

ServerError_Strict == {s \in Status : s > 500}

ServerError == {s \in Status : s >= 500}

\* check5xxRate(): counters since the start of the process.
RateExceeds ==
  LET total == Sum(Label \X Status)
      errors5xx == Sum(Label \X ServerError)
  IN Registered /\ total # 0 /\ 100 * errors5xx > ErrorPercent * total

\* Does a bucket of count n reach the percentile of total observations?
Reaches_Over(n, total) == 100 * n > Percentile * total

Reaches(n, total) == 100 * n >= Percentile * total

\* computeP95Ms(): the buckets of all series, sorted by their bound, against
\* the count of the series that comes last.
ComputeP95 ==
  LET total == histogram[Len(histogram)].count
      reached == {b \in Bucket :
        \E i \in DOMAIN histogram : Reaches(histogram[i].within[b], total)}
  IN IF reached = {} THEN Buckets ELSE Min(reached)

LatencyExceeds ==
  Registered /\ histogram # <<>> /\ ComputeP95 > LatencyThreshold

-----------------------------------------------------------------------------
(* The loop *)

AlertIf(exceeds) == IF exceeds THEN "alerting" ELSE "done"

\* The timer fires: the registry is read, and all three checks run up to
\* their first await.
RunCheck ==
  /\ loop = "armed"
  /\ loop' = "checking"
  /\ part' = [Idle EXCEPT !["rate"] = AlertIf(RateExceeds),
                          !["latency"] = AlertIf(LatencyExceeds),
                          !["redis"] = IF RedisConfigured THEN "pinging" ELSE "done"]
  /\ UNCHANGED <<pipeline, conn, destroyed>>

Proceed(p, to) ==
  /\ part' = [part EXCEPT ![p] = to]
  /\ UNCHANGED <<pipeline, loop, conn, destroyed>>

\* sendAlert() resolves, whatever Discord answers.
AlertEnds(p) == part[p] = "alerting" /\ Proceed(p, "done")

\* A client that is reconnecting keeps the PING until it is ready.
PingAnswered ==
  /\ part["redis"] = "pinging" /\ conn = "up"
  /\ \E slow \in BOOLEAN : Proceed("redis", AlertIf(slow))

PingFails_Unhandled ==
  /\ part["redis"] = "pinging" /\ conn # "down"
  /\ loop' = "off" /\ part' = Idle
  /\ UNCHANGED <<pipeline, conn, destroyed>>

\* An error reply, or a connection that has been closed for good: caught.
PingFails ==
  /\ part["redis"] = "pinging" /\ conn # "down"
  /\ Proceed("redis", "done")

\* After Promise.all(): checkMemory(), which awaits its alert only.
CheckMemory ==
  /\ loop = "checking" /\ part = Idle
  /\ loop' = "memory"
  /\ \E high \in BOOLEAN : part' = [part EXCEPT !["memory"] = AlertIf(high)]
  /\ UNCHANGED <<pipeline, conn, destroyed>>

\* then(): also when onModuleDestroy() ran during the check.
Reschedule ==
  /\ loop = "memory" /\ part = Idle
  /\ loop' = "armed"
  /\ UNCHANGED <<pipeline, part, conn, destroyed>>

CheckStep ==
  \/ RunCheck \/ PingAnswered \/ PingFails \/ CheckMemory \/ Reschedule
  \/ \E p \in Part : AlertEnds(p)

-----------------------------------------------------------------------------

Connection(from, to) ==
  /\ RedisConfigured /\ conn = from /\ conn' = to
  /\ UNCHANGED <<pipeline, monitor, destroyed>>

\* retryStrategy(): after five attempts in a row it gives up.
Disconnect == Connection("up", "down")
Reconnect == Connection("down", "up")
GiveUp == Connection("down", "ended")

\* The timer is cleared if there is one, the client disconnects, and the
\* registry is emptied.
Destroy ==
  /\ ~ destroyed
  /\ destroyed' = TRUE
  /\ conn' = IF RedisConfigured THEN "ended" ELSE conn
  /\ loop' = IF loop = "armed" THEN "off" ELSE loop
  /\ UNCHANGED <<pipeline, part>>

Next ==
  \/ PipelineNext /\ UNCHANGED <<monitor, conn, destroyed>>
  \/ CheckStep
  \/ Disconnect \/ Reconnect \/ GiveUp
  \/ Destroy

Spec == Init /\ [][Next]_vars

\* Timers fire, Discord answers, a client that is connected gets replies and
\* a client that is not ends reconnecting one way or the other.
FairSpec ==
  /\ Spec
  /\ WF_vars(RunCheck) /\ WF_vars(PingAnswered \/ PingFails)
  /\ WF_vars(CheckMemory) /\ WF_vars(Reschedule)
  /\ \A p \in Part : WF_vars(AlertEnds(p))
  /\ WF_vars(Reconnect \/ GiveUp)

-----------------------------------------------------------------------------

Alerts(p) == part'[p] = "alerting"
Checks == loop = "armed" /\ loop' = "checking" /\ ~ destroyed

\* Action property: the 5xx alert is sent exactly when, of the requests that
\* got past the guards, more than the threshold were sent a 5xx: three
\* classes and two interceptors between a response and its alert agree.
ErrorRateIsReal ==
  [][Checks =>
       (Alerts("rate") <=>
          100 * Cardinality({r \in Served : request[r].sent \in 500..599})
            > ErrorPercent * Cardinality(Served))]_vars

\* The reference: the least bucket that holds the percentile of all requests
\* that were measured.
TruePercentile ==
  Min({d \in Duration :
    100 * Cardinality({r \in Served : request[r].took <= d})
      >= Percentile * Cardinality(Served)})

\* The threshold can be told from the top bucket.
Slow == Served # {} /\ TruePercentile > LatencyThreshold

\* Action property: as long as one method and route has been used, and the
\* threshold lies below the top bucket, the latency alert is sent exactly
\* when the percentile of the measured requests exceeds it.
LatencyOfOneRoute ==
  [][Checks /\ Len(histogram) <= 1 /\ LatencyThreshold < Buckets =>
       (Alerts("latency") <=> Slow)]_vars

\* Action property, what .env.example:121 says: "Latencia p95 [...] para
\* disparar alerta ops".  With several routes the buckets of all are held
\* against the count of one.
SlownessIsAlerted == [][Checks /\ Slow => Alerts("latency")]_vars

\* Liveness: there is always a next check, to its end, also when Redis has
\* been given up for good; only a connection that comes and goes for ever
\* may hold a PING.
MonitoringGoesOn ==
  []~destroyed /\ <>[](conn # "down") => []<>(loop = "memory")
=============================================================================
