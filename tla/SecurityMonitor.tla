--------------------------- MODULE SecurityMonitor ---------------------------
(***************************************************************************)
(* SecurityMonitorService: the timestamps of failed logins and of invalid  *)
(* tokens, and the check that re-arms its own timer: prune, count, alert,  *)
(* one alert awaited after the other, and only then wait for the interval. *)
(*                                                                         *)
(* A timestamp is kept as its age, in ticks.  happened is the history that *)
(* the lists are an approximation of.                                      *)
(*                                                                         *)
(* A name with an underscore is a wrong version of the definition after    *)
(* it, for the runs to catch; nothing uses it here.                        *)
(***************************************************************************)
EXTENDS Integers, Sequences, FiniteSets

CONSTANTS
  Window,         \* WINDOW_MS, in ticks
  Interval,       \* SECURITY_MONITOR_INTERVAL_MS, in ticks
  AlertLatency,   \* the longest that sendAlert() takes, in ticks
  MaxTimestamps,  \* MAX_TIMESTAMPS
  Threshold,      \* Threshold[kind]: an alert needs more events than this
  MaxEvents       \* events of a kind within Horizon (a bound of the model)

\* The alerts of a check, in the order it sends them.
Kinds == <<"failedLogin", "invalidToken">>
Kind == {"failedLogin", "invalidToken"}

ASSUME SecurityMonitorAssumption ==
  /\ Window \in Nat /\ Interval \in Nat \ {0} /\ AlertLatency \in Nat
  /\ MaxTimestamps \in Nat \ {0} /\ MaxEvents \in Nat
  /\ Threshold \in [Kind -> Nat]
  /\ \A kind \in Kind : Threshold[kind] < MaxTimestamps

VARIABLES
  list,       \* list[kind]: the array of timestamps, oldest first
  happened,   \* happened[kind]: all events of the last Horizon ticks, by age
  timer,      \* ticks until timeoutHandle fires, or Off
  check,      \* the check in flight
  destroyed   \* has onModuleDestroy() run?

vars == <<list, happened, timer, check, destroyed>>

Off == -1

\* Older timestamps are not told apart; the history reaches back as far as a
\* check that is still sending its last alert.
Age == 0..Window + 1
Horizon == Window + 2 * AlertLatency

\* count[kind] is read before the first alert is awaited; next: the place in
\* Kinds of the alert to consider next; lat: ticks spent in the current one.
NoCheck == [pc |-> "none", next |-> 1, lat |-> 0, count |-> [kind \in Kind |-> 0]]
CheckState == [pc : {"none", "deciding", "alerting"}, next : 1..3,
               lat : 0..AlertLatency, count : [Kind -> 0..MaxTimestamps]]

TypeOK ==
  /\ \A kind \in Kind :
       /\ list[kind] \in Seq(Age) /\ Len(list[kind]) <= MaxTimestamps
       /\ happened[kind] \in Seq(0..Horizon)
  /\ timer \in Off..Interval
  /\ check \in CheckState
  /\ destroyed \in BOOLEAN

\* onModuleInit() has armed the timer.
Init ==
  /\ list = [kind \in Kind |-> <<>>]
  /\ happened = [kind \in Kind |-> <<>>]
  /\ timer = Interval
  /\ check = NoCheck
  /\ destroyed = FALSE

-----------------------------------------------------------------------------

\* The last n elements of s.
LastOf(s, n) == IF Len(s) <= n THEN s ELSE SubSeq(s, Len(s) - n + 1, Len(s))

Push_Unbounded(s) == Append(s, 0)

\* recordFailedLogin(), recordInvalidToken(): append, and drop the oldest.
Push(s) == LastOf(Append(s, 0), MaxTimestamps)

Record(kind) ==
  /\ Len(happened[kind]) < MaxEvents
  /\ list' = [list EXCEPT ![kind] = Push(@)]
  /\ happened' = [happened EXCEPT ![kind] = Append(@, 0)]
  /\ UNCHANGED <<timer, check, destroyed>>

Prune_Nothing(s) == s

\* What is left from the first timestamp on that is not before the cutoff.
Prune(s) ==
  LET kept == {i \in 1..Len(s) : s[i] <= Window}
  IN IF kept = {} THEN <<>>
     ELSE SubSeq(s, CHOOSE i \in kept : \A j \in kept : i <= j, Len(s))

\* The timer fires: runCheck() up to its first await.
StartCheck ==
  /\ timer = 0
  /\ timer' = Off
  /\ list' = [kind \in Kind |-> Prune(list[kind])]
  /\ check' = [NoCheck EXCEPT !.pc = "deciding",
       !.count = [kind \in Kind |-> Len(Prune(list[kind]))]]
  /\ UNCHANGED <<happened, destroyed>>

Exceeds(kind) == check.count[kind] > Threshold[kind]

\* On to the alert of the next kind, if its threshold is exceeded.
Decide ==
  /\ check.pc = "deciding" /\ check.next <= Len(Kinds)
  /\ check' = IF Exceeds(Kinds[check.next])
              THEN [check EXCEPT !.pc = "alerting", !.lat = 0]
              ELSE [check EXCEPT !.next = @ + 1]
  /\ UNCHANGED <<list, happened, timer, destroyed>>

AlertEnds_StopsTheCheck ==
  /\ check.pc = "alerting"
  /\ check' = NoCheck
  /\ UNCHANGED <<list, happened, timer, destroyed>>

\* sendAlert() resolves, whether Discord took the alert or not.
AlertEnds ==
  /\ check.pc = "alerting"
  /\ check' = [check EXCEPT !.pc = "deciding", !.next = @ + 1, !.lat = 0]
  /\ UNCHANGED <<list, happened, timer, destroyed>>

\* runCheck().then(): scheduleCheck() arms the timer again.
Reschedule ==
  /\ check.pc = "deciding" /\ check.next > Len(Kinds)
  /\ check' = NoCheck
  /\ timer' = Interval
  /\ UNCHANGED <<list, happened, destroyed>>

\* onModuleDestroy() clears the timer, if there is one.  It does not run in
\* the middle of a check that awaits nothing.
Destroy ==
  /\ ~ destroyed /\ check.pc # "deciding"
  /\ destroyed' = TRUE
  /\ timer' = Off
  /\ UNCHANGED <<list, happened, check>>

\* The events of s that are not older: as many as there are, and the last.
Within(s, ticks) == LastOf(s, Cardinality({i \in 1..Len(s) : s[i] <= ticks}))

\* A timer that is due fires, a check goes on until it awaits an alert, and
\* no alert takes longer than AlertLatency.
Older(s) == [i \in 1..Len(s) |-> s[i] + 1]
Aged(s) == [i \in 1..Len(s) |-> IF s[i] <= Window THEN s[i] + 1 ELSE s[i]]

Tick ==
  /\ timer # 0
  /\ check.pc # "deciding"
  /\ check.pc = "alerting" => check.lat < AlertLatency
  /\ timer' = IF timer > 0 THEN timer - 1 ELSE timer
  /\ check' = IF check.pc = "alerting" THEN [check EXCEPT !.lat = @ + 1] ELSE check
  /\ list' = [kind \in Kind |-> Aged(list[kind])]
  /\ happened' = [kind \in Kind |-> Within(Older(happened[kind]), Horizon)]
  /\ UNCHANGED destroyed

CheckStep == StartCheck \/ Decide \/ AlertEnds \/ Reschedule

Next ==
  \/ \E kind \in Kind : Record(kind)
  \/ CheckStep
  \/ Destroy
  \/ Tick

Spec == Init /\ [][Next]_vars

-----------------------------------------------------------------------------

\* Invariant: whatever was recorded, pruned or dropped for want of room, what
\* a check would count now is exactly the events of the window, up to the
\* capacity of the list.
WindowIsExact ==
  \A kind \in Kind :
    Prune(list[kind]) = LastOf(Within(happened[kind], Window), MaxTimestamps)

\* A burst: more events than the threshold, so close together that they are
\* all in the window of the next check, also if they come too late for one
\* that is waiting for the alert of the other kind.
Span == Window - Interval - AlertLatency
Burst(kind) ==
  Len(Within(happened[kind], Span)) > Threshold[kind]

\* The alert of this kind is being sent.
Alerts(kind) == check.pc = "alerting" /\ Kinds[check.next] = kind

\* Invariant: no false alarm: while an alert is being sent, more events than
\* the threshold did happen in the window before its check began, which is at
\* most the alerts before it ago.
Elapsed == (check.next - 1) * AlertLatency + check.lat
AlertsAreTrue ==
  \A kind \in Kind :
    Alerts(kind) => Len(Within(happened[kind], Window + Elapsed)) > Threshold[kind]
=============================================================================
