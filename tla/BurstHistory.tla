---------------------------- MODULE BurstHistory ----------------------------
(***************************************************************************)
(* How long bursts wait for their alert: AuthFailures with a history       *)
(* variable that starts with a burst and ends with an alert of its kind; an *)
(* alert that is being sent answers the bursts that arrive meanwhile.      *)
(***************************************************************************)
EXTENDS AuthFailures

VARIABLE waiting  \* waiting[kind]: ticks since a burst without an alert, or Off

wvars == <<vars, waiting>>

\* A wait ends with the alert and with the service; another begins if there
\* is a burst again, of which older events may be part too.
Waited(kind, ticks) ==
  IF destroyed' \/ Alerts(kind)' THEN Off
  ELSE IF waiting[kind] # Off THEN waiting[kind] + ticks
  ELSE IF Burst(kind)' THEN 0
  ELSE Off

Wait(ticks) == waiting' = [kind \in Kind |-> Waited(kind, ticks)]

WInit == Init /\ waiting = [kind \in Kind |-> Off]

WNext ==
  \/ /\ \/ \E o \in Outcome : Login(o)
        \/ \E h \in Header, secret \in BOOLEAN : Authenticate(h, secret)
        \/ CheckStep
        \/ Destroy
     /\ Wait(0)
  \/ Tick /\ Wait(1)

WSpec == WInit /\ [][WNext]_wvars

-----------------------------------------------------------------------------

\* The check that is under way may have counted too early and wait for the
\* alert of the other kind; then the interval passes, and the next check sends
\* the alerts of the kinds before this one first.
Place(kind) == CHOOSE n \in 1..Len(Kinds) : Kinds[n] = kind
Deadline(kind) == Interval + Place(kind) * AlertLatency

\* Invariant: no burst waits longer than that for its alert, however slow
\* Discord is, while the service runs and whatever is recorded meanwhile.
BurstsMeetTheirDeadline ==
  \A kind \in Kind : waiting[kind] <= Deadline(kind)
=============================================================================
