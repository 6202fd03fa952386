----------------------------- MODULE QueueMonitor -----------------------------
(***************************************************************************)
(* QueueMonitorService over the JobQueue: the check that counts waiting    *)
(* and failed jobs, sends its alerts one after the other and re-arms its   *)
(* own timer, on a Redis connection that is given up after a while.        *)
(*                                                                         *)
(* A name with an underscore is a wrong version of the definition after    *)
(* it, for the runs to catch; nothing uses it here.                        *)
(***************************************************************************)
EXTENDS JobQueue

CONSTANTS
  Host,              \* the process this monitor is in
  FailedThreshold,   \* QUEUE_ALERT_FAILED_THRESHOLD
  WaitingThreshold   \* QUEUE_ALERT_WAITING_THRESHOLD

\* No more than KeepFailed failed jobs can be counted.
ASSUME QueueMonitorAssumption ==
  /\ Host \in Process
  /\ FailedThreshold \in Nat /\ WaitingThreshold \in Nat
  /\ FailedThreshold < KeepFailed

VARIABLES
  conn,    \* the connections of the host to Redis
  loop,    \* where the monitor is
  over     \* whether what its check has counted so far is over a threshold

monitor == <<loop, over>>
vars == <<queue, conn, monitor>>

\* ended: ioredis has stopped reconnecting, and rejects every command.
Conn == {"up", "down", "ended"}

\* armed: between two checks; dead: no timer, and no check to arm one.
Loop == {"armed", "counting", "alertFailed", "alertWaiting", "dead"}

Over == [failed : BOOLEAN \cup {None}, waiting : BOOLEAN \cup {None}]
NotCounted == [failed |-> None, waiting |-> None]

TypeOK ==
  /\ QueueTypeOK
  /\ conn \in Conn
  /\ loop \in Loop
  /\ over \in Over

Init ==
  /\ QueueInit
  /\ conn = "up"
  /\ loop = "armed"
  /\ over = NotCounted

-----------------------------------------------------------------------------

StartCheck ==
  /\ loop = "armed"
  /\ loop' = "counting"
  /\ UNCHANGED <<queue, conn, over>>

\* From one alert to the next, or back to the timer.
GoOn(to, counts) ==
  /\ loop' = to
  /\ over' = IF to = "alertFailed" THEN counts ELSE NotCounted

AfterFailed(counts) == IF counts.waiting THEN "alertWaiting" ELSE "armed"

\* One of the two answers; with the second one the check goes on.
Answered(counts) ==
  /\ IF None \in {counts.failed, counts.waiting}
     THEN loop' = "counting" /\ over' = counts
     ELSE GoOn(IF counts.failed THEN "alertFailed" ELSE AfterFailed(counts), counts)
  /\ UNCHANGED <<queue, conn>>

CountFailed_Swapped ==
  /\ loop = "counting" /\ conn = "up"
  /\ over.failed = None
  /\ Answered([over EXCEPT !.failed = Len(wait) > FailedThreshold])

\* Two commands, answered one by one.
CountFailed ==
  /\ loop = "counting" /\ conn = "up"
  /\ over.failed = None
  /\ Answered([over EXCEPT !.failed = Len(failed) > FailedThreshold])

CountWaiting_Unpaused ==
  /\ loop = "counting" /\ conn = "up"
  /\ over.waiting = None
  /\ Answered([over EXCEPT !.waiting = ~ paused /\ Len(wait) > WaitingThreshold])

\* Jobs that wait because the queue is paused count.
CountWaiting ==
  /\ loop = "counting" /\ conn = "up"
  /\ over.waiting = None
  /\ Answered([over EXCEPT !.waiting = Len(wait) > WaitingThreshold])

\* Promise.all() rejects, and nobody handles it: then() does not run.  Node
\* ends the process (HostDies), or Sentry's handler keeps it alive.
CountRejected ==
  /\ loop = "counting" /\ conn = "ended"
  /\ loop' = "dead"
  /\ over' = NotCounted
  /\ UNCHANGED <<queue, conn>>

AlertFailedEnds ==
  loop = "alertFailed" /\ GoOn(AfterFailed(over), over) /\ UNCHANGED <<queue, conn>>
AlertWaitingEnds ==
  loop = "alertWaiting" /\ GoOn("armed", over) /\ UNCHANGED <<queue, conn>>

-----------------------------------------------------------------------------

Disconnect == conn = "up" /\ conn' = "down" /\ UNCHANGED <<queue, monitor>>
Reconnect == conn = "down" /\ conn' = "up" /\ UNCHANGED <<queue, monitor>>

\* retryStrategy() answers null at its sixth call.
GiveUp == conn = "down" /\ conn' = "ended" /\ UNCHANGED <<queue, monitor>>

\* A crash, a redeployment: the host starts again and connects.
HostDies ==
  /\ Abandon(Host)
  /\ conn' = "down"
  /\ loop' = "armed"
  /\ over' = NotCounted

OtherDies(p) ==
  /\ p # Host /\ Running(p) # {}
  /\ Abandon(p)
  /\ UNCHANGED <<conn, monitor>>

\* A process without a connection does not extend its locks.
LocksExpire ==
  /\ conn # "up" /\ Running(Host) # {}
  /\ Abandon(Host)
  /\ UNCHANGED <<conn, monitor>>

CheckStep ==
  \/ StartCheck \/ CountFailed \/ CountWaiting \/ CountRejected
  \/ AlertFailedEnds \/ AlertWaitingEnds

\* The worker of the host needs its connection; the other processes, the
\* delays and the locks do not.
OnQueue(A) ==
  /\ A
  /\ conn # "up" => Running(Host)' = Running(Host)
  /\ UNCHANGED <<conn, monitor>>

Next ==
  \/ OnQueue(QueueNext)
  \/ CheckStep
  \/ Disconnect \/ Reconnect \/ GiveUp
  \/ HostDies \/ LocksExpire
  \/ \E p \in Process : OtherDies(p)

Spec == Init /\ [][Next]_vars

\* Workers take jobs and handlers end, delays and locks expire, timers fire,
\* Discord answers, and reconnecting ends one way or the other.
FairSpec ==
  /\ Spec
  /\ \A p \in Process : WF_vars(OnQueue(Take(p)))
  /\ \A j \in Job : /\ WF_vars(OnQueue(WorkerStep(j)))
                    /\ WF_vars(OnQueue(Promote(j)))
                    /\ WF_vars(OnQueue(Stalled(j)))
  /\ WF_vars(CheckStep)
  /\ WF_vars(Reconnect \/ GiveUp) /\ WF_vars(LocksExpire)

-----------------------------------------------------------------------------

\* Invariant: between two retries by an administrator no mixture of failing
\* handlers, dying processes, pauses and lost locks starts a job more often
\* than its attempts and the stalls that are forgiven allow.
StartsAreBounded == \A j \in Job : tries[j].starts <= MaxStarts

\* Invariant: "the number of jobs that have exhausted all retry attempts"
\* (queue.service.ts:80), made exact: a job that failed has, or it stalled
\* once too often.
FailedJobsHadTheirTries ==
  \A j \in ToSet(failed) :
    tries[j].attempts = Attempts \/ tries[j].stalls > MaxStalled

\* Property: whatever its lists, workers, locks and administrators do with it,
\* a job lives as JobLife says: only who removes it on the BullBoard makes it
\* go.
Life == INSTANCE JobLife WITH
  due <- ToSet(wait) \cup delayed, runner <- owner, lost <- orphaned,
  done <- ToSet(completed), failed <- ToSet(failed), out <- out,
  spent <- [j \in Job |->
    [attempts |-> tries[j].attempts, stalls |-> tries[j].stalls]]

ImplementsJobLife == Life!LifeSpec

\* Invariant: and is in one of its states at a time.
OneStateAtATime == Life!OneStateAtATime

\* Liveness: unless the queue is paused for ever, or again and again, no job
\* that is added is pending for ever: it completes, fails or is removed, whatever
\* its handler does and however often its process dies, also when the host has
\* given up its connection for good; only one that comes and goes may hold a
\* job back.
JobsSettle ==
  <>[] ~ paused => \A j \in Job : []<>(j \notin Pending \/ conn = "down")

\* Liveness: a backlog of failed jobs that nobody clears is alerted again
\* and again, though only the last KeepFailed of them are kept, as long as
\* Redis stays.
BacklogIsAlerted ==
  <>[](Len(failed) > FailedThreshold /\ conn = "up") => []<>(loop = "alertFailed")

\* Liveness: a backlog of waiting jobs is alerted again and again, as long as
\* Redis stays: also the one that grows because somebody paused the queue and
\* did not resume it, which nothing else reports.
WaitingBacklogIsAlerted ==
  <>[](Len(wait) > WaitingThreshold /\ conn = "up") => []<>(loop = "alertWaiting")

\* Liveness: what README.md:115 calls "Intervalo de polling de métricas de
\* cola": there is always a next check.
PollingContinues == []<>(loop = "armed")
=============================================================================
