------------------------------- MODULE JobQueue -------------------------------
(***************************************************************************)
(* The queue "jobs": what QueueService adds to it, what the DefaultWorker  *)
(* of each process makes of a job, and BullMQ between them, as the two     *)
(* configure it: three attempts with a delay between them, five jobs at a  *)
(* time, a limited number of settled jobs kept.                            *)
(*                                                                         *)
(* BullMQ itself is not in src/: a job whose worker died is found stalled  *)
(* and waits again, MaxStalled times; the next time it fails.  Nor is the  *)
(* BullBoard, mounted without readOnlyMode (bullboard.module.ts:36-39), on *)
(* which an administrator pauses the queue and retries, promotes and       *)
(* removes jobs.                                                           *)
(*                                                                         *)
(* A name with an underscore is a wrong version of the definition after    *)
(* it, for the runs to catch; nothing uses it here.                        *)
(***************************************************************************)
EXTENDS Naturals, SequencesExt

CONSTANTS
  Process,        \* processes running a DefaultWorker
  Job,            \* job ids (a bound of the model)
  None,
  Attempts,       \* defaultJobOptions.attempts
  Concurrency,    \* WORKER_CONCURRENCY
  KeepFailed,     \* removeOnFail.count
  KeepCompleted,  \* removeOnComplete.count
  MaxStalled      \* BullMQ's maxStalledCount

ASSUME JobQueueAssumption ==
  /\ None \notin Process \cup Job /\ IsFiniteSet(Job)
  /\ {Attempts, Concurrency, KeepFailed, KeepCompleted} \subseteq Nat \ {0}
  /\ MaxStalled \in Nat

VARIABLES
  wait,       \* the waiting jobs, next first
  delayed,    \* the jobs that wait for their next attempt
  owner,      \* owner[j]: the process that runs j, or None
  orphaned,   \* active jobs whose process died or lost its lock
  failed,     \* the failed jobs that are kept, oldest first
  completed,  \* the completed jobs that are kept, oldest first
  tries,      \* tries[j]: the ended attempts and the stalls of j, and, until it
              \* settles, its starts since it was added or last retried
  out,        \* the jobs that nobody has added, or that an administrator removed
  paused      \* whether an administrator has paused the queue

queue == <<wait, delayed, owner, orphaned, failed, completed, tries, out,
           paused>>

\* No job is started more often, unless an administrator retries it.
MaxStarts == Attempts + MaxStalled

Tries == [attempts : 0..Attempts, stalls : 0..MaxStalled + 1,
          starts : 0..MaxStarts + 1]
NoTries == [attempts |-> 0, stalls |-> 0, starts |-> 0]

Active == {j \in Job : owner[j] # None} \cup orphaned
Pending == ToSet(wait) \cup delayed \cup Active
Known == Pending \cup ToSet(failed) \cup ToSet(completed)

QueueTypeOK ==
  /\ wait \in Seq(Job) /\ Len(wait) <= Cardinality(Job)
  /\ delayed \in SUBSET Job
  /\ owner \in [Job -> Process \cup {None}]
  /\ orphaned \in SUBSET Job
  /\ failed \in Seq(Job) /\ Len(failed) <= KeepFailed
  /\ completed \in Seq(Job) /\ Len(completed) <= KeepCompleted
  /\ tries \in [Job -> Tries]
  /\ out \in SUBSET Job
  /\ paused \in BOOLEAN

QueueInit ==
  /\ wait = <<>> /\ failed = <<>> /\ completed = <<>>
  /\ delayed = {} /\ orphaned = {}
  /\ owner = [j \in Job |-> None]
  /\ tries = [j \in Job |-> NoTries]
  /\ out = Job /\ paused = FALSE

-----------------------------------------------------------------------------

Kept_OneMore(s, j, n) == LET t == Append(s, j) IN IF Len(t) <= n + 1 THEN t ELSE Tail(t)

\* The newest n of s, the new job j included.
Kept(s, j, n) == LET t == Append(s, j) IN IF Len(t) <= n THEN t ELSE Tail(t)

\* enqueueSendWelcomeEmail(), enqueueProcessImage(), or the BullBoard's "add"
Enqueue(j) ==
  /\ j \notin Known
  /\ wait' = Append(wait, j)
  /\ tries' = [tries EXCEPT ![j] = NoTries]
  /\ out' = out \ {j}
  /\ UNCHANGED <<delayed, owner, orphaned, failed, completed, paused>>

Running(p) == {j \in Job : owner[j] = p}

\* The worker of p takes the next job.
Take(p) ==
  /\ wait # <<>> /\ ~ paused
  /\ Cardinality(Running(p)) < Concurrency
  /\ LET j == Head(wait) IN
       /\ owner' = [owner EXCEPT ![j] = p]
       /\ tries' = [tries EXCEPT ![j].starts =
            IF @ <= MaxStarts THEN @ + 1 ELSE @]
  /\ wait' = Tail(wait)
  /\ UNCHANGED <<delayed, orphaned, failed, completed, out, paused>>

\* An attempt ends, one way or the other; n starts go on counting.
Ends(j, n) ==
  /\ owner' = [owner EXCEPT ![j] = None]
  /\ tries' = [tries EXCEPT ![j].attempts = IF @ < Attempts THEN @ + 1 ELSE @,
                           ![j].starts = n]

\* process() returns: both handlers, and a job of an unknown type, too.
Complete(j) ==
  /\ owner[j] # None
  /\ Ends(j, 0)
  /\ completed' = Kept(completed, j, KeepCompleted)
  /\ UNCHANGED <<wait, delayed, orphaned, failed, out, paused>>

Throw_Uncounted(j) ==
  /\ owner[j] # None
  /\ owner' = [owner EXCEPT ![j] = None]
  /\ delayed' = delayed \cup {j}
  /\ UNCHANGED <<wait, orphaned, failed, completed, tries, out, paused>>

Throw_OneFewer(j) ==
  /\ owner[j] # None
  /\ \/ /\ tries[j].attempts + 2 < Attempts
        /\ Ends(j, tries[j].starts)
        /\ delayed' = delayed \cup {j} /\ UNCHANGED failed
     \/ /\ tries[j].attempts + 2 >= Attempts
        /\ Ends(j, 0)
        /\ failed' = Kept(failed, j, KeepFailed) /\ UNCHANGED delayed
  /\ UNCHANGED <<wait, orphaned, completed, out, paused>>

\* process() throws, as it does for a job without data.
Throw(j) ==
  /\ owner[j] # None
  /\ \/ /\ tries[j].attempts + 1 < Attempts
        /\ Ends(j, tries[j].starts)
        /\ delayed' = delayed \cup {j} /\ UNCHANGED failed
     \/ /\ tries[j].attempts + 1 >= Attempts
        /\ Ends(j, 0)
        /\ failed' = Kept(failed, j, KeepFailed) /\ UNCHANGED delayed
  /\ UNCHANGED <<wait, orphaned, completed, out, paused>>

\* The backoff of j has passed, or an administrator does not wait for it.
Promote(j) ==
  /\ j \in delayed
  /\ delayed' = delayed \ {j}
  /\ wait' = Append(wait, j)
  /\ UNCHANGED <<owner, orphaned, failed, completed, tries, out, paused>>

Abandon_Forgets(p) ==
  /\ owner' = [j \in Job |-> IF owner[j] = p THEN None ELSE owner[j]]
  /\ UNCHANGED <<wait, delayed, orphaned, failed, completed, tries, out,
                 paused>>

\* Process p dies or loses its locks; its jobs stay active, and what becomes
\* of a handler that still runs counts no more.
Abandon(p) ==
  /\ orphaned' = orphaned \cup Running(p)
  /\ owner' = [j \in Job |-> IF owner[j] = p THEN None ELSE owner[j]]
  /\ UNCHANGED <<wait, delayed, failed, completed, tries, out, paused>>

Stalled_Uncounted(j) ==
  /\ j \in orphaned
  /\ orphaned' = orphaned \ {j}
  /\ wait' = <<j>> \o wait
  /\ UNCHANGED <<delayed, owner, failed, completed, tries, out, paused>>

\* The lock of an orphaned job has expired.
Stalled(j) ==
  /\ j \in orphaned
  /\ orphaned' = orphaned \ {j}
  /\ \/ /\ tries[j].stalls < MaxStalled
        /\ tries' = [tries EXCEPT ![j].stalls = @ + 1]
        /\ wait' = <<j>> \o wait /\ UNCHANGED failed
     \/ /\ tries[j].stalls >= MaxStalled
        /\ tries' = [tries EXCEPT ![j].stalls = MaxStalled + 1, ![j].starts = 0]
        /\ failed' = Kept(failed, j, KeepFailed) /\ UNCHANGED wait
  /\ UNCHANGED <<delayed, owner, completed, out, paused>>

-----------------------------------------------------------------------------
(* The BullBoard *)

Without(s, j) ==
  IF j \in ToSet(s) THEN RemoveAt(s, CHOOSE i \in DOMAIN s : s[i] = j) ELSE s

AdminRetry_KeepsFailed(j) ==
  /\ j \in ToSet(failed) \cup ToSet(completed)
  /\ wait' = Append(wait, j)
  /\ UNCHANGED <<delayed, owner, orphaned, failed, completed, tries, out, paused>>

\* A settled job gets another start; the attempts and stalls it has used stay
\* used.
AdminRetry(j) ==
  /\ j \in ToSet(failed) \cup ToSet(completed)
  /\ failed' = Without(failed, j) /\ completed' = Without(completed, j)
  /\ wait' = Append(wait, j)
  /\ UNCHANGED <<delayed, owner, orphaned, tries, out, paused>>

\* The jobs of S, and what was counted of them, are deleted.
Withdraw(S) ==
  /\ out' = out \cup S
  /\ tries' = [j \in Job |-> IF j \in S THEN NoTries ELSE tries[j]]

\* A job that a worker has locked cannot be removed.
AdminRemove(j) ==
  /\ j \in Known /\ owner[j] = None
  /\ wait' = Without(wait, j) /\ delayed' = delayed \ {j}
  /\ orphaned' = orphaned \ {j}
  /\ failed' = Without(failed, j) /\ completed' = Without(completed, j)
  /\ Withdraw({j})
  /\ UNCHANGED <<owner, paused>>

Older(s, n) == {s[i] : i \in 1..n}
Newer(s, n) == SubSeq(s, n + 1, Len(s))

\* "Empty", "clean" and "obliterate": the older jobs of one list, or of all.
AdminClean ==
  \E w \in 0..Len(wait), f \in 0..Len(failed), c \in 0..Len(completed),
     S \in SUBSET delayed :
    /\ wait' = Newer(wait, w) /\ delayed' = delayed \ S
    /\ failed' = Newer(failed, f) /\ completed' = Newer(completed, c)
    /\ Withdraw(Older(wait, w) \cup S \cup Older(failed, f) \cup Older(completed, c))
    /\ UNCHANGED <<owner, orphaned, paused>>

AdminPause ==
  /\ paused' = ~ paused
  /\ UNCHANGED <<wait, delayed, owner, orphaned, failed, completed, tries, out>>

Admin == (\E j \in Job : AdminRetry(j) \/ AdminRemove(j)) \/ AdminClean \/ AdminPause

-----------------------------------------------------------------------------

WorkerStep(j) == Complete(j) \/ Throw(j)

QueueNext ==
  \/ \E j \in Job : Enqueue(j) \/ WorkerStep(j) \/ Promote(j) \/ Stalled(j)
  \/ \E p \in Process : Take(p)
  \/ Admin
=============================================================================
