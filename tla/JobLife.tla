------------------------------- MODULE JobLife -------------------------------
(***************************************************************************)
(* What the queue promises to whoever adds a job, without its lists, their *)
(* order and capacities: a job is due, running in one process, lost with   *)
(* the process, settled, or withdrawn by somebody, and never simply gone;  *)
(* it fails when it has spent its attempts, or the stalls that are         *)
(* forgiven.                                                               *)
(***************************************************************************)
EXTENDS Naturals

CONSTANTS Process, Job, None, Attempts, MaxStalled

VARIABLES
  due,      \* jobs that wait to be started, now or later
  runner,   \* runner[j]: the process that runs j, or None
  lost,     \* jobs whose process is gone, until somebody notices
  done, failed,  \* the settled jobs that are remembered
  out,           \* the jobs that were not added, or that somebody deleted
  spent     \* spent[j]: the attempts and stalls of j

lifeVars == <<due, runner, lost, done, failed, out, spent>>

Running == {j \in Job : runner[j] # None}
Pending == due \cup Running \cup lost
NothingSpent == [attempts |-> 0, stalls |-> 0]

LifeInit ==
  /\ due = {} /\ lost = {} /\ done = {} /\ failed = {} /\ out = Job
  /\ runner = [j \in Job |-> None]
  /\ spent = [j \in Job |-> NothingSpent]

-----------------------------------------------------------------------------

Spend(j, what, limit) ==
  spent' = [spent EXCEPT ![j][what] = IF @ < limit THEN @ + 1 ELSE @]

Stop(j) == runner' = [runner EXCEPT ![j] = None]

\* Jobs that settled the same way before may be forgotten then.
Settles(was, j, is) == \E old \in SUBSET was : is = (was \ old) \cup {j}

Add(j) ==
  /\ j \notin Pending \cup done \cup failed
  /\ due' = due \cup {j}
  /\ spent' = [spent EXCEPT ![j] = NothingSpent]
  /\ out' = out \ {j}
  /\ UNCHANGED <<runner, lost, done, failed>>

Start(p, j) ==
  /\ j \in due
  /\ due' = due \ {j}
  /\ runner' = [runner EXCEPT ![j] = p]
  /\ UNCHANGED <<lost, done, failed, out, spent>>

Succeed(j) ==
  /\ j \in Running
  /\ Stop(j)
  /\ Spend(j, "attempts", Attempts)
  /\ Settles(done, j, done')
  /\ UNCHANGED <<due, lost, failed, out>>

\* An attempt fails: the job is due again, or has failed.
Try(j) ==
  /\ j \in Running
  /\ Stop(j)
  /\ Spend(j, "attempts", Attempts)
  /\ IF spent[j].attempts + 1 < Attempts
     THEN due' = due \cup {j} /\ UNCHANGED failed
     ELSE Settles(failed, j, failed') /\ UNCHANGED due
  /\ UNCHANGED <<lost, done, out>>

\* All jobs of a process at a time.
Lose(p) ==
  /\ lost' = lost \cup {j \in Job : runner[j] = p}
  /\ runner' = [j \in Job |-> IF runner[j] = p THEN None ELSE runner[j]]
  /\ UNCHANGED <<due, done, failed, out, spent>>

Recover(j) ==
  /\ j \in lost
  /\ lost' = lost \ {j}
  /\ Spend(j, "stalls", MaxStalled + 1)
  /\ IF spent[j].stalls < MaxStalled
     THEN due' = due \cup {j} /\ UNCHANGED failed
     ELSE Settles(failed, j, failed') /\ UNCHANGED due
  /\ UNCHANGED <<runner, done, out>>

\* Somebody gives a settled job another start.
Retry(j) ==
  /\ j \in done \cup failed
  /\ done' = done \ {j} /\ failed' = failed \ {j}
  /\ due' = due \cup {j}
  /\ UNCHANGED <<runner, lost, out, spent>>

\* Somebody deletes the jobs of S, none of which runs.
Withdraw(S) ==
  /\ S \subseteq due \cup lost \cup done \cup failed
  /\ due' = due \ S /\ lost' = lost \ S
  /\ done' = done \ S /\ failed' = failed \ S
  /\ out' = out \cup S
  /\ spent' = [j \in Job |-> IF j \in S THEN NothingSpent ELSE spent[j]]
  /\ UNCHANGED runner

LifeNext ==
  \/ \E j \in Job : Add(j) \/ Succeed(j) \/ Try(j) \/ Recover(j) \/ Retry(j)
  \/ \E p \in Process : Lose(p) \/ \E j \in Job : Start(p, j)
  \/ \E S \in SUBSET Job : Withdraw(S)

LifeSpec == LifeInit /\ [][LifeNext]_lifeVars

\* Invariant: a job is in one of these states at a time: it never runs while
\* it waits to be started again, and never when it has settled; and a job that
\* is out is in none of them.
OneStateAtATime ==
  /\ due \cap (Running \cup lost) = {} /\ Running \cap lost = {}
  /\ Pending \cap (done \cup failed) = {} /\ done \cap failed = {}
  /\ out \cap (Pending \cup done \cup failed) = {}
=============================================================================
