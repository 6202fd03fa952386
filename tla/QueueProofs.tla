----------------------------- MODULE QueueProofs -----------------------------
(***************************************************************************)
(* Theorems about QueueMonitor, and the JobQueue in it, for every set of   *)
(* processes, every finite set of jobs and every choice of the options.    *)
(***************************************************************************)
EXTENDS QueueMonitor, SequenceTheorems, FiniteSetTheorems, TLAPS

\* What the options bound, without the length of wait.
Types ==
  /\ wait \in Seq(Job)
  /\ delayed \in SUBSET Job
  /\ owner \in [Job -> Process \cup {None}]
  /\ orphaned \in SUBSET Job
  /\ failed \in Seq(Job) /\ Len(failed) <= KeepFailed
  /\ completed \in Seq(Job) /\ Len(completed) <= KeepCompleted
  /\ tries \in [Job -> Tries]
  /\ out \in SUBSET Job /\ paused \in BOOLEAN

Once(s) == \A i, k \in 1..Len(s) : s[i] = s[k] => i = k

\* The attempts and stalls that a job can have used since it was added or
\* retried: all of them, when its counts say that some are left.
Used(t) ==
  (IF t.attempts < Attempts THEN t.attempts ELSE 0)
    + (IF t.stalls <= MaxStalled THEN t.stalls ELSE 0)

\* A job with the counts t may be in these places: in one at most, with every
\* start used up by a failed attempt or a stall, unless it is still going on.
Fits(waits, isDelayed, owned, isOrphan, hasFailed, hasCompleted, t) ==
  /\ waits => ~ isDelayed /\ ~ owned /\ ~ isOrphan
  /\ isDelayed => ~ owned /\ ~ isOrphan
  /\ owned => ~ isOrphan
  /\ hasFailed \/ hasCompleted => ~ waits /\ ~ isDelayed /\ ~ owned /\ ~ isOrphan
  /\ hasFailed => ~ hasCompleted
  /\ waits \/ isDelayed => t.starts <= Used(t)
  /\ owned \/ isOrphan => t.starts <= Used(t) + 1
  /\ hasFailed \/ hasCompleted => t.starts = 0
  /\ t.starts <= MaxStarts
  /\ hasFailed => t.attempts = Attempts \/ t.stalls > MaxStalled

JobInv(j) == Fits(j \in ToSet(wait), j \in delayed, owner[j] # None, j \in orphaned,
                  j \in ToSet(failed), j \in ToSet(completed), tries[j])

\* The inductive invariant.
Lists == Once(wait) /\ Once(failed) /\ Once(completed)
QueueInv == Types /\ Lists /\ \A j \in Job : JobInv(j)

-----------------------------------------------------------------------------
(* Sequences of jobs *)

LEMMA AppendJob ==
  ASSUME NEW s \in Seq(Job), NEW j \in Job
  PROVE  /\ Append(s, j) \in Seq(Job)
         /\ Len(Append(s, j)) = Len(s) + 1
         /\ ToSet(Append(s, j)) = ToSet(s) \cup {j}
         /\ Once(s) /\ j \notin ToSet(s) => Once(Append(s, j))
<1>1. /\ Append(s, j) \in Seq(Job) /\ Len(Append(s, j)) = Len(s) + 1
      /\ \A i \in 1..Len(s) : Append(s, j)[i] = s[i]
      /\ Append(s, j)[Len(s) + 1] = j
  BY AppendProperties
<1>2. Len(s) \in Nat /\ DOMAIN s = 1..Len(s)
      /\ DOMAIN Append(s, j) = 1..(Len(s) + 1)
  BY <1>1, LenProperties
<1>3. ToSet(Append(s, j)) = ToSet(s) \cup {j}
  BY <1>1, <1>2 DEF ToSet
<1>4. ASSUME Once(s), j \notin ToSet(s) PROVE Once(Append(s, j))
  BY <1>1, <1>2, <1>4 DEF Once, ToSet
<1> QED
  BY <1>1, <1>3, <1>4

LEMMA PrependJob ==
  ASSUME NEW s \in Seq(Job), NEW j \in Job
  PROVE  /\ <<j>> \o s \in Seq(Job)
         /\ ToSet(<<j>> \o s) = ToSet(s) \cup {j}
         /\ Once(s) /\ j \notin ToSet(s) => Once(<<j>> \o s)
<1>1. <<j>> \in Seq(Job) /\ Len(<<j>>) = 1 /\ <<j>>[1] = j
  OBVIOUS
<1>2. Len(s) \in Nat /\ DOMAIN s = 1..Len(s)
  BY LenProperties
<1>3. /\ <<j>> \o s \in Seq(Job) /\ Len(<<j>> \o s) = Len(s) + 1
      /\ (<<j>> \o s)[1] = j
      /\ \A i \in 2..(Len(s) + 1) : (<<j>> \o s)[i] = s[i - 1]
  BY <1>1, <1>2, ConcatProperties
<1>4. DOMAIN (<<j>> \o s) = 1..(Len(s) + 1)
  BY <1>3, LenProperties
<1>5. ToSet(<<j>> \o s) = ToSet(s) \cup {j}
  <2>1. ToSet(<<j>> \o s) \subseteq ToSet(s) \cup {j}
    BY <1>2, <1>3, <1>4 DEF ToSet
  <2>2. \A i \in 1..Len(s) : s[i] = (<<j>> \o s)[i + 1] /\ i + 1 \in 1..(Len(s) + 1)
    BY <1>2, <1>3
  <2>3. 1 \in 1..(Len(s) + 1)
    BY <1>2
  <2>4. j \in ToSet(<<j>> \o s)
    BY <1>3, <1>4, <2>3 DEF ToSet
  <2>5. ASSUME NEW i \in 1..Len(s) PROVE s[i] \in ToSet(<<j>> \o s)
    BY <1>4, <2>2 DEF ToSet
  <2>6. ToSet(s) \subseteq ToSet(<<j>> \o s)
    BY <1>2, <2>5 DEF ToSet
  <2> QED
    BY <2>1, <2>4, <2>6
<1>6. ASSUME Once(s), j \notin ToSet(s) PROVE Once(<<j>> \o s)
  BY <1>2, <1>3, <1>6 DEF Once, ToSet
<1> QED
  BY <1>3, <1>5, <1>6

LEMMA TailJobs ==
  ASSUME NEW s \in Seq(Job), s # <<>>
  PROVE  /\ Tail(s) \in Seq(Job) /\ Len(Tail(s)) = Len(s) - 1
         /\ Head(s) \in ToSet(s)
         /\ ToSet(Tail(s)) \subseteq ToSet(s)
         /\ ToSet(s) = ToSet(Tail(s)) \cup {Head(s)}
         /\ Once(s) => Once(Tail(s)) /\ Head(s) \notin ToSet(Tail(s))
<1>1. /\ Tail(s) \in Seq(Job) /\ Len(Tail(s)) = Len(s) - 1
      /\ \A i \in 1..Len(Tail(s)) : Tail(s)[i] = s[i + 1]
  BY HeadTailProperties
<1>2. Len(s) \in Nat \ {0} /\ DOMAIN s = 1..Len(s) /\ Head(s) = s[1]
      /\ DOMAIN Tail(s) = 1..(Len(s) - 1)
  BY <1>1, LenProperties, EmptySeq
<1>3. Head(s) \in ToSet(s) /\ ToSet(Tail(s)) \subseteq ToSet(s)
  BY <1>1, <1>2 DEF ToSet
<1>4. ToSet(s) \subseteq ToSet(Tail(s)) \cup {Head(s)}
  <2> SUFFICES ASSUME NEW i \in 1..Len(s), i # 1 PROVE s[i] \in ToSet(Tail(s))
    BY <1>2 DEF ToSet
  <2>1. i - 1 \in 1..(Len(s) - 1) /\ Tail(s)[i - 1] = s[i]
    BY <1>1, <1>2
  <2> QED
    BY <1>2, <2>1 DEF ToSet
<1>5. ASSUME Once(s) PROVE Once(Tail(s)) /\ Head(s) \notin ToSet(Tail(s))
  BY <1>1, <1>2, <1>5 DEF Once, ToSet
<1> QED
  BY <1>1, <1>3, <1>4, <1>5

LEMMA KeptJobs ==
  ASSUME NEW s \in Seq(Job), NEW j \in Job, NEW n \in Nat \ {0}, Len(s) <= n
  PROVE  /\ Kept(s, j, n) \in Seq(Job)
         /\ Len(Kept(s, j, n)) <= n
         /\ ToSet(Kept(s, j, n)) \subseteq ToSet(s) \cup {j}
         /\ j \in ToSet(Kept(s, j, n))
         /\ Once(s) /\ j \notin ToSet(s) => Once(Kept(s, j, n))
<1> DEFINE t == Append(s, j)
<1>1. /\ t \in Seq(Job) /\ Len(t) = Len(s) + 1 /\ ToSet(t) = ToSet(s) \cup {j}
      /\ Once(s) /\ j \notin ToSet(s) => Once(t)
  BY AppendJob
<1>2. t # <<>> /\ Len(s) \in Nat
  BY AppendProperties, LenProperties
<1>3. /\ Tail(t) \in Seq(Job) /\ Len(Tail(t)) = Len(t) - 1
      /\ ToSet(Tail(t)) \subseteq ToSet(t) /\ (Once(t) => Once(Tail(t)))
  BY <1>1, <1>2, TailJobs
<1>5. Len(s) > 0 => j \in ToSet(Tail(t))
  <2> SUFFICES ASSUME Len(s) > 0 PROVE j \in ToSet(Tail(t))
    OBVIOUS
  <2>1. t[Len(s) + 1] = j
    BY AppendProperties
  <2>2. Tail(t)[Len(s)] = t[Len(s) + 1]
    BY <1>1, <1>2, <1>3, HeadTailProperties
  <2>3. Len(s) \in DOMAIN Tail(t)
    BY <1>1, <1>2, <1>3, LenProperties
  <2> QED
    BY <2>1, <2>2, <2>3 DEF ToSet
<1>4. Kept(s, j, n) = IF Len(t) <= n THEN t ELSE Tail(t)
  BY DEF Kept
<1> HIDE DEF t
<1> QED
  BY <1>1, <1>2, <1>3, <1>4, <1>5

LEMMA RemovedJob ==
  ASSUME NEW s \in Seq(Job), NEW i \in DOMAIN s
  PROVE  /\ RemoveAt(s, i) \in Seq(Job)
         /\ Len(RemoveAt(s, i)) = Len(s) - 1
         /\ ToSet(RemoveAt(s, i)) \subseteq ToSet(s)
         /\ ToSet(s) \subseteq ToSet(RemoveAt(s, i)) \cup {s[i]}
         /\ Once(s) => Once(RemoveAt(s, i)) /\ s[i] \notin ToSet(RemoveAt(s, i))
<1> DEFINE a == SubSeq(s, 1, i - 1)
           b == SubSeq(s, i + 1, Len(s))
           n == Len(s)
<1>1. /\ n \in Nat /\ DOMAIN s = 1..n /\ i \in 1..n
      /\ \A k \in 1..n : s[k] \in Job
  BY LenProperties, ElementOfSeq
<1>2. /\ a \in Seq(Job) /\ Len(a) = i - 1
      /\ \A k \in 1..(i - 1) : a[k] = s[k]
  <2>1. \A k \in 1..(i - 1) : s[k] \in Job
    BY <1>1
  <2>2. /\ a \in Seq(Job) /\ Len(a) = IF 1 <= i - 1 THEN (i - 1) - 1 + 1 ELSE 0
        /\ \A k \in 1..((i - 1) - 1 + 1) : a[k] = s[1 + k - 1]
    BY <1>1, <2>1, SubSeqProperties
  <2> QED
    BY <1>1, <2>2
<1>3. /\ b \in Seq(Job) /\ Len(b) = n - i
      /\ \A k \in 1..(n - i) : b[k] = s[i + k]
  <2>1. \A k \in (i + 1)..n : s[k] \in Job
    BY <1>1
  <2>2. /\ b \in Seq(Job) /\ Len(b) = IF i + 1 <= n THEN n - (i + 1) + 1 ELSE 0
        /\ \A k \in 1..(n - (i + 1) + 1) : b[k] = s[(i + 1) + k - 1]
    BY <1>1, <2>1, SubSeqProperties
  <2> HIDE DEF b
  <2>3. n - (i + 1) + 1 = n - i /\ Len(b) = n - i
    BY <1>1, <2>2
  <2>4. ASSUME NEW k \in 1..(n - i) PROVE b[k] = s[i + k]
    <3>1. (i + 1) + k - 1 = i + k
      BY <1>1
    <3> QED
      BY <2>2, <2>3, <3>1
  <2> QED
    BY <2>2, <2>3, <2>4
<1> HIDE DEF a, b
<1>4. /\ a \o b \in Seq(Job) /\ Len(a \o b) = n - 1
      /\ \A k \in 1..(n - 1) : (a \o b)[k] = IF k <= i - 1 THEN s[k] ELSE s[k + 1]
  <2>1. /\ a \o b \in Seq(Job) /\ Len(a \o b) = Len(a) + Len(b)
        /\ \A k \in 1..(Len(a) + Len(b)) :
             (a \o b)[k] = IF k <= Len(a) THEN a[k] ELSE b[k - Len(a)]
    BY <1>2, <1>3, ConcatProperties
  <2>2. Len(a) + Len(b) = n - 1
    BY <1>1, <1>2, <1>3
  <2>3. ASSUME NEW k \in 1..(n - 1)
        PROVE  (a \o b)[k] = IF k <= i - 1 THEN s[k] ELSE s[k + 1]
    <3>1. (a \o b)[k] = IF k <= i - 1 THEN a[k] ELSE b[k - (i - 1)]
      BY <1>2, <2>1, <2>2
    <3>2. CASE k <= i - 1
      BY <1>1, <1>2, <3>1, <3>2
    <3>3. CASE ~ (k <= i - 1)
      <4>1. k - (i - 1) \in 1..(n - i) /\ i + (k - (i - 1)) = k + 1
        BY <1>1, <3>3
      <4> QED
        BY <1>3, <3>1, <3>3, <4>1
    <3> QED
      BY <3>2, <3>3
  <2> QED
    BY <2>1, <2>2, <2>3
<1>5. RemoveAt(s, i) = a \o b
  BY DEF RemoveAt, a, b
<1>6. DOMAIN (a \o b) = 1..(n - 1)
  BY <1>4, LenProperties
<1> DEFINE at == [k \in 1..(n - 1) |-> IF k <= i - 1 THEN k ELSE k + 1]
           r == a \o b
<1>7. /\ \A k \in 1..(n - 1) : at[k] \in 1..n /\ at[k] # i
      /\ \A k, m \in 1..(n - 1) : at[k] = at[m] => k = m
  BY <1>1
<1>8. \A k \in 1..(n - 1) : r[k] = s[at[k]]
  BY <1>4
<1> HIDE DEF at, r
<1>r. Len(r) = n - 1 /\ ToSet(r) = {r[k] : k \in 1..(n - 1)}
  BY <1>4, <1>6 DEF r, ToSet
<1>9. ToSet(r) \subseteq ToSet(s)
  <2>1. ASSUME NEW k \in 1..(n - 1) PROVE r[k] \in ToSet(s)
    BY <1>1, <1>7, <1>8 DEF ToSet
  <2> QED
    BY <1>r, <2>1
<1>11. ToSet(s) \subseteq ToSet(r) \cup {s[i]}
  <2>1. ASSUME NEW m \in 1..n, m # i PROVE s[m] \in ToSet(r)
    <3>0. m < i \/ m > i
      BY <1>1, <2>1
    <3>1. CASE m < i
      <4>1. m \in 1..(n - 1) /\ m <= i - 1
        BY <1>1, <3>1
      <4>2. r[m] = s[m]
        BY <1>4, <4>1 DEF r
      <4> QED
        BY <1>r, <4>1, <4>2
    <3>2. CASE m > i
      <4>1. PICK k \in 1..(n - 1) : k + 1 = m /\ ~ (k <= i - 1)
        <5>1. m - 1 \in 1..(n - 1) /\ m - 1 + 1 = m /\ ~ (m - 1 <= i - 1)
          BY <1>1, <3>2
        <5> QED
          BY <5>1
      <4>2. r[k] = s[m]
        BY <1>4, <4>1 DEF r
      <4> QED
        BY <1>r, <4>1, <4>2
    <3> QED
      BY <3>0, <3>1, <3>2
  <2> QED
    BY <1>1, <2>1 DEF ToSet
<1>10. ASSUME Once(s) PROVE Once(r) /\ s[i] \notin ToSet(r)
  <2>1. ASSUME NEW k \in 1..(n - 1) PROVE r[k] # s[i]
    <3>1. s[at[k]] = s[i] => at[k] = i
      BY <1>1, <1>7, <1>10 DEF Once
    <3> QED
      BY <1>7, <1>8, <3>1
  <2>2. ASSUME NEW k \in 1..(n - 1), NEW m \in 1..(n - 1), r[k] = r[m]
        PROVE  k = m
    <3>1. s[at[k]] = s[at[m]] => at[k] = at[m]
      BY <1>1, <1>7, <1>10 DEF Once
    <3> QED
      BY <1>7, <1>8, <2>2, <3>1
  <2> QED
    BY <1>r, <2>1, <2>2 DEF Once
<1> QED
  BY <1>4, <1>5, <1>9, <1>10, <1>11 DEF r

LEMMA WithoutJob ==
  ASSUME NEW s \in Seq(Job), NEW j \in Job, Once(s)
  PROVE  /\ Without(s, j) \in Seq(Job) /\ Len(Without(s, j)) <= Len(s)
         /\ ToSet(Without(s, j)) = ToSet(s) \ {j} /\ Once(Without(s, j))
<1>0. Len(s) \in Nat
  BY LenProperties
<1>1. CASE j \in ToSet(s)
  <2> DEFINE at == CHOOSE i \in DOMAIN s : s[i] = j
  <2>1. at \in DOMAIN s /\ s[at] = j
    BY <1>1 DEF ToSet
  <2>2. Without(s, j) = RemoveAt(s, at)
    BY <1>1 DEF Without
  <2> HIDE DEF at
  <2> QED
    BY <1>0, <2>1, <2>2, RemovedJob
<1>2. CASE j \notin ToSet(s)
  BY <1>0, <1>2 DEF Without
<1> QED
  BY <1>1, <1>2

LEMMA NewerJobs ==
  ASSUME NEW s \in Seq(Job), Once(s), NEW n \in 0..Len(s)
  PROVE  /\ Newer(s, n) \in Seq(Job) /\ Len(Newer(s, n)) <= Len(s)
         /\ ToSet(Newer(s, n)) = ToSet(s) \ Older(s, n) /\ Once(Newer(s, n))
         /\ Older(s, n) \subseteq ToSet(s)
<1> DEFINE b == SubSeq(s, n + 1, Len(s))
           m == Len(s)
<1>1. /\ m \in Nat /\ DOMAIN s = 1..m /\ n \in 0..m
      /\ \A k \in 1..m : s[k] \in Job
  BY LenProperties, ElementOfSeq
<1>2. /\ b \in Seq(Job) /\ Len(b) = m - n
      /\ \A k \in 1..(m - n) : b[k] = s[n + k]
  <2>1. \A k \in (n + 1)..m : s[k] \in Job
    BY <1>1
  <2>2. /\ b \in Seq(Job) /\ Len(b) = IF n + 1 <= m THEN m - (n + 1) + 1 ELSE 0
        /\ \A k \in 1..(m - (n + 1) + 1) : b[k] = s[(n + 1) + k - 1]
    BY <1>1, <2>1, SubSeqProperties
  <2> HIDE DEF b
  <2>a. m - (n + 1) + 1 = m - n /\ (n + 1 <= m \/ m - n = 0)
    BY LenProperties
  <2>3. m - (n + 1) + 1 = m - n /\ Len(b) = m - n
    BY <2>a, <2>2
  <2>4. ASSUME NEW k \in 1..(m - n) PROVE b[k] = s[n + k]
    <3>1. (n + 1) + k - 1 = n + k
      BY <1>1
    <3> QED
      BY <2>2, <2>3, <3>1
  <2> QED
    BY <2>2, <2>3, <2>4
<1>3. Newer(s, n) = b
  BY DEF Newer
<1> HIDE DEF b
<1>4. DOMAIN b = 1..(m - n)
  BY <1>2, LenProperties
<1>5. ToSet(b) \subseteq ToSet(s) \ Older(s, n)
  <2>1. ASSUME NEW k \in 1..(m - n) PROVE s[n + k] \in ToSet(s) \ Older(s, n)
    <3>1. n + k \in 1..m /\ \A i \in 1..n : i \in 1..m /\ i # n + k
      BY <1>1
    <3> QED
      BY <1>1, <3>1 DEF Older, ToSet, Once
  <2> QED
    BY <1>2, <1>4, <2>1 DEF ToSet
<1>6. ToSet(s) \ Older(s, n) \subseteq ToSet(b)
  <2>1. ASSUME NEW i \in 1..m, i \notin 1..n PROVE s[i] \in ToSet(b)
    <3>1. i - n \in 1..(m - n) /\ n + (i - n) = i
      BY <1>1, <2>1
    <3> QED
      BY <1>2, <1>4, <3>1 DEF ToSet
  <2> QED
    BY <1>1, <2>1 DEF Older, ToSet
<1>7. Once(b)
  <2>1. ASSUME NEW k \in 1..(m - n), NEW l \in 1..(m - n), b[k] = b[l] PROVE k = l
    <3>1. n + k \in 1..m /\ n + l \in 1..m /\ s[n + k] = s[n + l]
      BY <1>1, <1>2, <2>1
    <3>2. n + k = n + l
      BY <3>1 DEF Once
    <3> QED
      BY <1>1, <3>2
  <2> QED
    BY <1>2, <2>1 DEF Once
<1>8. Older(s, n) \subseteq ToSet(s)
  BY <1>1 DEF Older, ToSet
<1> QED
  BY <1>1, <1>2, <1>3, <1>5, <1>6, <1>7, <1>8

-----------------------------------------------------------------------------
(* Every step of the queue keeps the invariant *)

\* No job but j appears anywhere it was not, and its counts stay.
OthersStay(j) ==
  \A i \in Job \ {j} :
    /\ i \in ToSet(wait)' => i \in ToSet(wait)
    /\ i \in delayed' => i \in delayed
    /\ owner'[i] # None => owner[i] # None
    /\ i \in orphaned' => i \in orphaned
    /\ i \in ToSet(failed)' => i \in ToSet(failed)
    /\ i \in ToSet(completed)' => i \in ToSet(completed)
    /\ tries'[i] = tries[i]

LEMMA OneMoves ==
  ASSUME QueueInv, NEW j \in Job, OthersStay(j), JobInv(j)',
         Types', Lists'
  PROVE  QueueInv'
<1> SUFFICES ASSUME NEW i \in Job, i # j PROVE JobInv(i)'
  BY DEF QueueInv
<1> QED
  BY DEF QueueInv, OthersStay, JobInv, Fits

LEMMA Counts ==
  ASSUME NEW t \in Tries
  PROVE  /\ t.attempts \in 0..Attempts /\ t.stalls \in 0..MaxStalled + 1
         /\ t.starts \in 0..MaxStarts + 1
         /\ Used(t) \in Nat /\ Used(t) + 1 <= MaxStarts
BY JobQueueAssumption DEF Tries, Used, MaxStarts

LEMMA EnqueueStep ==
  ASSUME QueueInv, NEW j \in Job, Enqueue(j)
  PROVE  QueueInv'
<1>1. j \notin ToSet(wait) /\ j \notin delayed /\ owner[j] = None
      /\ j \notin orphaned /\ j \notin ToSet(failed) /\ j \notin ToSet(completed)
  BY DEF Enqueue, Known, Pending, Active
<1>2. /\ wait' \in Seq(Job) /\ ToSet(wait)' = ToSet(wait) \cup {j} /\ Once(wait)'
      /\ failed' = failed /\ completed' = completed
  BY <1>1, AppendJob DEF Enqueue, QueueInv, Types, Lists
<1>3. tries' \in [Job -> Tries] /\ tries'[j] = NoTries
      /\ \A i \in Job \ {j} : tries'[i] = tries[i]
  BY JobQueueAssumption DEF Enqueue, QueueInv, Types, NoTries, Tries, MaxStarts
<1>4. Types' /\ Lists'
  BY <1>2, <1>3 DEF Enqueue, QueueInv, Types, Lists, Once
<1>5. OthersStay(j)
  BY <1>2, <1>3 DEF Enqueue, OthersStay
<1>6. JobInv(j)'
  BY <1>1, <1>2, <1>3, JobQueueAssumption
    DEF Enqueue, JobInv, Fits, NoTries, Used, MaxStarts
<1> QED
  BY <1>4, <1>5, <1>6, OneMoves

LEMMA TakeStep ==
  ASSUME QueueInv, NEW p \in Process, Take(p)
  PROVE  QueueInv'
<1>h. wait \in Seq(Job) /\ wait # <<>> /\ wait' = Tail(wait) /\ Once(wait)
  BY DEF Take, QueueInv, Types, Lists
<1>j. PICK j \in Job : j = Head(wait)
  BY <1>h, HeadTailProperties
<1>1. /\ wait' \in Seq(Job) /\ j \in ToSet(wait)
      /\ ToSet(wait)' \subseteq ToSet(wait)
      /\ j \notin ToSet(wait)' /\ Once(wait)'
  BY <1>h, <1>j, TailJobs, HeadTailProperties
<1>2. /\ owner' = [owner EXCEPT ![j] = p]
      /\ tries' = [tries EXCEPT ![j].starts = IF @ <= MaxStarts THEN @ + 1 ELSE @]
      /\ UNCHANGED <<delayed, orphaned, failed, completed, out, paused>>
  BY <1>j DEF Take
<1>3. JobInv(j) /\ tries[j] \in Tries /\ owner' \in [Job -> Process \cup {None}]
      /\ \A i \in Job \ {j} : owner'[i] = owner[i]
  BY <1>1, <1>2 DEF QueueInv, Types
<1> DEFINE t == tries[j]
           r == [t EXCEPT !.starts = t.starts + 1]
<1>4. t.starts + 1 <= MaxStarts
  <2>1. t.starts <= Used(t)
    BY <1>1, <1>3 DEF JobInv, Fits
  <2> QED
    BY <1>3, <2>1, Counts, JobQueueAssumption DEF MaxStarts
<1>r. /\ r \in Tries /\ r.attempts = t.attempts /\ r.stalls = t.stalls
      /\ r.starts = t.starts + 1
  BY <1>3, <1>4, JobQueueAssumption DEF Tries, MaxStarts
<1>t. tries' = [tries EXCEPT ![j] = r]
  <2>1. t.starts <= MaxStarts
    BY <1>3, <1>4, Counts, JobQueueAssumption DEF MaxStarts
  <2> QED
    BY <1>2, <2>1
<1>s. tries'[j] = r /\ \A i \in Job \ {j} : tries'[i] = tries[i]
  BY <1>1, <1>t DEF QueueInv, Types
<1>u. tries' \in [Job -> Tries]
  BY <1>1, <1>r, <1>t DEF QueueInv, Types
<1> HIDE DEF r
<1>5. Types' /\ Lists'
  BY <1>1, <1>2, <1>3, <1>u DEF QueueInv, Types, Lists, Once
<1>6. OthersStay(j)
  BY <1>1, <1>2, <1>3, <1>s DEF OthersStay
<1>7. JobInv(j)'
  <2>1. Used(r) = Used(t) /\ t.starts <= Used(t)
    BY <1>1, <1>3, <1>r DEF JobInv, Fits, Used
  <2>2. Fits(FALSE, FALSE, TRUE, FALSE, FALSE, FALSE, r)
    BY <1>4, <1>r, <2>1, <1>3, Counts, JobQueueAssumption DEF Fits, MaxStarts
  <2>3. /\ j \notin ToSet(wait)' /\ j \notin delayed' /\ j \notin orphaned'
        /\ j \notin ToSet(failed)' /\ j \notin ToSet(completed)'
    BY <1>1, <1>2, <1>3 DEF JobInv, Fits
  <2>4. owner'[j] # None
    BY <1>2, JobQueueAssumption DEF QueueInv, Types
  <2> QED
    BY <1>s, <2>2, <2>3, <2>4 DEF JobInv, Fits
<1> QED
  BY <1>5, <1>6, <1>7, OneMoves

\* The end of an attempt, in the counts and the owners.
LEMMA EndsStep ==
  ASSUME QueueInv, NEW j \in Job, NEW n \in 0..MaxStarts + 1, Ends(j, n)
  PROVE  \E r \in Tries :
           /\ r.attempts = (IF tries[j].attempts < Attempts
                            THEN tries[j].attempts + 1 ELSE tries[j].attempts)
           /\ r.stalls = tries[j].stalls /\ r.starts = n
           /\ tries' = [tries EXCEPT ![j] = r]
           /\ tries' \in [Job -> Tries] /\ tries'[j] = r
           /\ owner' \in [Job -> Process \cup {None}] /\ owner'[j] = None
           /\ \A i \in Job \ {j} : tries'[i] = tries[i] /\ owner'[i] = owner[i]
<1> DEFINE t == tries[j]
           made == IF t.attempts < Attempts THEN t.attempts + 1 ELSE t.attempts
           r == [t EXCEPT !.attempts = made, !.starts = n]
<1>1. /\ t \in Tries /\ tries \in [Job -> Tries]
      /\ owner \in [Job -> Process \cup {None}]
      /\ owner' = [owner EXCEPT ![j] = None]
  BY DEF QueueInv, Types, Ends
<1>2. made \in 0..Attempts
  BY <1>1, Counts, JobQueueAssumption
<1>3. tries' = [tries EXCEPT ![j] = r]
  BY <1>1 DEF Ends, Tries
<1>4. r \in Tries /\ r.stalls = t.stalls /\ r.starts = n /\ r.attempts = made
  <2> HIDE DEF made
  <2> QED
    BY <1>1, <1>2 DEF Tries
<1> HIDE DEF r
<1> QED
  BY <1>1, <1>3, <1>4

\* Where a job is while it runs.
LEMMA OwnedJob ==
  ASSUME QueueInv, NEW j \in Job, owner[j] # None
  PROVE  /\ j \notin ToSet(wait) /\ j \notin delayed /\ j \notin orphaned
         /\ j \notin ToSet(failed) /\ j \notin ToSet(completed)
         /\ tries[j] \in Tries /\ tries[j].starts <= Used(tries[j]) + 1
         /\ tries[j].starts <= MaxStarts
         /\ tries[j].starts \in 0..MaxStarts + 1 /\ 0 \in 0..MaxStarts + 1
BY Counts, JobQueueAssumption DEF QueueInv, Types, JobInv, Fits, MaxStarts

\* A settled job has no starts, and a failed one has used up its tries.
LEMMA SettledFits ==
  ASSUME NEW r \in Tries, r.starts = 0
  PROVE  /\ Fits(FALSE, FALSE, FALSE, FALSE, FALSE, TRUE, r)
         /\ Fits(FALSE, FALSE, FALSE, FALSE, FALSE, FALSE, r)
         /\ Fits(TRUE, FALSE, FALSE, FALSE, FALSE, FALSE, r)
         /\ r.attempts = Attempts \/ r.stalls > MaxStalled =>
              Fits(FALSE, FALSE, FALSE, FALSE, TRUE, FALSE, r)
BY Counts, JobQueueAssumption DEF Fits, MaxStarts

LEMMA CompleteStep ==
  ASSUME QueueInv, NEW j \in Job, Complete(j)
  PROVE  QueueInv'
<1>1. /\ owner[j] # None /\ Ends(j, 0)
      /\ UNCHANGED <<wait, delayed, orphaned, failed, out, paused>>
  BY DEF Complete
<1>2. PICK r \in Tries :
           /\ r.starts = 0
           /\ tries' \in [Job -> Tries] /\ tries'[j] = r
           /\ owner' \in [Job -> Process \cup {None}] /\ owner'[j] = None
           /\ \A i \in Job \ {j} : tries'[i] = tries[i] /\ owner'[i] = owner[i]
  BY <1>1, OwnedJob, EndsStep
<1>3. /\ completed' \in Seq(Job) /\ Len(completed') <= KeepCompleted
      /\ ToSet(completed)' \subseteq ToSet(completed) \cup {j} /\ Once(completed)'
  BY <1>1, OwnedJob, KeptJobs, JobQueueAssumption DEF QueueInv, Types, Lists, Complete
<1>4. Types' /\ Lists'
  BY <1>1, <1>2, <1>3 DEF QueueInv, Types, Lists, Once
<1>5. OthersStay(j)
  BY <1>1, <1>2, <1>3 DEF OthersStay
<1>6. JobInv(j)'
  <2>1. /\ j \notin ToSet(wait)' /\ j \notin delayed' /\ j \notin orphaned'
        /\ j \notin ToSet(failed)'
    BY <1>1, OwnedJob
  <2> QED
    BY <1>2, <2>1, SettledFits DEF JobInv, Fits
<1> QED
  BY <1>4, <1>5, <1>6, OneMoves

LEMMA PromoteStep ==
  ASSUME QueueInv, NEW j \in Job, Promote(j)
  PROVE  QueueInv'
<1>1. /\ JobInv(j) /\ j \in delayed /\ delayed' = delayed \ {j}
      /\ UNCHANGED <<owner, orphaned, failed, completed, tries, out, paused>>
  BY DEF QueueInv, Promote
<1>2. /\ wait' \in Seq(Job) /\ ToSet(wait)' = ToSet(wait) \cup {j} /\ Once(wait)'
  BY <1>1, AppendJob DEF Promote, QueueInv, Types, Lists, JobInv, Fits
<1>3. Types' /\ Lists'
  BY <1>1, <1>2 DEF QueueInv, Types, Lists, Once
<1>4. OthersStay(j)
  BY <1>1, <1>2 DEF OthersStay
<1>5. JobInv(j)'
  BY <1>1, <1>2 DEF JobInv, Fits
<1> QED
  BY <1>3, <1>4, <1>5, OneMoves

\* A job joins the failed ones.
LEMMA FailedJob ==
  ASSUME QueueInv, NEW j \in Job, j \notin ToSet(failed),
         failed' = Kept(failed, j, KeepFailed)
  PROVE  /\ failed' \in Seq(Job) /\ Len(failed') <= KeepFailed /\ Once(failed)'
         /\ ToSet(failed)' \subseteq ToSet(failed) \cup {j}
BY KeptJobs, JobQueueAssumption DEF QueueInv, Types, Lists

LEMMA ThrowStep ==
  ASSUME QueueInv, NEW j \in Job, Throw(j)
  PROVE  QueueInv'
<1> DEFINE t == tries[j]
<1>1. /\ owner[j] # None /\ UNCHANGED <<wait, orphaned, completed, out, paused>>
  BY DEF Throw
<1>2. /\ j \notin ToSet(wait) /\ j \notin delayed /\ j \notin orphaned
      /\ j \notin ToSet(failed) /\ j \notin ToSet(completed)
      /\ t \in Tries /\ t.starts <= Used(t) + 1 /\ t.starts <= MaxStarts
  BY <1>1, OwnedJob
<1>3. CASE t.attempts + 1 < Attempts
  <2>1. Ends(j, tries[j].starts) /\ delayed' = delayed \cup {j} /\ UNCHANGED failed
    BY <1>2, <1>3, Counts, JobQueueAssumption DEF Throw
  <2>2. PICK r \in Tries :
           /\ r.attempts = t.attempts + 1 /\ r.stalls = t.stalls /\ r.starts = t.starts
           /\ tries' \in [Job -> Tries] /\ tries'[j] = r
           /\ owner' \in [Job -> Process \cup {None}] /\ owner'[j] = None
           /\ \A i \in Job \ {j} : tries'[i] = tries[i] /\ owner'[i] = owner[i]
    <3>1. t.attempts < Attempts
      BY <1>2, <1>3, Counts, JobQueueAssumption
    <3> QED
      BY <1>1, <2>1, <3>1, OwnedJob, EndsStep
  <2>3. Types' /\ Lists'
    BY <1>1, <2>1, <2>2 DEF QueueInv, Types, Lists, Once
  <2>4. OthersStay(j)
    BY <1>1, <2>1, <2>2 DEF OthersStay
  <2>5. Used(r) = Used(t) + 1
    BY <1>2, <1>3, <2>2, Counts, JobQueueAssumption DEF Used
  <2>6. Fits(FALSE, TRUE, FALSE, FALSE, FALSE, FALSE, r)
    BY <1>2, <2>2, <2>5 DEF Fits
  <2>7. JobInv(j)'
    BY <1>1, <1>2, <2>1, <2>2, <2>6 DEF JobInv, Fits
  <2> QED
    BY <2>3, <2>4, <2>7, OneMoves
<1>4. CASE ~ (t.attempts + 1 < Attempts)
  <2>1. Ends(j, 0) /\ failed' = Kept(failed, j, KeepFailed) /\ UNCHANGED delayed
    BY <1>4 DEF Throw
  <2>2. PICK r \in Tries :
           /\ r.attempts = (IF t.attempts < Attempts THEN t.attempts + 1 ELSE t.attempts)
           /\ r.starts = 0
           /\ tries' \in [Job -> Tries] /\ tries'[j] = r
           /\ owner' \in [Job -> Process \cup {None}] /\ owner'[j] = None
           /\ \A i \in Job \ {j} : tries'[i] = tries[i] /\ owner'[i] = owner[i]
    BY <1>1, <2>1, OwnedJob, EndsStep
  <2>3. /\ failed' \in Seq(Job) /\ Len(failed') <= KeepFailed /\ Once(failed)'
        /\ ToSet(failed)' \subseteq ToSet(failed) \cup {j}
    BY <1>2, <2>1, FailedJob
  <2>4. Types' /\ Lists'
    BY <1>1, <2>1, <2>2, <2>3 DEF QueueInv, Types, Lists, Once
  <2>5. OthersStay(j)
    BY <1>1, <2>1, <2>2, <2>3 DEF OthersStay
  <2>6. r.attempts = Attempts
    BY <1>2, <1>4, <2>2, Counts, JobQueueAssumption
  <2>7. JobInv(j)'
    <3>1. /\ j \notin ToSet(wait)' /\ j \notin delayed' /\ j \notin orphaned'
          /\ j \notin ToSet(completed)'
      BY <1>1, <1>2, <2>1
    <3> QED
      BY <2>2, <2>6, <3>1, SettledFits DEF JobInv, Fits
  <2> QED
    BY <2>4, <2>5, <2>7, OneMoves
<1> QED
  BY <1>3, <1>4

LEMMA StalledStep ==
  ASSUME QueueInv, NEW j \in Job, Stalled(j)
  PROVE  QueueInv'
<1> DEFINE t == tries[j]
<1>1. /\ JobInv(j) /\ t \in Tries /\ j \in orphaned /\ orphaned' = orphaned \ {j}
      /\ UNCHANGED <<delayed, owner, completed, out, paused>>
  BY DEF QueueInv, Types, Stalled
<1>2. /\ j \notin ToSet(wait) /\ j \notin delayed /\ owner[j] = None
      /\ j \notin ToSet(failed) /\ j \notin ToSet(completed)
      /\ t.starts <= Used(t) + 1 /\ t.starts <= MaxStarts
  BY <1>1 DEF JobInv, Fits
<1>3. CASE t.stalls < MaxStalled
  <2> DEFINE r == [t EXCEPT !.stalls = t.stalls + 1]
  <2>1. /\ tries' = [tries EXCEPT ![j] = r]
        /\ wait' = <<j>> \o wait /\ UNCHANGED failed
    BY <1>1, <1>3, Counts, JobQueueAssumption DEF Stalled
  <2>2. /\ r \in Tries /\ r.attempts = t.attempts /\ r.starts = t.starts
        /\ r.stalls = t.stalls + 1
    BY <1>1, <1>3, JobQueueAssumption DEF Tries
  <2>3. /\ tries' \in [Job -> Tries] /\ tries'[j] = r
        /\ \A i \in Job \ {j} : tries'[i] = tries[i]
    BY <2>1, <2>2 DEF QueueInv, Types
  <2> HIDE DEF r
  <2>4. /\ wait' \in Seq(Job) /\ ToSet(wait)' = ToSet(wait) \cup {j} /\ Once(wait)'
    BY <1>2, <2>1, PrependJob DEF QueueInv, Types, Lists
  <2>5. Types' /\ Lists'
    BY <1>1, <2>1, <2>3, <2>4 DEF QueueInv, Types, Lists, Once
  <2>6. OthersStay(j)
    BY <1>1, <2>1, <2>3, <2>4 DEF OthersStay
  <2>7. Used(r) = Used(t) + 1
    BY <1>1, <1>3, <2>2, Counts, JobQueueAssumption DEF Used
  <2>8. Fits(TRUE, FALSE, FALSE, FALSE, FALSE, FALSE, r)
    BY <1>2, <2>2, <2>7 DEF Fits
  <2>9. JobInv(j)'
    BY <1>1, <1>2, <2>1, <2>3, <2>4, <2>8 DEF JobInv, Fits
  <2> QED
    BY <2>5, <2>6, <2>9, OneMoves
<1>4. CASE ~ (t.stalls < MaxStalled)
  <2> DEFINE r == [t EXCEPT !.stalls = MaxStalled + 1, !.starts = 0]
  <2>1. /\ tries' = [tries EXCEPT ![j] = r]
        /\ failed' = Kept(failed, j, KeepFailed) /\ UNCHANGED wait
    BY <1>1, <1>4 DEF Stalled
  <2>2. /\ r \in Tries /\ r.starts = 0 /\ r.stalls > MaxStalled
    <3>1. 0 \in 0..MaxStarts + 1 /\ MaxStalled + 1 \in 0..MaxStalled + 1
          /\ MaxStalled + 1 > MaxStalled
      BY JobQueueAssumption DEF MaxStarts
    <3> QED
      BY <1>1, <3>1 DEF Tries
  <2>3. /\ tries' \in [Job -> Tries] /\ tries'[j] = r
        /\ \A i \in Job \ {j} : tries'[i] = tries[i]
    BY <2>1, <2>2 DEF QueueInv, Types
  <2> HIDE DEF r
  <2>4. /\ failed' \in Seq(Job) /\ Len(failed') <= KeepFailed /\ Once(failed)'
        /\ ToSet(failed)' \subseteq ToSet(failed) \cup {j}
    BY <1>2, <2>1, FailedJob
  <2>5. Types' /\ Lists'
    BY <1>1, <2>1, <2>3, <2>4 DEF QueueInv, Types, Lists, Once
  <2>6. OthersStay(j)
    BY <1>1, <2>1, <2>3, <2>4 DEF OthersStay
  <2>7. JobInv(j)'
    <3>1. /\ j \notin ToSet(wait)' /\ j \notin delayed' /\ j \notin orphaned'
          /\ j \notin ToSet(completed)' /\ owner'[j] = None
      BY <1>1, <1>2, <2>1
    <3> QED
      BY <2>2, <2>3, <3>1, SettledFits DEF JobInv, Fits
  <2> QED
    BY <2>5, <2>6, <2>7, OneMoves
<1> QED
  BY <1>3, <1>4

LEMMA AdminRetryStep ==
  ASSUME QueueInv, NEW j \in Job, AdminRetry(j)
  PROVE  QueueInv'
<1>1. /\ j \in ToSet(failed) \cup ToSet(completed) /\ JobInv(j)
      /\ failed' = Without(failed, j) /\ completed' = Without(completed, j)
      /\ wait' = Append(wait, j)
      /\ UNCHANGED <<delayed, owner, orphaned, tries, out, paused>>
  BY DEF AdminRetry, QueueInv
<1>2. /\ j \notin ToSet(wait) /\ j \notin delayed /\ owner[j] = None
      /\ j \notin orphaned /\ tries[j] \in Tries /\ tries[j].starts = 0
  BY <1>1 DEF QueueInv, Types, JobInv, Fits
<1>3. /\ wait' \in Seq(Job) /\ ToSet(wait)' = ToSet(wait) \cup {j} /\ Once(wait)'
  BY <1>1, <1>2, AppendJob DEF QueueInv, Types, Lists
<1>4. /\ failed' \in Seq(Job) /\ Len(failed') <= Len(failed) /\ Once(failed)'
      /\ ToSet(failed)' = ToSet(failed) \ {j}
  BY <1>1, WithoutJob DEF QueueInv, Types, Lists
<1>5. /\ completed' \in Seq(Job) /\ Len(completed') <= Len(completed)
      /\ Once(completed)' /\ ToSet(completed)' = ToSet(completed) \ {j}
  BY <1>1, WithoutJob DEF QueueInv, Types, Lists
<1>6. Len(failed') <= KeepFailed /\ Len(completed') <= KeepCompleted
  BY <1>4, <1>5, LenProperties, JobQueueAssumption DEF QueueInv, Types
<1>7. Types' /\ Lists'
  BY <1>1, <1>3, <1>4, <1>5, <1>6 DEF QueueInv, Types, Lists
<1>8. OthersStay(j)
  BY <1>1, <1>3, <1>4, <1>5 DEF OthersStay
<1>9. JobInv(j)'
  BY <1>1, <1>2, <1>3, <1>4, <1>5, SettledFits DEF JobInv, Fits
<1> QED
  BY <1>7, <1>8, <1>9, OneMoves

\* Who only deletes jobs keeps the invariant.
LEMMA WithdrawStep ==
  ASSUME QueueInv, NEW S \in SUBSET Job, Withdraw(S),
         UNCHANGED <<owner, paused>>, orphaned' \subseteq orphaned,
         delayed' \subseteq delayed,
         wait' \in Seq(Job), Once(wait)', ToSet(wait)' \subseteq ToSet(wait),
         failed' \in Seq(Job), Once(failed)', Len(failed') <= Len(failed),
         ToSet(failed)' \subseteq ToSet(failed) \ S,
         completed' \in Seq(Job), Once(completed)', Len(completed') <= Len(completed),
         ToSet(completed)' \subseteq ToSet(completed)
  PROVE  QueueInv'
<1>1. NoTries \in Tries /\ NoTries.starts = 0
  BY JobQueueAssumption DEF NoTries, Tries, MaxStarts
<1>2. /\ out' \in SUBSET Job /\ tries' \in [Job -> Tries]
      /\ \A j \in Job : tries'[j] = IF j \in S THEN NoTries ELSE tries[j]
  BY <1>1 DEF Withdraw, QueueInv, Types
<1>3. Len(failed') <= KeepFailed /\ Len(completed') <= KeepCompleted
  BY LenProperties, JobQueueAssumption DEF QueueInv, Types
<1>4. Types' /\ Lists'
  BY <1>2, <1>3 DEF QueueInv, Types, Lists
<1>5. ASSUME NEW j \in Job PROVE JobInv(j)'
  <2>1. /\ JobInv(j)
        /\ j \in ToSet(wait)' => j \in ToSet(wait)
        /\ j \in delayed' => j \in delayed
        /\ owner'[j] = owner[j]
        /\ j \in orphaned' => j \in orphaned
        /\ j \in ToSet(failed)' => j \in ToSet(failed)
        /\ j \in ToSet(completed)' => j \in ToSet(completed)
    BY DEF QueueInv
  <2>2. CASE j \notin S
    BY <1>2, <2>1, <2>2 DEF JobInv, Fits
  <2>3. CASE j \in S
    <3>1. tries'[j] = NoTries /\ j \notin ToSet(failed)'
      BY <1>2, <2>3
    <3>2. Used(NoTries) \in Nat /\ MaxStarts \in Nat
      BY <1>1, Counts, JobQueueAssumption DEF MaxStarts
    <3> QED
      BY <1>1, <2>1, <3>1, <3>2 DEF JobInv, Fits
  <2> QED
    BY <2>2, <2>3
<1> QED
  BY <1>4, <1>5 DEF QueueInv

LEMMA AdminRemoveStep ==
  ASSUME QueueInv, NEW j \in Job, AdminRemove(j)
  PROVE  QueueInv'
<1>1. wait \in Seq(Job) /\ failed \in Seq(Job) /\ completed \in Seq(Job) /\ Lists
  BY DEF QueueInv, Types
<1>2. /\ wait' \in Seq(Job) /\ Once(wait)' /\ ToSet(wait)' \subseteq ToSet(wait)
  BY <1>1, WithoutJob DEF AdminRemove, Lists
<1>3. /\ failed' \in Seq(Job) /\ Once(failed)' /\ Len(failed') <= Len(failed)
      /\ ToSet(failed)' \subseteq ToSet(failed) \ {j}
  BY <1>1, WithoutJob DEF AdminRemove, Lists
<1>4. /\ completed' \in Seq(Job) /\ Once(completed)' /\ Len(completed') <= Len(completed)
      /\ ToSet(completed)' \subseteq ToSet(completed)
  BY <1>1, WithoutJob DEF AdminRemove, Lists
<1>5. /\ UNCHANGED <<owner, paused>> /\ orphaned' \subseteq orphaned
      /\ delayed' \subseteq delayed /\ Withdraw({j})
  BY DEF AdminRemove
<1> QED
  BY <1>2, <1>3, <1>4, <1>5, WithdrawStep

\* A clean-up, list by list.
CleanUp(w, f, c, S) ==
  /\ wait' = Newer(wait, w) /\ delayed' = delayed \ S
  /\ failed' = Newer(failed, f) /\ completed' = Newer(completed, c)
  /\ Withdraw(Older(wait, w) \cup S \cup Older(failed, f) \cup Older(completed, c))
  /\ UNCHANGED <<owner, orphaned, paused>>

LEMMA CleanedLists ==
  ASSUME QueueInv, NEW w \in 0..Len(wait), NEW f \in 0..Len(failed),
         NEW c \in 0..Len(completed), NEW S \in SUBSET delayed, CleanUp(w, f, c, S)
  PROVE  /\ wait' \in Seq(Job) /\ Once(wait)'
         /\ ToSet(wait)' = ToSet(wait) \ Older(wait, w)
         /\ Older(wait, w) \subseteq ToSet(wait)
         /\ failed' \in Seq(Job) /\ Once(failed)' /\ Len(failed') <= Len(failed)
         /\ ToSet(failed)' = ToSet(failed) \ Older(failed, f)
         /\ Older(failed, f) \subseteq ToSet(failed)
         /\ completed' \in Seq(Job) /\ Once(completed)'
         /\ Len(completed') <= Len(completed)
         /\ ToSet(completed)' = ToSet(completed) \ Older(completed, c)
         /\ Older(completed, c) \subseteq ToSet(completed)
<1>1. wait \in Seq(Job) /\ failed \in Seq(Job) /\ completed \in Seq(Job) /\ Lists
  BY DEF QueueInv, Types
<1>2. /\ wait' = Newer(wait, w) /\ failed' = Newer(failed, f)
      /\ completed' = Newer(completed, c)
  BY DEF CleanUp
<1> QED
  BY <1>1, <1>2, NewerJobs DEF Lists

\* The lists have nothing in common.
LEMMA ListsApart ==
  ASSUME QueueInv
  PROVE  /\ ToSet(wait) \subseteq Job /\ ToSet(failed) \subseteq Job
         /\ ToSet(completed) \subseteq Job
         /\ ToSet(wait) \cap delayed = {} /\ ToSet(wait) \cap orphaned = {}
         /\ ToSet(wait) \cap ToSet(failed) = {}
         /\ ToSet(wait) \cap ToSet(completed) = {}
         /\ delayed \cap orphaned = {} /\ delayed \cap ToSet(failed) = {}
         /\ delayed \cap ToSet(completed) = {}
         /\ orphaned \cap ToSet(failed) = {} /\ orphaned \cap ToSet(completed) = {}
         /\ ToSet(failed) \cap ToSet(completed) = {}
<1>1. /\ ToSet(wait) \subseteq Job /\ ToSet(failed) \subseteq Job
      /\ ToSet(completed) \subseteq Job
  BY LenProperties, ElementOfSeq DEF QueueInv, Types, ToSet
<1>2. ASSUME NEW j \in Job PROVE JobInv(j)
  BY DEF QueueInv
<1>3. delayed \subseteq Job /\ orphaned \subseteq Job
  BY DEF QueueInv, Types
<1> QED
  BY <1>1, <1>2, <1>3 DEF JobInv, Fits

LEMMA AdminCleanStep ==
  ASSUME QueueInv, AdminClean
  PROVE  QueueInv'
<1>1. PICK w \in 0..Len(wait), f \in 0..Len(failed), c \in 0..Len(completed),
           S \in SUBSET delayed : CleanUp(w, f, c, S)
  BY DEF AdminClean, CleanUp
<1> DEFINE all == Older(wait, w) \cup S \cup Older(failed, f) \cup Older(completed, c)
<1>2. /\ Withdraw(all) /\ UNCHANGED <<owner, paused>> /\ orphaned' \subseteq orphaned
      /\ delayed' \subseteq delayed
  BY <1>1 DEF CleanUp
<1>3. delayed \subseteq Job
  BY DEF QueueInv, Types
<1>4. all \in SUBSET Job
  BY <1>1, <1>3, CleanedLists, ListsApart
<1>5. ToSet(failed)' \subseteq ToSet(failed) \ all
  BY <1>1, CleanedLists, ListsApart
<1> HIDE DEF all
<1> QED
  BY <1>1, <1>2, <1>4, <1>5, CleanedLists, WithdrawStep

LEMMA AbandonStep ==
  ASSUME QueueInv, NEW p \in Process, Abandon(p)
  PROVE  QueueInv'
<1>1. /\ orphaned' = orphaned \cup {j \in Job : owner[j] = p}
      /\ owner' = [j \in Job |-> IF owner[j] = p THEN None ELSE owner[j]]
      /\ UNCHANGED <<wait, delayed, failed, completed, tries, out, paused>>
      /\ p # None
  BY JobQueueAssumption DEF Abandon, Running
<1>2. Types' /\ Lists'
  BY <1>1 DEF QueueInv, Types, Lists, Once
<1>3. ASSUME NEW j \in Job PROVE JobInv(j)'
  <2>1. JobInv(j) /\ owner[j] \in Process \cup {None}
    BY DEF QueueInv, Types
  <2>2. /\ j \in ToSet(wait)' <=> j \in ToSet(wait)
        /\ j \in ToSet(failed)' <=> j \in ToSet(failed)
        /\ j \in ToSet(completed)' <=> j \in ToSet(completed)
        /\ j \in delayed' <=> j \in delayed
        /\ tries'[j] = tries[j]
    BY <1>1
  <2>3. CASE owner[j] = p
    <3>1. owner'[j] = None /\ j \in orphaned' /\ owner[j] # None
      BY <1>1, <2>3
    <3> QED
      BY <2>1, <2>2, <3>1 DEF JobInv, Fits
  <2>4. CASE owner[j] # p
    <3>1. owner'[j] = owner[j] /\ (j \in orphaned' <=> j \in orphaned)
      BY <1>1, <2>4
    <3> QED
      BY <2>1, <2>2, <3>1 DEF JobInv, Fits
  <2> QED
    BY <2>3, <2>4
<1> QED
  BY <1>2, <1>3 DEF QueueInv

\* Nothing but whether the queue is paused changes.
LEMMA QueueStays ==
  ASSUME QueueInv, UNCHANGED <<wait, delayed, owner, orphaned, failed, completed, tries, out>>,
         paused' \in BOOLEAN
  PROVE  QueueInv'
BY DEF QueueInv, Types, Lists, Once, JobInv, Fits

LEMMA QueueStep ==
  ASSUME QueueInv, QueueNext
  PROVE  QueueInv'
<1>1. ASSUME NEW p \in Process, Take(p) PROVE QueueInv'
  BY <1>1, TakeStep
<1>2. ASSUME NEW j \in Job,
             \/ Enqueue(j) \/ WorkerStep(j) \/ Promote(j) \/ Stalled(j)
             \/ AdminRetry(j) \/ AdminRemove(j)
      PROVE  QueueInv'
  BY <1>2, EnqueueStep, CompleteStep, ThrowStep, PromoteStep, StalledStep,
     AdminRetryStep, AdminRemoveStep DEF WorkerStep
<1>3. CASE AdminClean
  BY <1>3, AdminCleanStep
<1>4. CASE AdminPause
  BY <1>4, QueueStays DEF AdminPause, QueueInv, Types
<1> QED
  BY <1>1, <1>2, <1>3, <1>4 DEF QueueNext, Admin

-----------------------------------------------------------------------------
(* The monitor over the queue *)

MonitorInv == QueueInv /\ conn \in Conn /\ loop \in Loop /\ over \in Over

LEMMA InitInv == Init => MonitorInv
<1> SUFFICES ASSUME Init PROVE MonitorInv
  OBVIOUS
<1>1. wait = <<>> /\ failed = <<>> /\ completed = <<>>
      /\ delayed = {} /\ orphaned = {} /\ owner = [j \in Job |-> None]
      /\ tries = [j \in Job |-> NoTries] /\ out = Job /\ paused = FALSE
  BY DEF Init, QueueInit
<1>2. <<>> \in Seq(Job) /\ Len(<<>>) = 0 /\ ToSet(<<>>) = {}
  BY EmptySeq DEF ToSet
<1>3. NoTries \in Tries
  BY JobQueueAssumption DEF NoTries, Tries, MaxStarts
<1>8. out \in SUBSET Job /\ paused \in BOOLEAN
  BY <1>1
<1>4. Types
  BY <1>1, <1>2, <1>3, <1>8, JobQueueAssumption DEF Types
<1>5. Lists
  BY <1>1, <1>2 DEF Lists, Once
<1>6. ASSUME NEW j \in Job PROVE JobInv(j)
  BY <1>1, <1>2, JobQueueAssumption DEF JobInv, Fits, Used, NoTries, MaxStarts
<1>7. conn \in Conn /\ loop \in Loop /\ over \in Over
  BY DEF Init, Conn, Loop, Over, NotCounted
<1> QED
  BY <1>4, <1>5, <1>6, <1>7 DEF MonitorInv, QueueInv

LEMMA QueueUntouched ==
  ASSUME QueueInv, UNCHANGED queue
  PROVE  QueueInv'
BY QueueStays DEF queue, QueueInv, Types

LEMMA OverTypes ==
  ASSUME over \in Over, NEW b \in BOOLEAN \cup {None}
  PROVE  /\ [over EXCEPT !.failed = b] \in Over
         /\ [over EXCEPT !.waiting = b] \in Over
         /\ NotCounted \in Over
BY DEF Over, NotCounted

\* What an answer or the end of an alert does to the monitor.
LEMMA AnsweredTypes ==
  ASSUME NEW counts \in Over, Answered(counts), over \in Over
  PROVE  loop' \in Loop /\ over' \in Over /\ UNCHANGED <<queue, conn>>
BY OverTypes DEF Answered, GoOn, AfterFailed, Loop

LEMMA CheckKeeps ==
  ASSUME MonitorInv, CheckStep
  PROVE  MonitorInv'
<1> SUFFICES loop' \in Loop /\ over' \in Over /\ UNCHANGED <<queue, conn>>
  BY QueueUntouched DEF MonitorInv
<1>1. over \in Over /\ loop \in Loop
  BY DEF MonitorInv
<1>2. CASE CountFailed
  <2>0. (Len(failed) > FailedThreshold) \in BOOLEAN
    OBVIOUS
  <2>1. PICK b \in BOOLEAN : b = (Len(failed) > FailedThreshold)
    BY <2>0, Zenon
  <2>2. Answered([over EXCEPT !.failed = b])
    BY <1>2, <2>1, Zenon DEF CountFailed
  <2> QED
    BY <1>1, <2>2, OverTypes, AnsweredTypes
<1>3. CASE CountWaiting
  <2>0. (Len(wait) > WaitingThreshold) \in BOOLEAN
    OBVIOUS
  <2>1. PICK b \in BOOLEAN : b = (Len(wait) > WaitingThreshold)
    BY <2>0, Zenon
  <2>2. Answered([over EXCEPT !.waiting = b])
    BY <1>3, <2>1, Zenon DEF CountWaiting
  <2> QED
    BY <1>1, <2>2, OverTypes, AnsweredTypes
<1>4. CASE StartCheck \/ CountRejected \/ AlertFailedEnds \/ AlertWaitingEnds
  BY <1>1, <1>4, OverTypes DEF StartCheck, CountRejected, AlertFailedEnds,
     AlertWaitingEnds, GoOn, AfterFailed, Loop
<1> QED
  BY <1>2, <1>3, <1>4 DEF CheckStep

LEMMA NextKeeps == MonitorInv /\ [Next]_vars => MonitorInv'
<1> SUFFICES ASSUME MonitorInv, [Next]_vars PROVE MonitorInv'
  OBVIOUS
<1> USE DEF MonitorInv
<1>1. CASE OnQueue(QueueNext)
  BY <1>1, QueueStep DEF OnQueue, monitor
<1>2. CASE CheckStep
  BY <1>2, CheckKeeps
<1>3. CASE Disconnect \/ Reconnect \/ GiveUp
  BY <1>3, QueueUntouched DEF Disconnect, Reconnect, GiveUp, Conn, monitor
<1>4. CASE HostDies
  <2>1. QueueInv'
    BY <1>4, AbandonStep, QueueMonitorAssumption DEF HostDies
  <2> QED
    BY <1>4, <2>1, OverTypes DEF HostDies, Conn, Loop
<1>5. CASE LocksExpire
  BY <1>5, AbandonStep, QueueMonitorAssumption DEF LocksExpire, monitor
<1>6. ASSUME NEW p \in Process, OtherDies(p) PROVE MonitorInv'
  BY <1>6, AbandonStep DEF OtherDies, monitor
<1>7. CASE UNCHANGED vars
  BY <1>7, QueueUntouched DEF vars, monitor
<1> QED
  BY <1>1, <1>2, <1>3, <1>4, <1>5, <1>6, <1>7 DEF Next

\* A job waits once, so that no more wait than there are.
LEMMA WaitIsBounded ==
  ASSUME QueueInv
  PROVE  Len(wait) <= Cardinality(Job)
<1>1. /\ wait \in [1..Len(wait) -> Job] /\ Len(wait) \in Nat /\ Once(wait)
  BY LenProperties DEF QueueInv, Types, Lists
<1>2. IsFiniteSet(Job) /\ Cardinality(Job) \in Nat
  BY JobQueueAssumption, FS_CardinalityType
<1>3. IsFiniteSet(1..Len(wait)) /\ Cardinality(1..Len(wait)) = Len(wait)
  <2>1. /\ IsFiniteSet(1..Len(wait))
        /\ Cardinality(1..Len(wait)) = IF 1 > Len(wait) THEN 0 ELSE Len(wait) - 1 + 1
    BY <1>1, FS_Interval
  <2> QED
    BY <1>1, <2>1
<1>4. ASSUME Cardinality(Job) < Cardinality(1..Len(wait)) PROVE FALSE
  <2>1. \E i, k \in 1..Len(wait) : i # k /\ wait[i] = wait[k]
    BY <1>1, <1>2, <1>3, <1>4, FS_PigeonHole
  <2> QED
    BY <1>1, <2>1 DEF Once
<1> QED
  BY <1>1, <1>2, <1>3, <1>4

\* The invariant holds always: what a job has left, where it can be, and that
\* it is in one place (queue.service.ts, default.worker.ts).
THEOREM QueueInvariant == Spec => []MonitorInv
BY InitInv, NextKeeps, PTL DEF Spec

\* The queue, the connection and the check are always of their types
\* (queue-monitor.service.ts), and no more jobs wait than there are.
THEOREM QueueTypeCorrect == Spec => []TypeOK
<1>1. MonitorInv => TypeOK
  BY WaitIsBounded DEF MonitorInv, QueueInv, Types, TypeOK, QueueTypeOK
<1> QED
  BY <1>1, QueueInvariant, PTL

\* Between two retries by an administrator no job is started more often than
\* its attempts and the forgiven stalls allow, whoever throws, dies, pauses or
\* loses a lock (queue.service.ts:30).
THEOREM StartsStayBounded == Spec => []StartsAreBounded
<1>1. MonitorInv => StartsAreBounded
  BY DEF MonitorInv, QueueInv, JobInv, Fits, StartsAreBounded
<1> QED
  BY <1>1, QueueInvariant, PTL

\* A job that is kept as failed has used all of its attempts, or has stalled
\* once too often (queue.service.ts:80).
THEOREM FailedJobsAreExhausted == Spec => []FailedJobsHadTheirTries
<1>1. MonitorInv => FailedJobsHadTheirTries
  <2> SUFFICES ASSUME MonitorInv, NEW j \in ToSet(failed)
               PROVE  tries[j].attempts = Attempts \/ tries[j].stalls > MaxStalled
    BY DEF FailedJobsHadTheirTries
  <2>1. j \in Job
    BY LenProperties, ElementOfSeq DEF MonitorInv, QueueInv, Types, ToSet
  <2> QED
    BY <2>1 DEF MonitorInv, QueueInv, JobInv, Fits
<1> QED
  BY <1>1, QueueInvariant, PTL

-----------------------------------------------------------------------------
(* The queue keeps the promise of JobLife *)

Due == ToSet(wait) \cup delayed
Spent == [j \in Job |-> [attempts |-> tries[j].attempts, stalls |-> tries[j].stalls]]

\* What a job has spent, when the counts of one job change.
LEMMA SpentChanges ==
  ASSUME tries \in [Job -> Tries], NEW j \in Job, NEW r \in Tries,
         tries' = [tries EXCEPT ![j] = r]
  PROVE  Spent' = [Spent EXCEPT ![j] = [attempts |-> r.attempts, stalls |-> r.stalls]]
BY DEF Spent

LEMMA SpentStays ==
  ASSUME tries \in [Job -> Tries], NEW j \in Job, NEW r \in Tries,
         tries' = [tries EXCEPT ![j] = r],
         r.attempts = tries[j].attempts, r.stalls = tries[j].stalls
  PROVE  Spent' = Spent
BY DEF Spent

\* What Kept() does to a list of settled jobs.
LEMMA KeptSettles ==
  ASSUME NEW s \in Seq(Job), NEW j \in Job, NEW n \in Nat \ {0}, Len(s) <= n
  PROVE  Life!Settles(ToSet(s), j, ToSet(Kept(s, j, n)))
<1> DEFINE k == ToSet(Kept(s, j, n))
           old == ToSet(s) \ k
<1>1. k \subseteq ToSet(s) \cup {j} /\ j \in k
  BY KeptJobs
<1>2. old \in SUBSET ToSet(s) /\ k = (ToSet(s) \ old) \cup {j}
  BY <1>1
<1> QED
  BY <1>2 DEF Life!Settles

LEMMA EnqueueAdds ==
  ASSUME QueueInv, NEW j \in Job, Enqueue(j)
  PROVE  Life!Add(j)
<1>1. /\ wait \in Seq(Job) /\ tries \in [Job -> Tries] /\ NoTries \in Tries
      /\ wait' = Append(wait, j) /\ tries' = [tries EXCEPT ![j] = NoTries]
      /\ UNCHANGED <<delayed, owner, orphaned, failed, completed>>
  BY JobQueueAssumption DEF Enqueue, QueueInv, Types, NoTries, Tries, MaxStarts
<1>2. ToSet(wait)' = ToSet(wait) \cup {j}
  BY <1>1, AppendJob
<1>3. Spent' = [Spent EXCEPT ![j] = Life!NothingSpent]
  BY <1>1, SpentChanges DEF NoTries, Life!NothingSpent
<1>4. j \notin Life!Pending /\ j \notin ToSet(completed) /\ j \notin ToSet(failed)
  BY DEF Enqueue, Known, Pending, Active, Life!Pending, Life!Running
<1> QED
  BY <1>1, <1>2, <1>3, <1>4 DEF Enqueue, Life!Add, Spent

LEMMA TakeStarts ==
  ASSUME QueueInv, NEW p \in Process, Take(p)
  PROVE  \E j \in Job : Life!Start(p, j)
<1>h. wait \in Seq(Job) /\ wait # <<>> /\ wait' = Tail(wait) /\ Once(wait)
  BY DEF Take, QueueInv, Types, Lists
<1>j. PICK j \in Job : j = Head(wait)
  BY <1>h, HeadTailProperties
<1>1. /\ j \in ToSet(wait) /\ ToSet(wait)' = ToSet(wait) \ {j}
  BY <1>h, <1>j, TailJobs
<1>2. /\ owner' = [owner EXCEPT ![j] = p]
      /\ tries' = [tries EXCEPT ![j].starts = IF @ <= MaxStarts THEN @ + 1 ELSE @]
      /\ UNCHANGED <<delayed, orphaned, failed, completed, out>>
      /\ tries \in [Job -> Tries]
  BY <1>j DEF Take, QueueInv, Types
<1>3. j \notin delayed
  BY <1>1 DEF QueueInv, JobInv, Fits
<1>4. Spent' = Spent
  BY <1>2 DEF Spent, Tries
<1> QED
  BY <1>1, <1>2, <1>3, <1>4 DEF Life!Start, Spent

\* The end of an attempt spends it.
LEMMA EndsSpends ==
  ASSUME QueueInv, NEW j \in Job, NEW n \in 0..MaxStarts + 1, Ends(j, n)
  PROVE  Life!Spend(j, "attempts", Attempts) /\ Life!Stop(j)
<1> DEFINE t == tries[j]
<1>1. PICK r \in Tries :
        /\ r.attempts = (IF t.attempts < Attempts THEN t.attempts + 1 ELSE t.attempts)
        /\ r.stalls = t.stalls /\ tries' = [tries EXCEPT ![j] = r]
  BY EndsStep
<1>2. Spent' = [Spent EXCEPT ![j] = [attempts |-> r.attempts, stalls |-> r.stalls]]
  BY <1>1, SpentChanges DEF QueueInv, Types
<1>3. Spent[j] = [attempts |-> t.attempts, stalls |-> t.stalls]
  BY DEF Spent
<1>4. Life!Spend(j, "attempts", Attempts)
  BY <1>1, <1>2, <1>3 DEF Life!Spend, Spent
<1> QED
  BY <1>4 DEF Ends, Life!Stop

LEMMA CompleteSucceeds ==
  ASSUME QueueInv, NEW j \in Job, Complete(j)
  PROVE  Life!Succeed(j)
<1>1. Life!Settles(ToSet(completed), j, ToSet(completed)')
  BY KeptSettles, JobQueueAssumption DEF Complete, QueueInv, Types
<1>2. Life!Spend(j, "attempts", Attempts) /\ Life!Stop(j)
  BY OwnedJob, EndsSpends DEF Complete
<1> QED
  BY <1>1, <1>2 DEF Complete, Life!Succeed, Life!Running

LEMMA ThrowTries ==
  ASSUME QueueInv, NEW j \in Job, Throw(j)
  PROVE  Life!Try(j)
<1> DEFINE t == tries[j]
<1>1. owner[j] # None /\ UNCHANGED <<wait, orphaned, completed, out>> /\ t \in Tries
  BY DEF QueueInv, Types, Throw
<1>2. Spent[j].attempts = t.attempts
  BY DEF Spent
<1>3. CASE t.attempts + 1 < Attempts
  <2>1. Ends(j, tries[j].starts) /\ delayed' = delayed \cup {j} /\ UNCHANGED failed
    BY <1>1, <1>3, Counts, JobQueueAssumption DEF Throw
  <2>2. Life!Spend(j, "attempts", Attempts) /\ Life!Stop(j)
    BY <1>1, <2>1, OwnedJob, EndsSpends
  <2> QED
    BY <1>1, <1>2, <1>3, <2>1, <2>2 DEF Life!Try, Life!Running, Spent
<1>4. CASE ~ (t.attempts + 1 < Attempts)
  <2>1. Ends(j, 0) /\ failed' = Kept(failed, j, KeepFailed) /\ UNCHANGED delayed
    BY <1>4 DEF Throw
  <2>2. Life!Spend(j, "attempts", Attempts) /\ Life!Stop(j)
    BY <1>1, <2>1, OwnedJob, EndsSpends
  <2>3. Life!Settles(ToSet(failed), j, ToSet(failed)')
    BY <2>1, KeptSettles, JobQueueAssumption DEF QueueInv, Types
  <2> QED
    BY <1>1, <1>2, <1>4, <2>1, <2>2, <2>3 DEF Life!Try, Life!Running, Spent
<1> QED
  BY <1>3, <1>4

LEMMA StalledRecovers ==
  ASSUME QueueInv, NEW j \in Job, Stalled(j)
  PROVE  Life!Recover(j)
<1> DEFINE t == tries[j]
<1>1. /\ t \in Tries /\ j \in orphaned /\ orphaned' = orphaned \ {j}
      /\ UNCHANGED <<delayed, owner, completed, out>>
      /\ tries \in [Job -> Tries]
  BY DEF QueueInv, Types, Stalled
<1>2. Spent[j] = [attempts |-> t.attempts, stalls |-> t.stalls]
  BY DEF Spent
<1>3. CASE t.stalls < MaxStalled
  <2> DEFINE r == [t EXCEPT !.stalls = t.stalls + 1]
  <2>1. /\ tries' = [tries EXCEPT ![j] = r]
        /\ wait' = <<j>> \o wait /\ UNCHANGED failed
    BY <1>1, <1>3, Counts, JobQueueAssumption DEF Stalled
  <2>2. r \in Tries /\ r.attempts = t.attempts /\ r.stalls = t.stalls + 1
    BY <1>1, <1>3, JobQueueAssumption DEF Tries
  <2> HIDE DEF r
  <2>3. Spent' = [Spent EXCEPT ![j] = [attempts |-> r.attempts, stalls |-> r.stalls]]
    BY <1>1, <2>1, <2>2, SpentChanges
  <2>4. Life!Spend(j, "stalls", MaxStalled + 1)
    <3>1. t.stalls < MaxStalled + 1
      BY <1>1, <1>3, Counts, JobQueueAssumption
    <3> QED
      BY <1>2, <2>2, <2>3, <3>1 DEF Life!Spend, Spent
  <2>5. ToSet(wait)' = ToSet(wait) \cup {j}
    BY <2>1, PrependJob DEF QueueInv, Types
  <2> QED
    BY <1>1, <1>2, <1>3, <2>1, <2>4, <2>5 DEF Life!Recover, Spent
<1>4. CASE ~ (t.stalls < MaxStalled)
  <2> DEFINE r == [t EXCEPT !.stalls = MaxStalled + 1, !.starts = 0]
  <2>1. /\ tries' = [tries EXCEPT ![j] = r]
        /\ failed' = Kept(failed, j, KeepFailed) /\ UNCHANGED wait
    BY <1>1, <1>4 DEF Stalled
  <2>2. r \in Tries /\ r.attempts = t.attempts
        /\ r.stalls = IF t.stalls < MaxStalled + 1 THEN t.stalls + 1 ELSE t.stalls
    <3>1. 0 \in 0..MaxStarts + 1 /\ MaxStalled + 1 \in 0..MaxStalled + 1
      BY JobQueueAssumption DEF MaxStarts
    <3>2. MaxStalled + 1 = IF t.stalls < MaxStalled + 1 THEN t.stalls + 1 ELSE t.stalls
      BY <1>1, <1>4, Counts, JobQueueAssumption
    <3> QED
      BY <1>1, <3>1, <3>2 DEF Tries
  <2> HIDE DEF r
  <2>3. Spent' = [Spent EXCEPT ![j] = [attempts |-> r.attempts, stalls |-> r.stalls]]
    BY <1>1, <2>1, <2>2, SpentChanges
  <2>4. Life!Spend(j, "stalls", MaxStalled + 1)
    BY <1>2, <2>2, <2>3 DEF Life!Spend, Spent
  <2>5. Life!Settles(ToSet(failed), j, ToSet(failed)')
    BY <2>1, KeptSettles, JobQueueAssumption DEF QueueInv, Types
  <2> QED
    BY <1>1, <1>2, <1>4, <2>1, <2>4, <2>5 DEF Life!Recover, Spent
<1> QED
  BY <1>3, <1>4

\* A job whose delay is over was due, and is.
LEMMA PromoteIsSilent ==
  ASSUME QueueInv, NEW j \in Job, Promote(j)
  PROVE  UNCHANGED Life!lifeVars
<1>1. ToSet(wait)' = ToSet(wait) \cup {j}
  BY AppendJob DEF Promote, QueueInv, Types
<1> QED
  BY <1>1 DEF Promote, Life!lifeVars

LEMMA RetryRetries ==
  ASSUME QueueInv, NEW j \in Job, AdminRetry(j)
  PROVE  Life!Retry(j)
<1>1. wait \in Seq(Job) /\ failed \in Seq(Job) /\ completed \in Seq(Job) /\ Lists
  BY DEF QueueInv, Types
<1>2. /\ ToSet(wait)' = ToSet(wait) \cup {j} /\ ToSet(failed)' = ToSet(failed) \ {j}
      /\ ToSet(completed)' = ToSet(completed) \ {j}
  BY <1>1, AppendJob, WithoutJob DEF AdminRetry, Lists
<1> QED
  BY <1>2 DEF AdminRetry, Life!Retry

\* The counts of deleted jobs, as JobLife sees them.
LEMMA WithdrawnSpent ==
  ASSUME NEW S, Withdraw(S)
  PROVE  Spent' = [j \in Job |-> IF j \in S THEN Life!NothingSpent ELSE Spent[j]]
BY DEF Withdraw, Spent, NoTries, Life!NothingSpent

LEMMA RemoveWithdraws ==
  ASSUME QueueInv, NEW j \in Job, AdminRemove(j)
  PROVE  Life!Withdraw({j})
<1>1. wait \in Seq(Job) /\ failed \in Seq(Job) /\ completed \in Seq(Job) /\ Lists
  BY DEF QueueInv, Types
<1>2. /\ ToSet(wait)' = ToSet(wait) \ {j} /\ ToSet(failed)' = ToSet(failed) \ {j}
      /\ ToSet(completed)' = ToSet(completed) \ {j}
  BY <1>1, WithoutJob DEF AdminRemove, Lists
<1>3. Spent' = [i \in Job |-> IF i \in {j} THEN Life!NothingSpent ELSE Spent[i]]
  BY WithdrawnSpent DEF AdminRemove
<1>4. j \in Due \cup orphaned \cup ToSet(failed) \cup ToSet(completed)
  BY DEF AdminRemove, Known, Pending, Active, Due
<1> QED
  BY <1>2, <1>3, <1>4 DEF AdminRemove, Withdraw, Life!Withdraw, Spent, Due

LEMMA CleanWithdraws ==
  ASSUME QueueInv, AdminClean
  PROVE  \E all \in SUBSET Job : Life!Withdraw(all)
<1>1. PICK w \in 0..Len(wait), f \in 0..Len(failed), c \in 0..Len(completed),
           S \in SUBSET delayed : CleanUp(w, f, c, S)
  BY DEF AdminClean, CleanUp
<1> DEFINE ow == Older(wait, w)
           of == Older(failed, f)
           oc == Older(completed, c)
           T == ow \cup S \cup of \cup oc
<1>2. /\ Withdraw(T) /\ UNCHANGED <<owner, orphaned>> /\ delayed' = delayed \ S
  BY <1>1 DEF CleanUp
<1>3. /\ ToSet(wait)' = ToSet(wait) \ ow /\ ow \subseteq ToSet(wait)
      /\ ToSet(failed)' = ToSet(failed) \ of /\ of \subseteq ToSet(failed)
      /\ ToSet(completed)' = ToSet(completed) \ oc /\ oc \subseteq ToSet(completed)
  BY <1>1, CleanedLists
<1>4. Spent' = [j \in Job |-> IF j \in T THEN Life!NothingSpent ELSE Spent[j]]
  BY <1>2, WithdrawnSpent
<1>5. out' = out \cup T
  BY <1>2 DEF Withdraw
<1> HIDE DEF ow, of, oc
<1>6. T \in SUBSET Job
  BY <1>3, ListsApart DEF QueueInv, Types
<1>7. /\ (ToSet(wait) \cup delayed)' = (ToSet(wait) \cup delayed) \ T
      /\ orphaned' = orphaned \ T
      /\ ToSet(failed)' = ToSet(failed) \ T /\ ToSet(completed)' = ToSet(completed) \ T
      /\ T \subseteq ToSet(wait) \cup delayed \cup orphaned \cup ToSet(completed) \cup ToSet(failed)
  BY <1>2, <1>3, ListsApart
<1> HIDE DEF T
<1>8. PICK all \in SUBSET Job : all = T
  BY <1>6
<1>9. Life!Withdraw(all)
  BY <1>2, <1>4, <1>5, <1>7, <1>8 DEF Life!Withdraw, Spent
<1> QED
  BY <1>9

LEMMA AbandonLoses ==
  ASSUME NEW p \in Process, Abandon(p)
  PROVE  Life!Lose(p)
BY DEF Abandon, Running, Life!Lose

\* Step: every step of the monitor over the queue is one of the life of a job,
\* or none.
LEMMA LifeStep == MonitorInv /\ [Next]_vars => [Life!LifeNext]_(Life!lifeVars)
<1> SUFFICES ASSUME MonitorInv, [Next]_vars
             PROVE  Life!LifeNext \/ UNCHANGED Life!lifeVars
  OBVIOUS
<1> USE DEF MonitorInv
<1>1. CASE OnQueue(QueueNext)
  <2>1. QueueNext
    BY <1>1 DEF OnQueue
  <2>2. ASSUME NEW p \in Process, Take(p) PROVE Life!LifeNext
    BY <2>2, TakeStarts DEF Life!LifeNext
  <2>3. ASSUME NEW j \in Job,
               \/ Enqueue(j) \/ WorkerStep(j) \/ Promote(j) \/ Stalled(j)
               \/ AdminRetry(j) \/ AdminRemove(j)
        PROVE  Life!LifeNext \/ UNCHANGED Life!lifeVars
    BY <2>3, EnqueueAdds, CompleteSucceeds, ThrowTries, PromoteIsSilent,
       StalledRecovers, RetryRetries, RemoveWithdraws DEF WorkerStep, Life!LifeNext
  <2>4. CASE AdminClean
    BY <2>4, CleanWithdraws DEF Life!LifeNext
  <2>5. CASE AdminPause
    BY <2>5 DEF AdminPause, Life!lifeVars
  <2> QED
    BY <2>1, <2>2, <2>3, <2>4, <2>5 DEF QueueNext, Admin
<1>2. CASE \/ CheckStep \/ Disconnect \/ Reconnect \/ GiveUp \/ UNCHANGED vars
  <2>1. UNCHANGED queue
    BY <1>2 DEF CheckStep, StartCheck, CountFailed, CountWaiting, CountRejected,
       Answered, AlertFailedEnds, AlertWaitingEnds, GoOn, Disconnect, Reconnect,
       GiveUp, vars
  <2> QED
    BY <2>1 DEF queue, Life!lifeVars
<1>3. CASE HostDies \/ LocksExpire \/ \E p \in Process : OtherDies(p)
  BY <1>3, AbandonLoses, QueueMonitorAssumption
    DEF HostDies, LocksExpire, OtherDies, Life!LifeNext
<1> QED
  BY <1>1, <1>2, <1>3 DEF Next

\* The lists of BullMQ, the workers, the locks and the BullBoard together do to
\* a job what JobLife says, and nothing else (queue.service.ts,
\* default.worker.ts).
THEOREM QueueImplementsJobLife == Spec => ImplementsJobLife
<1>1. Init => Life!LifeInit
  <2> SUFFICES ASSUME Init PROVE Life!LifeInit
    OBVIOUS
  <2>1. ToSet(<<>>) = {}
    BY DEF ToSet
  <2> QED
    BY <2>1 DEF Init, QueueInit, NoTries, Life!LifeInit, Life!NothingSpent
<1> QED
  BY <1>1, LifeStep, QueueInvariant, PTL DEF Spec, ImplementsJobLife, Life!LifeSpec

\* The inductive invariant of JobLife, here about the queue.
LifeInv == Life!OneStateAtATime /\ owner \in [Job -> Process \cup {None}]

LEMMA LifeKeepsOneState ==
  LifeInv /\ [Life!LifeNext]_(Life!lifeVars) => LifeInv'
<1> SUFFICES ASSUME LifeInv, [Life!LifeNext]_(Life!lifeVars) PROVE LifeInv'
  OBVIOUS
<1> USE DEF LifeInv, Life!OneStateAtATime, Life!Pending, Life!Running
<1>1. ASSUME NEW j \in Job, Life!Add(j) PROVE LifeInv'
  BY <1>1 DEF Life!Add
<1>2. ASSUME NEW p \in Process, NEW j \in Job, Life!Start(p, j) PROVE LifeInv'
  BY <1>2 DEF Life!Start
<1>3. ASSUME NEW j \in Job, Life!Succeed(j) PROVE LifeInv'
  BY <1>3 DEF Life!Succeed, Life!Stop, Life!Settles
<1>4. ASSUME NEW j \in Job, Life!Try(j) PROVE LifeInv'
  BY <1>4 DEF Life!Try, Life!Stop, Life!Settles
<1>5. ASSUME NEW p \in Process, Life!Lose(p) PROVE LifeInv'
  <2> DEFINE his == {j \in Job : owner[j] = p}
  <2>1. /\ owner' = [j \in Job |-> IF owner[j] = p THEN None ELSE owner[j]]
        /\ orphaned' = orphaned \cup his
        /\ UNCHANGED <<ToSet(wait) \cup delayed, ToSet(completed), ToSet(failed), out>>
    BY <1>5 DEF Life!Lose
  <2>2. owner' \in [Job -> Process \cup {None}]
    BY <2>1
  <2>3. Life!Running' = Life!Running \ his /\ his \subseteq Life!Running
    BY <2>1, JobQueueAssumption
  <2> HIDE DEF his, Life!Running
  <2> QED
    BY <2>1, <2>2, <2>3
<1>6. ASSUME NEW j \in Job, Life!Recover(j) PROVE LifeInv'
  BY <1>6 DEF Life!Recover, Life!Settles
<1>7. ASSUME NEW j \in Job, Life!Retry(j) PROVE LifeInv'
  BY <1>7 DEF Life!Retry
<1>9. ASSUME NEW S \in SUBSET Job, Life!Withdraw(S) PROVE LifeInv'
  BY <1>9 DEF Life!Withdraw
<1>8. CASE UNCHANGED Life!lifeVars
  BY <1>8 DEF Life!lifeVars
<1> QED
  BY <1>1, <1>2, <1>3, <1>4, <1>5, <1>6, <1>7, <1>8, <1>9 DEF Life!LifeNext

\* A job that waits for another start is not running, and one that has settled
\* neither, so that for the queue no job runs twice at a time.
THEOREM JobsAreInOneState == Spec => []OneStateAtATime
<1>1. Life!LifeInit => LifeInv
  BY DEF Life!LifeInit, LifeInv, Life!OneStateAtATime, Life!Pending, Life!Running
<1>2. ImplementsJobLife => []LifeInv
  BY <1>1, LifeKeepsOneState, PTL DEF ImplementsJobLife, Life!LifeSpec
<1>3. LifeInv => OneStateAtATime
  BY DEF LifeInv, OneStateAtATime
<1> QED
  BY <1>2, <1>3, QueueImplementsJobLife, PTL
=============================================================================
