--------------------------- MODULE SecurityProofs ---------------------------
(***************************************************************************)
(* Theorems about SecurityMonitor, and AuthFailures over it, for every     *)
(* window, interval, alert latency, capacity and thresholds.               *)
(***************************************************************************)
EXTENDS BurstHistory, SequenceTheorems, FiniteSetTheorems, TLAPS

-----------------------------------------------------------------------------
(* Lists of timestamps, from the newest on *)

Newest(s, i) == s[Len(s) + 1 - i]
Suffix(s, k) == SubSeq(s, Len(s) - k + 1, Len(s))

LEMMA SameNewest ==
  ASSUME NEW S, NEW s \in Seq(S), NEW t \in Seq(S), Len(s) = Len(t),
         \A i \in 1..Len(s) : Newest(s, i) = Newest(t, i)
  PROVE  s = t
<1>1. Len(s) \in Nat
  BY LenProperties
<1>2. ASSUME NEW i \in 1..Len(s) PROVE s[i] = t[i]
  <2>1. Len(s) + 1 - i \in 1..Len(s) /\ Len(s) + 1 - (Len(s) + 1 - i) = i
    BY <1>1
  <2> QED
    BY <2>1 DEF Newest
<1> QED
  BY <1>2, SeqEqual

LEMMA SuffixProperties ==
  ASSUME NEW S, NEW s \in Seq(S), NEW k \in 0..Len(s)
  PROVE  /\ Suffix(s, k) \in Seq(S) /\ Len(Suffix(s, k)) = k
         /\ \A i \in 1..k : Newest(Suffix(s, k), i) = Newest(s, i)
<1> DEFINE n == Len(s)
           m == n - k + 1
           t == Suffix(s, k)
<1>1. n \in Nat /\ k \in Nat /\ m \in Int /\ m >= 1
  BY LenProperties
<1>2. \A i \in m..n : s[i] \in S
  BY <1>1, ElementOfSeq
<1>3. t = SubSeq(s, m, n)
  BY DEF Suffix
<1>4. /\ t \in Seq(S) /\ Len(t) = (IF m <= n THEN n - m + 1 ELSE 0)
      /\ \A i \in 1..n - m + 1 : t[i] = s[m + i - 1]
  <2> HIDE DEF m, n, t
  <2> QED
    BY <1>1, <1>2, <1>3, SubSeqProperties
<1>5. Len(t) = k
  BY <1>1, <1>4
<1>6. ASSUME NEW i \in 1..k PROVE Newest(t, i) = Newest(s, i)
  <2>1. k + 1 - i \in 1..n - m + 1 /\ m + (k + 1 - i) - 1 = n + 1 - i
    BY <1>1
  <2> QED
    BY <1>4, <1>5, <2>1 DEF Newest
<1> QED
  BY <1>4, <1>5, <1>6

LEMMA WholeSuffix ==
  ASSUME NEW S, NEW s \in Seq(S)
  PROVE  Suffix(s, Len(s)) = s
BY SuffixProperties, SameNewest, LenProperties

\* LastOf() is a suffix.
LEMMA LastOfIsSuffix ==
  ASSUME NEW S, NEW s \in Seq(S), NEW n \in Nat
  PROVE  LastOf(s, n) = Suffix(s, IF Len(s) <= n THEN Len(s) ELSE n)
BY WholeSuffix DEF LastOf, Suffix

LEMMA AppendNewest ==
  ASSUME NEW S, NEW s \in Seq(S), NEW e \in S
  PROVE  LET t == Append(s, e) IN
         /\ t \in Seq(S) /\ Len(t) = Len(s) + 1 /\ Newest(t, 1) = e
         /\ \A i \in 1..Len(s) : Newest(t, i + 1) = Newest(s, i)
<1> DEFINE t == Append(s, e)
<1>1. /\ t \in Seq(S) /\ Len(t) = Len(s) + 1 /\ Len(s) \in Nat
      /\ \A i \in 1..Len(s) : t[i] = s[i]
      /\ t[Len(s) + 1] = e
  BY AppendProperties, LenProperties
<1> HIDE DEF t
<1>2. Newest(t, 1) = e
  BY <1>1 DEF Newest
<1>3. ASSUME NEW i \in 1..Len(s) PROVE Newest(t, i + 1) = Newest(s, i)
  <2>1. Len(t) + 1 - (i + 1) = Len(s) + 1 - i /\ Len(s) + 1 - i \in 1..Len(s)
    BY <1>1
  <2> QED
    BY <1>1, <2>1 DEF Newest
<1> QED
  BY <1>1, <1>2, <1>3 DEF t

\* The k newest are those that are not older than t.
Cut(s, t, k) ==
  /\ k \in 0..Len(s)
  /\ \A i \in 1..Len(s) : Newest(s, i) <= t <=> i <= k

\* A list in the order of its timestamps, with the newest last.
Graded(s) == \A t \in Nat : \E k \in 0..Len(s) : Cut(s, t, k)

LEMMA CutPositions ==
  ASSUME NEW s \in Seq(Nat), NEW t \in Nat, NEW k, Cut(s, t, k)
  PROVE  {i \in 1..Len(s) : s[i] <= t} = (Len(s) - k + 1)..Len(s)
<1>1. Len(s) \in Nat /\ k \in 0..Len(s)
  BY LenProperties DEF Cut
<1>2. ASSUME NEW i \in 1..Len(s)
      PROVE  s[i] <= t <=> i >= Len(s) - k + 1
  <2> DEFINE j == Len(s) + 1 - i
  <2>1. j \in 1..Len(s) /\ Len(s) + 1 - j = i
    BY <1>1
  <2>2. s[i] <= t <=> j <= k
    BY <2>1 DEF Cut, Newest
  <2> QED
    BY <1>1, <2>2
<1> QED
  BY <1>1, <1>2

LEMMA CutCardinality ==
  ASSUME NEW s \in Seq(Nat), NEW t \in Nat, NEW k, Cut(s, t, k)
  PROVE  Within(s, t) = Suffix(s, k)
<1>1. Len(s) \in Nat /\ k \in 0..Len(s)
  BY LenProperties DEF Cut
<1>2. Cardinality((Len(s) - k + 1)..Len(s)) = k
  BY <1>1, FS_Interval
<1>3. Cardinality({i \in 1..Len(s) : s[i] <= t}) = k
  BY <1>2, CutPositions
<1> QED
  BY <1>1, <1>3, LastOfIsSuffix DEF Within

\* Prune() cuts at the window.
LEMMA PruneIsSuffix ==
  ASSUME NEW s \in Seq(Nat), NEW k, Cut(s, Window, k)
  PROVE  Prune(s) = Suffix(s, k)
<1> DEFINE kept == {i \in 1..Len(s) : s[i] <= Window}
           m == Len(s) - k + 1
<1>1. Len(s) \in Nat /\ k \in 0..Len(s) /\ Window \in Nat
  BY LenProperties, SecurityMonitorAssumption DEF Cut
<1>2. kept = m..Len(s)
  BY <1>1, CutPositions
<1>3. CASE k = 0
  <2>1. kept = {} /\ Prune(s) = <<>>
    BY <1>1, <1>2, <1>3 DEF Prune
  <2>2. Suffix(s, 0) = <<>>
    BY <1>1, SubSeqEmpty DEF Suffix
  <2> QED
    BY <1>3, <2>1, <2>2
<1>4. CASE k # 0
  <2>0. m \in 1..Len(s)
    BY <1>1, <1>4
  <2> HIDE DEF kept, m
  <2>1. m \in kept /\ \A j \in kept : m <= j
    BY <1>1, <1>2, <2>0
  <2>2. \A i \in kept : (\A j \in kept : i <= j) => i = m
    BY <1>1, <1>2, <2>0, <2>1
  <2> DEFINE first == CHOOSE i \in kept : \A j \in kept : i <= j
  <2>3. first = m
    BY <2>1, <2>2
  <2>4. kept # {}
    BY <2>1
  <2>5. Prune(s) = SubSeq(s, first, Len(s))
    BY <2>4 DEF Prune, kept
  <2> QED
    BY <2>3, <2>5 DEF Suffix, m
<1> QED
  BY <1>3, <1>4

-----------------------------------------------------------------------------
(* A list and the history of its events *)

InWindow(s, i) == i <= Len(s) /\ Newest(s, i) <= Window

\* As far as the list reaches, it and the history agree on the window.
Agree(l, h) ==
  \A i \in 1..MaxTimestamps :
    /\ InWindow(l, i) <=> InWindow(h, i)
    /\ InWindow(l, i) => Newest(l, i) = Newest(h, i)

KindInv(l, h) ==
  /\ l \in Seq(Age) /\ Len(l) <= MaxTimestamps
  /\ h \in Seq(0..Horizon)
  /\ Graded(l) /\ Graded(h)
  /\ Agree(l, h)

LEMMA Constants ==
  /\ Window \in Nat /\ Horizon \in Nat /\ Window <= Horizon
  /\ Interval \in Nat \ {0} /\ AlertLatency \in Nat
  /\ MaxTimestamps \in Nat \ {0}
  /\ Age \subseteq Nat /\ 0 \in Age /\ 0 \in 0..Horizon /\ 0..Horizon \subseteq Nat
BY SecurityMonitorAssumption DEF Horizon, Age

LEMMA Numbers ==
  /\ \A s \in Seq(Age) : s \in Seq(Nat)
  /\ \A s \in Seq(0..Horizon) : s \in Seq(Nat)
BY Constants, SeqMonotonic

LEMMA NewestType ==
  ASSUME NEW S, NEW s \in Seq(S), NEW i \in 1..Len(s)
  PROVE  Newest(s, i) \in S
<1>1. Len(s) + 1 - i \in 1..Len(s)
  BY LenProperties
<1> QED
  BY <1>1, ElementOfSeq DEF Newest

\* A suffix of a list in order is in order, and agrees where it did.
LEMMA SuffixGraded ==
  ASSUME NEW s \in Seq(Nat), Graded(s), NEW n \in 0..Len(s)
  PROVE  Graded(Suffix(s, n))
<1> DEFINE u == Suffix(s, n)
<1>1. Len(s) \in Nat /\ n \in Nat /\ n <= Len(s)
  BY LenProperties
<1>2. Len(u) = n /\ \A i \in 1..n : Newest(u, i) = Newest(s, i)
  BY SuffixProperties
<1> HIDE DEF u
<1>3. ASSUME NEW t \in Nat PROVE \E k \in 0..Len(u) : Cut(u, t, k)
  <2>1. PICK k \in 0..Len(s) : Cut(s, t, k)
    BY DEF Graded
  <2> DEFINE m == IF k <= n THEN k ELSE n
  <2>2. m \in 0..Len(u)
    BY <1>1, <1>2
  <2>3. Cut(u, t, m)
    BY <1>1, <1>2, <2>1, <2>2 DEF Cut
  <2> QED
    BY <2>2, <2>3
<1> QED
  BY <1>3 DEF Graded, u

LEMMA AppendGraded ==
  ASSUME NEW s \in Seq(Nat), Graded(s)
  PROVE  Graded(Append(s, 0))
<1> DEFINE u == Append(s, 0)
<1>1. /\ Len(s) \in Nat /\ Len(u) = Len(s) + 1 /\ Newest(u, 1) = 0
      /\ \A i \in 1..Len(s) : Newest(u, i + 1) = Newest(s, i)
  BY LenProperties, AppendNewest
<1> HIDE DEF u
<1>2. ASSUME NEW t \in Nat PROVE \E k \in 0..Len(u) : Cut(u, t, k)
  <2>1. PICK k \in 0..Len(s) : Cut(s, t, k)
    BY DEF Graded
  <2>2. k + 1 \in 0..Len(u)
    BY <1>1
  <2>3. ASSUME NEW i \in 1..Len(u)
        PROVE  Newest(u, i) <= t <=> i <= k + 1
    <3>1. CASE i = 1
      BY <1>1, <3>1
    <3>2. CASE i # 1
      <4>1. i - 1 \in 1..Len(s) /\ Newest(u, i - 1 + 1) = Newest(s, i - 1)
        BY <1>1, <3>2
      <4>2. Newest(u, i) = Newest(s, i - 1)
        BY <1>1, <4>1
      <4>3. Newest(s, i - 1) <= t <=> i - 1 <= k
        BY <2>1, <4>1 DEF Cut
      <4> QED
        BY <1>1, <4>2, <4>3
    <3> QED
      BY <3>1, <3>2
  <2>4. Cut(u, t, k + 1)
    BY <2>2, <2>3 DEF Cut
  <2> QED
    BY <2>2, <2>4
<1> QED
  BY <1>2 DEF Graded, u

\* recordFailedLogin(), recordInvalidToken()
LEMMA PushKeeps ==
  ASSUME NEW l, NEW h, KindInv(l, h)
  PROVE  KindInv(Push(l), Append(h, 0))
<1> DEFINE a == Append(l, 0)
           n == IF Len(a) <= MaxTimestamps THEN Len(a) ELSE MaxTimestamps
           p == Push(l)
           g == Append(h, 0)
<1>0. /\ l \in Seq(Age) /\ h \in Seq(0..Horizon) /\ l \in Seq(Nat) /\ h \in Seq(Nat)
      /\ Len(l) \in Nat /\ Len(h) \in Nat /\ Len(l) <= MaxTimestamps
  BY LenProperties, Numbers DEF KindInv
<1>1. /\ a \in Seq(Age) /\ Len(a) = Len(l) + 1 /\ Newest(a, 1) = 0
      /\ \A i \in 1..Len(l) : Newest(a, i + 1) = Newest(l, i)
  BY <1>0, Constants, AppendNewest
<1>2. /\ g \in Seq(0..Horizon) /\ Len(g) = Len(h) + 1 /\ Newest(g, 1) = 0
      /\ \A i \in 1..Len(h) : Newest(g, i + 1) = Newest(h, i)
  BY <1>0, Constants, AppendNewest
<1>3. Graded(a) /\ Graded(g)
  BY <1>0, AppendGraded DEF KindInv
<1>4. n \in 0..Len(a) /\ p = Suffix(a, n)
  <2>1. p = LastOf(a, MaxTimestamps)
    BY DEF Push
  <2> HIDE DEF a, p
  <2>2. LastOf(a, MaxTimestamps) = Suffix(a, n)
    BY <1>1, Constants, LastOfIsSuffix
  <2>3. n \in 0..Len(a)
    BY <1>0, <1>1, Constants
  <2> QED
    BY <2>1, <2>2, <2>3
<1> HIDE DEF a, g, n, p
<1>5. /\ p \in Seq(Age) /\ Len(p) = n
      /\ \A i \in 1..n : Newest(p, i) = Newest(a, i)
  BY <1>1, <1>4, SuffixProperties
<1>6. Graded(p)
  BY <1>1, <1>3, <1>4, Numbers, SuffixGraded
<1>7. n = (IF Len(a) <= MaxTimestamps THEN Len(a) ELSE MaxTimestamps)
  BY DEF n
<1>8. ASSUME NEW i \in 1..MaxTimestamps
      PROVE  /\ InWindow(p, i) <=> InWindow(g, i)
             /\ InWindow(p, i) => Newest(p, i) = Newest(g, i)
  <2>1. CASE i = 1
    BY <1>0, <1>1, <1>2, <1>5, <1>7, <2>1, Constants DEF InWindow
  <2>2. CASE i # 1
    <3> DEFINE j == i - 1
    <3>1. j \in 1..MaxTimestamps /\ i = j + 1 /\ i \in Nat /\ MaxTimestamps \in Nat
      BY <2>2, Constants
    <3>2. /\ InWindow(l, j) <=> InWindow(h, j)
          /\ InWindow(l, j) => Newest(l, j) = Newest(h, j)
      BY <3>1 DEF KindInv, Agree
    <3> HIDE DEF j
    <3>3. /\ i <= Len(p) <=> j <= Len(l)
          /\ i <= Len(p) => Newest(p, i) = Newest(l, j)
      BY <1>0, <1>1, <1>5, <1>7, <3>1
    <3>4. /\ i <= Len(g) <=> j <= Len(h)
          /\ i <= Len(g) => Newest(g, i) = Newest(h, j)
      BY <1>0, <1>2, <3>1
    <3> QED
      BY <3>2, <3>3, <3>4 DEF InWindow
  <2> QED
    BY <2>1, <2>2
<1>9. Agree(p, g)
  BY <1>8 DEF Agree
<1>10. Len(p) <= MaxTimestamps
  BY <1>0, <1>1, <1>5, <1>7, Constants
<1>11. KindInv(p, g)
  BY <1>2, <1>3, <1>5, <1>6, <1>9, <1>10 DEF KindInv
<1> QED
  BY <1>11 DEF p, g

\* pruneTimestamps(), and the count that follows it
LEMMA PruneKeeps ==
  ASSUME NEW l, NEW h, KindInv(l, h)
  PROVE  /\ KindInv(Prune(l), h)
         /\ Len(Prune(l)) \in 0..Len(h)
         /\ Len(Prune(l)) > 0 => Newest(h, Len(Prune(l))) <= Window
         /\ \A i \in 1..MaxTimestamps : InWindow(h, i) <=> i <= Len(Prune(l))
<1>0. /\ l \in Seq(Age) /\ h \in Seq(0..Horizon) /\ l \in Seq(Nat)
      /\ Len(l) \in Nat /\ Len(h) \in Nat /\ Len(l) <= MaxTimestamps
      /\ MaxTimestamps \in Nat /\ Window \in Nat
  BY LenProperties, Numbers, Constants DEF KindInv
<1>1. PICK k \in 0..Len(l) : Cut(l, Window, k)
  BY <1>0 DEF KindInv, Graded
<1> DEFINE p == Prune(l)
<1>2. p = Suffix(l, k)
  BY <1>0, <1>1, PruneIsSuffix
<1> HIDE DEF p
<1>3. /\ p \in Seq(Age) /\ Len(p) = k
      /\ \A i \in 1..k : Newest(p, i) = Newest(l, i)
  BY <1>0, <1>1, <1>2, SuffixProperties
<1>4. Graded(p)
  BY <1>0, <1>1, <1>2, SuffixGraded DEF KindInv
<1>5. \A i \in 1..MaxTimestamps :
        (InWindow(l, i) <=> i <= k) /\ (InWindow(p, i) <=> i <= k)
  BY <1>0, <1>1, <1>3 DEF InWindow, Cut
<1>6. Agree(p, h)
  BY <1>0, <1>3, <1>5 DEF KindInv, Agree
<1>7. k \in 1..MaxTimestamps => InWindow(h, k)
  BY <1>5 DEF KindInv, Agree
<1>8. k \in 0..Len(h) /\ (k > 0 => Newest(h, k) <= Window)
  BY <1>0, <1>1, <1>7 DEF InWindow
<1>9. \A i \in 1..MaxTimestamps : InWindow(h, i) <=> i <= k
  BY <1>5 DEF KindInv, Agree
<1>10. KindInv(p, h)
  BY <1>0, <1>1, <1>3, <1>4, <1>6 DEF KindInv
<1> QED
  BY <1>3, <1>8, <1>9, <1>10 DEF p

LEMMA IsSequence ==
  ASSUME NEW S, NEW n \in Nat, NEW f \in [1..n -> S]
  PROVE  f \in Seq(S) /\ Len(f) = n
<1>1. f \in Seq(S)
  BY SeqDef
<1>2. Len(f) \in Nat /\ 1..Len(f) = 1..n
  BY <1>1, LenProperties
<1>3. Len(f) = n
  <2>1. \A i \in Nat : i \in 1..Len(f) <=> i \in 1..n
    BY <1>2
  <2> QED
    BY <1>2, <2>1
<1> QED
  BY <1>1, <1>3

LEMMA AgedProperties ==
  ASSUME NEW s \in Seq(Age)
  PROVE  LET a == Aged(s) IN
         /\ a \in Seq(Age) /\ Len(a) = Len(s)
         /\ \A i \in 1..Len(s) : Newest(a, i) =
              IF Newest(s, i) <= Window THEN Newest(s, i) + 1 ELSE Newest(s, i)
<1> DEFINE a == Aged(s)
<1>1. Len(s) \in Nat /\ \A i \in 1..Len(s) : s[i] \in Age
  BY LenProperties, ElementOfSeq
<1>2. a = [i \in 1..Len(s) |-> IF s[i] <= Window THEN s[i] + 1 ELSE s[i]]
  BY DEF Aged
<1>3. a \in [1..Len(s) -> Age]
  BY <1>1, <1>2, Constants DEF Age
<1> HIDE DEF a
<1>4. a \in Seq(Age) /\ Len(a) = Len(s)
  BY <1>1, <1>3, IsSequence
<1>5. ASSUME NEW i \in 1..Len(s)
      PROVE  Newest(a, i) =
               IF Newest(s, i) <= Window THEN Newest(s, i) + 1 ELSE Newest(s, i)
  <2>1. Len(s) + 1 - i \in 1..Len(s)
    BY <1>1
  <2> QED
    BY <1>2, <1>4, <2>1 DEF Newest
<1> QED
  BY <1>4, <1>5 DEF a

LEMMA OlderProperties ==
  ASSUME NEW s \in Seq(0..Horizon)
  PROVE  LET a == Older(s) IN
         /\ a \in Seq(Nat) /\ Len(a) = Len(s)
         /\ \A i \in 1..Len(s) : Newest(a, i) = Newest(s, i) + 1
<1> DEFINE a == Older(s)
<1>1. Len(s) \in Nat /\ \A i \in 1..Len(s) : s[i] \in 0..Horizon
  BY LenProperties, ElementOfSeq
<1>2. a = [i \in 1..Len(s) |-> s[i] + 1]
  BY DEF Older
<1>3. a \in [1..Len(s) -> Nat]
  BY <1>1, <1>2, Constants
<1> HIDE DEF a
<1>4. a \in Seq(Nat) /\ Len(a) = Len(s)
  BY <1>1, <1>3, IsSequence
<1>5. ASSUME NEW i \in 1..Len(s) PROVE Newest(a, i) = Newest(s, i) + 1
  <2>1. Len(s) + 1 - i \in 1..Len(s)
    BY <1>1
  <2> QED
    BY <1>2, <1>4, <2>1 DEF Newest
<1> QED
  BY <1>4, <1>5 DEF a

LEMMA AgedGraded ==
  ASSUME NEW s \in Seq(Age), Graded(s)
  PROVE  Graded(Aged(s))
<1> DEFINE a == Aged(s)
<1>1. /\ Len(s) \in Nat /\ Len(a) = Len(s) /\ Window \in Nat
      /\ \A i \in 1..Len(s) :
           /\ Newest(s, i) \in 0..Window + 1
           /\ Newest(a, i) =
                IF Newest(s, i) <= Window THEN Newest(s, i) + 1 ELSE Newest(s, i)
  BY AgedProperties, LenProperties, NewestType, Constants DEF Age
<1> HIDE DEF a
<1>2. ASSUME NEW t \in Nat PROVE \E k \in 0..Len(a) : Cut(a, t, k)
  <2>1. CASE t = 0
    <3>1. Cut(a, t, 0)
      BY <1>1, <2>1 DEF Cut
    <3> QED
      BY <1>1, <3>1
  <2>2. CASE t \in 1..Window
    <3>0. t - 1 \in Nat
      BY <1>1, <2>2
    <3>1. PICK k \in 0..Len(s) : Cut(s, t - 1, k)
      BY <3>0 DEF Graded
    <3>2. Cut(a, t, k)
      BY <1>1, <2>2, <3>1 DEF Cut
    <3> QED
      BY <1>1, <3>1, <3>2
  <2>3. CASE t > Window
    <3>1. Cut(a, t, Len(s))
      BY <1>1, <2>3 DEF Cut
    <3> QED
      BY <1>1, <3>1
  <2> QED
    BY <1>1, <2>1, <2>2, <2>3
<1> QED
  BY <1>2 DEF Graded, a

LEMMA OlderGraded ==
  ASSUME NEW s \in Seq(0..Horizon), Graded(s)
  PROVE  Graded(Older(s))
<1> DEFINE a == Older(s)
<1>1. /\ Len(s) \in Nat /\ Len(a) = Len(s)
      /\ \A i \in 1..Len(s) :
           Newest(s, i) \in Nat /\ Newest(a, i) = Newest(s, i) + 1
  BY OlderProperties, LenProperties, NewestType, Constants
<1> HIDE DEF a
<1>2. ASSUME NEW t \in Nat PROVE \E k \in 0..Len(a) : Cut(a, t, k)
  <2>1. CASE t = 0
    <3>1. Cut(a, t, 0)
      BY <1>1, <2>1 DEF Cut
    <3> QED
      BY <1>1, <3>1
  <2>2. CASE t # 0
    <3>0. t - 1 \in Nat
      BY <2>2
    <3>1. PICK k \in 0..Len(s) : Cut(s, t - 1, k)
      BY <3>0 DEF Graded
    <3>2. Cut(a, t, k)
      BY <1>1, <2>2, <3>1 DEF Cut
    <3> QED
      BY <1>1, <3>1, <3>2
  <2> QED
    BY <2>1, <2>2
<1> QED
  BY <1>2 DEF Graded, a

\* Time passes; events beyond the horizon leave the history.
LEMMA TickKeeps ==
  ASSUME NEW l, NEW h, KindInv(l, h)
  PROVE  LET w == Within(Older(h), Horizon) IN
         /\ KindInv(Aged(l), w)
         /\ \A i \in 1..Len(h) : Newest(h, i) < Horizon =>
              i <= Len(w) /\ Newest(w, i) = Newest(h, i) + 1
<1> DEFINE a == Aged(l)
           o == Older(h)
           w == Within(o, Horizon)
<1>0. /\ l \in Seq(Age) /\ h \in Seq(0..Horizon) /\ Graded(l) /\ Graded(h)
      /\ Len(l) \in Nat /\ Len(h) \in Nat /\ Len(l) <= MaxTimestamps
      /\ Window \in Nat /\ Horizon \in Nat /\ Window <= Horizon
      /\ \A i \in 1..Len(l) : Newest(l, i) \in Nat
      /\ \A i \in 1..Len(h) : Newest(h, i) \in Nat
  BY LenProperties, Constants, NewestType DEF KindInv
<1>1. /\ a \in Seq(Age) /\ Len(a) = Len(l)
      /\ \A i \in 1..Len(l) : Newest(a, i) =
           IF Newest(l, i) <= Window THEN Newest(l, i) + 1 ELSE Newest(l, i)
  BY <1>0, AgedProperties
<1>2. /\ o \in Seq(Nat) /\ Len(o) = Len(h)
      /\ \A i \in 1..Len(h) : Newest(o, i) = Newest(h, i) + 1
  BY <1>0, OlderProperties
<1>3. Graded(a) /\ Graded(o)
  BY <1>0, AgedGraded, OlderGraded
<1> HIDE DEF a, o
<1>4. PICK k \in 0..Len(o) : Cut(o, Horizon, k)
  BY <1>0, <1>3 DEF Graded
<1>5. w = Suffix(o, k)
  BY <1>0, <1>2, <1>4, CutCardinality
<1> HIDE DEF w
<1>6. /\ w \in Seq(Nat) /\ Len(w) = k
      /\ \A i \in 1..k : Newest(w, i) = Newest(o, i)
  BY <1>2, <1>4, <1>5, SuffixProperties
<1>7. Graded(w)
  BY <1>2, <1>3, <1>4, <1>5, SuffixGraded
<1>8. ASSUME NEW i \in 1..k PROVE w[i] \in 0..Horizon
  <2> DEFINE j == k + 1 - i
  <2>1. j \in 1..k /\ k + 1 - j = i
    BY <1>0, <1>2, <1>4
  <2>2. w[i] = Newest(o, j)
    BY <1>6, <2>1 DEF Newest
  <2>3. j \in 1..Len(o) /\ Newest(o, j) <= Horizon
    BY <1>0, <1>2, <1>4, <2>1 DEF Cut
  <2>4. Newest(o, j) \in Nat
    BY <1>2, <2>3, NewestType
  <2> QED
    BY <1>0, <2>2, <2>3, <2>4
<1>9. w \in Seq(0..Horizon)
  <2>1. w \in [1..k -> 0..Horizon]
    BY <1>6, <1>8, LenProperties
  <2> QED
    BY <1>4, <1>0, <1>2, <2>1, IsSequence
<1>10. ASSUME NEW i \in 1..MaxTimestamps
       PROVE  /\ InWindow(a, i) <=> InWindow(w, i)
              /\ InWindow(a, i) => Newest(a, i) = Newest(w, i)
  <2>1. /\ InWindow(l, i) <=> InWindow(h, i)
        /\ InWindow(l, i) => Newest(l, i) = Newest(h, i)
    BY DEF KindInv, Agree
  <2>2. InWindow(a, i) <=> InWindow(l, i) /\ Newest(l, i) + 1 <= Window
    BY <1>0, <1>1, Constants DEF InWindow
  <2>3. InWindow(w, i) <=> InWindow(h, i) /\ Newest(h, i) + 1 <= Window
    <3>1. i \in Nat /\ i >= 1 /\ k \in Nat /\ k <= Len(h)
      BY <1>0, <1>2, <1>4, Constants
    <3>2. i <= k => Newest(w, i) = Newest(h, i) + 1
      BY <1>2, <1>6, <3>1
    <3>3. i <= Len(h) /\ Newest(h, i) + 1 <= Horizon => i <= k
      BY <1>0, <1>2, <1>4, <3>1 DEF Cut
    <3>4. InWindow(w, i) => InWindow(h, i) /\ Newest(h, i) + 1 <= Window
      BY <1>0, <1>6, <3>1, <3>2 DEF InWindow
    <3>5. InWindow(h, i) /\ Newest(h, i) + 1 <= Window => i <= k
      BY <1>0, <3>1, <3>3 DEF InWindow
    <3>6. i <= k /\ Newest(h, i) + 1 <= Window => InWindow(w, i)
      BY <1>6, <3>2 DEF InWindow
    <3> QED
      BY <3>4, <3>5, <3>6
  <2>4. InWindow(a, i) => Newest(a, i) = Newest(l, i) + 1
    BY <1>0, <1>1, Constants DEF InWindow
  <2>5. InWindow(w, i) => Newest(w, i) = Newest(h, i) + 1
    BY <1>0, <1>2, <1>4, <1>6, Constants DEF InWindow
  <2> QED
    BY <2>1, <2>2, <2>3, <2>4, <2>5
<1>11. Agree(a, w)
  BY <1>10 DEF Agree
<1>12. KindInv(a, w)
  BY <1>0, <1>1, <1>3, <1>7, <1>9, <1>11 DEF KindInv
<1>13. \A i \in 1..Len(h) : Newest(h, i) < Horizon =>
         i <= Len(w) /\ Newest(w, i) = Newest(h, i) + 1
  BY <1>0, <1>2, <1>4, <1>6 DEF Cut
<1> QED
  BY <1>12, <1>13 DEF a, o, w

\* What WindowIsExact says of one kind.
LEMMA ExactWindow ==
  ASSUME NEW l, NEW h, KindInv(l, h)
  PROVE  Prune(l) = LastOf(Within(h, Window), MaxTimestamps)
<1>0. /\ l \in Seq(Nat) /\ h \in Seq(Nat) /\ Graded(l) /\ Graded(h)
      /\ Len(l) \in Nat /\ Len(h) \in Nat /\ Len(l) <= MaxTimestamps
      /\ Window \in Nat /\ MaxTimestamps \in Nat
  BY LenProperties, Numbers, Constants DEF KindInv
<1>1. PICK k \in 0..Len(l) : Cut(l, Window, k)
  BY <1>0 DEF Graded
<1>2. PICK m \in 0..Len(h) : Cut(h, Window, m)
  BY <1>0 DEF Graded
<1> DEFINE p == Prune(l)
           w == Within(h, Window)
           n == IF m <= MaxTimestamps THEN m ELSE MaxTimestamps
           q == LastOf(w, MaxTimestamps)
<1>3. p = Suffix(l, k) /\ w = Suffix(h, m)
  BY <1>0, <1>1, <1>2, PruneIsSuffix, CutCardinality
<1>4. /\ p \in Seq(Nat) /\ Len(p) = k
      /\ \A i \in 1..k : Newest(p, i) = Newest(l, i)
  BY <1>0, <1>1, <1>3, SuffixProperties
<1>5. /\ w \in Seq(Nat) /\ Len(w) = m
      /\ \A i \in 1..m : Newest(w, i) = Newest(h, i)
  BY <1>0, <1>2, <1>3, SuffixProperties
<1> HIDE DEF p, w
<1>6. q = Suffix(w, n) /\ n \in 0..Len(w)
  BY <1>0, <1>2, <1>5, LastOfIsSuffix
<1> HIDE DEF q
<1>7. /\ q \in Seq(Nat) /\ Len(q) = n
      /\ \A i \in 1..n : Newest(q, i) = Newest(w, i)
  BY <1>5, <1>6, SuffixProperties
<1>8. n = (IF m <= MaxTimestamps THEN m ELSE MaxTimestamps)
  OBVIOUS
<1> HIDE DEF n
<1>9. \A i \in 1..MaxTimestamps :
        /\ InWindow(l, i) <=> i <= k
        /\ InWindow(h, i) <=> i <= m
  BY <1>0, <1>1, <1>2 DEF InWindow, Cut
<1>10. \A i \in 1..MaxTimestamps : i <= k <=> i <= m
  BY <1>9 DEF KindInv, Agree
<1>11. k = n
  <2>1. k < n => k + 1 \in 1..MaxTimestamps /\ k + 1 <= m
    BY <1>0, <1>1, <1>2, <1>8
  <2>2. n < k => n + 1 \in 1..MaxTimestamps /\ n + 1 <= k /\ n = m
    BY <1>0, <1>1, <1>2, <1>8
  <2>3. n \in Nat /\ k \in Nat
    BY <1>0, <1>1, <1>2, <1>8
  <2>4. ~ k < n
    BY <1>10, <2>1, <2>3
  <2>5. ~ n < k
    BY <1>10, <2>2, <2>3
  <2> QED
    BY <2>3, <2>4, <2>5
<1>12. ASSUME NEW i \in 1..k PROVE Newest(p, i) = Newest(q, i)
  <2>1. i \in 1..MaxTimestamps /\ i \in 1..m
    BY <1>0, <1>1, <1>2, <1>8, <1>11
  <2>2. Newest(l, i) = Newest(h, i)
    BY <1>9, <2>1 DEF KindInv, Agree
  <2> QED
    BY <1>4, <1>5, <1>7, <1>11, <2>1, <2>2
<1>13. p = q
  BY <1>4, <1>7, <1>11, <1>12, SameNewest
<1> QED
  BY <1>13 DEF p, q, w

-----------------------------------------------------------------------------
(* The monitor *)

\* The c newest events of h are not older than t.
Recent(h, c, t) == c \in 0..Len(h) /\ \A i \in 1..c : Newest(h, i) <= t

\* What a check has counted did happen, and not long before it began.
CheckInv ==
  /\ check.pc # "none" =>
       \A kind \in Kind :
         Recent(happened[kind], check.count[kind], Window + Elapsed)
  /\ check.pc = "deciding" => check.lat = 0
  /\ check.pc = "alerting" => check.next \in 1..2 /\ Exceeds(Kinds[check.next])

\* The inductive invariant.
SecurityInv ==
  /\ list \in [Kind -> Seq(Age)]
  /\ happened \in [Kind -> Seq(0..Horizon)]
  /\ \A kind \in Kind : KindInv(list[kind], happened[kind])
  /\ timer \in Off..Interval
  /\ check \in CheckState
  /\ destroyed \in BOOLEAN
  /\ CheckInv

LEMMA CheckFields ==
  ASSUME check \in CheckState
  PROVE  /\ check.pc \in {"none", "deciding", "alerting"} /\ check.next \in 1..3
         /\ check.lat \in 0..AlertLatency
         /\ check.count \in [Kind -> 0..MaxTimestamps]
         /\ check = [pc |-> check.pc, next |-> check.next, lat |-> check.lat,
                     count |-> check.count]
BY DEF CheckState

LEMMA ElapsedValue ==
  ASSUME check \in CheckState
  PROVE  /\ Elapsed \in Nat
         /\ check.next = 1 => Elapsed = check.lat
         /\ check.next = 2 => Elapsed = AlertLatency + check.lat
         /\ check.next = 3 => Elapsed = AlertLatency + AlertLatency + check.lat
<1>1. /\ check.next \in 1..3 /\ check.lat \in Nat /\ AlertLatency \in Nat
  BY CheckFields, Constants
<1>2. CASE check.next = 1
  BY <1>1, <1>2 DEF Elapsed
<1>3. CASE check.next = 2
  BY <1>1, <1>3 DEF Elapsed
<1>4. CASE check.next = 3
  BY <1>1, <1>4 DEF Elapsed
<1> QED
  BY <1>1, <1>2, <1>3, <1>4

LEMMA InitSecurityInv == Init => SecurityInv
<1> SUFFICES ASSUME Init PROVE SecurityInv
  OBVIOUS
<1>1. ASSUME NEW S PROVE <<>> \in Seq(S) /\ Len(<<>>) = 0
  BY EmptySeq
<1>2. Graded(<<>>)
  BY <1>1 DEF Graded, Cut
<1>3. KindInv(<<>>, <<>>)
  BY <1>1, <1>2, Constants DEF KindInv, Agree, InWindow
<1>4. check \in CheckState /\ check.pc = "none"
  BY Constants DEF Init, NoCheck, CheckState
<1>5. timer \in Off..Interval
  BY Constants DEF Init, Off
<1>6. CheckInv
  BY <1>4 DEF CheckInv
<1> QED
  BY <1>1, <1>3, <1>4, <1>5, <1>6 DEF Init, SecurityInv

\* What was recent is so with one event more, and one tick later.
LEMMA AppendRecent ==
  ASSUME NEW h \in Seq(0..Horizon), NEW c, NEW t \in Nat, Recent(h, c, t)
  PROVE  Recent(Append(h, 0), c, t)
<1> DEFINE g == Append(h, 0)
<1>1. c \in 0..Len(h) /\ Len(h) \in Nat
  BY LenProperties DEF Recent
<1>2. /\ Len(g) = Len(h) + 1 /\ Newest(g, 1) = 0
      /\ \A i \in 1..Len(h) : Newest(g, i + 1) = Newest(h, i)
  BY Constants, AppendNewest
<1> HIDE DEF g
<1>3. ASSUME NEW i \in 1..c PROVE Newest(g, i) <= t
  <2>1. CASE i = 1
    BY <1>2, <2>1
  <2>2. CASE i # 1
    <3>1. i - 1 \in 1..Len(h) /\ i - 1 \in 1..c /\ i - 1 + 1 = i
      BY <1>1, <2>2
    <3>2. Newest(g, i) = Newest(h, i - 1)
      BY <1>2, <3>1
    <3> QED
      BY <3>1, <3>2 DEF Recent
  <2> QED
    BY <2>1, <2>2
<1>4. c \in 0..Len(g)
  BY <1>1, <1>2
<1> QED
  BY <1>3, <1>4 DEF Recent, g

LEMMA TickedRecent ==
  ASSUME SecurityInv, Tick, NEW kind \in Kind, NEW c, NEW t \in Nat,
         t < Horizon, Recent(happened[kind], c, t)
  PROVE  Recent(happened'[kind], c, t + 1)
<1> DEFINE h == happened[kind]
           w == Within(Older(h), Horizon)
<1>1. happened'[kind] = w
  BY DEF Tick
<1>2. h \in Seq(0..Horizon) /\ Len(h) \in Nat /\ Horizon \in Nat
  BY Constants, LenProperties DEF SecurityInv
<1>3. /\ KindInv(Aged(list[kind]), w)
      /\ \A i \in 1..Len(h) : Newest(h, i) < Horizon =>
           i <= Len(w) /\ Newest(w, i) = Newest(h, i) + 1
  <2>1. KindInv(list[kind], h)
    BY DEF SecurityInv
  <2> HIDE DEF h
  <2> QED
    BY <2>1, TickKeeps
<1>4. Len(w) \in Nat
  BY <1>3, LenProperties DEF KindInv
<1>5. Recent(h, c, t)
  OBVIOUS
<1> HIDE DEF h, w
<1>6. ASSUME NEW i \in 1..c
      PROVE  i <= Len(w) /\ Newest(w, i) <= t + 1
  <2>1. i \in 1..Len(h) /\ Newest(h, i) <= t
    BY <1>2, <1>5 DEF Recent
  <2>2. Newest(h, i) \in 0..Horizon
    BY <1>2, <2>1, NewestType
  <2> QED
    BY <1>2, <1>3, <2>1, <2>2
<1>7. c \in Nat /\ c <= Len(w)
  <2>1. c \in Nat
    BY <1>2, <1>5 DEF Recent
  <2> QED
    BY <1>4, <1>6, <2>1
<1> QED
  BY <1>1, <1>4, <1>6, <1>7 DEF Recent

LEMMA RecordKeeps ==
  ASSUME SecurityInv, NEW kind \in Kind, Record(kind)
  PROVE  SecurityInv'
<1>1. /\ list' = [list EXCEPT ![kind] = Push(@)]
      /\ happened' = [happened EXCEPT ![kind] = Append(@, 0)]
      /\ UNCHANGED <<timer, check, destroyed>>
  BY DEF Record
<1>2. KindInv(Push(list[kind]), Append(happened[kind], 0))
  BY PushKeeps DEF SecurityInv
<1>3. /\ list' \in [Kind -> Seq(Age)] /\ happened' \in [Kind -> Seq(0..Horizon)]
      /\ \A k \in Kind : KindInv(list'[k], happened'[k])
  <2>1. Push(list[kind]) \in Seq(Age) /\ Append(happened[kind], 0) \in Seq(0..Horizon)
    BY <1>2 DEF KindInv
  <2> QED
    BY <1>1, <1>2, <2>1 DEF SecurityInv
<1>4. ASSUME check.pc # "none", NEW k \in Kind
      PROVE  Recent(happened'[k], check.count[k], Window + Elapsed)
  <2>1. /\ happened[k] \in Seq(0..Horizon) /\ Window + Elapsed \in Nat
        /\ Recent(happened[k], check.count[k], Window + Elapsed)
    BY <1>4, ElapsedValue, Constants DEF SecurityInv, CheckInv
  <2>2. happened'[k] = IF k = kind THEN Append(happened[k], 0) ELSE happened[k]
    BY <1>1 DEF SecurityInv
  <2> QED
    BY <2>1, <2>2, AppendRecent
<1>5. CheckInv'
  BY <1>1, <1>4 DEF SecurityInv, CheckInv, Exceeds, Elapsed
<1> QED
  BY <1>1, <1>3, <1>5 DEF SecurityInv

LEMMA StartCheckKeeps ==
  ASSUME SecurityInv, StartCheck
  PROVE  SecurityInv'
<1> DEFINE p(kind) == Prune(list[kind])
<1>1. /\ timer' = Off /\ list' = [kind \in Kind |-> p(kind)]
      /\ check' = [pc |-> "deciding", next |-> 1, lat |-> 0,
                   count |-> [kind \in Kind |-> Len(p(kind))]]
      /\ UNCHANGED <<happened, destroyed>>
  BY DEF StartCheck, NoCheck
<1>2. ASSUME NEW kind \in Kind
      PROVE  /\ KindInv(p(kind), happened[kind])
             /\ Len(p(kind)) \in 0..Len(happened[kind])
             /\ \A i \in 1..MaxTimestamps :
                  InWindow(happened[kind], i) <=> i <= Len(p(kind))
  <2>1. KindInv(list[kind], happened[kind])
    BY DEF SecurityInv
  <2> QED
    BY <2>1, PruneKeeps
<1> HIDE DEF p
<1>3. ASSUME NEW kind \in Kind
      PROVE  /\ p(kind) \in Seq(Age) /\ Len(p(kind)) \in 0..MaxTimestamps
             /\ Recent(happened[kind], Len(p(kind)), Window)
  <2>1. p(kind) \in Seq(Age) /\ Len(p(kind)) <= MaxTimestamps
    BY <1>2 DEF KindInv
  <2>2. Len(p(kind)) \in 0..MaxTimestamps
    BY <2>1, LenProperties, Constants
  <2>3. \A i \in 1..Len(p(kind)) : Newest(happened[kind], i) <= Window
    BY <1>2, <2>2, Constants DEF InWindow
  <2> QED
    BY <1>2, <2>1, <2>2, <2>3 DEF Recent
<1>4. check' \in CheckState
  BY <1>1, <1>3, Constants DEF CheckState
<1>5. Elapsed' = 0
  BY <1>1, Constants DEF Elapsed
<1>6. CheckInv'
  <2>1. ASSUME NEW kind \in Kind
        PROVE  Recent(happened[kind], check'.count[kind], Window + Elapsed')
    <3>1. Window + Elapsed' = Window
      BY <1>5, Constants
    <3> QED
      BY <1>1, <1>3, <3>1
  <2> QED
    BY <1>1, <2>1 DEF CheckInv
<1>7. timer' \in Off..Interval
  BY <1>1, Constants DEF Off
<1> QED
  BY <1>1, <1>2, <1>3, <1>4, <1>6, <1>7 DEF SecurityInv

\* Elapsed' is not less: what was recent is still counted as recent.
LEMMA StillRecent ==
  ASSUME NEW h, NEW c, NEW t \in Nat, NEW u \in Nat, t <= u,
         h \in Seq(0..Horizon), Recent(h, c, t)
  PROVE  Recent(h, c, u)
<1>1. ASSUME NEW i \in 1..c PROVE Newest(h, i) <= u
  <2>1. i \in 1..Len(h)
    BY LenProperties DEF Recent
  <2>2. Newest(h, i) \in 0..Horizon
    BY <2>1, NewestType
  <2>3. Newest(h, i) <= t
    BY DEF Recent
  <2> QED
    BY <2>2, <2>3, Constants
<1> QED
  BY <1>1 DEF Recent

LEMMA SumOrder ==
  ASSUME NEW w \in Nat, NEW e \in Nat, NEW f \in Nat, e <= f
  PROVE  w + e \in Nat /\ w + f \in Nat /\ w + e <= w + f
OBVIOUS

\* A step of the check that leaves the lists, the history and the count.
LEMMA CheckStepKeeps ==
  ASSUME SecurityInv, check.pc # "none",
         UNCHANGED <<list, happened, timer, destroyed>>,
         check' \in CheckState, check'.count = check.count,
         Elapsed' \in Nat, Elapsed <= Elapsed',
         check'.pc = "deciding" => check'.lat = 0,
         check'.pc = "alerting" =>
           check'.next \in 1..2 /\ check'.count[Kinds[check'.next]]
                                     > Threshold[Kinds[check'.next]]
  PROVE  SecurityInv'
<1>1. ASSUME NEW kind \in Kind
      PROVE  Recent(happened'[kind], check'.count[kind], Window + Elapsed')
  <2>1. /\ Recent(happened[kind], check.count[kind], Window + Elapsed)
        /\ happened[kind] \in Seq(0..Horizon)
    BY DEF SecurityInv, CheckInv
  <2>2. /\ Window + Elapsed \in Nat /\ Window + Elapsed' \in Nat
        /\ Window + Elapsed <= Window + Elapsed'
    <3>1. Elapsed \in Nat /\ Window \in Nat
      BY ElapsedValue, Constants DEF SecurityInv
    <3> QED
      BY <3>1, SumOrder
  <2> QED
    BY <2>1, <2>2, StillRecent
<1>2. CheckInv'
  BY <1>1 DEF CheckInv, Exceeds
<1> QED
  BY <1>2 DEF SecurityInv

LEMMA DecideKeeps ==
  ASSUME SecurityInv, Decide
  PROVE  SecurityInv'
<1>0. /\ check \in CheckState /\ check.pc = "deciding" /\ check.lat = 0
      /\ check.next \in 1..2 /\ AlertLatency \in Nat
      /\ UNCHANGED <<list, happened, timer, destroyed>>
  BY CheckFields, Constants DEF Decide, Kinds, SecurityInv, CheckInv
<1>1. CASE Exceeds(Kinds[check.next])
  <2>1. check' = [check EXCEPT !.pc = "alerting", !.lat = 0]
    BY <1>1 DEF Decide
  <2>2. /\ check' \in CheckState /\ check'.pc = "alerting" /\ check'.lat = 0
        /\ check'.next = check.next /\ check'.count = check.count
    BY <1>0, <2>1 DEF CheckState
  <2>3. Elapsed' = Elapsed
    BY <1>0, <2>2 DEF Elapsed
  <2>4. Elapsed \in Nat
    BY <1>0, ElapsedValue
  <2> QED
    BY <1>0, <1>1, <2>2, <2>3, <2>4, CheckStepKeeps DEF Exceeds
<1>2. CASE ~ Exceeds(Kinds[check.next])
  <2>1. check' = [check EXCEPT !.next = @ + 1]
    BY <1>2 DEF Decide
  <2>2. /\ check' \in CheckState /\ check'.pc = "deciding" /\ check'.lat = 0
        /\ check'.next = check.next + 1 /\ check'.count = check.count
    BY <1>0, <2>1 DEF CheckState
  <2>3. Elapsed' = check.next * AlertLatency
    BY <1>0, <2>2 DEF Elapsed
  <2>4. Elapsed = (check.next - 1) * AlertLatency
    BY <1>0 DEF Elapsed
  <2>5. Elapsed' \in Nat /\ Elapsed <= Elapsed'
    <3>1. CASE check.next = 1
      BY <1>0, <2>3, <2>4, <3>1
    <3>2. CASE check.next = 2
      BY <1>0, <2>3, <2>4, <3>2
    <3> QED
      BY <1>0, <3>1, <3>2
  <2> QED
    BY <1>0, <2>2, <2>5, CheckStepKeeps
<1> QED
  BY <1>1, <1>2

LEMMA AlertEndsKeeps ==
  ASSUME SecurityInv, AlertEnds
  PROVE  SecurityInv'
<1>0. /\ check \in CheckState /\ check.pc = "alerting"
      /\ check.next \in 1..2 /\ check.lat \in 0..AlertLatency /\ AlertLatency \in Nat
      /\ UNCHANGED <<list, happened, timer, destroyed>>
  BY CheckFields, Constants DEF AlertEnds, SecurityInv, CheckInv
<1>1. check' = [check EXCEPT !.pc = "deciding", !.next = @ + 1, !.lat = 0]
  BY DEF AlertEnds
<1>2. /\ check' \in CheckState /\ check'.pc = "deciding" /\ check'.lat = 0
      /\ check'.next = check.next + 1 /\ check'.count = check.count
  <2>1. check' = [pc |-> "deciding", next |-> check.next + 1, lat |-> 0,
                  count |-> check.count]
    BY <1>0, <1>1, CheckFields
  <2>2. check.count \in [Kind -> 0..MaxTimestamps]
    BY <1>0, CheckFields
  <2>3. check.next + 1 \in 1..3 /\ 0 \in 0..AlertLatency
    BY <1>0
  <2> QED
    BY <2>1, <2>2, <2>3 DEF CheckState
<1>3. Elapsed' = check.next * AlertLatency
  BY <1>0, <1>2 DEF Elapsed
<1>4. Elapsed = (check.next - 1) * AlertLatency + check.lat
  BY DEF Elapsed
<1>5. Elapsed' \in Nat /\ Elapsed <= Elapsed'
  <2>1. CASE check.next = 1
    BY <1>0, <1>3, <1>4, <2>1
  <2>2. CASE check.next = 2
    BY <1>0, <1>3, <1>4, <2>2
  <2> QED
    BY <1>0, <2>1, <2>2
<1> QED
  BY <1>0, <1>2, <1>5, CheckStepKeeps

LEMMA TickRecent ==
  ASSUME SecurityInv, Tick, check.pc = "alerting", NEW kind \in Kind
  PROVE  Recent(happened'[kind], check'.count[kind], Window + Elapsed')
<1>1. /\ check \in CheckState /\ check.next \in 1..2 /\ check.lat \in Nat
      /\ check.lat < AlertLatency /\ AlertLatency \in Nat /\ Window \in Nat
      /\ Horizon = Window + 2 * AlertLatency
  BY CheckFields, Constants DEF Tick, SecurityInv, CheckInv, Horizon
<1>2. check'.count = check.count /\ check'.next = check.next
      /\ check'.lat = check.lat + 1
  BY <1>1 DEF Tick, CheckState
<1>3. Elapsed' = Elapsed + 1 /\ Elapsed \in Nat /\ Window + Elapsed < Horizon
  <2>1. CASE check.next = 1
    BY <1>1, <1>2, <2>1 DEF Elapsed
  <2>2. CASE check.next = 2
    BY <1>1, <1>2, <2>2 DEF Elapsed
  <2> QED
    BY <1>1, <2>1, <2>2
<1>4. Recent(happened[kind], check.count[kind], Window + Elapsed)
  BY DEF SecurityInv, CheckInv
<1>5. Window + Elapsed \in Nat /\ Window + Elapsed' = Window + Elapsed + 1
  BY <1>1, <1>3
<1> QED
  BY <1>2, <1>3, <1>4, <1>5, TickedRecent

LEMMA TickStepKeeps ==
  ASSUME SecurityInv, Tick
  PROVE  SecurityInv'
<1> DEFINE w(kind) == Within(Older(happened[kind]), Horizon)
<1>1. /\ list' = [kind \in Kind |-> Aged(list[kind])]
      /\ happened' = [kind \in Kind |-> w(kind)]
      /\ timer' = (IF timer > 0 THEN timer - 1 ELSE timer)
      /\ check' = (IF check.pc = "alerting" THEN [check EXCEPT !.lat = @ + 1]
                   ELSE check)
      /\ destroyed' = destroyed /\ timer # 0 /\ check.pc # "deciding"
      /\ check.pc = "alerting" => check.lat < AlertLatency
  BY DEF Tick
<1>2. ASSUME NEW kind \in Kind PROVE KindInv(Aged(list[kind]), w(kind))
  <2>1. KindInv(list[kind], happened[kind])
    BY DEF SecurityInv
  <2> QED
    BY <2>1, TickKeeps
<1> HIDE DEF w
<1>3. /\ list' \in [Kind -> Seq(Age)] /\ happened' \in [Kind -> Seq(0..Horizon)]
      /\ \A kind \in Kind : KindInv(list'[kind], happened'[kind])
  BY <1>1, <1>2 DEF KindInv
<1>4. timer' \in Off..Interval
  BY <1>1, Constants DEF SecurityInv, Off
<1>5. check' \in CheckState /\ CheckInv'
  <2>1. CASE check.pc = "alerting"
    <3>1. /\ check \in CheckState /\ check.next \in 1..2
          /\ check.lat \in 0..AlertLatency /\ check.lat < AlertLatency
          /\ check.count[Kinds[check.next]] > Threshold[Kinds[check.next]]
      BY <1>1, <2>1, CheckFields DEF SecurityInv, CheckInv, Exceeds
    <3>2. /\ check' \in CheckState /\ check'.pc = "alerting"
          /\ check'.next = check.next /\ check'.count = check.count
      BY <1>1, <2>1, <3>1, Constants DEF CheckState
    <3>3. \A kind \in Kind :
            Recent(happened'[kind], check'.count[kind], Window + Elapsed')
      BY <2>1, TickRecent
    <3> QED
      BY <3>1, <3>2, <3>3 DEF CheckInv, Exceeds
  <2>2. CASE check.pc = "none"
    <3>1. check' = check
      BY <1>1, <2>2
    <3> QED
      BY <2>2, <3>1 DEF SecurityInv, CheckInv
  <2> QED
    BY <1>1, <2>1, <2>2, CheckFields DEF SecurityInv
<1> QED
  BY <1>1, <1>3, <1>4, <1>5 DEF SecurityInv

\* SecurityInv is inductive.
LEMMA SecurityInvInductive == SecurityInv /\ [Next]_vars => SecurityInv'
<1> SUFFICES ASSUME SecurityInv, [Next]_vars PROVE SecurityInv'
  OBVIOUS
<1>1. ASSUME NEW kind \in Kind, Record(kind) PROVE SecurityInv'
  BY <1>1, RecordKeeps
<1>2. CASE StartCheck
  BY <1>2, StartCheckKeeps
<1>3. CASE Decide
  BY <1>3, DecideKeeps
<1>4. CASE AlertEnds
  BY <1>4, AlertEndsKeeps
<1>5. CASE Reschedule
  <2>1. NoCheck \in CheckState /\ Interval \in Off..Interval
    BY Constants DEF NoCheck, CheckState, Off
  <2>2. check' = NoCheck /\ timer' = Interval /\ UNCHANGED <<list, happened, destroyed>>
    BY <1>5 DEF Reschedule
  <2>3. CheckInv'
    BY <2>2 DEF CheckInv, NoCheck
  <2> QED
    BY <2>1, <2>2, <2>3 DEF SecurityInv
<1>6. CASE Destroy
  <2>1. Off \in Off..Interval
    BY Constants DEF Off
  <2>2. destroyed' = TRUE /\ timer' = Off /\ UNCHANGED <<list, happened, check>>
    BY <1>6 DEF Destroy
  <2> QED
    BY <2>1, <2>2 DEF SecurityInv, CheckInv, Exceeds, Elapsed
<1>7. CASE Tick
  BY <1>7, TickStepKeeps
<1>8. CASE UNCHANGED vars
  BY <1>8 DEF vars, SecurityInv, CheckInv, Exceeds, Elapsed
<1> QED
  BY <1>1, <1>2, <1>3, <1>4, <1>5, <1>6, <1>7, <1>8 DEF Next, CheckStep

-----------------------------------------------------------------------------
(* The theorems *)

\* Invariant: a list of timestamps and the history of the events agree on the
\* window, as far as the list reaches, and what a check has counted did happen.
THEOREM SecurityInvariant == Spec => []SecurityInv
BY InitSecurityInv, SecurityInvInductive, PTL DEF Spec

\* What AuthService.login and SupabaseAuthGuard record is what happened: their
\* steps are steps of the monitor that record an event, or change nothing.
Recording == (\E kind \in Kind : Record(kind)) \/ UNCHANGED vars

LEMMA NoteRecords ==
  ASSUME NEW kind \in Kind, NEW occurs \in BOOLEAN, NEW records \in BOOLEAN,
         occurs = records, Note(kind, occurs, records)
  PROVE  Recording
<1>1. CASE occurs
  <2>1. Record(kind)
    BY <1>1 DEF Note, Record
  <2> QED
    BY <2>1 DEF Recording
<1>2. CASE ~ occurs
  BY <1>2 DEF Note, vars, Recording
<1> QED
  BY <1>1, <1>2

LEMMA LoginRecords ==
  ASSUME NEW o \in Outcome, Login(o)
  PROVE  Recording
<1>1. FailedLogin(o) \in BOOLEAN /\ RecordsFailedLogin(o) \in BOOLEAN
  BY DEF FailedLogin, RecordsFailedLogin, ReturnsError
<1>2. FailedLogin(o) = RecordsFailedLogin(o)
  BY DEF FailedLogin, RecordsFailedLogin, ReturnsError, Outcome
<1>3. Note("failedLogin", FailedLogin(o), RecordsFailedLogin(o))
  BY DEF Login
<1> QED
  BY <1>1, <1>2, <1>3, NoteRecords DEF Kind

LEMMA AuthenticateRecords ==
  ASSUME NEW h \in Header, NEW secret \in BOOLEAN, Authenticate(h, secret)
  PROVE  Recording
<1>1. h.bearer \in BOOLEAN /\ (h.bearer <=> h # NoBearer) /\ Verifies(h) \in BOOLEAN
  <2>1. CASE h = NoBearer
    BY <2>1 DEF NoBearer, Verifies
  <2>2. CASE h \in [bearer : {TRUE}, signed : BOOLEAN,
                    time : {"early", "valid", "late"}, admin : BOOLEAN]
    <3>1. h.bearer = TRUE /\ h.signed \in BOOLEAN
      BY <2>2
    <3>2. NoBearer.bearer = FALSE
      BY DEF NoBearer
    <3>3. h # NoBearer
      BY <3>1, <3>2
    <3> QED
      BY <3>1, <3>3 DEF Verifies
  <2> QED
    BY <2>1, <2>2 DEF Header
<1>2. InvalidToken(h, secret) \in BOOLEAN /\ RecordsInvalidToken(h, secret) \in BOOLEAN
  BY DEF InvalidToken, RecordsInvalidToken
<1>3. InvalidToken(h, secret) = RecordsInvalidToken(h, secret)
  BY <1>1 DEF InvalidToken, RecordsInvalidToken, SupabaseAuthGuard, Unauthorized
<1>4. Note("invalidToken", InvalidToken(h, secret), RecordsInvalidToken(h, secret))
  BY DEF Authenticate
<1> QED
  BY <1>2, <1>3, <1>4, NoteRecords DEF Kind

LEMMA AuthStep == [AuthNext]_vars => [Next]_vars
BY LoginRecords, AuthenticateRecords DEF AuthNext, Recording, Next

\* The monitor behind its two callers is the monitor: FailedLogin and
\* InvalidToken, which say what should be recorded, and the code agree.
THEOREM AuthImplementsMonitor == AuthSpec => Spec
BY AuthStep, PTL DEF AuthSpec, Spec

LEMMA AuthInvariant == AuthSpec => []SecurityInv
BY AuthImplementsMonitor, SecurityInvariant, PTL

\* The lists never hold more than MAX_TIMESTAMPS, and the rest of the types.
THEOREM SecurityTypeCorrect == AuthSpec => []TypeOK
<1>1. SecurityInv => TypeOK
  BY DEF SecurityInv, KindInv, TypeOK
<1> QED
  BY <1>1, AuthInvariant, PTL

\* WindowIsExact: what a check would count is the failed logins and invalid
\* tokens of the window, up to the capacity of the list.
THEOREM CountsAreExact == AuthSpec => []WindowIsExact
<1>1. SecurityInv => WindowIsExact
  BY ExactWindow DEF SecurityInv, WindowIsExact
<1> QED
  BY <1>1, AuthInvariant, PTL

\* AlertsAreTrue: no alert without more events than its threshold.
THEOREM NoFalseAlarm == AuthSpec => []AlertsAreTrue
<1>1. SecurityInv => AlertsAreTrue
  <2> SUFFICES ASSUME SecurityInv, NEW kind \in Kind, Alerts(kind)
               PROVE  Len(Within(happened[kind], Window + Elapsed)) > Threshold[kind]
    BY DEF AlertsAreTrue
  <2> DEFINE h == happened[kind]
             c == check.count[kind]
             t == Window + Elapsed
  <2>1. /\ Recent(h, c, t) /\ c > Threshold[kind] /\ Threshold[kind] \in Nat
    BY SecurityMonitorAssumption DEF SecurityInv, CheckInv, Alerts, Exceeds
  <2>2. t \in Nat
    BY ElapsedValue, Constants DEF SecurityInv
  <2>3. h \in Seq(Nat) /\ Graded(h) /\ Len(h) \in Nat
    BY Numbers, LenProperties DEF SecurityInv, KindInv
  <2> HIDE DEF h, c, t
  <2>4. PICK k \in 0..Len(h) : Cut(h, t, k)
    BY <2>2, <2>3 DEF Graded
  <2>5. Len(Within(h, t)) = k
    BY <2>2, <2>3, <2>4, CutCardinality, SuffixProperties
  <2>6. c \in 1..Len(h) /\ Newest(h, c) <= t
    BY <2>1, <2>3 DEF Recent
  <2>7. c <= k
    BY <2>4, <2>6 DEF Cut
  <2> QED
    BY <2>1, <2>3, <2>4, <2>5, <2>6, <2>7 DEF h, t
<1> QED
  BY <1>1, AuthInvariant, PTL

-----------------------------------------------------------------------------
(* The deadline of a burst *)

\* The check that is under way will send this alert.
Ahead(kind) ==
  check.pc # "none" /\ check.count[kind] > Threshold[kind] /\ check.next <= Place(kind)

\* While the service runs there is a timer, or a check, and never both.
Armed == ~ destroyed => (timer = Off <=> check.pc # "none")

\* What a wait of w ticks says of the state.  If the check under way does not
\* help, the burst is still recent, and what is left of the check and of the
\* interval is short enough for the next one to see it.
Waits(kind, w) ==
  /\ Ahead(kind) => w <= Interval + AlertLatency + Elapsed
  /\ ~ Ahead(kind) =>
       /\ Span \in Nat /\ Recent(happened[kind], Threshold[kind] + 1, Span + w)
       /\ timer # Off => w + timer <= Interval + AlertLatency
       /\ timer = Off /\ check.next + Place(kind) <= 3 => w <= check.lat
       /\ timer = Off /\ check.next + Place(kind) > 3 => w <= AlertLatency

WaitInv ==
  \A kind \in Kind : waiting[kind] # Off =>
    ~ destroyed /\ ~ Alerts(kind) /\ Waits(kind, waiting[kind])

\* The inductive invariant.
DeadlineInv ==
  /\ SecurityInv
  /\ Armed
  /\ waiting \in [Kind -> Nat \cup {Off}]
  /\ WaitInv

LEMMA Places ==
  ASSUME NEW kind \in Kind
  PROVE  /\ Place(kind) \in 1..2 /\ Kinds[Place(kind)] = kind
         /\ \A n \in 1..2 : Kinds[n] = kind => n = Place(kind)
<1>1. /\ Len(Kinds) = 2 /\ Kinds[1] = "failedLogin" /\ Kinds[2] = "invalidToken"
  BY DEF Kinds
<1>2. \E n \in 1..2 : Kinds[n] = kind
  BY <1>1 DEF Kind
<1>3. Place(kind) \in 1..2 /\ Kinds[Place(kind)] = kind
  BY <1>1, <1>2 DEF Place
<1>4. \A n \in 1..2, m \in 1..2 : Kinds[n] = Kinds[m] => n = m
  BY <1>1
<1> QED
  BY <1>3, <1>4

\* Numbers of the state.
LEMMA DeadlineNumbers ==
  ASSUME SecurityInv, NEW kind \in Kind
  PROVE  /\ Window \in Nat /\ Interval \in Nat /\ Interval > 0 /\ AlertLatency \in Nat
         /\ Horizon = Window + 2 * AlertLatency /\ Elapsed \in Nat /\ Off = -1
         /\ Threshold[kind] \in Nat /\ Threshold[kind] < MaxTimestamps
         /\ MaxTimestamps \in Nat /\ timer \in Off..Interval
         /\ check.next \in 1..3 /\ check.lat \in 0..AlertLatency
         /\ check.count[kind] \in 0..MaxTimestamps
         /\ Span = Window - Interval - AlertLatency
         /\ happened[kind] \in Seq(0..Horizon)
         /\ check.pc \in {"none", "deciding", "alerting"}
BY SecurityMonitorAssumption, CheckFields, ElapsedValue
DEF SecurityInv, Horizon, Off, Span

\* A burst is that many events that are recent.
LEMMA BurstIsRecent ==
  ASSUME SecurityInv, NEW kind \in Kind, Burst(kind)
  PROVE  Span \in Nat /\ Recent(happened[kind], Threshold[kind] + 1, Span)
<1> DEFINE h == happened[kind]
           c == Threshold[kind]
           w == Within(h, Span)
<1>1. /\ h \in Seq(Nat) /\ h \in Seq(0..Horizon) /\ Graded(h) /\ Len(h) \in Nat
      /\ c \in Nat /\ Span \in Int
  <2>1. h \in Seq(Nat) /\ h \in Seq(0..Horizon) /\ Graded(h) /\ Len(h) \in Nat
    BY Numbers, LenProperties DEF SecurityInv, KindInv
  <2> QED
    BY <2>1, DeadlineNumbers
<1>2. Len(w) > c
  BY DEF Burst
<1>3. Span \in Nat
  <2> SUFFICES ASSUME Span < 0 PROVE FALSE
    BY <1>1
  <2> HIDE DEF h, c
  <2>1. \A i \in 1..Len(h) : h[i] \in Nat
    BY <1>1, ElementOfSeq
  <2>2. {i \in 1..Len(h) : h[i] <= Span} = {}
    BY <1>1, <2>1
  <2>3. Cardinality({i \in 1..Len(h) : h[i] <= Span}) = 0
    BY <2>2, FS_EmptySet
  <2>4. w = Suffix(h, IF Len(h) <= 0 THEN Len(h) ELSE 0)
    BY <1>1, <2>3, LastOfIsSuffix DEF Within
  <2>5. Len(w) = 0
    BY <1>1, <2>4, SuffixProperties
  <2> QED
    BY <1>1, <1>2, <2>5
<1> HIDE DEF h, c
<1>4. PICK k \in 0..Len(h) : Cut(h, Span, k)
  BY <1>1, <1>3 DEF Graded
<1>5. Len(w) = k
  BY <1>1, <1>3, <1>4, CutCardinality, SuffixProperties
<1>6. c + 1 \in 0..Len(h) /\ \A i \in 1..c + 1 : i \in 1..Len(h) /\ i <= k
  BY <1>1, <1>2, <1>4, <1>5
<1>7. Recent(h, c + 1, Span)
  BY <1>4, <1>6 DEF Recent, Cut
<1> QED
  BY <1>3, <1>7 DEF h, c

\* A wait begins within its bounds.
WaitsBegin == \A kind \in Kind : SecurityInv /\ Burst(kind) => Waits(kind, 0)

LEMMA NewWait == WaitsBegin
<1> SUFFICES ASSUME NEW kind \in Kind, SecurityInv, Burst(kind)
             PROVE  Waits(kind, 0)
  BY DEF WaitsBegin
<1>1. Span \in Nat /\ Recent(happened[kind], Threshold[kind] + 1, Span + 0)
  BY BurstIsRecent
<1>2. /\ Interval \in Nat /\ AlertLatency \in Nat /\ Elapsed \in Nat
      /\ timer \in Off..Interval /\ Off = -1 /\ check.lat \in Nat
  BY DeadlineNumbers
<1>3. /\ 0 <= Interval + AlertLatency + Elapsed /\ 0 <= check.lat /\ 0 <= AlertLatency
      /\ 0 + timer <= Interval + AlertLatency
  BY <1>2
<1> QED
  BY <1>1, <1>3 DEF Waits

\* A wait that has met no alert is within the deadline.
LEMMA WaitMeetsDeadline ==
  ASSUME SecurityInv, NEW kind \in Kind, NEW w \in Nat,
         Waits(kind, w), ~ Alerts(kind)
  PROVE  w <= Deadline(kind)
<1> DEFINE p == Place(kind)
           d == Deadline(kind)
<1>0. /\ Interval \in Nat /\ AlertLatency \in Nat /\ Elapsed \in Nat
      /\ timer \in Off..Interval /\ Off = -1
      /\ check.next \in 1..3 /\ check.lat \in 0..AlertLatency
      /\ check.pc \in {"none", "deciding", "alerting"} /\ check \in CheckState
  BY DeadlineNumbers DEF SecurityInv
<1>1. /\ p \in 1..2 /\ Kinds[p] = kind
      /\ p = 1 => d = Interval + AlertLatency
      /\ p = 2 => d = Interval + AlertLatency + AlertLatency
  <2>1. p \in 1..2 /\ Kinds[p] = kind /\ d = Interval + p * AlertLatency
    BY Places DEF Deadline
  <2> QED
    BY <1>0, <2>1
<1> SUFFICES w <= d
  OBVIOUS
<1> HIDE DEF p, d
<1>2. CASE ~ Ahead(kind)
  <2>1. w <= Interval + AlertLatency
    <3>1. timer # Off => w + timer <= Interval + AlertLatency /\ timer >= 0
      BY <1>0, <1>2 DEF Waits
    <3>2. timer = Off => w <= check.lat \/ w <= AlertLatency
      BY <1>0, <1>1, <1>2 DEF Waits, p
    <3> QED
      BY <1>0, <3>1, <3>2
  <2> QED
    BY <1>0, <1>1, <2>1
<1>3. CASE Ahead(kind)
  <2>1. check.next \in 1..2 /\ check.next <= p /\ check.pc # "none"
    BY <1>0, <1>1, <1>3 DEF Ahead, p
  <2>2. w <= Interval + AlertLatency + Elapsed
    BY <1>3 DEF Waits
  <2>3. CASE check.pc = "alerting"
    <3>1. check.next = 1 /\ p = 2
      BY <1>1, <2>1, <2>3 DEF Alerts
    <3>2. Elapsed <= AlertLatency
      BY <1>0, <3>1, ElapsedValue
    <3> QED
      BY <1>0, <1>1, <2>2, <3>1, <3>2
  <2>4. CASE check.pc = "deciding"
    <3>1. check.lat = 0
      BY <2>4 DEF SecurityInv, CheckInv
    <3>2. check.next = 1 => Elapsed = 0
      BY <1>0, <3>1, ElapsedValue
    <3>3. check.next = 2 => Elapsed = AlertLatency /\ p = 2
      BY <1>0, <1>1, <2>1, <3>1, ElapsedValue
    <3> QED
      BY <1>0, <1>1, <2>1, <2>2, <3>2, <3>3
  <2> QED
    BY <1>0, <2>1, <2>3, <2>4
<1> QED
  BY <1>2, <1>3

\* An event leaves a wait within its bounds, ...
LEMMA RecordKeepsWait ==
  ASSUME SecurityInv, NEW kind \in Kind, NEW w \in Nat, Waits(kind, w),
         NEW k \in Kind, Record(k)
  PROVE  Waits(kind, w)'
<1>1. /\ happened' = [happened EXCEPT ![k] = Append(@, 0)]
      /\ UNCHANGED <<timer, check, destroyed>>
  BY DEF Record
<1>2. /\ Ahead(kind)' <=> Ahead(kind)
      /\ Elapsed' = Elapsed
  BY <1>1 DEF Ahead, Elapsed
<1>3. ASSUME Span \in Nat, Recent(happened[kind], Threshold[kind] + 1, Span + w)
      PROVE  Recent(happened'[kind], Threshold[kind] + 1, Span + w)
  <2>1. happened[kind] \in Seq(0..Horizon) /\ Span + w \in Nat
    BY <1>3 DEF SecurityInv
  <2>2. happened'[kind] = IF kind = k THEN Append(happened[kind], 0) ELSE happened[kind]
    BY <1>1 DEF SecurityInv
  <2> QED
    BY <1>3, <2>1, <2>2, AppendRecent
<1> QED
  BY <1>1, <1>2, <1>3 DEF Waits

\* ... the check that begins sees the burst, if none was under way, ...
LEMMA StartKeepsWait ==
  ASSUME SecurityInv, Armed, ~ destroyed, NEW kind \in Kind, NEW w \in Nat,
         Waits(kind, w), StartCheck
  PROVE  Waits(kind, w)'
<1> DEFINE h == happened[kind]
           c == Threshold[kind] + 1
           p == Prune(list[kind])
<1>0. /\ Interval \in Nat /\ AlertLatency \in Nat /\ Window \in Nat /\ Off = -1
      /\ Span = Window - Interval - AlertLatency /\ MaxTimestamps \in Nat
      /\ c \in Nat /\ c >= 1 /\ c <= MaxTimestamps /\ h \in Seq(0..Horizon)
  <2>1. Threshold[kind] \in Nat /\ Threshold[kind] < MaxTimestamps /\ MaxTimestamps \in Nat
    BY DeadlineNumbers
  <2>2. c \in Nat /\ c >= 1 /\ c <= MaxTimestamps
    BY <2>1
  <2> QED
    BY <2>2, DeadlineNumbers
<1>1. timer = 0 /\ check.pc = "none" /\ ~ Ahead(kind)
  BY <1>0 DEF StartCheck, Armed, Ahead
<1>2. Recent(h, c, Span + w) /\ w <= Interval + AlertLatency /\ Span \in Nat
  BY <1>0, <1>1 DEF Waits
<1>3. InWindow(h, c)
  <2>1. c \in 1..Len(h) /\ Newest(h, c) <= Span + w
    BY <1>0, <1>2, LenProperties DEF Recent
  <2>2. Newest(h, c) \in 0..Horizon
    BY <1>0, <2>1, NewestType
  <2> HIDE DEF h, c
  <2> QED
    BY <1>0, <1>2, <2>1, <2>2, Constants DEF InWindow
<1>4. c <= Len(p)
  <2>1. KindInv(list[kind], h)
    BY DEF SecurityInv
  <2> HIDE DEF h, c
  <2> QED
    BY <1>0, <1>3, <2>1, PruneKeeps
<1>5. /\ check'.pc = "deciding" /\ check'.next = 1 /\ check'.lat = 0
      /\ check'.count[kind] = Len(p)
  BY DEF StartCheck, NoCheck
<1>6. Len(p) > Threshold[kind]
  <2>1. Threshold[kind] \in Nat /\ Len(p) \in Nat
    BY DeadlineNumbers, PruneKeeps, LenProperties DEF SecurityInv, KindInv
  <2> QED
    BY <1>4, <2>1
<1>7. Ahead(kind)'
  BY <1>5, <1>6, Places DEF Ahead
<1>8. Elapsed' = 0
  BY <1>0, <1>5 DEF Elapsed
<1> QED
  BY <1>0, <1>2, <1>7, <1>8 DEF Waits

\* ... a check that goes on sends the alert, or leaves less to wait for, ...
LEMMA DecideKeepsWait ==
  ASSUME SecurityInv, Armed, ~ destroyed, NEW kind \in Kind, NEW w \in Nat,
         Waits(kind, w), Decide, ~ Alerts(kind)'
  PROVE  Waits(kind, w)'
<1> DEFINE p == Place(kind)
<1>0. /\ check.pc = "deciding" /\ check.next \in 1..2 /\ check.lat = 0
      /\ check.count \in [Kind -> 0..MaxTimestamps] /\ timer = Off
      /\ AlertLatency \in Nat /\ Elapsed \in Nat /\ Interval \in Nat
      /\ UNCHANGED <<happened, timer>>
  <2>1. check.pc = "deciding" /\ check.next <= 2 /\ UNCHANGED <<happened, timer>>
    BY DEF Decide, Kinds
  <2>2. timer = Off /\ check.lat = 0 /\ check.count \in [Kind -> 0..MaxTimestamps]
    BY <2>1, CheckFields DEF Armed, SecurityInv, CheckInv
  <2> QED
    BY <2>1, <2>2, DeadlineNumbers
<1>1. p \in 1..2 /\ Kinds[p] = kind /\ \A n \in 1..2 : Kinds[n] = kind => n = p
  BY Places
<1> HIDE DEF p
<1>2. CASE Exceeds(Kinds[check.next])
  <2>1. /\ check'.pc = "alerting" /\ check'.lat = 0 /\ check'.next = check.next
        /\ check'.count = check.count
    BY <1>0, <1>2, CheckFields DEF Decide, SecurityInv
  <2>2. Elapsed' = Elapsed /\ (Ahead(kind)' <=> Ahead(kind))
    BY <1>0, <2>1 DEF Elapsed, Ahead
  <2> QED
    BY <1>0, <2>1, <2>2 DEF Waits
<1>3. CASE ~ Exceeds(Kinds[check.next])
  <2>1. /\ check'.pc = "deciding" /\ check'.lat = 0 /\ check'.next = check.next + 1
        /\ check'.count = check.count
    BY <1>0, <1>3, CheckFields DEF Decide, SecurityInv
  <2>2. Ahead(kind)' <=> Ahead(kind)
    <3>1. check.next # p \/ ~ check.count[kind] > Threshold[kind]
      BY <1>1, <1>3 DEF Exceeds
    <3>2. /\ Ahead(kind)' <=> check.count[kind] > Threshold[kind] /\ check.next + 1 <= p
          /\ Ahead(kind) <=> check.count[kind] > Threshold[kind] /\ check.next <= p
      BY <1>0, <2>1 DEF Ahead, p
    <3> QED
      BY <1>0, <1>1, <3>1, <3>2
  <2>3. Elapsed' \in Nat /\ Elapsed <= Elapsed'
    <3>1. Elapsed' = check.next * AlertLatency /\ Elapsed = (check.next - 1) * AlertLatency
      BY <1>0, <2>1 DEF Elapsed
    <3>2. CASE check.next = 1
      BY <1>0, <3>1, <3>2
    <3>3. CASE check.next = 2
      BY <1>0, <3>1, <3>3
    <3> QED
      BY <1>0, <3>2, <3>3
  <2>4. ASSUME Ahead(kind) PROVE w <= Interval + AlertLatency + Elapsed'
    <3>1. w <= Interval + AlertLatency + Elapsed
      BY <2>4 DEF Waits
    <3>2. Interval + AlertLatency \in Nat /\ Elapsed \in Nat
      BY <1>0
    <3> QED
      BY <2>3, <3>1, <3>2
  <2>5. ASSUME ~ Ahead(kind)
        PROVE  /\ Span \in Nat /\ Recent(happened'[kind], Threshold[kind] + 1, Span + w)
               /\ check'.next + p <= 3 => w <= check'.lat
               /\ w <= AlertLatency
    <3>1. /\ Span \in Nat /\ Recent(happened'[kind], Threshold[kind] + 1, Span + w)
          /\ check.next + p <= 3 => w <= 0
          /\ check.next + p > 3 => w <= AlertLatency
      BY <1>0, <2>5 DEF Waits, p
    <3> QED
      BY <1>0, <1>1, <2>1, <3>1
  <2> QED
    BY <1>0, <2>2, <2>4, <2>5 DEF Waits, p
<1> QED
  BY <1>2, <1>3

LEMMA AlertEndKeepsWait ==
  ASSUME SecurityInv, Armed, ~ destroyed, NEW kind \in Kind, NEW w \in Nat,
         Waits(kind, w), ~ Alerts(kind), AlertEnds
  PROVE  Waits(kind, w)'
<1> DEFINE p == Place(kind)
<1>0. /\ check.pc = "alerting" /\ check.next \in 1..2 /\ check.lat \in 0..AlertLatency
      /\ timer = Off /\ AlertLatency \in Nat /\ Elapsed \in Nat /\ Interval \in Nat
      /\ UNCHANGED <<happened, timer>>
  <2>1. check.pc = "alerting" /\ UNCHANGED <<happened, timer>>
    BY DEF AlertEnds
  <2>2. timer = Off /\ check.next \in 1..2
    BY <2>1 DEF Armed, SecurityInv, CheckInv
  <2> QED
    BY <2>1, <2>2, DeadlineNumbers
<1>1. p \in 1..2 /\ Kinds[p] = kind
  BY Places
<1> HIDE DEF p
<1>2. check.next # p
  BY <1>0, <1>1 DEF Alerts
<1>3. /\ check'.pc = "deciding" /\ check'.lat = 0 /\ check'.next = check.next + 1
      /\ check'.count = check.count
  BY <1>0, CheckFields DEF AlertEnds, SecurityInv
<1>4. Ahead(kind)' <=> Ahead(kind)
  <2>1. /\ Ahead(kind)' <=> check.count[kind] > Threshold[kind] /\ check.next + 1 <= p
        /\ Ahead(kind) <=> check.count[kind] > Threshold[kind] /\ check.next <= p
    BY <1>0, <1>3 DEF Ahead, p
  <2> QED
    BY <1>0, <1>1, <1>2, <2>1
<1>5. Elapsed' \in Nat /\ Elapsed <= Elapsed'
  <2>1. /\ Elapsed' = check.next * AlertLatency
        /\ Elapsed = (check.next - 1) * AlertLatency + check.lat
    BY <1>0, <1>3 DEF Elapsed
  <2>2. CASE check.next = 1
    BY <1>0, <2>1, <2>2
  <2>3. CASE check.next = 2
    BY <1>0, <2>1, <2>3
  <2> QED
    BY <1>0, <2>2, <2>3
<1>6. ASSUME Ahead(kind) PROVE w <= Interval + AlertLatency + Elapsed'
  BY <1>0, <1>5, <1>6 DEF Waits
<1>7. ASSUME ~ Ahead(kind)
      PROVE  /\ Span \in Nat /\ Recent(happened'[kind], Threshold[kind] + 1, Span + w)
             /\ w <= AlertLatency /\ check'.next + p > 3
  <2>1. /\ Span \in Nat /\ Recent(happened'[kind], Threshold[kind] + 1, Span + w)
        /\ check.next + p <= 3 => w <= check.lat
    BY <1>0, <1>7 DEF Waits, p
  <2> QED
    BY <1>0, <1>1, <1>2, <1>3, <2>1
<1> QED
  BY <1>0, <1>1, <1>3, <1>4, <1>6, <1>7 DEF Waits, p

\* ... and one that has ended leaves a wait of one alert and the interval.
LEMMA RescheduleKeepsWait ==
  ASSUME SecurityInv, Armed, ~ destroyed, NEW kind \in Kind, NEW w \in Nat,
         Waits(kind, w), Reschedule
  PROVE  Waits(kind, w)'
<1> DEFINE p == Place(kind)
<1>0. /\ check.pc = "deciding" /\ check.next = 3 /\ timer = Off
      /\ AlertLatency \in Nat /\ Interval \in Nat /\ Off = -1
      /\ timer' = Interval /\ check'.pc = "none" /\ happened' = happened
  <2>1. /\ check.pc = "deciding" /\ check.next > 2 /\ timer' = Interval
        /\ check'.pc = "none" /\ happened' = happened
    BY DEF Reschedule, Kinds, NoCheck
  <2>2. timer = Off
    BY <2>1 DEF Armed
  <2>3. check.next \in 1..3 /\ AlertLatency \in Nat /\ Interval \in Nat /\ Off = -1
    BY DeadlineNumbers
  <2> QED
    BY <2>1, <2>2, <2>3
<1>1. p \in 1..2
  BY Places
<1> HIDE DEF p
<1>2. ~ Ahead(kind) /\ ~ Ahead(kind)'
  BY <1>0, <1>1 DEF Ahead, p
<1>3. /\ Span \in Nat /\ Recent(happened'[kind], Threshold[kind] + 1, Span + w)
      /\ w <= AlertLatency
  BY <1>0, <1>1, <1>2 DEF Waits, p
<1>4. w + timer' <= Interval + AlertLatency /\ timer' # Off
  BY <1>0, <1>3
<1> QED
  BY <1>2, <1>3, <1>4 DEF Waits

\* A tick adds one to a wait, and takes one from what is left.
LEMMA TickKeepsWait ==
  ASSUME SecurityInv, Armed, ~ destroyed, NEW kind \in Kind, NEW w \in Nat,
         NEW v \in Nat, v = w + 1, Waits(kind, w), ~ Alerts(kind), Tick
  PROVE  Waits(kind, v)'
<1> DEFINE p == Place(kind)
           e == Elapsed
<1>0. /\ AlertLatency \in Nat /\ Interval \in Nat /\ Window \in Nat /\ e \in Nat
      /\ Horizon = Window + 2 * AlertLatency /\ Off = -1
      /\ Span = Window - Interval - AlertLatency /\ timer \in Off..Interval
      /\ check.next \in 1..3 /\ check.lat \in 0..AlertLatency
  BY DeadlineNumbers
<1>1. p \in 1..2 /\ Kinds[p] = kind
  BY Places
<1>2. /\ timer # 0 /\ check.pc # "deciding"
      /\ check.pc = "alerting" => check.lat < AlertLatency
      /\ timer' = (IF timer > 0 THEN timer - 1 ELSE timer)
      /\ check' = IF check.pc = "alerting" THEN [check EXCEPT !.lat = @ + 1] ELSE check
  BY DEF Tick
<1>3. /\ check'.pc = check.pc /\ check'.next = check.next /\ check'.count = check.count
      /\ check.pc = "alerting" => check'.lat = check.lat + 1
  BY <1>2, CheckFields DEF SecurityInv
<1>4. Ahead(kind)' <=> Ahead(kind)
  BY <1>3 DEF Ahead
<1>5. CASE Ahead(kind)
  <2>1. check.pc = "alerting"
    BY <1>2, <1>5, DeadlineNumbers DEF Ahead
  <2>2. Elapsed' = e + 1
    <3>1. Elapsed' = (check.next - 1) * AlertLatency + (check.lat + 1)
      BY <1>3, <2>1 DEF Elapsed
    <3>2. e = (check.next - 1) * AlertLatency + check.lat
      BY DEF Elapsed
    <3>3. (check.next - 1) * AlertLatency \in Nat
      <4>1. check.next = 1 \/ check.next = 2 \/ check.next = 3
        BY <1>0
      <4> QED
        BY <1>0, <4>1
    <3> QED
      BY <1>0, <3>1, <3>2, <3>3
  <2>3. w <= Interval + AlertLatency + e
    BY <1>5 DEF Waits
  <2> HIDE DEF e
  <2>4. v <= Interval + AlertLatency + Elapsed'
    BY <1>0, <2>2, <2>3
  <2> QED
    BY <1>4, <1>5, <2>4 DEF Waits
<1>6. CASE ~ Ahead(kind)
  <2> HIDE DEF p, e
  <2>1. /\ Span \in Nat /\ Recent(happened[kind], Threshold[kind] + 1, Span + w)
    BY <1>6 DEF Waits
  <2>2. CASE timer # Off
    <3>1. w + timer <= Interval + AlertLatency /\ timer >= 1 /\ timer' = timer - 1
      BY <1>0, <1>2, <1>6, <2>2 DEF Waits
    <3>2. /\ Span + w \in Nat /\ Span + w < Horizon /\ Span + w + 1 = Span + v
          /\ timer' # Off /\ v + timer' <= Interval + AlertLatency
      BY <1>0, <2>1, <3>1
    <3>3. Recent(happened'[kind], Threshold[kind] + 1, Span + v)
      <4>1. Recent(happened'[kind], Threshold[kind] + 1, Span + w + 1)
        BY <2>1, <3>2, TickedRecent
      <4> QED
        BY <3>2, <4>1
    <3> QED
      BY <1>4, <1>6, <2>1, <3>2, <3>3 DEF Waits
  <2>3. CASE timer = Off
    <3>1. check.pc = "alerting" /\ timer' = Off
      BY <1>0, <1>2, <2>3, DeadlineNumbers DEF Armed
    <3>2. check.next # p /\ check.next \in 1..2
      BY <1>1, <3>1 DEF Alerts, SecurityInv, CheckInv
    <3>3. w <= check.lat /\ check.lat < AlertLatency /\ check'.lat = check.lat + 1
      <4>1. check.next + p <= 3
        BY <1>1, <3>2
      <4> QED
        BY <1>2, <1>3, <1>6, <2>3, <3>1, <4>1 DEF Waits, p
    <3>4. /\ Span + w \in Nat /\ Span + w < Horizon /\ Span + w + 1 = Span + v
          /\ v <= check'.lat /\ v <= AlertLatency
      BY <1>0, <2>1, <3>3
    <3>5. Recent(happened'[kind], Threshold[kind] + 1, Span + v)
      <4>1. Recent(happened'[kind], Threshold[kind] + 1, Span + w + 1)
        BY <2>1, <3>4, TickedRecent
      <4> QED
        BY <3>4, <4>1
    <3> QED
      BY <1>4, <1>6, <2>1, <3>1, <3>4, <3>5 DEF Waits
  <2> QED
    BY <2>2, <2>3
<1> QED
  BY <1>5, <1>6

LEMMA InitDeadlineInv == WInit => DeadlineInv
<1> SUFFICES ASSUME WInit PROVE DeadlineInv
  OBVIOUS
<1>1. SecurityInv /\ waiting = [kind \in Kind |-> Off]
  BY InitSecurityInv DEF WInit
<1>2. timer = Interval /\ check.pc = "none" /\ Interval # Off
  BY SecurityMonitorAssumption DEF WInit, Init, NoCheck, Off
<1> QED
  BY <1>1, <1>2 DEF DeadlineInv, Armed, WaitInv

\* Every step but a tick, and what it does to the waits.
Event == Recording \/ StartCheck \/ Decide \/ AlertEnds \/ Reschedule \/ Destroy

LEMMA HistorySteps == WNext => (Event /\ Wait(0)) \/ (Tick /\ Wait(1))
BY LoginRecords, AuthenticateRecords DEF WNext, Event, CheckStep

LEMMA EventKeepsWait ==
  ASSUME SecurityInv, Armed, ~ destroyed, NEW kind \in Kind, NEW w \in Nat,
         Waits(kind, w), ~ Alerts(kind), Event, ~ destroyed', ~ Alerts(kind)'
  PROVE  Waits(kind, w)'
<1>1. CASE UNCHANGED vars
  <2>1. Waits(kind, w)' <=> Waits(kind, w)
    BY <1>1 DEF vars, Waits, Ahead, Elapsed
  <2> QED
    BY <2>1
<1>2. ~ Destroy
  BY DEF Destroy
<1> QED
  BY <1>1, <1>2, RecordKeepsWait, StartKeepsWait, DecideKeepsWait,
     AlertEndKeepsWait, RescheduleKeepsWait DEF Event, Recording

LEMMA ArmedKept ==
  ASSUME SecurityInv, Armed, Event \/ Tick
  PROVE  Armed'
<1>1. Interval # Off /\ Off = -1 /\ timer \in Off..Interval /\ Interval \in Nat
  BY SecurityMonitorAssumption DEF SecurityInv, Off
<1>2. CASE Recording
  BY <1>2 DEF Recording, Record, Armed, vars
<1>3. CASE StartCheck
  BY <1>3 DEF StartCheck, Armed, NoCheck
<1>4. CASE Decide
  <2>1. check'.pc # "none" /\ check.pc # "none"
    BY <1>4, CheckFields DEF Decide, SecurityInv
  <2> QED
    BY <1>4, <2>1 DEF Decide, Armed
<1>5. CASE AlertEnds
  <2>1. check'.pc # "none" /\ check.pc # "none"
    BY <1>5, CheckFields DEF AlertEnds, SecurityInv
  <2> QED
    BY <1>5, <2>1 DEF AlertEnds, Armed
<1>6. CASE Reschedule
  BY <1>1, <1>6 DEF Reschedule, Armed, NoCheck
<1>7. CASE Destroy
  BY <1>7 DEF Destroy, Armed
<1>8. CASE Tick
  <2>1. check'.pc = check.pc
    BY <1>8, CheckFields DEF Tick, SecurityInv
  <2>2. timer' = Off <=> timer = Off
    BY <1>1, <1>8 DEF Tick
  <2> QED
    BY <1>8, <2>1, <2>2 DEF Tick, Armed
<1> QED
  BY <1>2, <1>3, <1>4, <1>5, <1>6, <1>7, <1>8 DEF Event

\* A wait goes on, or begins.
LEMMA WaitKept ==
  ASSUME SecurityInv, Armed, WaitInv, waiting \in [Kind -> Nat \cup {Off}],
         SecurityInv', NEW kind \in Kind, NEW ticks \in {0, 1},
         (ticks = 0 /\ Event) \/ (ticks = 1 /\ Tick), Wait(ticks),
         waiting'[kind] # Off
  PROVE  /\ ~ destroyed' /\ ~ Alerts(kind)'
         /\ waiting'[kind] \in Nat /\ Waits(kind, waiting[kind])'
<1>1. waiting'[kind] = Waited(kind, ticks)
  BY DEF Wait
<1>2. ~ destroyed' /\ ~ Alerts(kind)'
  BY <1>1 DEF Waited
<1>3. CASE waiting[kind] # Off
  <2>1. PICK w \in Nat : w = waiting[kind]
    BY <1>3
  <2>2. ~ destroyed /\ ~ Alerts(kind) /\ Waits(kind, w)
    BY <1>3, <2>1 DEF WaitInv
  <2>3. waiting'[kind] = w + ticks
    BY <1>1, <1>2, <1>3, <2>1 DEF Waited
  <2>4. CASE ticks = 0 /\ Event
    <3>1. waiting'[kind] = w /\ Waits(kind, w)'
      BY <1>2, <2>2, <2>3, <2>4, EventKeepsWait
    <3> QED
      BY <1>2, <3>1 DEF Waits
  <2>5. CASE ticks = 1 /\ Tick
    <3>1. PICK v \in Nat : v = w + 1
      OBVIOUS
    <3>2. waiting'[kind] = v /\ Waits(kind, v)'
      BY <2>2, <2>3, <2>5, <3>1, TickKeepsWait
    <3> QED
      BY <1>2, <3>2 DEF Waits
  <2> QED
    BY <2>4, <2>5
<1>4. CASE waiting[kind] = Off
  <2>1. waiting'[kind] = 0 /\ Burst(kind)'
    BY <1>1, <1>2, <1>4 DEF Waited
  <2>2. WaitsBegin'
    BY NewWait, PTL
  <2>3. Waits(kind, 0)'
    BY <2>1, <2>2 DEF WaitsBegin
  <2> QED
    BY <1>2, <2>1, <2>3 DEF Waits
<1> QED
  BY <1>3, <1>4

\* DeadlineInv is inductive.
LEMMA DeadlineInvInductive == DeadlineInv /\ [WNext]_wvars => DeadlineInv'
<1> SUFFICES ASSUME DeadlineInv, [WNext]_wvars PROVE DeadlineInv'
  OBVIOUS
<1> USE DEF DeadlineInv
<1>1. CASE UNCHANGED wvars
  BY <1>1 DEF wvars, vars, SecurityInv, CheckInv, Exceeds, Elapsed, Armed,
     WaitInv, Waits, Ahead, Alerts
<1>2. ASSUME NEW ticks \in {0, 1}, (ticks = 0 /\ Event) \/ (ticks = 1 /\ Tick), Wait(ticks)
      PROVE  DeadlineInv'
  <2>1. [Next]_vars
    BY <1>2 DEF Event, Recording, Next, CheckStep
  <2>2. SecurityInv'
    BY <2>1, SecurityInvInductive
  <2>3. Armed'
    BY <1>2, ArmedKept
  <2>4. \A kind \in Kind : waiting'[kind] # Off =>
          /\ ~ destroyed' /\ ~ Alerts(kind)'
          /\ waiting'[kind] \in Nat /\ Waits(kind, waiting[kind])'
    BY <1>2, <2>2, WaitKept
  <2>5. waiting' \in [Kind -> Nat \cup {Off}]
    BY <1>2, <2>4 DEF Wait
  <2> QED
    BY <2>2, <2>3, <2>4, <2>5 DEF WaitInv
<1> QED
  BY <1>1, <1>2, HistorySteps

\* Invariant: while a burst waits, the check under way sends its alert, or the
\* next one counts it.
THEOREM DeadlineInvariant == WSpec => []DeadlineInv
BY InitDeadlineInv, DeadlineInvInductive, PTL DEF WSpec

\* The history changes nothing: it watches the monitor and its two callers.
THEOREM HistoryIsTheMonitor == WSpec => AuthSpec
<1>1. [WNext]_wvars => [AuthNext]_vars
  BY DEF WNext, AuthNext, wvars
<1> QED
  BY <1>1, PTL DEF WSpec, AuthSpec, WInit

\* BurstsMeetTheirDeadline: a burst is alerted within the interval and the
\* alerts of the kinds up to its own, however slow Discord is.
THEOREM BurstsAreAlertedInTime == WSpec => []BurstsMeetTheirDeadline
<1>1. DeadlineInv => BurstsMeetTheirDeadline
  <2> SUFFICES ASSUME DeadlineInv, NEW kind \in Kind
               PROVE  waiting[kind] <= Deadline(kind)
    BY DEF BurstsMeetTheirDeadline
  <2>1. CASE waiting[kind] # Off
    <3>1. PICK w \in Nat : w = waiting[kind]
      BY <2>1 DEF DeadlineInv
    <3> QED
      BY <2>1, <3>1, WaitMeetsDeadline DEF DeadlineInv, WaitInv
  <2>2. CASE waiting[kind] = Off
    <3>1. Off = -1 /\ Interval \in Nat /\ AlertLatency \in Nat /\ Place(kind) \in 1..2
      BY DeadlineNumbers, Places DEF DeadlineInv
    <3>2. Deadline(kind) \in Nat
      BY <3>1 DEF Deadline
    <3> QED
      BY <2>2, <3>1, <3>2
  <2> QED
    BY <2>1, <2>2
<1> QED
  BY <1>1, DeadlineInvariant, PTL

=============================================================================
