----------------------------- MODULE QueueProofs -----------------------------
(***************************************************************************)
(* Proofs about the two ordered linked lists of a processor.               *)
(*                                                                         *)
(* The ready queue: its links form the list of ReadyList, for any set of   *)
(* process records: take and enqueue0 (sched.c) make no cycle, follow no   *)
(* stale link and keep the order of priority.                              *)
(*                                                                         *)
(* The timer queue: its descriptors are on the stack of a process that has *)
(* not returned or in a block that is not released, and the timer runs to  *)
(* the first of them (timer.c), for any set of processes and guards.       *)
(***************************************************************************)
EXTENDS RdyQue, Timer, ReadyListProofs, WellFoundedInduction, NaturalsInduction

-----------------------------------------------------------------------------
(* The ready queue (RdyQue).                                               *)

N == Cardinality(Records)

\* The list ends: NULL follows its last element.
At(s, i) == IF i < Len(s) THEN s[i + 1] ELSE NULL

\* Head and next fields spell out the list s.  The next fields of the records
\* that are not in the list can be anything.
Spells(h, nx, s) ==
  /\ h = At(s, 0)
  /\ \A i \in 1..Len(s) : nx[s[i]] = At(s, i)

Inv ==
  /\ list \in Seq(Records)
  /\ head \in Records \cup {NULL}
  /\ next \in [Records -> Records \cup {NULL}]
  /\ IsInjective(list) /\ IsSorted(list)
  /\ Spells(head, next, list)

(* The records, as the proofs use them.                                    *)
LEMMA RecordFacts ==
  /\ NULL \notin Records /\ Pri \in [Records -> Nat]
  /\ IsFiniteSet(Records) /\ N \in Nat
BY RecordsAssumption, FS_CardinalityType DEF N

(* A list without repetitions is no longer than there are records.         *)
LEMMA ShortList ==
  ASSUME NEW s \in Seq(Records), IsInjective(s)
  PROVE  Len(s) \in Nat /\ Len(s) <= N
<1>1. Len(s) \in Nat /\ DOMAIN s = 1..Len(s) /\ s \in [1..Len(s) -> Records]
  BY Elements
<1>2. s \in Injection(1..Len(s), Records)
  BY <1>1 DEF Injection
<1>3. Cardinality(1..Len(s)) <= N
  BY <1>2, FS_Injection, RecordFacts DEF N
<1>4. Cardinality(1..Len(s)) = IF 1 > Len(s) THEN 0 ELSE Len(s) - 1 + 1
  BY <1>1, FS_Interval
<1>. QED BY <1>1, <1>3, <1>4

\* Two walks begin alike and go on alike; they are alike.
GoAlike(M, f, g) ==
  f[0] = g[0] /\ \A i \in 1..M : f[i - 1] = g[i - 1] => f[i] = g[i]
Alike(M, f, g) == \A i \in 0..M : f[i] = g[i]

(* Two walks along the links that begin alike and go on alike are alike.   *)
LEMMA SameWalk ==
  ASSUME NEW M \in Nat, NEW f, NEW g, GoAlike(M, f, g)
  PROVE  Alike(M, f, g)
<1>0. f[0] = g[0] /\ \A i \in 1..M : f[i - 1] = g[i - 1] => f[i] = g[i]
  BY DEF GoAlike
<1> DEFINE P == {i \in 0..M : \A j \in 0..i : f[j] = g[j]}
           c == Cardinality(P)
<1>1. P \in SUBSET (0..M) /\ IsFiniteSet(0..M) /\ Cardinality(0..M) = M + 1
  <2>1. Cardinality(0..M) = (IF 0 > M THEN 0 ELSE M - 0 + 1) /\ IsFiniteSet(0..M)
    BY FS_Interval
  <2>. QED BY <2>1
<1>2. IsFiniteSet(P) /\ c <= M + 1
  BY <1>1, FS_Subset
<1>3. c \in Nat
  BY <1>2, FS_CardinalityType
<1>4. 0 \in P
  <2>1. \A j \in 0..0 : j = 0
    OBVIOUS
  <2>. QED BY <1>0, <2>1
<1>5. ASSUME NEW i \in P PROVE i + 1 <= c
  <2>1. 0..i \in SUBSET P /\ i \in Nat
    OBVIOUS
  <2>2. IsFiniteSet(0..i) /\ Cardinality(0..i) = i + 1
    <3>1. Cardinality(0..i) = (IF 0 > i THEN 0 ELSE i - 0 + 1) /\ IsFiniteSet(0..i)
      BY <2>1, FS_Interval
    <3>. QED BY <2>1, <3>1
  <2>3. Cardinality(0..i) <= c
    BY <1>2, <2>1, FS_Subset
  <2>. QED BY <2>2, <2>3
<1>6. c > 0
  BY <1>3, <1>4, <1>5
<1>7. P = 0..(c - 1)
  <2>1. P \in SUBSET (0..(c - 1))
    <3>1. ASSUME NEW i \in P PROVE i \in 0..(c - 1)
      <4>1. i \in Nat /\ i + 1 <= c
        BY <1>5
      <4>. QED BY <1>3, <4>1
    <3>. QED BY <3>1
  <2>2. IsFiniteSet(0..(c - 1)) /\ Cardinality(0..(c - 1)) = c
    <3>1. c - 1 \in Nat
      BY <1>3, <1>6
    <3>2. /\ Cardinality(0..(c - 1)) = (IF 0 > c - 1 THEN 0 ELSE c - 1 - 0 + 1)
          /\ IsFiniteSet(0..(c - 1))
      BY <3>1, FS_Interval
    <3>. QED BY <1>3, <3>1, <3>2
  <2>. QED BY <2>1, <2>2, FS_Subset
<1>8. c = M + 1
  <2> SUFFICES ASSUME c <= M PROVE FALSE
    BY <1>2, <1>3
  <2>1. c \in 1..M /\ c - 1 \in P
    BY <1>3, <1>6, <1>7
  <2>2. f[c - 1] = g[c - 1]
    <3>1. c - 1 \in 0..(c - 1)
      BY <1>3, <1>6
    <3>. QED BY <2>1, <3>1
  <2>3. f[c] = g[c]
    BY <1>0, <2>1, <2>2
  <2>4. \A j \in 0..c : j = c \/ j \in 0..(c - 1)
    BY <1>3
  <2>5. \A j \in 0..(c - 1) : f[j] = g[j]
    BY <2>1
  <2>6. c \in P
    BY <1>3, <2>1, <2>3, <2>4, <2>5
  <2>7. c + 1 <= c
    BY <1>5, <2>6
  <2>. QED BY <1>3, <2>7
<1>9. ASSUME NEW i \in 0..M PROVE f[i] = g[i]
  <2>1. (M + 1) - 1 = M /\ i \in 0..i
    OBVIOUS
  <2>2. P = 0..M
    <3> HIDE DEF P, c
    <3>. QED BY <1>7, <1>8, <2>1
  <2>3. i \in P
    <3> HIDE DEF P
    <3>. QED BY <2>2
  <2>. QED BY <2>1, <2>3
<1>. QED BY <1>9 DEF Alike

(* What the search sees: the nodes are the elements of the list.           *)
LEMMA NodeIs ==
  ASSUME Inv
  PROVE  DOMAIN node = 0..N /\ \A i \in 0..N : node[i] = At(list, i)
<1> DEFINE g == [i \in 0..N |-> At(list, i)]
<1>0. N \in Nat /\ Len(list) \in Nat /\ Len(list) <= N
  BY ShortList, RecordFacts DEF Inv
<1>1. \A i \in 1..Len(list) : list[i] \in Records
  BY Elements DEF Inv
<1>2. At(list, 0) = head
  BY DEF Inv, Spells
<1>3. ASSUME NEW i \in 1..N
      PROVE  At(list, i) = IF At(list, i - 1) = NULL THEN NULL ELSE next[At(list, i - 1)]
  <2>1. CASE i <= Len(list)
    <3>1. i \in 1..Len(list) /\ i - 1 < Len(list) /\ (i - 1) + 1 = i
      BY <1>0, <2>1
    <3>2. At(list, i - 1) = list[i]
      BY <3>1 DEF At
    <3>3. list[i] # NULL
      BY <1>1, <3>1, RecordFacts
    <3>4. next[list[i]] = At(list, i)
      BY <3>1 DEF Inv, Spells
    <3>. QED BY <3>2, <3>3, <3>4
  <2>2. CASE ~ (i <= Len(list))
    <3>1. ~ (i - 1 < Len(list)) /\ ~ (i < Len(list))
      BY <1>0, <2>2
    <3>. QED BY <3>1 DEF At
  <2>. QED BY <2>1, <2>2
<1>4. ASSUME NEW i \in 0..N
      PROVE  g[i] = IF i = 0 THEN head ELSE IF g[i - 1] = NULL THEN NULL ELSE next[g[i - 1]]
  <2>1. CASE i = 0
    BY <1>2, <2>1
  <2>2. CASE i # 0
    <3>1. i \in 1..N /\ i - 1 \in 0..N
      BY <1>0, <2>2
    <3>2. g[i] = At(list, i) /\ g[i - 1] = At(list, i - 1)
      BY <3>1
    <3>. QED BY <1>3, <2>2, <3>1, <3>2
  <2>. QED BY <2>1, <2>2
<1>5. g = [i \in 0..N |-> IF i = 0 THEN head ELSE IF g[i - 1] = NULL THEN NULL ELSE next[g[i - 1]]]
  BY <1>4
<1> HIDE DEF g
<1>6. node = [i \in 0..N |-> IF i = 0 THEN head
                             ELSE IF node[i - 1] = NULL THEN NULL ELSE next[node[i - 1]]]
  BY <1>5 DEF node, N
<1>7. DOMAIN node = 0..N /\ node[0] = head
  BY <1>0, <1>6
<1>8. ASSUME NEW i \in 1..N
      PROVE  node[i] = IF node[i - 1] = NULL THEN NULL ELSE next[node[i - 1]]
  <2>1. i \in 0..N /\ i # 0
    OBVIOUS
  <2>. QED BY <1>6, <2>1
<1>9. g[0] = head /\ \A i \in 1..N : g[i] = IF g[i - 1] = NULL THEN NULL ELSE next[g[i - 1]]
  BY <1>0, <1>4
<1>10. \A i \in 0..N : node[i] = g[i]
  <2>1. node[0] = g[0] /\ \A i \in 1..N : node[i - 1] = g[i - 1] => node[i] = g[i]
    BY <1>7, <1>8, <1>9
  <2>2. GoAlike(N, node, g)
    BY <2>1 DEF GoAlike
  <2>3. N \in Nat
    BY <1>0
  <2>4. Alike(N, node, g)
    BY <2>2, <2>3, SameWalk
  <2>. QED BY <2>4 DEF Alike
<1>. QED BY <1>7, <1>10 DEF g

(* The search of enqueue0 stops where ReadyList says.                      *)
LEMMA StopIs ==
  ASSUME Inv, NEW p \in Records, NEW i \in DOMAIN node, StopsAt(p, i)
  PROVE  /\ i = Passed(list, p) /\ i \in 0..Len(list)
         /\ node[i] = At(list, i)
         /\ i # 0 => node[i - 1] = list[i] /\ list[i] \in Records
<1> DEFINE k == Passed(list, p)
           n == Len(list)
<1>0. /\ list \in Seq(Records) /\ n \in Nat /\ n <= N /\ N \in Nat
      /\ \A j \in 1..n : list[j] \in Records
  BY ShortList, RecordFacts, Elements DEF Inv
<1>1. /\ k \in 0..n
      /\ \A j \in 1..k : pri_le(p, list[j])
      /\ k < n => ~ pri_le(p, list[k + 1])
  BY <1>0, PassedIs
<1>2. i \in 0..N /\ DOMAIN node = 0..N /\ \A j \in 0..N : node[j] = At(list, j)
  BY NodeIs
<1>3. ASSUME NEW j \in 0..N PROVE GoesOn(p, j) <=> j < n /\ pri_le(p, list[j + 1])
  <2>1. CASE j < n
    <3>1. j + 1 \in 1..n /\ node[j] = list[j + 1]
      BY <1>0, <1>2, <2>1 DEF At
    <3>2. node[j] # NULL
      BY <1>0, <3>1, RecordFacts
    <3>. QED BY <2>1, <3>1, <3>2 DEF GoesOn
  <2>2. CASE ~ (j < n)
    <3>1. node[j] = NULL
      BY <1>2, <2>2 DEF At
    <3>. QED BY <2>2, <3>1 DEF GoesOn
  <2>. QED BY <2>1, <2>2
<1>4. ~ GoesOn(p, i) /\ \A j \in 0..(i - 1) : GoesOn(p, j)
  BY DEF StopsAt
<1> HIDE DEF k, n
<1>5. ~ (i < k)
  <2> SUFFICES ASSUME i < k PROVE FALSE
    OBVIOUS
  <2>1. i + 1 \in 1..k /\ i < n
    BY <1>0, <1>1, <1>2
  <2>. QED BY <1>1, <1>2, <1>3, <1>4, <2>1
<1>6. ~ (i > k)
  <2> SUFFICES ASSUME i > k PROVE FALSE
    OBVIOUS
  <2>1. k \in 0..(i - 1) /\ k \in 0..N
    BY <1>0, <1>1, <1>2
  <2>2. k < n /\ pri_le(p, list[k + 1])
    BY <1>3, <1>4, <2>1
  <2>. QED BY <1>1, <2>2
<1>7. i = k
  BY <1>0, <1>1, <1>2, <1>5, <1>6
<1>8. ASSUME i # 0 PROVE node[i - 1] = list[i] /\ list[i] \in Records
  <2>1. i - 1 \in 0..N /\ i - 1 < n /\ (i - 1) + 1 = i /\ i \in 1..n
    BY <1>0, <1>1, <1>2, <1>7, <1>8
  <2>2. At(list, i - 1) = list[i]
    BY <2>1 DEF At, n
  <2>. QED BY <1>0, <1>2, <2>1, <2>2
<1>. QED BY <1>1, <1>2, <1>7, <1>8 DEF k, n

(* In an ordered list enqueue0 either finds its process before the place   *)
(* it looks for, or does not find it at all.                               *)
LEMMA TwoCases ==
  ASSUME NEW s \in Seq(Records), IsSorted(s), NEW p \in Records
  PROVE  \/ p \notin Range(s) /\ IsInsert(enqueue0(s, p), s, p, Passed(s, p))
         \/ \E d \in 1..Passed(s, p) :
              s[d] = p /\ IsCut(enqueue0(s, p), s, d, Passed(s, p))
<1> DEFINE k == Passed(s, p)
<1>0. /\ k \in 0..Len(s) /\ Len(s) \in Nat
      /\ k < Len(s) => ~ pri_le(p, s[k + 1])
      /\ \A j \in 1..Len(s) : Pri[s[j]] \in Nat
      /\ Pri[p] \in Nat
  BY PassedIs, Priorities, RecordFacts
<1>1. CASE p \notin Range(s)
  BY <1>1, EnqueueShape
<1>2. CASE p \in Range(s)
  <2>1. \A j \in 1..Len(s) : s[j] = p => j <= k
    <3> SUFFICES ASSUME NEW j \in 1..Len(s), s[j] = p, ~ (j <= k) PROVE FALSE
      OBVIOUS
    <3>1. k < Len(s) /\ k + 1 \in 1..Len(s)
      BY <1>0
    <3>2. Pri[s[k + 1]] <= Pri[s[j]]
      <4>1. CASE k + 1 = j
        <5>1. s[k + 1] = s[j]
          BY <4>1
        <5>. QED BY <1>0, <3>1, <5>1
      <4>2. CASE k + 1 # j
        <5>1. k + 1 < j
          BY <1>0, <4>2
        <5>. QED BY <3>1, <5>1 DEF IsSorted
      <4>. QED BY <4>1, <4>2
    <3>. QED BY <1>0, <3>1, <3>2 DEF pri_le
  <2>2. ~ \E m \in 1..Len(s) : s[m] = p /\ k < m
    BY <1>0, <2>1
  <2>. QED BY <1>2, <2>2, EnqueueShape
<1>. QED BY <1>1, <1>2

-----------------------------------------------------------------------------
(* The links after an insertion.                                           *)

\* What the four cases of the insertion do to the fields.
Linking(p, k, s, h, nx, h2, nx2) ==
  /\ nx2[p] = At(s, k)
  /\ k = 0 => h2 = p
  /\ k # 0 => h2 = h /\ (s[k] # p => nx2[s[k]] = p)
  /\ \A r \in Records : r # p /\ (k # 0 => r # s[k]) => nx2[r] = nx[r]

(* A process that was not in the queue.                                    *)
LEMMA InsertSpells ==
  ASSUME NEW s \in Seq(Records), IsInjective(s), NEW p \in Records, p \notin Range(s),
         NEW k \in 0..Len(s), NEW e \in Seq(Records), IsInsert(e, s, p, k),
         NEW h, NEW nx, NEW h2, NEW nx2, Spells(h, nx, s),
         Linking(p, k, s, h, nx, h2, nx2)
  PROVE  Spells(h2, nx2, e)
<1> DEFINE n == Len(s)
<1>0. /\ n \in Nat /\ k \in Nat /\ k <= n
      /\ \A i \in 1..n : s[i] \in Records /\ s[i] # p
      /\ \A i, j \in 1..n : s[i] = s[j] => i = j
  BY Elements DEF IsInjective
<1>1. /\ h = At(s, 0) /\ \A i \in 1..n : nx[s[i]] = At(s, i)
  BY DEF Spells
<1>2. /\ Len(e) = n + 1 /\ e[k + 1] = p
      /\ \A i \in 1..k : e[i] = s[i]
      /\ \A i \in (k + 1)..n : e[i + 1] = s[i]
  BY DEF IsInsert
<1>3. /\ nx2[p] = At(s, k)
      /\ k = 0 => h2 = p
      /\ k # 0 => h2 = h /\ (s[k] # p => nx2[s[k]] = p)
      /\ \A r \in Records : r # p /\ (k # 0 => r # s[k]) => nx2[r] = nx[r]
  BY DEF Linking
<1> HIDE DEF n
<1>4. h2 = At(e, 0)
  <2>1. CASE k = 0
    BY <1>0, <1>2, <1>3, <2>1 DEF At
  <2>2. CASE k # 0
    <3>1. 1 \in 1..k /\ 0 < n /\ 0 < n + 1 /\ 0 + 1 = 1
      BY <1>0, <2>2
    <3>. QED BY <1>1, <1>2, <1>3, <2>2, <3>1 DEF At, n
  <2>. QED BY <2>1, <2>2
<1>5. ASSUME NEW i \in 1..(n + 1) PROVE nx2[e[i]] = At(e, i)
  <2>1. CASE i < k
    <3>1. i \in 1..k /\ i + 1 \in 1..k /\ i \in 1..n /\ k \in 1..n /\ i # k /\ k # 0
          /\ i < n /\ i < n + 1
      BY <1>0, <2>1
    <3>2. s[i] # p /\ s[i] # s[k] /\ s[i] \in Records
      BY <1>0, <3>1
    <3>3. nx2[s[i]] = s[i + 1]
      BY <1>1, <1>3, <3>1, <3>2 DEF At, n
    <3>. QED BY <1>2, <3>1, <3>3 DEF At
  <2>2. CASE i = k
    <3>1. i \in 1..k /\ k # 0 /\ i \in 1..n /\ i < n + 1
      BY <1>0, <2>2
    <3>2. nx2[s[i]] = p
      BY <1>0, <1>3, <2>2, <3>1
    <3>. QED BY <1>2, <2>2, <3>1, <3>2 DEF At
  <2>3. CASE i = k + 1
    <3>1. CASE k < n
      <4>1. k + 1 \in (k + 1)..n /\ i < n + 1 /\ i + 1 = (k + 1) + 1
        BY <1>0, <2>3, <3>1
      <4>2. At(s, k) = s[k + 1] /\ At(e, i) = e[(k + 1) + 1]
        BY <1>2, <3>1, <4>1 DEF At, n
      <4>. QED BY <1>2, <1>3, <2>3, <4>1, <4>2
    <3>2. CASE ~ (k < n)
      <4>1. ~ (i < n + 1)
        BY <1>0, <2>3, <3>2
      <4>. QED BY <1>2, <1>3, <2>3, <3>2, <4>1 DEF At, n
    <3>. QED BY <3>1, <3>2
  <2>4. CASE i > k + 1
    <3>1. i - 1 \in (k + 1)..n /\ (i - 1) + 1 = i /\ i - 1 \in 1..n /\ i - 1 # k
      BY <1>0, <2>4
    <3>2. e[i] = s[i - 1]
      BY <1>2, <3>1
    <3>3. s[i - 1] # p /\ s[i - 1] \in Records /\ (k # 0 => s[i - 1] # s[k])
      <4>1. k # 0 => k \in 1..n
        BY <1>0
      <4>. QED BY <1>0, <3>1, <4>1
    <3>4. nx2[e[i]] = At(s, i - 1)
      BY <1>1, <1>3, <3>1, <3>2, <3>3
    <3>5. At(s, i - 1) = At(e, i)
      <4>1. CASE i - 1 < n
        <5>1. i \in (k + 1)..n /\ i < n + 1
          BY <1>0, <2>4, <4>1
        <5>. QED BY <1>2, <3>1, <4>1, <5>1 DEF At, n
      <4>2. CASE ~ (i - 1 < n)
        <5>1. ~ (i < n + 1)
          BY <1>0, <4>2
        <5>. QED BY <1>2, <4>2, <5>1 DEF At, n
      <4>. QED BY <4>1, <4>2
    <3>. QED BY <3>4, <3>5
  <2>. QED BY <1>0, <2>1, <2>2, <2>3, <2>4
<1>. QED BY <1>2, <1>4, <1>5 DEF Spells

(* A process that was in the queue already: what stood between its old     *)
(* place and its new one is no longer reached.                             *)
LEMMA CutSpells ==
  ASSUME NEW s \in Seq(Records), IsInjective(s), NEW p \in Records,
         NEW k \in 0..Len(s), NEW d \in 1..k, s[d] = p,
         NEW e \in Seq(Records), IsCut(e, s, d, k),
         NEW h, NEW nx, NEW h2, NEW nx2, Spells(h, nx, s),
         Linking(p, k, s, h, nx, h2, nx2)
  PROVE  Spells(h2, nx2, e) /\ IsInjective(e)
<1> DEFINE n == Len(s)
           m == d + (n - k)
<1>0. /\ n \in Nat /\ k \in Nat /\ k <= n /\ d \in Nat /\ d <= k /\ d >= 1 /\ k # 0
      /\ \A i \in 1..n : s[i] \in Records
      /\ \A i, j \in 1..n : s[i] = s[j] => i = j
      /\ k \in 1..n /\ d \in 1..n
  BY Elements DEF IsInjective
<1>1. /\ h = At(s, 0) /\ \A i \in 1..n : nx[s[i]] = At(s, i)
  BY DEF Spells
<1>2. /\ Len(e) = m
      /\ \A i \in 1..d : e[i] = s[i]
      /\ \A i \in 1..(n - k) : e[d + i] = s[k + i]
  BY DEF IsCut
<1>3. /\ nx2[p] = At(s, k)
      /\ h2 = h
      /\ \A r \in Records : r # p /\ r # s[k] => nx2[r] = nx[r]
  BY <1>0 DEF Linking
<1> HIDE DEF n
<1>4. h2 = At(e, 0)
  <2>1. 1 \in 1..d /\ 0 < n /\ 0 < m /\ 0 + 1 = 1
    BY <1>0
  <2>. QED BY <1>1, <1>2, <1>3, <2>1 DEF At, n
<1>5. ASSUME NEW i \in 1..m, i > d
      PROVE  /\ i + (k - d) \in 1..n /\ i + (k - d) > k
             /\ e[i] = s[i + (k - d)]
  <2>1. i - d \in 1..(n - k) /\ d + (i - d) = i /\ k + (i - d) = i + (k - d)
        /\ i + (k - d) \in 1..n /\ i + (k - d) > k
    BY <1>0, <1>5
  <2>. QED BY <1>2, <2>1
<1>6. ASSUME NEW i \in 1..m PROVE nx2[e[i]] = At(e, i)
  <2>1. CASE i < d
    <3>1. i \in 1..d /\ i + 1 \in 1..d /\ i \in 1..n /\ i # k /\ i # d /\ i < n /\ i < m
      BY <1>0, <2>1
    <3>2. s[i] # p /\ s[i] # s[k] /\ s[i] \in Records
      BY <1>0, <3>1
    <3>3. nx2[s[i]] = s[i + 1]
      BY <1>1, <1>3, <3>1, <3>2 DEF At, n
    <3>. QED BY <1>2, <3>1, <3>3 DEF At
  <2>2. CASE i = d
    <3>0. e[i] = p /\ nx2[e[i]] = At(s, k)
      <4>1. i \in 1..d
        BY <1>0, <2>2
      <4>. QED BY <1>2, <1>3, <2>2, <4>1
    <3>1. CASE k < n
      <4>1. 1 \in 1..(n - k) /\ i < m /\ i + 1 = d + 1
        BY <1>0, <2>2, <3>1
      <4>2. At(s, k) = s[k + 1] /\ At(e, i) = e[d + 1]
        BY <1>2, <3>1, <4>1 DEF At, n
      <4>. QED BY <1>2, <3>0, <4>1, <4>2
    <3>2. CASE ~ (k < n)
      <4>1. ~ (i < m)
        BY <1>0, <2>2, <3>2
      <4>. QED BY <1>2, <3>0, <3>2, <4>1 DEF At, n
    <3>. QED BY <3>1, <3>2
  <2>3. CASE i > d
    <3> DEFINE j == i + (k - d)
    <3>1. j \in 1..n /\ j > k /\ e[i] = s[j] /\ j # k /\ j # d
      BY <1>0, <1>5, <2>3
    <3>2. s[j] # p /\ s[j] # s[k] /\ s[j] \in Records
      BY <1>0, <3>1
    <3>3. nx2[e[i]] = At(s, j)
      BY <1>1, <1>3, <3>1, <3>2
    <3>4. At(s, j) = At(e, i)
      <4>1. CASE j < n
        <5>1. i + 1 \in 1..m /\ i + 1 > d /\ i < m /\ (i + 1) + (k - d) = j + 1
          BY <1>0, <2>3, <4>1
        <5>2. e[i + 1] = s[j + 1]
          BY <1>5, <5>1
        <5>. QED BY <1>2, <4>1, <5>1, <5>2 DEF At, n
      <4>2. CASE ~ (j < n)
        <5>1. ~ (i < m)
          BY <1>0, <2>3, <4>2
        <5>. QED BY <1>2, <4>2, <5>1 DEF At, n
      <4>. QED BY <4>1, <4>2
    <3>. QED BY <3>3, <3>4
  <2>. QED BY <1>0, <2>1, <2>2, <2>3
<1>7. ASSUME NEW i \in 1..m, NEW j \in 1..m, e[i] = e[j], i < j PROVE FALSE
  <2>1. CASE j <= d
    <3>1. i \in 1..d /\ j \in 1..d /\ i \in 1..n /\ j \in 1..n /\ i # j
      BY <1>0, <1>7, <2>1
    <3>. QED BY <1>0, <1>2, <1>7, <3>1
  <2>2. CASE ~ (j <= d) /\ i <= d
    <3>1. i \in 1..d /\ i \in 1..n /\ j > d
      BY <1>0, <1>7, <2>2
    <3>2. j + (k - d) \in 1..n /\ e[j] = s[j + (k - d)] /\ j + (k - d) # i
      BY <1>0, <1>5, <2>2, <3>1
    <3>. QED BY <1>0, <1>2, <1>7, <3>1, <3>2
  <2>3. CASE ~ (i <= d)
    <3>1. i > d /\ j > d
      BY <1>0, <1>7, <2>3
    <3>2. /\ i + (k - d) \in 1..n /\ e[i] = s[i + (k - d)]
          /\ j + (k - d) \in 1..n /\ e[j] = s[j + (k - d)]
          /\ i + (k - d) # j + (k - d)
      BY <1>0, <1>5, <1>7, <3>1
    <3>. QED BY <1>0, <1>7, <3>2
  <2>. QED BY <1>0, <2>1, <2>2, <2>3
<1>8. IsInjective(e)
  <2>1. \A i, j \in 1..m : i < j \/ j < i \/ i = j
    BY <1>0
  <2>2. DOMAIN e = 1..m
    BY <1>2, Elements
  <2>. QED BY <1>7, <2>1, <2>2 DEF IsInjective
<1> HIDE DEF m
<1>. QED BY <1>2, <1>4, <1>6, <1>8 DEF Spells

-----------------------------------------------------------------------------
(* The operations.                                                         *)

(* enqueue0 sets the fields as the list requires.                          *)
LEMMA EnqueueLinks ==
  ASSUME Inv, NEW p \in Records, Enqueue0(p)
  PROVE  /\ head' \in Records \cup {NULL} /\ next' \in [Records -> Records \cup {NULL}]
         /\ Linking(p, Passed(list, p), list, head, next, head', next')
<1>1. PICK i \in DOMAIN node :
        /\ StopsAt(p, i)
        /\ Link(p, IF i = 0 THEN NULL ELSE node[i - 1], node[i])
  BY DEF Enqueue0
<1>2. /\ i = Passed(list, p) /\ i \in 0..Len(list)
      /\ node[i] = At(list, i)
      /\ i # 0 => node[i - 1] = list[i] /\ list[i] \in Records
  BY <1>1, StopIs
<1>3. At(list, i) \in Records \cup {NULL}
  <2>1. list \in Seq(Records)
    BY DEF Inv
  <2>2. Len(list) \in Nat /\ \A j \in 1..Len(list) : list[j] \in Records
    BY <2>1, Elements
  <2>3. i < Len(list) => i + 1 \in 1..Len(list)
    BY <1>2, <2>2
  <2>. QED BY <2>2, <2>3 DEF At
<1>4. next \in [Records -> Records \cup {NULL}] /\ head \in Records \cup {NULL}
  BY DEF Inv
<1>5. CASE i = 0
  <2>1. head' = p /\ next' = [next EXCEPT ![p] = At(list, i)]
    BY <1>1, <1>2, <1>5 DEF Link
  <2>. QED BY <1>2, <1>3, <1>4, <1>5, <2>1 DEF Linking
<1>6. CASE i # 0
  <2>1. list[i] \in Records /\ list[i] # NULL
    BY <1>2, <1>6, RecordFacts
  <2>2. head' = head /\ next' = [next EXCEPT ![list[i]] = p, ![p] = At(list, i)]
    BY <1>1, <1>2, <1>6, <2>1 DEF Link
  <2>. QED BY <1>2, <1>3, <1>4, <1>6, <2>1, <2>2 DEF Linking
<1>. QED BY <1>5, <1>6

(* enqueue0 keeps the invariant.                                           *)
LEMMA EnqueueKeeps ==
  ASSUME Inv, NEW p \in Records, Enqueue0(p)
  PROVE  Inv'
<1> DEFINE e == enqueue0(list, p)
           k == Passed(list, p)
<1>1. /\ list \in Seq(Records) /\ IsInjective(list) /\ IsSorted(list)
      /\ Spells(head, next, list)
  BY DEF Inv
<1>2. k \in 0..Len(list) /\ k \in Nat /\ k <= Len(list)
  BY <1>1, PassedIs, PassedBound
<1>3. /\ head' \in Records \cup {NULL} /\ next' \in [Records -> Records \cup {NULL}]
      /\ Linking(p, k, list, head, next, head', next')
  BY EnqueueLinks
<1>4. list' = e /\ e \in Seq(Records) /\ IsSorted(e)
  BY <1>1, EnqueueRange, EnqueueSorted, RecordFacts DEF Enqueue0
<1>5. Spells(head', next', e) /\ IsInjective(e)
  <2>1. CASE p \notin Range(list) /\ IsInsert(e, list, p, k)
    <3> HIDE DEF e, k
    <3>1. Spells(head', next', e)
      BY <1>1, <1>2, <1>3, <1>4, <2>1, InsertSpells
    <3>2. IsInjective(e)
      BY <1>1, <1>2, <1>4, <2>1, InsertRange
    <3>. QED BY <3>1, <3>2
  <2>2. ASSUME NEW d \in 1..k, list[d] = p, IsCut(e, list, d, k)
        PROVE  Spells(head', next', e) /\ IsInjective(e)
    <3> HIDE DEF e, k
    <3>. QED BY <1>1, <1>2, <1>3, <1>4, <2>2, CutSpells
  <2>. QED BY <1>1, <2>1, <2>2, TwoCases
<1> HIDE DEF e
<1>. QED BY <1>3, <1>4, <1>5 DEF Inv

(* take and take1 keep the invariant: the head moves on along a link.      *)
LEMMA TakeKeeps ==
  ASSUME Inv, head # NULL, head' = next[head], list' = Tail(list), UNCHANGED next
  PROVE  Inv'
<1> DEFINE t == Tail(list)
<1>1. /\ list \in Seq(Records) /\ IsInjective(list) /\ IsSorted(list)
      /\ head = At(list, 0) /\ next \in [Records -> Records \cup {NULL}]
      /\ \A i \in 1..Len(list) : next[list[i]] = At(list, i)
  BY DEF Inv, Spells
<1>2. Len(list) \in Nat /\ 0 < Len(list) /\ list # << >> /\ head = list[1]
  <2>1. Len(list) \in Nat /\ (0 < Len(list) => list # << >>)
    BY <1>1, Elements
  <2>2. 0 < Len(list) /\ head = list[0 + 1]
    BY <1>1 DEF At
  <2>. QED BY <2>1, <2>2
<1>3. /\ t \in Seq(Records) /\ Len(t) = Len(list) - 1
      /\ \A i \in 1..Len(t) : t[i] = list[i + 1]
  BY <1>1, <1>2, HeadTailProperties
<1>4. IsInjective(t) /\ IsSorted(t)
  BY <1>1, <1>2, TailRange, TailSorted, RecordFacts
<1> HIDE DEF t
<1>5. ASSUME NEW i \in 0..Len(t) PROVE At(t, i) = At(list, i + 1)
  <2>1. CASE i < Len(t)
    <3>1. i + 1 \in 1..Len(t) /\ i + 1 < Len(list)
      BY <1>2, <1>3, <2>1
    <3>. QED BY <1>3, <2>1, <3>1 DEF At
  <2>2. CASE ~ (i < Len(t))
    <3>1. ~ (i + 1 < Len(list))
      BY <1>2, <1>3, <2>2
    <3>. QED BY <2>2, <3>1 DEF At
  <2>. QED BY <2>1, <2>2
<1>6. next[head] = At(t, 0)
  <2>1. 1 \in 1..Len(list) /\ 0 \in 0..Len(t) /\ 0 + 1 = 1
    BY <1>2, <1>3
  <2>2. next[list[1]] = At(list, 1)
    BY <1>1, <2>1
  <2>. QED BY <1>2, <1>5, <2>1, <2>2
<1>7. ASSUME NEW i \in 1..Len(t) PROVE next[t[i]] = At(t, i)
  <2>1. i + 1 \in 1..Len(list) /\ i \in 0..Len(t)
    BY <1>2, <1>3
  <2>. QED BY <1>1, <1>3, <1>5, <2>1
<1>8. next[head] \in Records \cup {NULL}
  <2>1. 1 \in 1..Len(list)
    BY <1>2
  <2>2. head \in Records
    BY <1>1, <1>2, <2>1, Elements
  <2>. QED BY <1>1, <2>2
<1>. QED BY <1>1, <1>3, <1>4, <1>6, <1>7, <1>8 DEF Inv, Spells, t

(* The invariant holds.                                                    *)
LEMMA InvHolds == Spec => []Inv
<1>1. Init => Inv
  <2> SUFFICES ASSUME Init PROVE Inv
    OBVIOUS
  <2>1. << >> \in Seq(Records) /\ Len(<< >>) = 0 /\ DOMAIN << >> = 1..0 /\ 1..0 = {}
    OBVIOUS
  <2>2. IsInjective(<< >>)
    BY <2>1 DEF IsInjective
  <2>3. IsSorted(<< >>)
    BY <2>1 DEF IsSorted
  <2>4. Spells(NULL, next, << >>)
    BY <2>1 DEF Spells, At
  <2>. QED BY <2>1, <2>2, <2>3, <2>4 DEF Init, Inv
<1>2. Inv /\ [Next]_vars => Inv'
  <2> SUFFICES ASSUME Inv, [Next]_vars PROVE Inv'
    OBVIOUS
  <2>1. CASE UNCHANGED vars
    BY <2>1 DEF Inv, vars
  <2>2. CASE Take \/ Take1
    BY <2>2, TakeKeeps DEF Take, Take1
  <2>. QED BY <2>1, <2>2, EnqueueKeeps DEF Next
<1>. QED BY <1>1, <1>2, PTL DEF Spec

(* The links of the records form the list that Sched works with, whatever  *)
(* the set of records and their priorities: take leaves a stale next field *)
(* behind and enqueue0 may find its process in the queue already           *)
(* (sched.c:174-214, 227-248), yet the links never form a cycle.           *)
THEOREM RdyQueLinked == Spec => []Linked
<1>1. Inv => Linked
  BY NodeIs DEF Linked, At
<1>. QED BY <1>1, InvHolds, PTL

(* The queue is in the order of priority, from the head on.                *)
THEOREM RdyQueOrdered == Spec => []Ordered
<1>1. Inv => Ordered
  <2> SUFFICES ASSUME Inv, NEW i \in DOMAIN node, NEW j \in DOMAIN node, i < j,
                      node[j] # NULL
               PROVE  Pri[node[i]] <= Pri[node[j]]
    BY DEF Ordered
  <2>1. i \in 0..N /\ j \in 0..N /\ node[i] = At(list, i) /\ node[j] = At(list, j)
    BY NodeIs
  <2>2. Len(list) \in Nat /\ IsSorted(list) /\ N \in Nat
    BY RecordFacts, Elements DEF Inv
  <2>3. j < Len(list) /\ i < Len(list)
    BY <2>1, <2>2 DEF At
  <2>4. i + 1 \in 1..Len(list) /\ j + 1 \in 1..Len(list) /\ i + 1 < j + 1
    BY <2>1, <2>2, <2>3
  <2>. QED BY <2>1, <2>2, <2>3, <2>4 DEF At, IsSorted
<1>. QED BY <1>1, InvHolds, PTL

-----------------------------------------------------------------------------
(* The timer queue (Timer).                                                *)

\* The stages of an alternation, and of After, in which a process can be.
AltPCs == {"enable", "allocate", "insertAlt", "altShouldWait", "altAsleep",
           "disable", "release", "altFinish"}
AfterPCs == {"insert", "relinquish", "asleep"}

\* The states of After and of an alternation fit the place of the process.
Stages ==
  \A p \in Procs :
    /\ pc[p] \in AltPCs <=> alt_state[p] # "NONE"
    /\ pc[p] \in AltPCs => Guards[p] > 0
    /\ pc[p] \in AfterPCs => Guards[p] = 0
    /\ pc[p] \in AltPCs \ {"altFinish"} => guard[p] > 0
    /\ alt_state[p] = "WAITING" => pc[p] = "altAsleep"
    /\ pc[p] = "insert" => sched_state[p] = "PREPARING_TO_WAIT" /\ proc[p] = p
    /\ pc[p] = "relinquish" =>
         \/ sched_state[p] = "PREPARING_TO_WAIT"
         \/ sched_state[p] = "READY" /\ now >= time[p]
    /\ pc[p] = "asleep" => sched_state[p] = "WAITING"

\* The queue is in time order, and no descriptor is in it twice.
InTime == \A i, j \in 1..Len(tque) : i < j => time[tque[i]] <= time[tque[j]]
QueueOnce == IsInjective(tque)

\* A process whose own descriptor is in the queue has not been woken for it.
Sleeping ==
  \A d \in Range(tque) : d \in Procs =>
    /\ proc[d] = d
    /\ \/ pc[d] = "relinquish" /\ sched_state[d] = "PREPARING_TO_WAIT"
       \/ pc[d] = "asleep"

\* A block is on the free list, in the queue or in the hand of one process.
InHand(p) == pc[p] \in {"insertAlt", "release"}

FreeBlocks ==
  /\ IsInjective(procmemlist)
  /\ Range(procmemlist) \subseteq 1..tail
  /\ Range(procmemlist) \cap Range(tque) = {}

QueuedBlocks == \A d \in Range(tque) : d \in Blocks => d <= tail /\ proc[d] \in Procs

HeldBlocks ==
  \A p \in Procs : InHand(p) =>
    /\ desc[p] \in 1..tail
    /\ desc[p] \notin Range(tque) /\ desc[p] \notin Range(procmemlist)
    /\ \A q \in Procs : InHand(q) /\ desc[q] = desc[p] => q = p
    /\ pc[p] = "insertAlt" => proc[desc[p]] = p /\ time[desc[p]] = when[p][guard[p]]

\* How many guards of its alternation p has enabled and not yet disabled.
Reach(p) ==
  IF pc[p] \in {"altShouldWait", "altAsleep", "disable"} THEN guard[p]
  ELSE IF pc[p] \in {"enable", "allocate", "insertAlt", "release"} THEN guard[p] - 1
  ELSE 0

\* The blocks queued for p and t are no more than the guards p will disable.
Entries(p, t) == {d \in Range(tque) : d \in Blocks /\ proc[d] = p /\ time[d] = t}
Turns(p, t) == {i \in 1..Reach(p) : when[p][i] = t}
Counted ==
  \A p \in Procs, t \in Times : Cardinality(Entries(p, t)) <= Cardinality(Turns(p, t))

TimerInv ==
  /\ TimerTypeOK
  /\ Stages
  /\ InTime /\ QueueOnce
  /\ Sleeping
  /\ FreeBlocks /\ QueuedBlocks /\ HeldBlocks
  /\ Counted

-----------------------------------------------------------------------------
(* Lists.                                                                  *)

\* e is s without some of its elements.
Thinned(e, s) ==
  /\ \A i \in 1..Len(e) : \E a \in 1..Len(s) : e[i] = s[a]
  /\ \A i, j \in 1..Len(e) :
       i < j => \E a, b \in 1..Len(s) : a < b /\ e[i] = s[a] /\ e[j] = s[b]

(* Taking entries out of the queue keeps its order (timer.c:155-161, 174). *)
LEMMA ThinnedKeeps ==
  ASSUME NEW S, NEW s \in Seq(S), NEW e \in Seq(S), Thinned(e, s)
  PROVE  /\ Range(e) \subseteq Range(s)
         /\ IsInjective(s) => IsInjective(e)
<1>1. /\ DOMAIN s = 1..Len(s) /\ DOMAIN e = 1..Len(e) /\ Len(e) \in Nat /\ Len(s) \in Nat
      /\ \A a \in 1..Len(s) : s[a] \in Range(s)
      /\ \A x \in Range(e) : \E i \in 1..Len(e) : e[i] = x
  BY Elements
<1>2. Range(e) \subseteq Range(s)
  BY <1>1 DEF Thinned
<1>3. ASSUME IsInjective(s), NEW i \in 1..Len(e), NEW j \in 1..Len(e), e[i] = e[j]
      PROVE  i = j
  <2>1. ASSUME NEW x \in 1..Len(e), NEW y \in 1..Len(e), x < y, e[x] = e[y] PROVE FALSE
    <3>1. PICK a \in 1..Len(s), b \in 1..Len(s) : a < b /\ e[x] = s[a] /\ e[y] = s[b]
      BY <2>1 DEF Thinned
    <3>2. a = b
      BY <1>1, <1>3, <2>1, <3>1 DEF IsInjective
    <3>. QED BY <3>1, <3>2
  <2>2. i < j \/ j < i \/ i = j
    BY <1>1
  <2>. QED BY <1>3, <2>1, <2>2
<1>. QED BY <1>1, <1>2, <1>3 DEF IsInjective

(* What stays when the entry at a place is unlinked (timer.c:155-161).     *)
LEMMA WithoutIs ==
  ASSUME TimerTypeOK, NEW m \in 1..Len(tque)
  PROVE  /\ Without(m) \in Seq(Descs)
         /\ Len(Without(m)) = Len(tque) - 1
         /\ \A i \in 1..(m - 1) : Without(m)[i] = tque[i]
         /\ \A i \in m..(Len(tque) - 1) : Without(m)[i] = tque[i + 1]
<1> DEFINE L == SubSeq(tque, 1, m - 1)
           R == SubSeq(tque, m + 1, Len(tque))
<1>0. tque \in Seq(Descs)
  BY DEF TimerTypeOK
<1>1. PICK n \in Nat : n = Len(tque)
  BY <1>0
<1>2. m - 1 \in Nat /\ m - 1 <= Len(tque) /\ m \in Nat /\ m <= Len(tque) /\ m \in 1..n
  BY <1>1
<1>3. L \in Seq(Descs) /\ Len(L) = m - 1 /\ \A i \in 1..(m - 1) : L[i] = tque[i]
  BY <1>0, <1>2, FrontPart
<1>4. R \in Seq(Descs) /\ Back(R, tque, m)
  BY <1>0, <1>2, BackPart
<1> HIDE DEF L, R
<1>5. Len(R) = n - m /\ \A i \in 1..(n - m) : R[i] = tque[m + i]
  BY <1>1, <1>4 DEF Back
<1>6. /\ L \o R \in Seq(Descs) /\ Len(L \o R) = Len(L) + Len(R)
      /\ \A i \in 1..(Len(L) + Len(R)) :
           (L \o R)[i] = IF i <= Len(L) THEN L[i] ELSE R[i - Len(L)]
  BY <1>3, <1>4, ConcatProperties
<1>7. Len(L) + Len(R) = n - 1
  BY <1>1, <1>3, <1>5
<1>8. ASSUME NEW i \in 1..(m - 1) PROVE (L \o R)[i] = tque[i]
  <2>1. i \in 1..(n - 1) /\ i <= m - 1
    BY <1>2
  <2>. QED BY <1>3, <1>6, <1>7, <2>1
<1>9. ASSUME NEW i \in m..(n - 1) PROVE (L \o R)[i] = tque[i + 1]
  <2>1. i \in 1..(n - 1) /\ ~ (i <= m - 1) /\ i - (m - 1) \in 1..(n - m)
        /\ m + (i - (m - 1)) = i + 1
    BY <1>2
  <2>2. (L \o R)[i] = R[i - (m - 1)]
    BY <1>3, <1>6, <1>7, <2>1
  <2>3. R[i - (m - 1)] = tque[m + (i - (m - 1))]
    BY <1>5, <2>1
  <2>. QED BY <2>1, <2>2, <2>3
<1>10. Without(m) = L \o R
  BY DEF Without, L, R
<1>. QED BY <1>1, <1>6, <1>7, <1>8, <1>9, <1>10

(* Unlinking takes out one entry, and only that.                           *)
LEMMA WithoutThins ==
  ASSUME TimerTypeOK, QueueOnce, NEW m \in 1..Len(tque)
  PROVE  /\ Without(m) \in Seq(Descs)
         /\ Thinned(Without(m), tque)
         /\ Range(Without(m)) = Range(tque) \ {tque[m]}
<1> DEFINE e == Without(m)
<1>0. tque \in Seq(Descs) /\ DOMAIN tque = 1..Len(tque)
  BY DEF TimerTypeOK
<1>1. PICK n \in Nat : n = Len(tque)
  BY <1>0, Elements
<1>2. /\ e \in Seq(Descs) /\ Len(e) = n - 1
      /\ \A i \in 1..(m - 1) : e[i] = tque[i]
      /\ \A i \in m..(n - 1) : e[i] = tque[i + 1]
  BY <1>1, WithoutIs
<1> HIDE DEF e
<1>3. ASSUME NEW i \in 1..(n - 1)
      PROVE  \/ i < m /\ i \in 1..n /\ e[i] = tque[i]
             \/ i >= m /\ i + 1 \in 1..n /\ e[i] = tque[i + 1]
  <2>1. CASE i < m
    <3>1. i \in 1..(m - 1) /\ i \in 1..n
      BY <1>1, <2>1
    <3>. QED BY <1>2, <2>1, <3>1
  <2>2. CASE i >= m
    <3>1. i \in m..(n - 1) /\ i + 1 \in 1..n
      BY <1>1, <2>2
    <3>. QED BY <1>2, <2>2, <3>1
  <2>. QED BY <1>1, <2>1, <2>2
<1>4. \A i \in 1..Len(e) : \E a \in 1..Len(tque) : e[i] = tque[a]
  BY <1>1, <1>2, <1>3
<1>5. ASSUME NEW i \in 1..(n - 1), NEW j \in 1..(n - 1), i < j
      PROVE  \E a, b \in 1..n : a < b /\ e[i] = tque[a] /\ e[j] = tque[b]
  <2>1. CASE i < m /\ j < m
    BY <1>3, <1>5, <2>1
  <2>2. CASE i < m /\ j >= m
    <3>1. i < j + 1
      BY <1>5
    <3>. QED BY <1>3, <2>2, <3>1
  <2>3. CASE i >= m /\ j >= m
    <3>1. i + 1 < j + 1 /\ ~ (i < m) /\ ~ (j < m)
      BY <1>5, <2>3
    <3>2. i + 1 \in 1..n /\ e[i] = tque[i + 1]
      BY <1>3, <3>1
    <3>3. j + 1 \in 1..n /\ e[j] = tque[j + 1]
      BY <1>3, <3>1
    <3>. QED BY <3>1, <3>2, <3>3
  <2>. QED BY <1>1, <1>5, <2>1, <2>2, <2>3
<1>6. Thinned(e, tque)
  BY <1>1, <1>2, <1>4, <1>5 DEF Thinned
<1>7. \A i, j \in 1..n : tque[i] = tque[j] => i = j
  BY <1>0, <1>1 DEF QueueOnce, IsInjective
<1>8. ASSUME NEW x \in Range(e) PROVE x # tque[m]
  <2>1. PICK i \in 1..(n - 1) : e[i] = x
    BY <1>2, Elements
  <2>2. m \in 1..n /\ (i < m => i # m) /\ (i >= m => i + 1 # m)
    BY <1>1
  <2>. QED BY <1>3, <1>7, <2>1, <2>2
<1>9. ASSUME NEW x \in Range(tque), x # tque[m] PROVE x \in Range(e)
  <2>1. PICK i \in 1..n : tque[i] = x
    BY <1>0, <1>1, Elements
  <2>2. \A j \in 1..(n - 1) : e[j] \in Range(e)
    BY <1>2, Elements
  <2>3. CASE i < m
    <3>1. i \in 1..(m - 1) /\ i \in 1..(n - 1)
      BY <1>1, <2>3
    <3>. QED BY <1>2, <2>1, <2>2, <3>1
  <2>4. CASE i > m
    <3>1. i - 1 \in m..(n - 1) /\ i - 1 \in 1..(n - 1) /\ (i - 1) + 1 = i
      BY <1>1, <2>4
    <3>2. e[i - 1] = tque[(i - 1) + 1]
      BY <1>2, <3>1
    <3>. QED BY <2>1, <2>2, <3>1, <3>2
  <2>. QED BY <1>1, <1>9, <2>1, <2>3, <2>4
<1>10. Range(e) \subseteq Range(tque)
  BY <1>0, <1>2, <1>6, ThinnedKeeps
<1>. QED BY <1>2, <1>6, <1>8, <1>9, <1>10 DEF e

(* Times are natural numbers.                                              *)
LEMMA TimesAreNat ==
  ASSUME TimerTypeOK
  PROVE  /\ \A d \in Descs : time[d] \in Nat
         /\ now \in Nat /\ MaxTime \in Nat /\ \A t \in Times : t \in Nat
         /\ \A i \in 1..Len(tque) : tque[i] \in Descs /\ time[tque[i]] \in Nat
         /\ Len(tque) \in Nat /\ DOMAIN tque = 1..Len(tque)
<1>1. MaxTime \in Nat /\ \A t \in Times : t \in Nat
  BY TimerAssumption DEF Times
<1>2. tque \in Seq(Descs) /\ time \in [Descs -> Times] /\ now \in Times
  BY DEF TimerTypeOK
<1>3. \A i \in 1..Len(tque) : tque[i] \in Descs
  BY <1>2, Elements
<1>4. Len(tque) \in Nat /\ DOMAIN tque = 1..Len(tque)
  BY <1>2, Elements
<1>. QED BY <1>1, <1>2, <1>3, <1>4

(* The search passes what is not later than t, and stops at the first that *)
(* is (timer.c:97-101, 299).                                               *)
LEMMA EarlierIs ==
  ASSUME TimerTypeOK, InTime, NEW t \in Times
  PROVE  /\ Earlier(t) \in 0..Len(tque)
         /\ \A j \in 1..Earlier(t) : time[tque[j]] <= t
         /\ \A j \in (Earlier(t) + 1)..Len(tque) : time[tque[j]] > t
<1> DEFINE P == {i \in 1..Len(tque) : \A j \in 1..i : time[tque[j]] <= t}
           m == Cardinality(P)
<1>0. /\ \A i \in 1..Len(tque) : time[tque[i]] \in Nat
      /\ Len(tque) \in Nat /\ t \in Nat
  BY TimesAreNat
<1>1. P \in SUBSET (1..Len(tque)) /\ IsFiniteSet(1..Len(tque))
      /\ Cardinality(1..Len(tque)) = Len(tque)
  <2>1. Len(tque) \in Nat
    BY <1>0
  <2>2. IsFiniteSet(1..Len(tque)) /\ Cardinality(1..Len(tque)) = Len(tque)
    BY <2>1, FS_Interval
  <2>. QED BY <2>2
<1>2. IsFiniteSet(P) /\ m <= Len(tque)
  BY <1>1, FS_Subset
<1>3. m \in Nat
  BY <1>2, FS_CardinalityType
<1>4. ASSUME NEW i \in P PROVE i <= m
  <2>1. 1..i \subseteq P /\ i \in Nat
    BY <1>0
  <2>2. IsFiniteSet(1..i) /\ Cardinality(1..i) = i
    BY <2>1, FS_Interval
  <2>. QED BY <1>2, <2>1, <2>2, FS_Subset
<1>5. P = 1..m
  <2>1. P \subseteq 1..m
    BY <1>0, <1>3, <1>4
  <2>2. IsFiniteSet(1..m) /\ Cardinality(1..m) = m
    <3> HIDE DEF P, m
    <3>. QED BY <1>3, FS_Interval
  <2>. QED BY <2>1, <2>2, FS_Subset
<1>6. ASSUME NEW j \in 1..m PROVE time[tque[j]] <= t
  <2>1. j \in P /\ j \in 1..j
    BY <1>5
  <2>. QED BY <2>1
<1>7. ASSUME NEW j \in (m + 1)..Len(tque) PROVE time[tque[j]] > t
  <2>0. m + 1 \in 1..Len(tque) /\ m + 1 \notin 1..m /\ j \in 1..Len(tque)
        /\ (m + 1 < j \/ m + 1 = j)
    BY <1>0, <1>3
  <2>1. PICK i \in 1..(m + 1) : ~ (time[tque[i]] <= t)
    BY <1>5, <2>0
  <2>2. i = m + 1
    BY <1>3, <1>6, <2>1
  <2>3. time[tque[m + 1]] <= time[tque[j]]
    <3>1. CASE m + 1 < j
      BY <2>0, <3>1 DEF InTime
    <3>2. CASE m + 1 = j
      <4>1. tque[m + 1] = tque[j]
        BY <3>2
      <4>. QED BY <1>0, <2>0, <4>1
    <3>. QED BY <2>0, <3>1, <3>2
  <2>4. time[tque[m + 1]] \in Nat /\ time[tque[j]] \in Nat /\ ~ (time[tque[m + 1]] <= t)
    BY <1>0, <2>0, <2>1, <2>2
  <2>. QED BY <1>0, <2>3, <2>4
<1>8. Earlier(t) = m
  BY DEF Earlier
<1> HIDE DEF m
<1>. QED BY <1>0, <1>2, <1>3, <1>6, <1>7, <1>8 DEF m

(* What insertInQueue does: the descriptor is added in its place, and only *)
(* a new head touches the timer (timer.c:91-133).                          *)
LEMMA InsertEffect ==
  ASSUME TimerTypeOK, InTime, QueueOnce, NEW d \in Descs, d \notin Range(tque),
         insertInQueue(d), UNCHANGED <<time, now>>
  PROVE  /\ tque' \in Seq(Descs)
         /\ Range(tque') = Range(tque) \cup {d}
         /\ InTime' /\ QueueOnce'
         /\ armed' \in Times
         /\ \/ Head(tque') = d /\ armed' = IF time[d] > now THEN time[d] ELSE 0
            \/ tque # << >> /\ Head(tque') = Head(tque) /\ armed' = armed
<1> DEFINE n == Earlier(time[d])
           e == SubSeq(tque, 1, n) \o <<d>> \o SubSeq(tque, n + 1, Len(tque))
<1>0. /\ tque \in Seq(Descs) /\ time[d] \in Times /\ now \in Times /\ armed \in Times
      /\ 0 \in Times
  BY TimerAssumption DEF TimerTypeOK, Times
<1>00. /\ time[d] \in Nat /\ now \in Nat
       /\ \A i \in 1..Len(tque) : tque[i] \in Descs /\ time[tque[i]] \in Nat
  BY TimesAreNat
<1>1. PICK l \in Nat : l = Len(tque)
  BY <1>0, Elements
<1>2. /\ n \in Nat /\ n <= l
      /\ \A j \in 1..n : time[tque[j]] <= time[d]
      /\ \A j \in (n + 1)..l : time[tque[j]] > time[d]
  BY <1>0, <1>1, EarlierIs
<1>3. e \in Seq(Descs) /\ IsInsert(e, tque, d, n)
  <2>1. n <= Len(tque)
    BY <1>1, <1>2
  <2> HIDE DEF n
  <2>. QED BY <1>0, <1>2, <2>1, Inserted
<1>4. tque' = e
  BY DEF insertInQueue
<1>5. Range(e) = Range(tque) \cup {d} /\ e # << >>
  <2>1. n <= Len(tque)
    BY <1>1, <1>2
  <2> HIDE DEF n, e
  <2>. QED BY <1>0, <1>2, <1>3, <2>1, InsertRange
<1>5a. /\ n = 0 => armed' = IF time[d] > now THEN time[d] ELSE 0
       /\ n # 0 => armed' = armed
  <2>1. n = 0 => armed' = IF time[d] - now > 0 THEN now + (time[d] - now) ELSE 0
    BY DEF insertInQueue, set_timer_single
  <2>2. n # 0 => armed' = armed
    BY DEF insertInQueue
  <2>3. time[d] - now > 0 <=> time[d] > now
    BY <1>00
  <2>4. now + (time[d] - now) = time[d]
    BY <1>00
  <2>. QED BY <2>1, <2>2, <2>3, <2>4
<1> HIDE DEF n, e
<1>6. /\ Len(e) = l + 1 /\ e[n + 1] = d
      /\ \A i \in 1..n : e[i] = tque[i]
      /\ \A i \in (n + 1)..l : e[i + 1] = tque[i]
  BY <1>1, <1>3 DEF IsInsert
<1>7. ASSUME NEW i \in 1..(l + 1)
      PROVE  \/ i <= n /\ i \in 1..l /\ e[i] = tque[i]
             \/ i = n + 1 /\ e[i] = d
             \/ i > n + 1 /\ i - 1 \in 1..l /\ i - 1 \in (n + 1)..l /\ e[i] = tque[i - 1]
  <2>1. CASE i <= n
    BY <1>1, <1>2, <1>6, <2>1
  <2>2. CASE i > n + 1
    <3>1. i - 1 \in (n + 1)..l /\ (i - 1) + 1 = i /\ i - 1 \in 1..l
      BY <1>1, <1>2, <2>2
    <3>. QED BY <1>6, <2>2, <3>1
  <2>. QED BY <1>1, <1>2, <1>6, <2>1, <2>2
<1>8. \A i \in 1..l : tque[i] # d
  <2>1. \A i \in 1..Len(tque) : tque[i] \in Range(tque)
    BY <1>0, Elements
  <2>. QED BY <1>1, <2>1
<1>9. ASSUME NEW i \in 1..(l + 1), NEW j \in 1..(l + 1), i < j
      PROVE  e[i] # e[j] /\ time[e[i]] <= time[e[j]]
  <2>0. /\ \A a, b \in 1..l : tque[a] = tque[b] => a = b
        /\ \A a, b \in 1..l : a < b => time[tque[a]] <= time[tque[b]]
        /\ \A a \in 1..l : time[tque[a]] \in Nat
    BY <1>00, <1>1, TimesAreNat DEF QueueOnce, IsInjective, InTime
  <2>1. CASE i <= n /\ j <= n
    <3>1. i \in 1..l /\ e[i] = tque[i]
      BY <1>2, <1>7, <2>1
    <3>2. j \in 1..l /\ e[j] = tque[j]
      BY <1>2, <1>7, <2>1
    <3>. QED BY <1>9, <2>0, <3>1, <3>2
  <2>2. CASE i <= n /\ j = n + 1
    <3>1. i \in 1..n /\ i \in 1..l /\ e[i] = tque[i] /\ e[j] = d
      BY <1>2, <1>6, <1>7, <2>2
    <3>. QED BY <1>2, <1>8, <3>1
  <2>3. CASE i <= n /\ j > n + 1
    <3>1. i \in 1..l /\ e[i] = tque[i]
      BY <1>2, <1>7, <2>3
    <3>2. j - 1 \in 1..l /\ e[j] = tque[j - 1]
      BY <1>2, <1>7, <2>3
    <3>3. i < j - 1
      BY <1>2, <2>3
    <3>. QED BY <2>0, <3>1, <3>2, <3>3
  <2>4. CASE i = n + 1
    <3>1. e[i] = d /\ j > n + 1
      BY <1>2, <1>6, <1>9, <2>4
    <3>2. j - 1 \in 1..l /\ j - 1 \in (n + 1)..l /\ e[j] = tque[j - 1]
      BY <1>2, <1>7, <3>1
    <3>3. time[tque[j - 1]] > time[d] /\ tque[j - 1] # d /\ time[tque[j - 1]] \in Nat
      BY <1>2, <1>8, <2>0, <3>2
    <3>. QED BY <1>00, <3>1, <3>2, <3>3
  <2>5. CASE i > n + 1
    <3>0. j > n + 1
      BY <1>2, <1>9, <2>5
    <3>1. i - 1 \in 1..l /\ e[i] = tque[i - 1]
      BY <1>2, <1>7, <2>5
    <3>2. j - 1 \in 1..l /\ e[j] = tque[j - 1]
      BY <1>2, <1>7, <3>0
    <3>3. i - 1 < j - 1
      BY <1>9
    <3>. QED BY <2>0, <3>1, <3>2, <3>3
  <2>. QED BY <1>1, <1>2, <1>9, <2>1, <2>2, <2>3, <2>4, <2>5
<1>10. InTime'
  BY <1>4, <1>6, <1>9 DEF InTime
<1>11. QueueOnce'
  <2>1. DOMAIN e = 1..(l + 1)
    BY <1>3, <1>6, Elements
  <2>2. \A i, j \in 1..(l + 1) : i < j \/ j < i \/ i = j
    BY <1>1
  <2>3. IsInjective(e)
    BY <1>9, <2>1, <2>2 DEF IsInjective
  <2>. QED BY <1>4, <2>3 DEF QueueOnce
<1>12. Head(e) = e[1]
  BY <1>3, <1>5
<1>13. CASE n = 0
  BY <1>0, <1>3, <1>4, <1>5, <1>5a, <1>6, <1>10, <1>11, <1>12, <1>13
<1>14. CASE n # 0
  <2>1. 1 \in 1..n /\ Len(tque) > 0
    BY <1>1, <1>2, <1>14
  <2>2. tque # << >> /\ Head(tque) = tque[1]
    BY <1>0, <2>1, Elements
  <2>3. e[1] = tque[1]
    BY <1>6, <2>1
  <2>. QED BY <1>0, <1>3, <1>4, <1>5, <1>5a, <1>10, <1>11, <1>12, <1>14, <2>2, <2>3
<1>. QED BY <1>13, <1>14

(* The first of some places.                                               *)
LEMMA FirstPlace ==
  ASSUME NEW T, T \subseteq Nat, T # {}
  PROVE  \E x \in T : \A y \in T : x <= y
<1>1. PICK x \in T : \A y \in T : ~ (<<y, x>> \in OpToRel(<, Nat))
  BY NatLessThanWellFounded, WFMin
<1>2. ASSUME NEW y \in T PROVE x <= y
  <2>1. ~ (y < x)
    BY <1>1 DEF OpToRel
  <2>. QED BY <2>1
<1>. QED BY <1>2

(* The search of removeFromQueue ends at one entry, or there is no entry   *)
(* for the process and the time (timer.c:141-153).                         *)
LEMMA SearchIs ==
  ASSUME TimerTypeOK, InTime, NEW t \in Times, NEW p
  PROVE  /\ \A m \in 1..Len(tque) : Matches(m, t, p) => SearchEnds(t, p) # {}
         /\ \A m \in SearchEnds(t, p) : m = CHOOSE i \in SearchEnds(t, p) : TRUE
<1>0. /\ \A i \in 1..Len(tque) : time[tque[i]] \in Nat
      /\ Len(tque) \in Nat /\ t \in Nat
  BY TimesAreNat
<1> DEFINE Stop(i) == time[tque[i]] > t \/ Matches(i, t, p)
           T == {i \in 1..Len(tque) : Stop(i)}
<1>1. \A i \in 1..Len(tque) :
        ~ Stop(i) <=> time[tque[i]] < t \/ (time[tque[i]] = t /\ proc[tque[i]] # p)
  BY <1>0 DEF Matches
<1>2. ASSUME NEW m \in 1..Len(tque), Matches(m, t, p) PROVE SearchEnds(t, p) # {}
  <2>1. T \subseteq Nat /\ T # {}
    BY <1>0, <1>2
  <2>2. PICK x \in T : \A y \in T : x <= y
    BY <2>1, FirstPlace
  <2>3. \A j \in 1..(x - 1) : j \in 1..Len(tque) /\ j \notin T
    BY <1>0, <2>2
  <2>4. \A j \in 1..(x - 1) :
          time[tque[j]] < t \/ (time[tque[j]] = t /\ proc[tque[j]] # p)
    BY <1>1, <2>3
  <2>5. x \in SearchEnds(t, p)
    BY <2>2, <2>4 DEF SearchEnds, Matches
  <2>. QED BY <2>5
<1>3. ASSUME NEW m \in SearchEnds(t, p), NEW i \in SearchEnds(t, p), m < i PROVE FALSE
  <2>1. m \in 1..(i - 1) /\ m \in 1..Len(tque) /\ Stop(m)
    BY <1>0, <1>3 DEF SearchEnds, Matches
  <2>2. ~ Stop(m)
    BY <1>1, <2>1 DEF SearchEnds
  <2>. QED BY <2>1, <2>2
<1>4. \A m, i \in SearchEnds(t, p) : m = i
  <2>1. \A m, i \in SearchEnds(t, p) : m < i \/ i < m \/ m = i
    BY <1>0 DEF SearchEnds
  <2>. QED BY <1>3, <2>1
<1>. QED BY <1>2, <1>4

(* The order of the queue when some of its entries are gone.               *)
LEMMA ThinnedInTime ==
  ASSUME TimerTypeOK, InTime, QueueOnce, tque' \in Seq(Descs), Thinned(tque', tque),
         UNCHANGED time
  PROVE  /\ InTime' /\ QueueOnce'
         /\ Range(tque') \subseteq Range(tque)
         /\ tque' # << >> => tque # << >> /\ time[Head(tque)] <= time[Head(tque')]
<1>0. tque \in Seq(Descs)
  BY DEF TimerTypeOK
<1>1. InTime'
  BY DEF InTime, Thinned
<1>2. QueueOnce' /\ Range(tque') \subseteq Range(tque)
  BY <1>0, ThinnedKeeps DEF QueueOnce
<1>3. ASSUME tque' # << >>
      PROVE  tque # << >> /\ time[Head(tque)] <= time[Head(tque')]
  <2>1. 1 \in 1..Len(tque') /\ Head(tque') = tque'[1]
    BY <1>3, Elements
  <2>2. PICK a \in 1..Len(tque) : tque'[1] = tque[a]
    BY <2>1 DEF Thinned
  <2>3. Len(tque) \in Nat /\ tque # << >> /\ time[tque[a]] \in Nat
    BY <1>0, <2>2, TimesAreNat
  <2>4. Head(tque) = tque[1] /\ 1 \in 1..Len(tque)
    BY <1>0, <2>2, <2>3
  <2>5. time[tque[1]] <= time[tque[a]]
    <3>1. CASE a = 1
      BY <2>3, <3>1
    <3>2. CASE a # 1
      BY <2>3, <2>4, <3>2 DEF InTime
    <3>. QED BY <3>1, <3>2
  <2>. QED BY <2>1, <2>2, <2>3, <2>4, <2>5
<1>. QED BY <1>1, <1>2, <1>3

(* What removeFromQueue does for a process that finds its own entry, or    *)
(* none (timer.c:136-170).                                                 *)
LEMMA UnlinkEffect ==
  ASSUME TimerTypeOK, InTime, QueueOnce, NEW t \in Times, NEW p \in Procs,
         SearchEnds(t, p) # {} => Matches(CHOOSE i \in SearchEnds(t, p) : TRUE, t, p),
         tque' = Unlinked(t, p), UNCHANGED <<time>>
  PROVE  /\ tque' \in Seq(Descs)
         /\ InTime' /\ QueueOnce'
         /\ tque' # << >> => tque # << >> /\ time[Head(tque)] <= time[Head(tque')]
         /\ Found(t, p) # Nil =>
              /\ Found(t, p) \in Range(tque) /\ Found(t, p) \in Descs
              /\ time[Found(t, p)] = t /\ proc[Found(t, p)] = p
              /\ Range(tque') = Range(tque) \ {Found(t, p)}
         /\ Found(t, p) = Nil =>
              /\ tque' = tque
              /\ \A d \in Range(tque) : ~ (time[d] = t /\ proc[d] = p)
<1>0. tque \in Seq(Descs) /\ Nil \notin Descs
  BY TimerAssumption DEF TimerTypeOK, Descs, Blocks
<1>1. CASE SearchEnds(t, p) = {}
  <2>1. tque' = tque /\ Found(t, p) = Nil
    BY <1>1 DEF Unlinked, Found
  <2>2. \A m \in 1..Len(tque) : ~ Matches(m, t, p)
    BY <1>1, SearchIs
  <2>3. \A d \in Range(tque) : ~ (time[d] = t /\ proc[d] = p)
    BY <1>0, <2>2, Elements DEF Matches
  <2>4. tque # << >> => time[Head(tque)] <= time[Head(tque)]
    <3>1. ASSUME tque # << >> PROVE time[Head(tque)] \in Nat
      <4>1. Head(tque) \in Descs
        BY <1>0, <3>1
      <4>. QED BY <4>1, TimesAreNat
    <3>. QED BY <3>1
  <2>. QED BY <1>0, <2>1, <2>3, <2>4 DEF InTime, QueueOnce
<1>2. CASE SearchEnds(t, p) # {}
  <2> DEFINE m == CHOOSE i \in SearchEnds(t, p) : TRUE
  <2>1. m \in SearchEnds(t, p) /\ m \in 1..Len(tque) /\ Matches(m, t, p)
    BY <1>2 DEF SearchEnds
  <2>2. tque' = Without(m) /\ Found(t, p) = tque[m]
    BY <1>2, <2>1 DEF Unlinked, Found
  <2> HIDE DEF m
  <2>3. /\ tque' \in Seq(Descs) /\ Thinned(tque', tque)
        /\ Range(tque') = Range(tque) \ {tque[m]}
    BY <2>1, <2>2, WithoutThins
  <2>4. /\ InTime' /\ QueueOnce'
        /\ tque' # << >> => tque # << >> /\ time[Head(tque)] <= time[Head(tque')]
    BY <2>3, ThinnedInTime
  <2>5. tque[m] \in Range(tque) /\ tque[m] \in Descs
    BY <1>0, <2>1, Elements
  <2>. QED BY <1>0, <2>1, <2>2, <2>3, <2>4, <2>5 DEF Matches
<1>. QED BY <1>1, <1>2

(* What the loop of the handler leaves in the queue (timer.c:298-320).     *)
LEMMA DropEffect ==
  ASSUME TimerTypeOK, InTime, QueueOnce, UNCHANGED time,
         tque' = SubSeq(tque, Due + 1, Len(tque))
  PROVE  /\ tque' \in Seq(Descs)
         /\ InTime' /\ QueueOnce'
         /\ Range(tque') \subseteq Range(tque)
         /\ \A d \in Range(tque') : time[d] > now /\ \A i \in 1..Due : tque[i] # d
         /\ \A i \in 1..Due : tque[i] \in Range(tque) /\ time[tque[i]] <= now
         /\ \A d \in Range(tque) : d \in Range(tque') \/ \E i \in 1..Due : tque[i] = d
<1> DEFINE n == Due
           e == SubSeq(tque, n + 1, Len(tque))
<1>0. tque \in Seq(Descs) /\ now \in Times
  BY DEF TimerTypeOK
<1>1. PICK l \in Nat : l = Len(tque)
  BY <1>0, Elements
<1>2. /\ n \in Nat /\ n <= l
      /\ \A j \in 1..n : time[tque[j]] <= now
      /\ \A j \in (n + 1)..l : time[tque[j]] > now
  BY <1>0, <1>1, EarlierIs DEF Due
<1>3. e \in Seq(Descs) /\ Back(e, tque, n)
  <2>1. n <= Len(tque)
    BY <1>1, <1>2
  <2> HIDE DEF n
  <2>. QED BY <1>0, <1>2, <2>1, BackPart
<1>4. tque' = e
  OBVIOUS
<1> HIDE DEF n, e
<1>5. Len(e) = l - n /\ \A i \in 1..(l - n) : e[i] = tque[n + i]
  BY <1>1, <1>3 DEF Back
<1>6. \A i \in 1..(l - n) : n + i \in 1..l /\ n + i \in (n + 1)..l
  BY <1>1, <1>2
<1>7. Thinned(e, tque)
  <2>1. \A i, j \in 1..(l - n) : i < j => n + i < n + j
    BY <1>2
  <2>2. \A i \in 1..Len(e) : \E a \in 1..Len(tque) : e[i] = tque[a]
    BY <1>1, <1>5, <1>6
  <2>3. ASSUME NEW i \in 1..(l - n), NEW j \in 1..(l - n), i < j
        PROVE  \E a, b \in 1..l : a < b /\ e[i] = tque[a] /\ e[j] = tque[b]
    <3>1. n + i \in 1..l /\ n + j \in 1..l /\ n + i < n + j
      BY <1>6, <2>1, <2>3
    <3>2. e[i] = tque[n + i] /\ e[j] = tque[n + j]
      BY <1>5
    <3>. QED BY <3>1, <3>2
  <2>. QED BY <1>1, <1>5, <2>2, <2>3 DEF Thinned
<1>8. InTime' /\ QueueOnce' /\ Range(tque') \subseteq Range(tque)
  BY <1>3, <1>4, <1>7, ThinnedInTime
<1>9. ASSUME NEW d \in Range(e) PROVE time[d] > now /\ \A i \in 1..n : tque[i] # d
  <2>1. PICK j \in 1..(l - n) : e[j] = d
    BY <1>3, <1>5, Elements
  <2>2. n + j \in (n + 1)..l /\ d = tque[n + j] /\ n + j \in 1..l
    BY <1>5, <1>6, <2>1
  <2>3. \A i \in 1..n : i # n + j /\ i \in 1..l
    BY <1>2
  <2>4. \A a, b \in 1..l : tque[a] = tque[b] => a = b
    BY <1>0, <1>1, Elements DEF QueueOnce, IsInjective
  <2>. QED BY <1>2, <2>2, <2>3, <2>4
<1>10. ASSUME NEW i \in 1..n PROVE tque[i] \in Range(tque) /\ time[tque[i]] <= now
  <2>1. i \in 1..Len(tque)
    BY <1>1, <1>2
  <2>. QED BY <1>0, <1>2, <2>1, Elements
<1>11. ASSUME NEW d \in Range(tque) PROVE d \in Range(e) \/ \E i \in 1..n : tque[i] = d
  <2>1. PICK a \in 1..l : tque[a] = d
    BY <1>0, <1>1, Elements
  <2>2. CASE a <= n
    BY <1>2, <2>1, <2>2
  <2>3. CASE ~ (a <= n)
    <3>1. a - n \in 1..(l - n) /\ n + (a - n) = a
      BY <1>1, <1>2, <2>3
    <3>2. e[a - n] = d
      BY <1>5, <2>1, <3>1
    <3>3. a - n \in 1..Len(e)
      BY <1>5, <3>1
    <3>. QED BY <1>3, <3>2, <3>3, Elements
  <2>. QED BY <2>2, <2>3
<1>. QED BY <1>3, <1>4, <1>8, <1>9, <1>10, <1>11 DEF n

-----------------------------------------------------------------------------
(* The parts of the invariant that most steps leave alone.                 *)

(* Descriptors are processes or blocks, and never both.                    *)
LEMMA DescFacts ==
  /\ Descs = Procs \cup Blocks /\ Procs \cap Blocks = {} /\ Nil \notin Descs
  /\ \A b \in Blocks : b \in Nat /\ b >= 1 /\ b <= MaxBlocks
  /\ IsFiniteSet(Blocks) /\ MaxBlocks \in Nat
<1>1. MaxBlocks \in Nat /\ Procs \cap (1..MaxBlocks) = {} /\ Nil \notin Procs \cup (1..MaxBlocks)
  BY TimerAssumption
<1>2. IsFiniteSet(1..MaxBlocks)
  BY <1>1, FS_Interval
<1>. QED BY <1>1, <1>2 DEF Descs, Blocks

(* The number of guards enabled is a number.                               *)
LEMMA ReachType ==
  ASSUME TimerTypeOK, NEW p \in Procs
  PROVE  Reach(p) \in Int
BY DEF Reach, TimerTypeOK

(* Both sides of the count are finite.                                     *)
LEMMA CountFinite ==
  ASSUME TimerTypeOK, NEW p \in Procs, NEW t
  PROVE  /\ IsFiniteSet(Entries(p, t)) /\ IsFiniteSet(Turns(p, t))
         /\ Cardinality(Entries(p, t)) \in Nat /\ Cardinality(Turns(p, t)) \in Nat
<1>1. Entries(p, t) \in SUBSET Blocks /\ Turns(p, t) \in SUBSET (1..Reach(p))
  BY DEF Entries, Turns
<1>2. IsFiniteSet(1..Reach(p))
  BY ReachType, FS_Interval
<1>3. IsFiniteSet(Entries(p, t)) /\ IsFiniteSet(Turns(p, t))
  BY <1>1, <1>2, DescFacts, FS_Subset
<1>. QED BY <1>3, FS_CardinalityType

\* The count for one process and one time.
CountedAt(p, t) == Cardinality(Entries(p, t)) <= Cardinality(Turns(p, t))

(* Fewer entries and more guards keep the count.                           *)
LEMMA CountKeeps ==
  ASSUME TimerTypeOK, TimerTypeOK', NEW p \in Procs, NEW t, CountedAt(p, t),
         \/ Entries(p, t)' = {}
         \/ Entries(p, t)' \subseteq Entries(p, t) /\ Turns(p, t) \subseteq Turns(p, t)'
  PROVE  CountedAt(p, t)'
<1> DEFINE E == Entries(p, t)
           T == Turns(p, t)
<1>1. IsFiniteSet(E) /\ IsFiniteSet(T) /\ Cardinality(E) \in Nat /\ Cardinality(T) \in Nat
  BY CountFinite
<1>2. IsFiniteSet(E') /\ IsFiniteSet(T') /\ Cardinality(E') \in Nat /\ Cardinality(T') \in Nat
  <2>1. E' \in SUBSET Blocks /\ T' \in SUBSET (1..Reach(p)')
    BY DEF Entries, Turns
  <2>2. Reach(p)' \in Int
    BY DEF Reach, TimerTypeOK
  <2>3. IsFiniteSet(1..Reach(p)')
    BY <2>2, FS_Interval
  <2> HIDE DEF E, T
  <2>4. IsFiniteSet(E') /\ IsFiniteSet(T')
    BY <2>1, <2>3, DescFacts, FS_Subset
  <2>. QED BY <2>4, FS_CardinalityType
<1>3. Cardinality(E) <= Cardinality(T)
  BY DEF CountedAt
<1>4. E' = {} \/ (E' \subseteq E /\ T \subseteq T')
  OBVIOUS
<1> HIDE DEF E, T
<1>5. CASE E' = {}
  <2>1. Cardinality(E') = 0
    BY <1>5, FS_EmptySet
  <2>2. Cardinality(E') <= Cardinality(T')
    BY <1>2, <2>1
  <2>. QED BY <2>2 DEF CountedAt, E, T
<1>6. CASE E' \subseteq E /\ T \subseteq T'
  <2>1. Cardinality(E') <= Cardinality(E) /\ Cardinality(T) <= Cardinality(T')
    BY <1>1, <1>2, <1>6, FS_Subset
  <2>2. Cardinality(E') <= Cardinality(T')
    BY <1>1, <1>2, <1>3, <2>1
  <2>. QED BY <2>2 DEF CountedAt, E, T
<1>. QED BY <1>4, <1>5, <1>6

\* p has not lost a guard it has enabled.
ReachKept(p) == Reach(p) <= 0 \/ (when'[p] = when[p] /\ Reach(p) <= Reach(p)')

(* A guard that is enabled stays enabled.                                  *)
LEMMA TurnsKept ==
  ASSUME TimerTypeOK, TimerTypeOK', NEW p \in Procs, NEW t, ReachKept(p)
  PROVE  Turns(p, t) \subseteq Turns(p, t)'
<1>0. Reach(p) \in Int
  BY ReachType
<1>1. Reach(p) \in Int /\ Reach(p)' \in Int
  <2>1. pc'[p] \in PCs /\ guard'[p] \in Nat
    BY DEF TimerTypeOK
  <2>2. Reach(p)' \in Int
    BY <2>1 DEF Reach
  <2>. QED BY <1>0, <2>2
<1>2. CASE Reach(p) <= 0
  BY <1>1, <1>2 DEF Turns
<1>3. CASE when'[p] = when[p] /\ Reach(p) <= Reach(p)'
  BY <1>1, <1>3 DEF Turns
<1>. QED BY <1>2, <1>3 DEF ReachKept

\* p has no more in its hands than before.
HandKept(p) ==
  InHand(p)' => InHand(p) /\ pc'[p] = pc[p] /\ when'[p] = when[p] /\ guard'[p] = guard[p]

(* A step that changes neither the queue nor a descriptor nor the memory.  *)
LEMMA QuietStep ==
  ASSUME TimerInv, UNCHANGED <<tque, time, proc, desc, procmemlist, tail>>,
         TimerTypeOK', Stages', Sleeping',
         \A p \in Procs : HandKept(p) /\ ReachKept(p)
  PROVE  TimerInv'
<1>0. TimerTypeOK
  BY DEF TimerInv
<1>1. InTime' /\ QueueOnce'
  BY DEF TimerInv, InTime, QueueOnce
<1>2. FreeBlocks' /\ QueuedBlocks'
  BY DEF TimerInv, FreeBlocks, QueuedBlocks
<1>3. HeldBlocks'
  <2> SUFFICES ASSUME NEW p \in Procs, InHand(p)'
               PROVE  HeldBlocks!(p)!2'
    BY DEF HeldBlocks
  <2>1. /\ InHand(p) /\ pc'[p] = pc[p] /\ when'[p] = when[p] /\ guard'[p] = guard[p]
        /\ \A q \in Procs : InHand(q)' => InHand(q)
    BY DEF HandKept
  <2>. QED BY <2>1 DEF HeldBlocks, TimerInv
<1>4. Counted'
  <2> SUFFICES ASSUME NEW p \in Procs, NEW t \in Times PROVE CountedAt(p, t)'
    BY DEF Counted, CountedAt, Times
  <2>1. Entries(p, t)' = Entries(p, t)
    BY DEF Entries
  <2>2. Turns(p, t) \subseteq Turns(p, t)'
    BY <1>0, TurnsKept
  <2>3. CountedAt(p, t)
    BY DEF TimerInv, Counted, CountedAt
  <2>. QED BY <1>0, <2>1, <2>2, <2>3, CountKeeps
<1>. QED BY <1>1, <1>2, <1>3, <1>4 DEF TimerInv

-----------------------------------------------------------------------------
(* The steps that change neither the queue nor a descriptor.               *)

(* Time passes.                                                            *)
LEMMA TickKeeps ==
  ASSUME TimerInv, Tick
  PROVE  TimerInv'
<1>0. TimerTypeOK /\ Stages /\ Sleeping
  BY DEF TimerInv
<1>1. now \in Nat /\ now' = now + 1 /\ now' \in Times /\ MaxTime \in Nat
  BY <1>0, TimesAreNat DEF Tick, Times
<1>2. /\ UNCHANGED <<tque, time, proc, armed, pending, sched_state, alt_state, pc>>
      /\ UNCHANGED <<when, guard, desc, procmemlist, tail>>
  BY DEF Tick, memory
<1>3. TimerTypeOK'
  BY <1>0, <1>1, <1>2 DEF TimerTypeOK
<1>4. Stages'
  <2>1. \A p \in Procs : time[p] \in Nat
    BY <1>0, TimesAreNat, DescFacts
  <2>. QED BY <1>0, <1>1, <1>2, <2>1 DEF Stages
<1>5. Sleeping'
  BY <1>0, <1>2 DEF Sleeping
<1>6. \A p \in Procs : HandKept(p)
  BY <1>2 DEF HandKept, InHand
<1>7. \A p \in Procs : ReachKept(p)
  <2>1. \A p \in Procs : Reach(p)' = Reach(p) /\ Reach(p) \in Int
    BY <1>0, <1>2, ReachType DEF Reach
  <2>. QED BY <1>2, <2>1 DEF ReachKept
<1>. QED BY <1>2, <1>3, <1>4, <1>5, <1>6, <1>7, QuietStep

(* The timer expires.                                                      *)
LEMMA ExpireKeeps ==
  ASSUME TimerInv, Expire
  PROVE  TimerInv'
<1>0. TimerTypeOK /\ Stages /\ Sleeping /\ 0 \in Times
  BY TimerAssumption DEF TimerInv, Times
<1>2. /\ UNCHANGED <<now, tque, time, proc, sched_state, alt_state, pc>>
      /\ UNCHANGED <<when, guard, desc, procmemlist, tail>>
  BY DEF Expire, memory
<1>3. TimerTypeOK'
  BY <1>0, <1>2 DEF TimerTypeOK, Expire
<1>4. Stages' /\ Sleeping'
  BY <1>0, <1>2 DEF Stages, Sleeping
<1>6. \A p \in Procs : HandKept(p)
  BY <1>2 DEF HandKept, InHand
<1>7. \A p \in Procs : ReachKept(p)
  <2>1. \A p \in Procs : Reach(p)' = Reach(p) /\ Reach(p) \in Int
    BY <1>0, <1>2, ReachType DEF Reach
  <2>. QED BY <1>2, <2>1 DEF ReachKept
<1>. QED BY <1>2, <1>3, <1>4, <1>6, <1>7, QuietStep

(* After waits, or goes on when its time has come (sched.c:408-445).       *)
LEMMA RelinquishKeeps ==
  ASSUME TimerInv, NEW p \in Procs, Relinquish(p)
  PROVE  TimerInv'
<1>0. TimerTypeOK /\ Stages /\ Sleeping
  BY DEF TimerInv
<1>2. /\ UNCHANGED <<now, armed, pending, tque, time, proc>>
      /\ UNCHANGED <<alt_state, when, guard, desc, procmemlist, tail>>
  BY DEF Relinquish, clock, memory
<1>3. TimerTypeOK'
  BY <1>0, <1>2 DEF TimerTypeOK, PCs, Relinquish
<1>4. Stages'
  BY <1>0, <1>2, DescFacts DEF TimerTypeOK, Stages, AltPCs, AfterPCs, PCs, Relinquish
<1>5. Sleeping'
  <2> SUFFICES ASSUME NEW d \in Range(tque), d \in Procs
               PROVE  /\ proc[d] = d
                      /\ \/ pc'[d] = "relinquish" /\ sched_state'[d] = "PREPARING_TO_WAIT"
                         \/ pc'[d] = "asleep"
    BY <1>2 DEF Sleeping
  <2>1. CASE d = p
    BY <1>0, <2>1 DEF Relinquish, Sleeping, TimerTypeOK
  <2>2. CASE d # p
    BY <1>0, <2>2 DEF Relinquish, Sleeping, TimerTypeOK
  <2>. QED BY <2>1, <2>2
<1>6. \A q \in Procs : HandKept(q)
  BY <1>0, <1>2 DEF TimerTypeOK, HandKept, InHand, Relinquish
<1>7. \A q \in Procs : ReachKept(q)
  <2>1. \A q \in Procs : Reach(q) \in Int
    BY <1>0, ReachType
  <2>2. \A q \in Procs \ {p} : Reach(q)' = Reach(q) /\ when'[q] = when[q]
    BY <1>0, <1>2 DEF TimerTypeOK, Reach, Relinquish
  <2>3. ReachKept(p)
    BY <1>0, <1>2, <2>1 DEF TimerTypeOK, Stages, AltPCs, ReachKept, Reach, Relinquish
  <2>. QED BY <2>1, <2>2, <2>3 DEF ReachKept
<1>. QED BY <1>2, <1>3, <1>4, <1>5, <1>6, <1>7, QuietStep

(* fairSelect begins (alt.c:158-172).                                      *)
LEMMA SelectKeeps ==
  ASSUME TimerInv, NEW p \in Procs, NEW ts \in [1..Guards[p] -> Times], Select(p, ts)
  PROVE  TimerInv'
<1>0. TimerTypeOK /\ Stages /\ Sleeping
  BY DEF TimerInv
<1>2. /\ UNCHANGED <<now, armed, pending, tque, time>>
      /\ UNCHANGED <<proc, sched_state, desc, procmemlist, tail>>
  BY DEF Select, Go, clock, memory
<1>3. TimerTypeOK'
  <2>1. ts \in UNION {[1..Guards[q] -> Times] : q \in Procs}
    OBVIOUS
  <2>2. /\ when' \in [Procs -> UNION {[1..Guards[q] -> Times] : q \in Procs}]
        /\ \A q \in Procs : when'[q] \in [1..Guards[q] -> Times]
    BY <1>0, <2>1 DEF TimerTypeOK, Select
  <2>3. guard' \in [Procs -> Nat] /\ \A q \in Procs : guard'[q] <= Guards[q]
    BY <1>0, TimerAssumption DEF TimerTypeOK, Select
  <2>. QED BY <1>0, <1>2, <2>2, <2>3 DEF TimerTypeOK, PCs, Select, Go
<1>4. Stages'
  BY <1>0, <1>2, DescFacts DEF TimerTypeOK, Stages, AltPCs, AfterPCs, PCs, Select, Go
<1>5. Sleeping'
  BY <1>0, <1>2 DEF TimerTypeOK, Stages, AltPCs, AfterPCs, Sleeping, Select, Go
<1>6. \A q \in Procs : HandKept(q)
  BY <1>0, <1>2 DEF TimerTypeOK, HandKept, InHand, Select, Go
<1>7. \A q \in Procs : ReachKept(q)
  <2>1. \A q \in Procs : Reach(q) \in Int
    BY <1>0, ReachType
  <2>2. \A q \in Procs \ {p} : Reach(q)' = Reach(q) /\ when'[q] = when[q]
    BY <1>0, <1>2 DEF TimerTypeOK, Reach, Select, Go
  <2>3. ReachKept(p)
    BY <1>0, <1>2, <2>1 DEF TimerTypeOK, Stages, AltPCs, ReachKept, Reach, Select, Go
  <2>. QED BY <2>1, <2>2, <2>3 DEF ReachKept
<1>. QED BY <1>2, <1>3, <1>4, <1>5, <1>6, <1>7, QuietStep

(* enable_timeout reads the clock (timer.c:209).                           *)
LEMMA EnableTestKeeps ==
  ASSUME TimerInv, NEW p \in Procs, EnableTest(p)
  PROVE  TimerInv'
<1>0. TimerTypeOK /\ Stages /\ Sleeping
  BY DEF TimerInv
<1>2. /\ UNCHANGED <<now, armed, pending, tque, time, proc>>
      /\ UNCHANGED <<sched_state, alt_state, when, guard, desc, procmemlist, tail>>
  BY DEF EnableTest, clock, memory
<1>3. TimerTypeOK'
  BY <1>0, <1>2 DEF TimerTypeOK, PCs, EnableTest
<1>4. Stages'
  BY <1>0, <1>2, DescFacts DEF TimerTypeOK, Stages, AltPCs, AfterPCs, PCs, EnableTest
<1>5. Sleeping'
  BY <1>0, <1>2 DEF TimerTypeOK, Stages, AltPCs, AfterPCs, Sleeping, EnableTest
<1>6. \A q \in Procs : HandKept(q)
  BY <1>0, <1>2 DEF TimerTypeOK, HandKept, InHand, EnableTest
<1>7. \A q \in Procs : ReachKept(q)
  <2>1. \A q \in Procs : Reach(q) \in Int
    BY <1>0, ReachType
  <2>2. \A q \in Procs \ {p} : Reach(q)' = Reach(q) /\ when'[q] = when[q]
    BY <1>0, <1>2 DEF TimerTypeOK, Reach, EnableTest
  <2>3. ReachKept(p)
    BY <1>0, <1>2, <2>1 DEF TimerTypeOK, Stages, AltPCs, ReachKept, Reach, EnableTest
  <2>. QED BY <2>1, <2>2, <2>3 DEF ReachKept
<1>. QED BY <1>2, <1>3, <1>4, <1>5, <1>6, <1>7, QuietStep

(* The exchange of altShouldWait (alt.c:211-217).                          *)
LEMMA AltShouldWaitKeeps ==
  ASSUME TimerInv, NEW p \in Procs, AltShouldWait(p)
  PROVE  TimerInv'
<1>0. TimerTypeOK /\ Stages /\ Sleeping
  BY DEF TimerInv
<1>2. /\ UNCHANGED <<now, armed, pending, tque, time, proc>>
      /\ UNCHANGED <<sched_state, when, guard, desc, procmemlist, tail>>
  BY DEF AltShouldWait, clock, memory
<1>3. TimerTypeOK'
  BY <1>0, <1>2 DEF TimerTypeOK, PCs, AltShouldWait
<1>4. Stages'
  BY <1>0, <1>2, DescFacts DEF TimerTypeOK, Stages, AltPCs, AfterPCs, PCs, AltShouldWait
<1>5. Sleeping'
  BY <1>0, <1>2 DEF TimerTypeOK, Stages, AltPCs, AfterPCs, Sleeping, AltShouldWait
<1>6. \A q \in Procs : HandKept(q)
  BY <1>0, <1>2 DEF TimerTypeOK, HandKept, InHand, AltShouldWait
<1>7. \A q \in Procs : ReachKept(q)
  <2>1. \A q \in Procs : Reach(q) \in Int
    BY <1>0, ReachType
  <2>2. \A q \in Procs \ {p} : Reach(q)' = Reach(q) /\ when'[q] = when[q]
    BY <1>0, <1>2 DEF TimerTypeOK, Reach, AltShouldWait
  <2>3. ReachKept(p)
    BY <1>0, <1>2, <2>1 DEF TimerTypeOK, Stages, AltPCs, ReachKept, Reach, AltShouldWait
  <2>. QED BY <2>1, <2>2, <2>3 DEF ReachKept
<1>. QED BY <1>2, <1>3, <1>4, <1>5, <1>6, <1>7, QuietStep

(* fairSelect ends (alt.c:311-314).                                        *)
LEMMA AltFinishKeeps ==
  ASSUME TimerInv, NEW p \in Procs, AltFinish(p)
  PROVE  TimerInv'
<1>0. TimerTypeOK /\ Stages /\ Sleeping
  BY DEF TimerInv
<1>2. /\ UNCHANGED <<now, armed, pending, tque, time, proc>>
      /\ UNCHANGED <<sched_state, when, guard, desc, procmemlist, tail>>
  BY DEF AltFinish, Go, clock, memory
<1>3. TimerTypeOK'
  BY <1>0, <1>2 DEF TimerTypeOK, PCs, AltFinish, Go
<1>4. Stages'
  BY <1>0, <1>2, DescFacts DEF TimerTypeOK, Stages, AltPCs, AfterPCs, PCs, AltFinish, Go
<1>5. Sleeping'
  BY <1>0, <1>2 DEF TimerTypeOK, Stages, AltPCs, AfterPCs, Sleeping, AltFinish, Go
<1>6. \A q \in Procs : HandKept(q)
  BY <1>0, <1>2 DEF TimerTypeOK, HandKept, InHand, AltFinish, Go
<1>7. \A q \in Procs : ReachKept(q)
  <2>1. \A q \in Procs : Reach(q) \in Int
    BY <1>0, ReachType
  <2>2. \A q \in Procs \ {p} : Reach(q)' = Reach(q) /\ when'[q] = when[q]
    BY <1>0, <1>2 DEF TimerTypeOK, Reach, AltFinish, Go
  <2>3. ReachKept(p)
    BY <1>0, <1>2, <2>1 DEF TimerTypeOK, Stages, AltPCs, ReachKept, Reach, AltFinish, Go
  <2>. QED BY <2>1, <2>2, <2>3 DEF ReachKept
<1>. QED BY <1>2, <1>3, <1>4, <1>5, <1>6, <1>7, QuietStep

(* A channel guard becomes ready (alt.c:256-290).                          *)
LEMMA CommunicateKeeps ==
  ASSUME TimerInv, NEW p \in Procs, Communicate(p)
  PROVE  TimerInv'
<1>0. TimerTypeOK /\ Stages /\ Sleeping
  BY DEF TimerInv
<1>2. /\ UNCHANGED <<now, armed, pending, tque, time, proc>>
      /\ UNCHANGED <<sched_state, when, guard, desc, procmemlist, tail>>
  BY DEF Communicate, clock, memory
<1>3. TimerTypeOK'
  BY <1>0, <1>2 DEF TimerTypeOK, PCs, Communicate
<1>4. Stages'
  BY <1>0, <1>2, DescFacts DEF TimerTypeOK, Stages, AltPCs, AfterPCs, PCs, Communicate
<1>5. Sleeping'
  BY <1>0, <1>2 DEF TimerTypeOK, Stages, AltPCs, AfterPCs, Sleeping, Communicate
<1>6. \A q \in Procs : HandKept(q)
  BY <1>0, <1>2 DEF TimerTypeOK, HandKept, InHand, Communicate
<1>7. \A q \in Procs : ReachKept(q)
  <2>1. \A q \in Procs : Reach(q) \in Int
    BY <1>0, ReachType
  <2>2. \A q \in Procs \ {p} : Reach(q)' = Reach(q) /\ when'[q] = when[q]
    BY <1>0, <1>2 DEF TimerTypeOK, Reach, Communicate
  <2>3. ReachKept(p)
    BY <1>0, <1>2, <2>1 DEF TimerTypeOK, Stages, AltPCs, ReachKept, Reach, Communicate
  <2>. QED BY <2>1, <2>2, <2>3 DEF ReachKept
<1>. QED BY <1>2, <1>3, <1>4, <1>5, <1>6, <1>7, QuietStep

-----------------------------------------------------------------------------
(* The steps that change the queue or a descriptor.                        *)

(* The count when the queue only loses entries.                            *)
LEMMA CountedThin ==
  ASSUME TimerInv, TimerTypeOK', Range(tque') \subseteq Range(tque),
         \A d \in Range(tque) : d \in Blocks => time'[d] = time[d] /\ proc'[d] = proc[d],
         NEW p \in Procs, NEW t \in Times, ReachKept(p)
  PROVE  CountedAt(p, t)'
<1>0. TimerTypeOK
  BY DEF TimerInv
<1>1. Entries(p, t)' \subseteq Entries(p, t)
  BY DEF Entries
<1>2. Turns(p, t) \subseteq Turns(p, t)'
  BY <1>0, TurnsKept
<1>3. CountedAt(p, t)
  BY DEF TimerInv, Counted, CountedAt
<1>. QED BY <1>0, <1>1, <1>2, <1>3, CountKeeps

(* After fills in the descriptor on its stack (timer.c:184-193).           *)
LEMMA AfterKeeps ==
  ASSUME TimerInv, NEW p \in Procs, NEW t \in Times, After(p, t)
  PROVE  TimerInv'
<1>0. TimerTypeOK /\ Stages /\ Sleeping
  BY DEF TimerInv
<1>1. p \in Descs /\ p \notin Blocks
  BY DescFacts
<1>2. /\ UNCHANGED <<now, armed, pending, tque, alt_state, when, guard, desc>>
      /\ UNCHANGED <<procmemlist, tail>>
  BY DEF After, clock, memory
<1>3. p \notin Range(tque)
  BY <1>0 DEF Sleeping, After, Go
<1>4. \A d \in Descs : d # p => time'[d] = time[d] /\ proc'[d] = proc[d]
  BY <1>0 DEF TimerTypeOK, After
<1>5. tque \in Seq(Descs) /\ \A i \in 1..Len(tque) : tque[i] \in Range(tque) /\ tque[i] \in Descs
  BY <1>0, Elements DEF TimerTypeOK
<1>6. TimerTypeOK'
  BY <1>0, <1>1, <1>2 DEF TimerTypeOK, PCs, After, Go
<1>7. Stages'
  BY <1>0, <1>1, <1>2, <1>4, DescFacts DEF TimerTypeOK, Stages, AltPCs, AfterPCs, PCs, After, Go
<1>8. InTime'
  <2>1. \A i \in 1..Len(tque) : time'[tque[i]] = time[tque[i]]
    BY <1>3, <1>4, <1>5
  <2>. QED BY <1>2, <2>1 DEF TimerInv, InTime
<1>9. QueueOnce' /\ FreeBlocks'
  BY <1>2 DEF TimerInv, QueueOnce, FreeBlocks
<1>10. Sleeping'
  BY <1>0, <1>2, <1>3, <1>4, DescFacts DEF TimerTypeOK, Sleeping, After, Go
<1>11. QueuedBlocks'
  BY <1>1, <1>2, <1>4, DescFacts DEF TimerInv, QueuedBlocks
<1>12. HeldBlocks'
  <2> SUFFICES ASSUME NEW q \in Procs, InHand(q)'
               PROVE  HeldBlocks!(q)!2'
    BY DEF HeldBlocks
  <2>1. /\ InHand(q) /\ pc'[q] = pc[q]
        /\ \A r \in Procs : InHand(r)' => InHand(r)
    BY <1>0 DEF TimerTypeOK, InHand, After, Go
  <2>2. desc[q] \in Blocks /\ desc[q] \in Descs /\ desc[q] # p
    <3>1. desc[q] \in 1..tail /\ tail \in 0..MaxBlocks
      BY <1>0, <2>1 DEF TimerInv, HeldBlocks, TimerTypeOK
    <3>. QED BY <1>1, <3>1, DescFacts DEF Blocks
  <2>. QED BY <1>2, <1>4, <2>1, <2>2 DEF HeldBlocks, TimerInv
<1>13. Counted'
  <2> SUFFICES ASSUME NEW q \in Procs, NEW u \in Times PROVE CountedAt(q, u)'
    BY DEF Counted, CountedAt, Times
  <2>1. Range(tque') \subseteq Range(tque)
    BY <1>2
  <2>2. \A d \in Range(tque) : d \in Blocks => time'[d] = time[d] /\ proc'[d] = proc[d]
    BY <1>1, <1>4, DescFacts
  <2>3. Reach(q)' = Reach(q) /\ Reach(q) \in Int
    BY <1>0, <1>2, ReachType DEF TimerTypeOK, Reach, After, Go
  <2>4. ReachKept(q)
    BY <1>2, <2>3 DEF ReachKept
  <2>. QED BY <1>6, <2>1, <2>2, <2>4, CountedThin
<1>. QED BY <1>6, <1>7, <1>8, <1>9, <1>10, <1>11, <1>12, <1>13 DEF TimerInv

(* After puts its descriptor into the queue (timer.c:194).                 *)
LEMMA AfterInsertKeeps ==
  ASSUME TimerInv, NEW p \in Procs, AfterInsert(p)
  PROVE  TimerInv'
<1>0. TimerTypeOK /\ Stages /\ Sleeping /\ InTime /\ QueueOnce
  BY DEF TimerInv
<1>1. p \in Descs /\ p \notin Blocks
  BY DescFacts
<1>2. /\ UNCHANGED <<now, pending, time, proc, sched_state, alt_state, when, guard, desc>>
      /\ UNCHANGED <<procmemlist, tail>>
  BY DEF AfterInsert, memory
<1>3. p \notin Range(tque)
  BY <1>0 DEF Sleeping, AfterInsert, Go
<1>4. /\ tque' \in Seq(Descs) /\ Range(tque') = Range(tque) \cup {p}
      /\ InTime' /\ QueueOnce' /\ armed' \in Times
  BY <1>0, <1>1, <1>2, <1>3, InsertEffect DEF AfterInsert
<1>5. pc[p] = "insert" /\ pc' = [pc EXCEPT ![p] = "relinquish"]
  BY DEF AfterInsert, Go
<1>6. TimerTypeOK'
  BY <1>0, <1>2, <1>4, <1>5 DEF TimerTypeOK, PCs
<1>7. Stages'
  BY <1>0, <1>2, <1>5 DEF TimerTypeOK, Stages, AltPCs, AfterPCs, PCs
<1>8. Sleeping'
  BY <1>0, <1>2, <1>4, <1>5 DEF TimerTypeOK, Sleeping, Stages
<1>9. Range(procmemlist) \subseteq Blocks
  BY <1>0, DescFacts DEF TimerInv, FreeBlocks, Blocks, TimerTypeOK
<1>10. FreeBlocks' /\ QueuedBlocks'
  BY <1>1, <1>2, <1>4, <1>9 DEF TimerInv, FreeBlocks, QueuedBlocks
<1>11. HeldBlocks'
  <2> SUFFICES ASSUME NEW q \in Procs, InHand(q)'
               PROVE  HeldBlocks!(q)!2'
    BY DEF HeldBlocks
  <2>1. /\ InHand(q) /\ pc'[q] = pc[q]
        /\ \A r \in Procs : InHand(r)' => InHand(r)
    BY <1>0, <1>5 DEF TimerTypeOK, InHand
  <2>2. desc[q] \in Blocks /\ desc[q] # p
    <3>1. desc[q] \in 1..tail /\ tail \in 0..MaxBlocks
      BY <1>0, <2>1 DEF TimerInv, HeldBlocks, TimerTypeOK
    <3>. QED BY <1>1, <3>1, DescFacts DEF Blocks
  <2>. QED BY <1>2, <1>4, <2>1, <2>2 DEF HeldBlocks, TimerInv
<1>12. Counted'
  <2> SUFFICES ASSUME NEW q \in Procs, NEW u \in Times PROVE CountedAt(q, u)'
    BY DEF Counted, CountedAt, Times
  <2>1. Entries(q, u)' \subseteq Entries(q, u)
    BY <1>1, <1>2, <1>4 DEF Entries
  <2>2. Reach(q)' = Reach(q) /\ Reach(q) \in Int
    BY <1>0, <1>2, <1>5, ReachType DEF TimerTypeOK, Reach
  <2>3. Turns(q, u) \subseteq Turns(q, u)'
    BY <1>2, <2>2 DEF Turns
  <2>4. CountedAt(q, u)
    BY DEF TimerInv, Counted, CountedAt
  <2>. QED BY <1>0, <1>6, <2>1, <2>3, <2>4, CountKeeps
<1>. QED BY <1>4, <1>6, <1>7, <1>8, <1>10, <1>11, <1>12 DEF TimerInv

(* allocate_mem hands out a block that nobody has (memory.c:65-93).        *)
LEMMA AllocateKeeps ==
  ASSUME TimerInv, NEW p \in Procs, Allocate(p)
  PROVE  TimerInv'
<1> DEFINE b == IF procmemlist # << >> THEN Head(procmemlist) ELSE tail + 1
<1>0. TimerTypeOK /\ Stages /\ Sleeping /\ FreeBlocks /\ QueuedBlocks /\ HeldBlocks
  BY DEF TimerInv
<1>1. /\ pc[p] = "allocate" /\ pc' = [pc EXCEPT ![p] = "insertAlt"]
      /\ time' = [time EXCEPT ![b] = when[p][guard[p]]]
      /\ proc' = [proc EXCEPT ![b] = p]
      /\ desc' = [desc EXCEPT ![p] = b]
      /\ UNCHANGED <<now, armed, pending, tque, sched_state, alt_state, when, guard>>
  BY DEF Allocate, Go, clock
<1>2. /\ tail \in Nat /\ tail <= MaxBlocks /\ procmemlist \in Seq(Descs)
      /\ tque \in Seq(Descs) /\ MaxBlocks \in Nat
  BY <1>0, DescFacts DEF TimerTypeOK
<1>3. /\ b \in Blocks /\ b \notin Range(tque) /\ b \notin Range(procmemlist')
      /\ b <= tail' /\ tail <= tail' /\ tail' \in 0..MaxBlocks
      /\ Range(procmemlist') \subseteq Range(procmemlist)
      /\ procmemlist' \in Seq(Descs) /\ IsInjective(procmemlist')
      /\ \A q \in Procs : InHand(q) => desc[q] # b
  <2>1. CASE procmemlist # << >>
    <3>1. procmemlist' = Tail(procmemlist) /\ tail' = tail /\ b = Head(procmemlist)
      BY <2>1 DEF Allocate
    <3>2. /\ b \in Range(procmemlist) /\ procmemlist' \in Seq(Descs)
          /\ Range(procmemlist) = {b} \cup Range(procmemlist')
          /\ b \notin Range(procmemlist') /\ IsInjective(procmemlist')
      BY <1>0, <1>2, <2>1, <3>1, TailRange DEF FreeBlocks
    <3> HIDE DEF b
    <3>3. b \in 1..tail /\ b \notin Range(tque)
      BY <1>0, <3>2 DEF FreeBlocks
    <3>4. \A q \in Procs : InHand(q) => desc[q] # b
      BY <1>0, <3>2 DEF HeldBlocks
    <3>. QED BY <1>2, <3>1, <3>2, <3>3, <3>4 DEF Blocks
  <2>2. CASE procmemlist = << >>
    <3>1. tail < MaxBlocks /\ tail' = tail + 1 /\ procmemlist' = procmemlist /\ b = tail + 1
      BY <2>2 DEF Allocate
    <3> HIDE DEF b
    <3>2. b \in Blocks /\ b > tail
      BY <1>2, <3>1 DEF Blocks
    <3>3. b \notin Range(tque)
      BY <1>0, <1>2, <3>2, DescFacts DEF QueuedBlocks
    <3>4. b \notin Range(procmemlist)
      BY <1>0, <1>2, <3>2 DEF FreeBlocks
    <3>5. \A q \in Procs : InHand(q) => desc[q] # b
      BY <1>0, <1>2, <3>2 DEF HeldBlocks
    <3>. QED BY <1>0, <1>2, <3>1, <3>2, <3>3, <3>4, <3>5 DEF FreeBlocks
  <2>. QED BY <2>1, <2>2
<1> HIDE DEF b
<1>4. b \in Descs /\ b \notin Procs
  BY <1>3, DescFacts
<1>5. when[p][guard[p]] \in Times /\ guard[p] \in 1..Guards[p]
  <2>1. pc[p] \in AltPCs \ {"altFinish"}
    BY <1>1 DEF AltPCs
  <2>2. guard[p] \in Nat /\ guard[p] > 0 /\ Guards[p] \in Nat /\ guard[p] <= Guards[p]
    BY <1>0, <2>1, TimerAssumption DEF TimerTypeOK, Stages
  <2>3. guard[p] \in 1..Guards[p] /\ when[p] \in [1..Guards[p] -> Times]
    BY <1>0, <2>2 DEF TimerTypeOK
  <2>. QED BY <2>3
<1>6. TimerTypeOK'
  BY <1>0, <1>1, <1>3, <1>4, <1>5 DEF TimerTypeOK, PCs
<1>7. \A d \in Descs : d # b => time'[d] = time[d] /\ proc'[d] = proc[d]
  BY <1>0, <1>1 DEF TimerTypeOK
<1>8. \A i \in 1..Len(tque) : tque[i] \in Range(tque) /\ tque[i] \in Descs
  BY <1>2, Elements
<1>9. Stages'
  <2>1. \A q \in Procs : time'[q] = time[q] /\ proc'[q] = proc[q]
    BY <1>4, <1>7, DescFacts
  <2>. QED BY <1>0, <1>1, <2>1 DEF TimerTypeOK, Stages, AltPCs, AfterPCs, PCs
<1>10. InTime' /\ QueueOnce'
  <2>1. \A i \in 1..Len(tque) : time'[tque[i]] = time[tque[i]]
    BY <1>3, <1>7, <1>8
  <2>. QED BY <1>1, <2>1 DEF TimerInv, InTime, QueueOnce
<1>11. Sleeping'
  <2>1. \A d \in Range(tque) : d \in Procs => proc'[d] = proc[d] /\ pc'[d] = pc[d]
    BY <1>0, <1>1, <1>4, <1>7, DescFacts DEF Sleeping, TimerTypeOK
  <2>. QED BY <1>0, <1>1, <2>1 DEF Sleeping
<1>12. FreeBlocks'
  <2>1. \A x \in Range(procmemlist') : x \in 1..tail'
    BY <1>0, <1>2, <1>3 DEF FreeBlocks
  <2>. QED BY <1>0, <1>1, <1>3, <2>1 DEF FreeBlocks
<1>13. QueuedBlocks'
  <2> SUFFICES ASSUME NEW d \in Range(tque), d \in Blocks PROVE d <= tail' /\ proc'[d] \in Procs
    BY <1>1 DEF QueuedBlocks
  <2>1. d <= tail /\ proc[d] \in Procs /\ proc'[d] = proc[d] /\ d \in Nat
    BY <1>0, <1>3, <1>7, DescFacts DEF QueuedBlocks
  <2>. QED BY <1>2, <1>3, <2>1 DEF Blocks
<1>14. HeldBlocks'
  <2>0. \A q \in Procs : q # p => desc'[q] = desc[q] /\ pc'[q] = pc[q] /\ (InHand(q)' <=> InHand(q))
    BY <1>0, <1>1 DEF TimerTypeOK, InHand
  <2>1. desc'[p] = b
    BY <1>0, <1>1 DEF TimerTypeOK
  <2> SUFFICES ASSUME NEW q \in Procs, InHand(q)'
               PROVE  HeldBlocks!(q)!2'
    BY DEF HeldBlocks
  <2>2. CASE q = p
    <3>1. b \in 1..tail'
      BY <1>2, <1>3, DescFacts
    <3>2. \A r \in Procs : InHand(r)' /\ desc'[r] = b => r = p
      BY <1>3, <2>0
    <3>3. proc'[b] = p /\ time'[b] = when[p][guard[p]]
      BY <1>0, <1>1, <1>4 DEF TimerTypeOK
    <3>. QED BY <1>1, <1>3, <2>1, <2>2, <3>1, <3>2, <3>3
  <2>3. CASE q # p
    <3>1. InHand(q) /\ desc'[q] = desc[q] /\ desc[q] # b /\ pc'[q] = pc[q]
      BY <1>3, <2>0, <2>3
    <3>2. /\ desc[q] \in 1..tail /\ desc[q] \notin Range(tque) /\ desc[q] \notin Range(procmemlist)
          /\ \A r \in Procs : InHand(r) /\ desc[r] = desc[q] => r = q
          /\ pc[q] = "insertAlt" => proc[desc[q]] = q /\ time[desc[q]] = when[q][guard[q]]
      BY <1>0, <3>1 DEF HeldBlocks
    <3>3. desc[q] \in 1..tail' /\ desc[q] \in Descs
      BY <1>2, <1>3, <3>2, DescFacts DEF Blocks
    <3>4. \A r \in Procs : InHand(r)' /\ desc'[r] = desc[q] => r = q
      BY <2>0, <2>1, <3>1, <3>2
    <3>5. desc[q] \notin Range(tque') /\ desc[q] \notin Range(procmemlist')
      BY <1>1, <1>3, <3>2
    <3>6. proc'[desc[q]] = proc[desc[q]] /\ time'[desc[q]] = time[desc[q]]
      BY <1>7, <3>1, <3>3
    <3>. QED BY <1>1, <3>1, <3>2, <3>3, <3>4, <3>5, <3>6
  <2>. QED BY <2>2, <2>3
<1>15. Counted'
  <2> SUFFICES ASSUME NEW q \in Procs, NEW u \in Times PROVE CountedAt(q, u)'
    BY DEF Counted, CountedAt, Times
  <2>1. Range(tque') \subseteq Range(tque)
    BY <1>1
  <2>2. \A d \in Range(tque) : d \in Blocks => time'[d] = time[d] /\ proc'[d] = proc[d]
    BY <1>3, <1>7, DescFacts
  <2>3. Reach(q)' = Reach(q) /\ Reach(q) \in Int
    BY <1>0, <1>1, ReachType DEF TimerTypeOK, Reach
  <2>4. ReachKept(q)
    BY <1>1, <2>3 DEF ReachKept
  <2>. QED BY <1>6, <2>1, <2>2, <2>4, CountedThin
<1>. QED BY <1>6, <1>9, <1>10, <1>11, <1>12, <1>13, <1>14, <1>15 DEF TimerInv

(* What release_mem does to the free list: the block goes to its front.    *)
LEMMA ConsRange ==
  ASSUME NEW S, NEW s \in Seq(S), NEW x \in S, x \notin Range(s), IsInjective(s)
  PROVE  /\ <<x>> \o s \in Seq(S)
         /\ Range(<<x>> \o s) = {x} \cup Range(s)
         /\ IsInjective(<<x>> \o s)
<1> DEFINE e == <<x>> \o s
<1>0. <<x>> \in Seq(S) /\ Len(<<x>>) = 1 /\ <<x>>[1] = x
  OBVIOUS
<1>1. /\ e \in Seq(S) /\ Len(e) = 1 + Len(s)
      /\ \A i \in 1..(1 + Len(s)) : e[i] = IF i <= 1 THEN <<x>>[i] ELSE s[i - 1]
  BY <1>0, ConcatProperties
<1>2. /\ DOMAIN s = 1..Len(s) /\ Len(s) \in Nat
      /\ \A i \in 1..Len(s) : s[i] \in Range(s)
      /\ \A y \in Range(s) : \E i \in 1..Len(s) : s[i] = y
  BY Elements
<1> HIDE DEF e
<1>3. /\ DOMAIN e = 1..Len(e)
      /\ \A i \in 1..Len(e) : e[i] \in Range(e)
      /\ \A y \in Range(e) : \E i \in 1..Len(e) : e[i] = y
  BY <1>1, Elements
<1>4. e[1] = x /\ 1 \in 1..Len(e)
  <2>1. 1 \in 1..(1 + Len(s)) /\ 1 <= 1
    BY <1>2
  <2>. QED BY <1>0, <1>1, <2>1
<1>5. \A i \in 1..Len(e) : i # 1 => i - 1 \in 1..Len(s) /\ e[i] = s[i - 1]
  BY <1>1, <1>2
<1>6. \A i \in 1..Len(s) : i + 1 \in 1..Len(e) /\ e[i + 1] = s[i]
  <2>1. ASSUME NEW i \in 1..Len(s)
        PROVE  i + 1 \in 1..(1 + Len(s)) /\ ~ (i + 1 <= 1) /\ (i + 1) - 1 = i
    BY <1>2
  <2>. QED BY <1>1, <2>1
<1>7. Range(e) = {x} \cup Range(s)
  BY <1>2, <1>3, <1>4, <1>5, <1>6
<1>8. ASSUME NEW i \in 1..Len(e), NEW j \in 1..Len(e), e[i] = e[j] PROVE i = j
  <2>1. CASE i = 1 \/ j = 1
    BY <1>2, <1>4, <1>5, <1>8, <2>1
  <2>2. CASE i # 1 /\ j # 1
    <3>1. s[i - 1] = s[j - 1] /\ i - 1 \in 1..Len(s) /\ j - 1 \in 1..Len(s)
      BY <1>5, <1>8, <2>2
    <3>2. i - 1 = j - 1
      BY <1>2, <3>1 DEF IsInjective
    <3>. QED BY <3>2
  <2>. QED BY <2>1, <2>2
<1>. QED BY <1>1, <1>3, <1>7, <1>8 DEF e, IsInjective

(* enable_timeout puts its descriptor into the queue (timer.c:216): one    *)
(* more entry, and one more guard to disable.                              *)
LEMMA EnableInsertKeeps ==
  ASSUME TimerInv, NEW p \in Procs, EnableInsert(p)
  PROVE  TimerInv'
<1> DEFINE b == desc[p]
           u == when[p][guard[p]]
<1>0. /\ TimerTypeOK /\ Stages /\ Sleeping /\ InTime /\ QueueOnce
      /\ FreeBlocks /\ QueuedBlocks /\ HeldBlocks
  BY DEF TimerInv
<1>1. /\ pc[p] = "insertAlt" /\ insertInQueue(b) /\ desc' = [desc EXCEPT ![p] = Nil]
      /\ UNCHANGED <<now, pending, time, proc, sched_state, alt_state, when, procmemlist, tail>>
      /\ \/ /\ guard[p] < Guards[p]
            /\ pc' = [pc EXCEPT ![p] = "enable"] /\ guard' = [guard EXCEPT ![p] = @ + 1]
         \/ /\ pc' = [pc EXCEPT ![p] = "altShouldWait"] /\ guard' = guard
  BY DEF EnableInsert, memory
<1>2. /\ b \in 1..tail /\ b \notin Range(tque) /\ b \notin Range(procmemlist)
      /\ \A q \in Procs : InHand(q) /\ desc[q] = b => q = p
      /\ proc[b] = p /\ time[b] = u
  BY <1>0, <1>1 DEF HeldBlocks, InHand
<1>3. b \in Blocks /\ b \in Descs /\ b \notin Procs /\ b \in Nat /\ b <= tail
      /\ tail \in 0..MaxBlocks
  BY <1>0, <1>2, DescFacts DEF TimerTypeOK, Blocks
<1>4. guard[p] \in Nat /\ guard[p] > 0 /\ Guards[p] \in Nat /\ guard[p] <= Guards[p]
  <2>1. pc[p] \in AltPCs \ {"altFinish"}
    BY <1>1 DEF AltPCs
  <2>. QED BY <1>0, <2>1, TimerAssumption DEF TimerTypeOK, Stages
<1>5. /\ tque' \in Seq(Descs) /\ Range(tque') = Range(tque) \cup {b}
      /\ InTime' /\ QueueOnce' /\ armed' \in Times
  <2> HIDE DEF b
  <2>. QED BY <1>0, <1>1, <1>2, <1>3, InsertEffect
<1>6. /\ pc' \in [Procs -> PCs] /\ guard' \in [Procs -> Nat]
      /\ pc'[p] \in {"enable", "altShouldWait"}
      /\ \A q \in Procs : q # p => pc'[q] = pc[q] /\ guard'[q] = guard[q] /\ desc'[q] = desc[q]
      /\ pc'[p] = "enable" => guard'[p] = guard[p] + 1 /\ guard[p] < Guards[p]
      /\ pc'[p] = "altShouldWait" => guard'[p] = guard[p]
  <2>0. /\ pc \in [Procs -> PCs] /\ guard \in [Procs -> Nat]
        /\ desc \in [Procs -> Descs \cup {Nil}]
    BY <1>0 DEF TimerTypeOK
  <2>1. CASE /\ guard[p] < Guards[p]
             /\ pc' = [pc EXCEPT ![p] = "enable"] /\ guard' = [guard EXCEPT ![p] = @ + 1]
    BY <1>1, <1>4, <2>0, <2>1 DEF PCs
  <2>2. CASE pc' = [pc EXCEPT ![p] = "altShouldWait"] /\ guard' = guard
    BY <1>1, <1>4, <2>0, <2>2 DEF PCs
  <2>. QED BY <1>1, <2>1, <2>2
<1>7. TimerTypeOK'
  <2>1. \A q \in Procs : guard'[q] <= Guards[q]
    <3>1. guard'[p] <= Guards[p]
      BY <1>4, <1>6
    <3>. QED BY <1>0, <1>6, <3>1 DEF TimerTypeOK
  <2>. QED BY <1>0, <1>1, <1>5, <1>6, <2>1 DEF TimerTypeOK
<1>8. Stages'
  <2> SUFFICES ASSUME NEW q \in Procs PROVE Stages!(q)'
    BY DEF Stages
  <2>1. CASE q = p
    BY <1>0, <1>1, <1>4, <1>6, <2>1 DEF Stages, AltPCs, AfterPCs
  <2>2. CASE q # p
    BY <1>0, <1>1, <1>6, <2>2 DEF Stages
  <2>. QED BY <2>1, <2>2
<1>9. Sleeping'
  <2>1. \A d \in Range(tque') : d \in Procs => d \in Range(tque) /\ d # p
    BY <1>0, <1>1, <1>3, <1>5 DEF Sleeping
  <2>. QED BY <1>0, <1>1, <1>6, <2>1 DEF Sleeping
<1>10. FreeBlocks' /\ QueuedBlocks'
  BY <1>0, <1>1, <1>2, <1>3, <1>5 DEF FreeBlocks, QueuedBlocks
<1>11. HeldBlocks'
  <2>0. \A q \in Procs : InHand(q)' => q # p /\ InHand(q)
    BY <1>6 DEF InHand
  <2> SUFFICES ASSUME NEW q \in Procs, InHand(q)'
               PROVE  HeldBlocks!(q)!2'
    BY DEF HeldBlocks
  <2>1. InHand(q) /\ q # p /\ desc'[q] = desc[q] /\ desc[q] # b /\ pc'[q] = pc[q]
    BY <1>2, <1>6, <2>0
  <2>2. /\ desc[q] \in 1..tail /\ desc[q] \notin Range(tque) /\ desc[q] \notin Range(procmemlist)
        /\ \A r \in Procs : InHand(r) /\ desc[r] = desc[q] => r = q
        /\ pc[q] = "insertAlt" => proc[desc[q]] = q /\ time[desc[q]] = when[q][guard[q]]
    BY <1>0, <2>1 DEF HeldBlocks
  <2>3. \A r \in Procs : InHand(r)' /\ desc'[r] = desc[q] => r = q
    BY <1>6, <2>0, <2>2
  <2>4. desc[q] \notin Range(tque')
    BY <1>5, <2>1, <2>2
  <2>5. guard'[q] = guard[q]
    BY <1>6, <2>1
  <2>. QED BY <1>1, <2>1, <2>2, <2>3, <2>4, <2>5
<1>12. Counted'
  <2> SUFFICES ASSUME NEW q \in Procs, NEW t \in Times PROVE CountedAt(q, t)'
    BY DEF Counted, CountedAt, Times
  <2>0. CountedAt(q, t)
    BY DEF TimerInv, Counted, CountedAt
  <2>1. CASE q # p \/ t # u
    <3>1. Entries(q, t)' \subseteq Entries(q, t)
      BY <1>1, <1>2, <1>5, <2>1 DEF Entries
    <3>2. Reach(q) <= Reach(q)' /\ Reach(q) \in Int
      <4>1. CASE q = p
        BY <1>1, <1>4, <1>6, <4>1 DEF Reach
      <4>2. CASE q # p
        <5>1. Reach(q)' = Reach(q) /\ Reach(q) \in Int
          BY <1>0, <1>6, <4>2, ReachType DEF Reach
        <5>. QED BY <5>1
      <4>. QED BY <4>1, <4>2
    <3>3. Turns(q, t) \subseteq Turns(q, t)'
      BY <1>0, <1>1, <1>7, <3>2, TurnsKept DEF ReachKept
    <3>. QED BY <1>0, <1>7, <2>0, <3>1, <3>3, CountKeeps
  <2>2. CASE q = p /\ t = u
    <3> DEFINE E == Entries(p, t)
               T == Turns(p, t)
    <3>1. E' = E \cup {b} /\ b \notin E
      BY <1>1, <1>2, <1>3, <1>5, <2>2 DEF Entries
    <3>2. Reach(p) = guard[p] - 1 /\ Reach(p)' = guard[p]
      BY <1>1, <1>4, <1>6 DEF Reach
    <3>3. T' = T \cup {guard[p]} /\ guard[p] \notin T
      <4>1. when[p][guard[p]] = t
        BY <2>2
      <4>2. \A i \in 1..guard[p] : i = guard[p] \/ i \in 1..(guard[p] - 1)
        BY <1>4
      <4>3. guard[p] \in 1..guard[p] /\ guard[p] \notin 1..(guard[p] - 1)
        BY <1>4
      <4>4. \A i \in 1..(guard[p] - 1) : i \in 1..guard[p]
        BY <1>4
      <4>. QED BY <1>1, <3>2, <4>1, <4>2, <4>3, <4>4 DEF Turns
    <3>4. /\ IsFiniteSet(E) /\ IsFiniteSet(T)
          /\ Cardinality(E) \in Nat /\ Cardinality(T) \in Nat
      BY <1>0, CountFinite
    <3>5. Cardinality(E) <= Cardinality(T)
      BY <2>0, <2>2 DEF CountedAt
    <3> HIDE DEF E, T, b
    <3>6. Cardinality(E') = Cardinality(E) + 1 /\ Cardinality(T') = Cardinality(T) + 1
      BY <3>1, <3>3, <3>4, FS_AddElement
    <3>7. Cardinality(E') <= Cardinality(T')
      BY <3>4, <3>5, <3>6
    <3>. QED BY <2>2, <3>7 DEF CountedAt, E, T
  <2>. QED BY <2>1, <2>2
<1>. QED BY <1>5, <1>7, <1>8, <1>9, <1>10, <1>11, <1>12 DEF TimerInv

(* The next turn of the disabling loop (alt.c:219-241).                    *)
LEMMA NextGuardIs ==
  ASSUME TimerTypeOK, Stages, NEW p \in Procs, pc[p] \in {"disable", "release"}, NextGuard(p)
  PROVE  /\ pc' \in [Procs -> PCs] /\ guard' \in [Procs -> Nat]
         /\ \A q \in Procs : q # p => pc'[q] = pc[q] /\ guard'[q] = guard[q]
         /\ guard[p] \in Nat /\ guard[p] > 0 /\ guard[p] <= Guards[p] /\ Guards[p] \in Nat
         /\ guard'[p] = guard[p] - 1
         /\ pc'[p] = IF guard[p] > 1 THEN "disable" ELSE "altFinish"
         /\ Reach(p)' = guard[p] - 1
<1>1. guard[p] \in Nat /\ guard[p] > 0 /\ Guards[p] \in Nat /\ guard[p] <= Guards[p]
  <2>1. pc[p] \in AltPCs \ {"altFinish"}
    BY DEF AltPCs
  <2>. QED BY <2>1, TimerAssumption DEF TimerTypeOK, Stages
<1>2. /\ pc' \in [Procs -> PCs] /\ guard' \in [Procs -> Nat]
      /\ \A q \in Procs : q # p => pc'[q] = pc[q] /\ guard'[q] = guard[q]
      /\ guard'[p] = guard[p] - 1
      /\ pc'[p] = IF guard[p] > 1 THEN "disable" ELSE "altFinish"
  BY <1>1 DEF TimerTypeOK, PCs, NextGuard
<1>3. Reach(p)' = guard[p] - 1
  BY <1>1, <1>2 DEF Reach
<1>. QED BY <1>1, <1>2, <1>3

(* disable_timeout takes its entry out of the queue (timer.c:221-225): one *)
(* entry less, and one guard less to disable.                              *)
LEMMA DisableKeeps ==
  ASSUME TimerInv, Own, NEW p \in Procs, Disable(p)
  PROVE  TimerInv'
<1> DEFINE u == when[p][guard[p]]
           b == Found(u, p)
<1>0. /\ TimerTypeOK /\ Stages /\ Sleeping /\ InTime /\ QueueOnce
      /\ FreeBlocks /\ QueuedBlocks /\ HeldBlocks
  BY DEF TimerInv
<1>1. /\ pc[p] = "disable" /\ tque' = Unlinked(u, p) /\ desc' = [desc EXCEPT ![p] = b]
      /\ UNCHANGED <<now, armed, pending, time, proc, sched_state, alt_state, when>>
      /\ UNCHANGED <<procmemlist, tail>>
      /\ b # Nil => pc' = [pc EXCEPT ![p] = "release"] /\ guard' = guard
      /\ b = Nil => NextGuard(p)
  BY DEF Disable, clock, memory
<1>2. guard[p] \in Nat /\ guard[p] > 0 /\ Guards[p] \in Nat /\ guard[p] <= Guards[p]
      /\ Guards[p] > 0 /\ u \in Times
  <2>1. pc[p] \in AltPCs \ {"altFinish"} /\ pc[p] \in AltPCs
    BY <1>1 DEF AltPCs
  <2>2. guard[p] \in Nat /\ guard[p] > 0 /\ Guards[p] \in Nat /\ guard[p] <= Guards[p]
        /\ Guards[p] > 0
    BY <1>0, <2>1, TimerAssumption DEF TimerTypeOK, Stages
  <2>3. guard[p] \in 1..Guards[p] /\ when[p] \in [1..Guards[p] -> Times]
    BY <1>0, <2>2 DEF TimerTypeOK
  <2>. QED BY <2>2, <2>3
<1>3. SearchEnds(u, p) # {} => Matches(CHOOSE i \in SearchEnds(u, p) : TRUE, u, p)
  BY <1>1 DEF Own
<1>4. /\ tque' \in Seq(Descs) /\ InTime' /\ QueueOnce'
      /\ b # Nil =>
           /\ b \in Range(tque) /\ b \in Descs /\ time[b] = u /\ proc[b] = p
           /\ Range(tque') = Range(tque) \ {b}
      /\ b = Nil =>
           /\ tque' = tque
           /\ \A d \in Range(tque) : ~ (time[d] = u /\ proc[d] = p)
  <2> HIDE DEF u
  <2>. QED BY <1>0, <1>1, <1>2, <1>3, UnlinkEffect
<1>5. Range(tque') \subseteq Range(tque)
  BY <1>4
<1>6. b # Nil => b \in Blocks /\ b \in 1..tail /\ b \notin Range(procmemlist)
  <2>1. ASSUME b # Nil, b \in Procs PROVE FALSE
    BY <1>0, <1>1, <1>4, <2>1 DEF Sleeping
  <2>2. b # Nil => b \in Blocks
    BY <1>4, <2>1, DescFacts
  <2> HIDE DEF b
  <2>3. b # Nil => b \in Nat /\ b >= 1 /\ b <= tail /\ tail \in Nat
    BY <1>0, <1>4, <2>2, DescFacts DEF QueuedBlocks, TimerTypeOK
  <2>. QED BY <1>0, <1>4, <2>2, <2>3 DEF FreeBlocks
<1> HIDE DEF b, u
<1>7. /\ pc' \in [Procs -> PCs] /\ guard' \in [Procs -> Nat]
      /\ \A q \in Procs : q # p => pc'[q] = pc[q] /\ guard'[q] = guard[q] /\ desc'[q] = desc[q]
      /\ desc' \in [Procs -> Descs \cup {Nil}] /\ desc'[p] = b
      /\ guard'[p] <= guard[p] /\ Reach(p)' = guard[p] - 1 /\ Reach(p) = guard[p]
      /\ pc'[p] \in {"release", "disable", "altFinish"}
      /\ pc'[p] # "altFinish" => guard'[p] > 0
      /\ InHand(p)' => b # Nil
      /\ pc'[p] # "insertAlt"
  <2>0. /\ \A q \in Procs : q # p => desc'[q] = desc[q]
        /\ desc' \in [Procs -> Descs \cup {Nil}] /\ desc'[p] = b
    BY <1>0, <1>1, <1>4 DEF TimerTypeOK
  <2>1. Reach(p) = guard[p]
    BY <1>1 DEF Reach
  <2>2. CASE b # Nil
    <3>1. /\ pc' \in [Procs -> PCs] /\ guard' \in [Procs -> Nat]
          /\ \A q \in Procs : q # p => pc'[q] = pc[q] /\ guard'[q] = guard[q]
          /\ guard'[p] = guard[p] /\ pc'[p] = "release"
      BY <1>0, <1>1, <2>2 DEF TimerTypeOK, PCs
    <3>2. Reach(p)' = guard[p] - 1
      BY <3>1 DEF Reach
    <3>. QED BY <1>2, <2>0, <2>1, <2>2, <3>1, <3>2
  <2>3. CASE b = Nil
    <3>1. /\ pc' \in [Procs -> PCs] /\ guard' \in [Procs -> Nat]
          /\ \A q \in Procs : q # p => pc'[q] = pc[q] /\ guard'[q] = guard[q]
          /\ guard'[p] = guard[p] - 1 /\ Reach(p)' = guard[p] - 1
          /\ pc'[p] = IF guard[p] > 1 THEN "disable" ELSE "altFinish"
      BY <1>0, <1>1, <2>3, NextGuardIs
    <3>2. guard'[p] <= guard[p] /\ (pc'[p] # "altFinish" => guard'[p] > 0)
      BY <1>2, <3>1
    <3>. QED BY <2>0, <2>1, <3>1, <3>2 DEF InHand
  <2>. QED BY <2>2, <2>3
<1>8. TimerTypeOK'
  <2>1. \A q \in Procs : guard'[q] <= Guards[q]
    <3>1. guard'[p] <= Guards[p]
      BY <1>2, <1>7
    <3>. QED BY <1>0, <1>7, <3>1 DEF TimerTypeOK
  <2>. QED BY <1>0, <1>1, <1>4, <1>7, <2>1 DEF TimerTypeOK
<1>9. Stages'
  <2> SUFFICES ASSUME NEW q \in Procs PROVE Stages!(q)'
    BY DEF Stages
  <2>1. CASE q = p
    BY <1>0, <1>1, <1>2, <1>7, <2>1 DEF Stages, AltPCs, AfterPCs
  <2>2. CASE q # p
    BY <1>0, <1>1, <1>7, <2>2 DEF Stages
  <2>. QED BY <2>1, <2>2
<1>10. Sleeping'
  <2>1. \A d \in Range(tque') : d \in Procs => d \in Range(tque) /\ d # p
    BY <1>0, <1>1, <1>5 DEF Sleeping
  <2>. QED BY <1>0, <1>1, <1>7, <2>1 DEF Sleeping
<1>11. FreeBlocks' /\ QueuedBlocks'
  BY <1>0, <1>1, <1>5 DEF FreeBlocks, QueuedBlocks
<1>12. HeldBlocks'
  <2> SUFFICES ASSUME NEW q \in Procs, InHand(q)'
               PROVE  HeldBlocks!(q)!2'
    BY DEF HeldBlocks
  <2>0. \A r \in Procs : InHand(r)' /\ r # p => InHand(r)
    BY <1>7 DEF InHand
  <2>00. \A r \in Procs : InHand(r) => desc[r] \notin Range(tque)
    BY <1>0 DEF HeldBlocks
  <2>1. CASE q = p
    <3>1. b # Nil
      BY <1>7, <2>1
    <3>2. \A r \in Procs : InHand(r)' /\ desc'[r] = b => r = p
      BY <1>4, <1>7, <2>0, <2>00, <3>1
    <3>. QED BY <1>1, <1>4, <1>6, <1>7, <2>1, <3>1, <3>2
  <2>2. CASE q # p
    <3>1. InHand(q) /\ desc'[q] = desc[q] /\ pc'[q] = pc[q] /\ guard'[q] = guard[q]
      BY <1>7, <2>0, <2>2
    <3>2. /\ desc[q] \in 1..tail /\ desc[q] \notin Range(tque) /\ desc[q] \notin Range(procmemlist)
          /\ \A r \in Procs : InHand(r) /\ desc[r] = desc[q] => r = q
          /\ pc[q] = "insertAlt" => proc[desc[q]] = q /\ time[desc[q]] = when[q][guard[q]]
      BY <1>0, <3>1 DEF HeldBlocks
    <3>3. \A r \in Procs : InHand(r)' /\ desc'[r] = desc[q] => r = q
      BY <1>4, <1>7, <2>0, <3>2
    <3>. QED BY <1>1, <1>5, <3>1, <3>2, <3>3
  <2>. QED BY <2>1, <2>2
<1>13. Counted'
  <2> SUFFICES ASSUME NEW q \in Procs, NEW t \in Times PROVE CountedAt(q, t)'
    BY DEF Counted, CountedAt, Times
  <2>0. CountedAt(q, t)
    BY DEF TimerInv, Counted, CountedAt
  <2>00. Entries(q, t)' \subseteq Entries(q, t)
    BY <1>1, <1>5 DEF Entries
  <2>1. CASE q # p
    <3>1. Reach(q)' = Reach(q)
      BY <1>7, <2>1 DEF Reach
    <3>2. Turns(q, t)' = Turns(q, t)
      BY <1>1, <3>1 DEF Turns
    <3>. QED BY <1>0, <1>8, <2>0, <2>00, <3>2, CountKeeps
  <2>2. CASE q = p /\ t # u
    <3>1. ASSUME NEW i \in Turns(p, t) PROVE i \in Turns(p, t)'
      <4>1. i \in 1..guard[p] /\ when[p][i] = t
        BY <1>7 DEF Turns
      <4>2. i # guard[p]
        BY <2>2, <4>1 DEF u
      <4>3. i \in 1..(guard[p] - 1)
        BY <1>2, <4>1, <4>2
      <4>. QED BY <1>1, <1>7, <4>1, <4>3 DEF Turns
    <3>2. Turns(p, t) \subseteq Turns(p, t)'
      BY <3>1
    <3>. QED BY <1>0, <1>8, <2>0, <2>00, <2>2, <3>2, CountKeeps
  <2>3. CASE q = p /\ t = u /\ b = Nil
    <3>1. Entries(q, t)' = {}
      BY <1>1, <1>4, <2>3 DEF Entries
    <3>. QED BY <1>0, <1>8, <2>0, <3>1, CountKeeps
  <2>4. CASE q = p /\ t = u /\ b # Nil
    <3> DEFINE E == Entries(p, u)
               T == Turns(p, u)
    <3>0. u' = u
      <4>1. guard' = guard
        BY <1>1, <2>4
      <4>. QED BY <1>1, <4>1 DEF u
    <3>1. E' = E \ {b} /\ b \in E
      BY <1>1, <1>4, <1>6, <2>4, <3>0 DEF Entries
    <3>3. T' = T \ {guard[p]} /\ guard[p] \in T
      <4>1. when[p][guard[p]] = u
        BY DEF u
      <4>. QED BY <1>1, <1>2, <1>7, <3>0, <4>1 DEF Turns
    <3>4. /\ IsFiniteSet(E) /\ IsFiniteSet(T)
          /\ Cardinality(E) \in Nat /\ Cardinality(T) \in Nat
      BY <1>0, CountFinite
    <3>5. Cardinality(E) <= Cardinality(T)
      BY <2>0, <2>4 DEF CountedAt
    <3> HIDE DEF E, T
    <3>6. Cardinality(E') = Cardinality(E) - 1 /\ Cardinality(T') = Cardinality(T) - 1
      BY <3>1, <3>3, <3>4, FS_RemoveElement
    <3>7. Cardinality(E') <= Cardinality(T')
      BY <3>4, <3>5, <3>6
    <3>. QED BY <2>4, <3>0, <3>7 DEF CountedAt, E, T
  <2>. QED BY <2>1, <2>2, <2>3, <2>4
<1>. QED BY <1>4, <1>8, <1>9, <1>10, <1>11, <1>12, <1>13 DEF TimerInv

(* release_mem gives the block back (memory.c:100-108).                    *)
LEMMA ReleaseKeeps ==
  ASSUME TimerInv, NEW p \in Procs, Release(p)
  PROVE  TimerInv'
<1> DEFINE b == desc[p]
<1>0. /\ TimerTypeOK /\ Stages /\ Sleeping /\ InTime /\ QueueOnce
      /\ FreeBlocks /\ QueuedBlocks /\ HeldBlocks
  BY DEF TimerInv
<1>1. /\ pc[p] = "release" /\ procmemlist' = <<b>> \o procmemlist
      /\ desc' = [desc EXCEPT ![p] = Nil] /\ NextGuard(p)
      /\ UNCHANGED <<now, armed, pending, tque, time, proc, sched_state, alt_state>>
      /\ UNCHANGED <<when, tail>>
  BY DEF Release, clock
<1>2. /\ b \in 1..tail /\ b \notin Range(tque) /\ b \notin Range(procmemlist)
      /\ \A q \in Procs : InHand(q) /\ desc[q] = b => q = p
  BY <1>0, <1>1 DEF HeldBlocks, InHand
<1>3. b \in Descs /\ tail \in 0..MaxBlocks /\ procmemlist \in Seq(Descs)
  BY <1>0, <1>2, DescFacts DEF TimerTypeOK, Blocks
<1>4. /\ procmemlist' \in Seq(Descs) /\ IsInjective(procmemlist')
      /\ Range(procmemlist') = {b} \cup Range(procmemlist)
  <2> HIDE DEF b
  <2>1. IsInjective(procmemlist)
    BY <1>0 DEF FreeBlocks
  <2>. QED BY <1>1, <1>2, <1>3, <2>1, ConsRange
<1>5. /\ pc' \in [Procs -> PCs] /\ guard' \in [Procs -> Nat]
      /\ \A q \in Procs : q # p => pc'[q] = pc[q] /\ guard'[q] = guard[q]
      /\ guard[p] \in Nat /\ guard[p] > 0 /\ guard[p] <= Guards[p] /\ Guards[p] \in Nat
      /\ guard'[p] = guard[p] - 1
      /\ pc'[p] = IF guard[p] > 1 THEN "disable" ELSE "altFinish"
      /\ Reach(p)' = guard[p] - 1
  BY <1>0, <1>1, NextGuardIs
<1>6. /\ \A q \in Procs : q # p => desc'[q] = desc[q]
      /\ desc' \in [Procs -> Descs \cup {Nil}]
      /\ pc'[p] \in {"disable", "altFinish"} /\ guard'[p] <= Guards[p]
      /\ (pc'[p] # "altFinish" => guard'[p] > 0)
  <2>1. /\ \A q \in Procs : q # p => desc'[q] = desc[q]
        /\ desc' \in [Procs -> Descs \cup {Nil}]
    BY <1>0, <1>1 DEF TimerTypeOK
  <2>. QED BY <1>5, <2>1
<1> HIDE DEF b
<1>7. TimerTypeOK'
  <2>1. \A q \in Procs : guard'[q] <= Guards[q]
    BY <1>0, <1>5, <1>6 DEF TimerTypeOK
  <2>. QED BY <1>0, <1>1, <1>4, <1>5, <1>6, <2>1 DEF TimerTypeOK
<1>8. Stages'
  <2> SUFFICES ASSUME NEW q \in Procs PROVE Stages!(q)'
    BY DEF Stages
  <2>1. CASE q = p
    BY <1>0, <1>1, <1>6, <2>1 DEF Stages, AltPCs, AfterPCs
  <2>2. CASE q # p
    BY <1>0, <1>1, <1>5, <2>2 DEF Stages
  <2>. QED BY <2>1, <2>2
<1>9. Sleeping'
  <2>1. \A d \in Range(tque') : d \in Procs => d \in Range(tque) /\ d # p
    BY <1>0, <1>1 DEF Sleeping
  <2>. QED BY <1>0, <1>1, <1>5, <2>1 DEF Sleeping
<1>10. InTime' /\ QueueOnce' /\ FreeBlocks' /\ QueuedBlocks'
  BY <1>0, <1>1, <1>2, <1>4 DEF InTime, QueueOnce, FreeBlocks, QueuedBlocks
<1>11. HeldBlocks'
  <2>0. \A q \in Procs : InHand(q)' => q # p /\ InHand(q)
    BY <1>5, <1>6 DEF InHand
  <2> SUFFICES ASSUME NEW q \in Procs, InHand(q)'
               PROVE  HeldBlocks!(q)!2'
    BY DEF HeldBlocks
  <2>1. /\ InHand(q) /\ q # p /\ desc'[q] = desc[q] /\ desc[q] # b
        /\ pc'[q] = pc[q] /\ guard'[q] = guard[q]
    BY <1>2, <1>5, <1>6, <2>0
  <2>2. /\ desc[q] \in 1..tail /\ desc[q] \notin Range(tque) /\ desc[q] \notin Range(procmemlist)
        /\ \A r \in Procs : InHand(r) /\ desc[r] = desc[q] => r = q
        /\ pc[q] = "insertAlt" => proc[desc[q]] = q /\ time[desc[q]] = when[q][guard[q]]
    BY <1>0, <2>1 DEF HeldBlocks
  <2>3. \A r \in Procs : InHand(r)' /\ desc'[r] = desc[q] => r = q
    BY <1>6, <2>0, <2>2
  <2>4. desc[q] \notin Range(procmemlist')
    BY <1>4, <2>1, <2>2
  <2>. QED BY <1>1, <2>1, <2>2, <2>3, <2>4
<1>12. Counted'
  <2> SUFFICES ASSUME NEW q \in Procs, NEW t \in Times PROVE CountedAt(q, t)'
    BY DEF Counted, CountedAt, Times
  <2>1. Range(tque') \subseteq Range(tque)
    BY <1>1
  <2>2. \A d \in Range(tque) : d \in Blocks => time'[d] = time[d] /\ proc'[d] = proc[d]
    BY <1>1
  <2>3. Reach(q)' = Reach(q) /\ Reach(q) \in Int
    BY <1>0, <1>1, <1>5, ReachType DEF Reach
  <2>4. ReachKept(q)
    BY <1>1, <2>3 DEF ReachKept
  <2>. QED BY <1>7, <2>1, <2>2, <2>4, CountedThin
<1>. QED BY <1>7, <1>8, <1>9, <1>10, <1>11, <1>12 DEF TimerInv

(* The handler wakes those whose time has come, and nobody else            *)
(* (timer.c:243-320): p is in After and its descriptor is due, or p        *)
(* alternates and a block of it is due, or nothing changes for p.          *)
LEMMA HandleIs ==
  ASSUME TimerInv, Handle, NEW p \in Procs
  PROVE  /\ \/ /\ \E i \in 1..Due : tque[i] = p
               /\ sched_state'[p] = "READY" /\ alt_state'[p] = alt_state[p]
               /\ now >= time[p]
               /\ \/ pc[p] = "relinquish" /\ pc'[p] = "relinquish"
                  \/ pc[p] = "asleep" /\ pc'[p] = "run"
            \/ /\ ~ \E i \in 1..Due : tque[i] = p
               /\ alt_state[p] \in {"ENABLING", "WAITING"} /\ alt_state'[p] = "READY"
               /\ sched_state'[p] = sched_state[p]
               /\ pc'[p] = IF alt_state[p] = "WAITING" THEN "disable" ELSE pc[p]
            \/ /\ ~ \E i \in 1..Due : tque[i] = p
               /\ sched_state'[p] = sched_state[p] /\ alt_state'[p] = alt_state[p]
               /\ pc'[p] = pc[p]
         /\ DOMAIN pc' = Procs /\ DOMAIN sched_state' = Procs /\ DOMAIN alt_state' = Procs
<1> DEFINE afters == {q \in Procs : \E i \in 1..Due : tque[i] = q}
           alting == {q \in Procs : \E i \in 1..Due : tque[i] \in Blocks /\ proc[tque[i]] = q}
           freed == {q \in alting : alt_state[q] \in {"ENABLING", "WAITING"}}
<1>0. TimerTypeOK /\ Stages /\ Sleeping /\ InTime /\ QueueOnce
  BY DEF TimerInv
<1>1. /\ sched_state' = [q \in Procs |-> IF q \in afters THEN "READY" ELSE sched_state[q]]
      /\ alt_state' = [q \in Procs |-> IF q \in freed THEN "READY" ELSE alt_state[q]]
      /\ pc' = [q \in Procs |->
           CASE q \in afters /\ sched_state[q] = "WAITING" -> "run"
             [] q \in freed /\ alt_state[q] = "WAITING" -> "disable"
             [] OTHER -> pc[q]]
  BY DEF Handle
<1>2. /\ DOMAIN pc' = Procs /\ DOMAIN sched_state' = Procs /\ DOMAIN alt_state' = Procs
      /\ sched_state'[p] = (IF p \in afters THEN "READY" ELSE sched_state[p])
      /\ alt_state'[p] = (IF p \in freed THEN "READY" ELSE alt_state[p])
      /\ (p \in afters /\ sched_state[p] = "WAITING") /\ p \notin freed => pc'[p] = "run"
      /\ (p \in freed /\ alt_state[p] = "WAITING") /\ p \notin afters => pc'[p] = "disable"
      /\ ~ (p \in afters /\ sched_state[p] = "WAITING")
           /\ ~ (p \in freed /\ alt_state[p] = "WAITING") => pc'[p] = pc[p]
  <2> HIDE DEF afters, freed
  <2>. QED BY <1>1
<1>3. \A i \in 1..Due : tque[i] \in Range(tque) /\ time[tque[i]] <= now
  <2>1. Due \in 0..Len(tque) /\ \A j \in 1..Due : time[tque[j]] <= now
    BY <1>0, EarlierIs DEF Due, TimerTypeOK
  <2>2. \A i \in 1..Due : i \in 1..Len(tque)
    BY <1>0, <2>1, TimesAreNat
  <2>. QED BY <1>0, <2>1, <2>2, Elements DEF TimerTypeOK
<1>4. CASE p \in afters
  <2>1. p \in Range(tque) /\ time[p] <= now
    BY <1>3, <1>4
  <2>2. \/ pc[p] = "relinquish" /\ sched_state[p] = "PREPARING_TO_WAIT"
        \/ pc[p] = "asleep" /\ sched_state[p] = "WAITING"
    BY <1>0, <2>1 DEF Sleeping, Stages
  <2>3. alt_state[p] = "NONE"
    BY <1>0, <2>2 DEF Stages, AltPCs
  <2>4. p \notin freed
    BY <2>3
  <2>5. time[p] \in Nat /\ now \in Nat
    BY <1>0, TimesAreNat, DescFacts
  <2>6. \E i \in 1..Due : tque[i] = p
    BY <1>4
  <2> HIDE DEF afters, freed
  <2>7. CASE pc[p] = "relinquish" /\ sched_state[p] = "PREPARING_TO_WAIT"
    BY <1>2, <1>4, <2>1, <2>4, <2>5, <2>6, <2>7
  <2>8. CASE pc[p] = "asleep" /\ sched_state[p] = "WAITING"
    BY <1>2, <1>4, <2>1, <2>4, <2>5, <2>6, <2>8
  <2>. QED BY <2>2, <2>7, <2>8
<1>5. CASE p \notin afters
  <2>1. ~ \E i \in 1..Due : tque[i] = p
    BY <1>5
  <2>2. p \in freed => alt_state[p] \in {"ENABLING", "WAITING"}
    OBVIOUS
  <2> HIDE DEF afters, freed
  <2>. QED BY <1>2, <1>5, <2>1, <2>2
<1>. QED BY <1>4, <1>5

(* The handler keeps the invariant.                                        *)
LEMMA HandleKeeps ==
  ASSUME TimerInv, Handle
  PROVE  TimerInv'
<1>0. /\ TimerTypeOK /\ Stages /\ Sleeping /\ InTime /\ QueueOnce
      /\ FreeBlocks /\ QueuedBlocks /\ HeldBlocks
  BY DEF TimerInv
<1>1. /\ UNCHANGED <<now, time, proc, when, guard, desc, procmemlist, tail>>
      /\ tque' = SubSeq(tque, Due + 1, Len(tque)) /\ pending' = FALSE
  BY DEF Handle, memory
<1>2. /\ tque' \in Seq(Descs) /\ InTime' /\ QueueOnce' /\ Range(tque') \subseteq Range(tque)
      /\ \A d \in Range(tque') : time[d] > now /\ \A i \in 1..Due : tque[i] # d
  BY <1>0, <1>1, DropEffect
<1>3. armed' \in Times
  <2>0. armed \in Times /\ 0 \in Times /\ now \in Nat
    BY <1>0, TimesAreNat, TimerAssumption DEF TimerTypeOK, Times
  <2>1. CASE tque' = << >>
    BY <1>1, <2>0, <2>1 DEF Handle
  <2>2. CASE tque' # << >>
    <3> DEFINE h == time[Head(tque')]
    <3>1. armed' = IF h - now > 0 THEN now + (h - now) ELSE 0
      BY <1>1, <2>2 DEF Handle, set_timer_single
    <3>2. Head(tque') \in Descs
      BY <1>2, <2>2
    <3>3. h \in Times /\ h \in Nat
      BY <1>0, <3>2, TimesAreNat DEF TimerTypeOK
    <3> HIDE DEF h
    <3>4. now + (h - now) = h
      BY <2>0, <3>3
    <3>. QED BY <2>0, <3>1, <3>3, <3>4
  <2>. QED BY <2>1, <2>2
<1>4. \A p \in Procs :
        /\ pc'[p] \in PCs /\ sched_state'[p] \in {"READY", "PREPARING_TO_WAIT", "WAITING"}
        /\ alt_state'[p] \in {"NONE", "ENABLING", "WAITING", "READY"}
  <2> SUFFICES ASSUME NEW p \in Procs
               PROVE  <1>4!(p)
    OBVIOUS
  <2>1. /\ pc[p] \in PCs /\ sched_state[p] \in {"READY", "PREPARING_TO_WAIT", "WAITING"}
        /\ alt_state[p] \in {"NONE", "ENABLING", "WAITING", "READY"}
    BY <1>0 DEF TimerTypeOK
  <2>. QED BY <2>1, HandleIs DEF PCs
<1>5. TimerTypeOK'
  <2>1. pc' = [p \in Procs |-> pc'[p]] /\ sched_state' = [p \in Procs |-> sched_state'[p]]
        /\ alt_state' = [p \in Procs |-> alt_state'[p]]
    BY DEF Handle
  <2>2. pc' \in [Procs -> PCs]
    BY <1>4, <2>1
  <2>3. sched_state' \in [Procs -> {"READY", "PREPARING_TO_WAIT", "WAITING"}]
    BY <1>4, <2>1
  <2>4. alt_state' \in [Procs -> {"NONE", "ENABLING", "WAITING", "READY"}]
    BY <1>4, <2>1
  <2>. QED BY <1>0, <1>1, <1>2, <1>3, <2>2, <2>3, <2>4 DEF TimerTypeOK
<1>6. Stages'
  <2> SUFFICES ASSUME NEW p \in Procs PROVE Stages!(p)'
    BY DEF Stages
  <2>1. Stages!(p)
    BY <1>0 DEF Stages
  <2>. QED BY <1>0, <1>1, <2>1, HandleIs DEF AltPCs, AfterPCs
<1>7. Sleeping'
  <2> SUFFICES ASSUME NEW d \in Range(tque'), d \in Procs
               PROVE  /\ proc[d] = d
                      /\ \/ pc'[d] = "relinquish" /\ sched_state'[d] = "PREPARING_TO_WAIT"
                         \/ pc'[d] = "asleep"
    BY <1>1 DEF Sleeping
  <2>1. /\ proc[d] = d
        /\ \/ pc[d] = "relinquish" /\ sched_state[d] = "PREPARING_TO_WAIT"
           \/ pc[d] = "asleep"
    BY <1>0, <1>2 DEF Sleeping
  <2>2. ~ \E i \in 1..Due : tque[i] = d
    BY <1>2
  <2>3. alt_state[d] = "NONE"
    BY <1>0, <2>1 DEF Stages, AltPCs
  <2>. QED BY <2>1, <2>2, <2>3, HandleIs
<1>8. FreeBlocks' /\ QueuedBlocks'
  BY <1>0, <1>1, <1>2 DEF FreeBlocks, QueuedBlocks
<1>9. \A p \in Procs : /\ InHand(p)' => InHand(p) /\ pc'[p] = pc[p]
                       /\ Reach(p)' = Reach(p)
  <2> SUFFICES ASSUME NEW p \in Procs PROVE <1>9!(p)
    OBVIOUS
  <2>1. alt_state[p] = "WAITING" => pc[p] = "altAsleep"
    BY <1>0 DEF Stages
  <2>. QED BY <1>1, <2>1, HandleIs DEF InHand, Reach
<1>10. HeldBlocks'
  <2> SUFFICES ASSUME NEW p \in Procs, InHand(p)'
               PROVE  HeldBlocks!(p)!2'
    BY DEF HeldBlocks
  <2>. QED BY <1>0, <1>1, <1>2, <1>9 DEF HeldBlocks
<1>11. Counted'
  <2> SUFFICES ASSUME NEW p \in Procs, NEW t \in Times PROVE CountedAt(p, t)'
    BY DEF Counted, CountedAt, Times
  <2>1. \A d \in Range(tque) : d \in Blocks => time'[d] = time[d] /\ proc'[d] = proc[d]
    BY <1>1
  <2>2. ReachKept(p)
    <3>1. Reach(p) \in Int
      BY <1>0, ReachType
    <3>. QED BY <1>1, <1>9, <3>1 DEF ReachKept
  <2>. QED BY <1>2, <1>5, <2>1, <2>2, CountedThin
<1>. QED BY <1>2, <1>5, <1>6, <1>7, <1>8, <1>10, <1>11 DEF TimerInv

-----------------------------------------------------------------------------
(* The theorems about timeouts.                                            *)

(* The system starts with an empty queue.                                  *)
LEMMA TimerStarts == TimerInit => TimerInv
<1> SUFFICES ASSUME TimerInit PROVE TimerInv
  OBVIOUS
<1>1. TimerTypeOK
  <2>1. 0 \in Times /\ 0 \in 0..MaxBlocks
    BY TimerAssumption DEF Times
  <2>2. \A p \in Procs : when[p] \in [1..Guards[p] -> Times]
    BY <2>1 DEF TimerInit
  <2>3. when \in [Procs -> UNION {[1..Guards[p] -> Times] : p \in Procs}]
    BY <2>2 DEF TimerInit
  <2>4. \A p \in Procs : guard[p] <= Guards[p]
    BY TimerAssumption DEF TimerInit
  <2>5. << >> \in Seq(Descs)
    OBVIOUS
  <2>6. time \in [Descs -> Times] /\ proc \in [Descs -> Procs \cup {Nil}]
    BY <2>1 DEF TimerInit
  <2>7. guard \in [Procs -> Nat] /\ desc \in [Procs -> Descs \cup {Nil}] /\ pc \in [Procs -> PCs]
    BY DEF TimerInit, PCs
  <2>8. /\ sched_state \in [Procs -> {"READY", "PREPARING_TO_WAIT", "WAITING"}]
        /\ alt_state \in [Procs -> {"NONE", "ENABLING", "WAITING", "READY"}]
    BY DEF TimerInit
  <2>9. /\ now \in Times /\ armed \in Times /\ pending \in BOOLEAN
        /\ tque \in Seq(Descs) /\ procmemlist \in Seq(Descs) /\ tail \in 0..MaxBlocks
    BY <2>1, <2>5 DEF TimerInit
  <2>. QED BY <2>2, <2>3, <2>4, <2>6, <2>7, <2>8, <2>9 DEF TimerTypeOK
<1>2. Range(tque) = {} /\ Range(procmemlist) = {} /\ Len(tque) = 0
  BY DEF TimerInit, Range
<1>3. Stages
  BY DEF TimerInit, Stages, AltPCs, AfterPCs
<1>4. InTime
  BY <1>2 DEF InTime
<1>5. QueueOnce /\ IsInjective(procmemlist)
  BY DEF TimerInit, QueueOnce, IsInjective
<1>6. Sleeping /\ FreeBlocks /\ QueuedBlocks
  BY <1>2, <1>5 DEF Sleeping, FreeBlocks, QueuedBlocks
<1>7. HeldBlocks
  BY DEF TimerInit, HeldBlocks, InHand
<1>8. ASSUME NEW p \in Procs, NEW t \in Times PROVE CountedAt(p, t)
  <2>1. Entries(p, t) = {}
    BY <1>2 DEF Entries
  <2>2. Cardinality(Entries(p, t)) = 0
    BY <2>1, FS_EmptySet
  <2>3. Cardinality(Turns(p, t)) \in Nat
    BY <1>1, CountFinite
  <2>. QED BY <2>2, <2>3 DEF CountedAt
<1>. QED BY <1>1, <1>3, <1>4, <1>5, <1>6, <1>7, <1>8 DEF TimerInv, Counted, CountedAt

(* Every step keeps the invariant, as long as removeFromQueue returns the  *)
(* caller's own entry.                                                     *)
LEMMA TimerStep ==
  ASSUME TimerInv, Own, [TimerNext]_timerVars
  PROVE  TimerInv'
<1>1. CASE UNCHANGED timerVars
  <2>0. /\ TimerTypeOK /\ Stages /\ Sleeping
    BY DEF TimerInv
  <2>1. /\ UNCHANGED <<now, armed, pending, tque, time, proc, sched_state, alt_state>>
        /\ UNCHANGED <<pc, when, guard, desc, procmemlist, tail>>
    BY <1>1 DEF timerVars
  <2>2. TimerTypeOK' /\ Stages' /\ Sleeping'
    BY <2>0, <2>1 DEF TimerTypeOK, Stages, Sleeping
  <2>3. \A p \in Procs : HandKept(p)
    BY <2>1 DEF HandKept, InHand
  <2>4. \A p \in Procs : Reach(p)' = Reach(p) /\ Reach(p) \in Int
    BY <2>0, <2>1, ReachType DEF Reach
  <2>5. \A p \in Procs : ReachKept(p)
    BY <2>1, <2>4 DEF ReachKept
  <2>. QED BY <2>1, <2>2, <2>3, <2>5, QuietStep
<1>2. CASE Tick
  BY <1>2, TickKeeps
<1>3. CASE Expire
  BY <1>3, ExpireKeeps
<1>4. CASE Handle
  BY <1>4, HandleKeeps
<1>5. ASSUME NEW p \in Procs, NEW t \in Times, After(p, t) PROVE TimerInv'
  BY <1>5, AfterKeeps
<1>6. ASSUME NEW p \in Procs, NEW ts \in [1..Guards[p] -> Times], Select(p, ts)
      PROVE  TimerInv'
  BY <1>6, SelectKeeps
<1>7. ASSUME NEW p \in Procs, Communicate(p) PROVE TimerInv'
  BY <1>7, CommunicateKeeps
<1>8. ASSUME NEW p \in Procs, Step(p) PROVE TimerInv'
  BY <1>8, AfterInsertKeeps, RelinquishKeeps, EnableTestKeeps, AllocateKeeps,
     EnableInsertKeeps, AltShouldWaitKeeps, DisableKeeps, ReleaseKeeps, AltFinishKeeps DEF Step
<1>. QED BY <1>1, <1>2, <1>3, <1>4, <1>5, <1>6, <1>7, <1>8 DEF TimerNext

(* A block in the queue is for a guard that its process has enabled and    *)
(* not yet disabled (timer.c:216-229).                                     *)
LEMMA QueuedTurn ==
  ASSUME TimerInv, NEW d \in Range(tque), d \notin Procs
  PROVE  /\ d \in Blocks /\ proc[d] \in Procs /\ time[d] \in Times
         /\ Turns(proc[d], time[d]) # {}
         /\ pc[proc[d]] \in AltPCs
<1>0. /\ TimerTypeOK /\ QueuedBlocks
  BY DEF TimerInv
<1>1. d \in Descs /\ d \in Blocks /\ proc[d] \in Procs
  <2>1. d \in Descs
    BY <1>0, Elements DEF TimerTypeOK
  <2>. QED BY <1>0, <2>1, DescFacts DEF QueuedBlocks
<1> DEFINE p == proc[d]
           t == time[d]
<1>2. t \in Times
  BY <1>0, <1>1 DEF TimerTypeOK
<1>3. d \in Entries(p, t)
  BY <1>1 DEF Entries
<1>4. p \in Procs
  BY <1>1
<1> HIDE DEF p, t
<1>5. /\ IsFiniteSet(Entries(p, t)) /\ IsFiniteSet(Turns(p, t))
      /\ Cardinality(Entries(p, t)) \in Nat /\ Cardinality(Turns(p, t)) \in Nat
      /\ Cardinality(Entries(p, t)) <= Cardinality(Turns(p, t))
  BY <1>0, <1>2, <1>4, CountFinite DEF TimerInv, Counted
<1>6. Cardinality(Entries(p, t)) # 0
  BY <1>3, <1>5, FS_EmptySet
<1>7. Cardinality(Turns(p, t)) # 0
  BY <1>5, <1>6
<1>8. Turns(p, t) # {}
  BY <1>7, FS_EmptySet
<1>9. Reach(p) # 0
  BY <1>8 DEF Turns
<1>10. pc[p] \in AltPCs
  BY <1>9 DEF Reach, AltPCs
<1>. QED BY <1>1, <1>2, <1>8, <1>10 DEF p, t

(* The invariant is what NoDangling needs.                                 *)
LEMMA NothingDangles == TimerInv => NoDangling
<1> SUFFICES ASSUME TimerInv PROVE NoDangling
  OBVIOUS
<1>0. Stages /\ Sleeping /\ FreeBlocks
  BY DEF TimerInv
<1>1. ASSUME NEW d \in Range(tque), d \in Procs PROVE pc[d] \in {"relinquish", "asleep"}
  BY <1>0, <1>1 DEF Sleeping
<1>2. ASSUME NEW d \in Range(tque), d \notin Procs
      PROVE  d \notin Range(procmemlist) /\ alt_state[proc[d]] # "NONE"
  <2>1. d \notin Range(procmemlist)
    BY <1>0 DEF FreeBlocks
  <2>2. proc[d] \in Procs /\ pc[proc[d]] \in AltPCs
    BY <1>2, QueuedTurn
  <2>. QED BY <1>0, <2>1, <2>2 DEF Stages
<1>3. IsInjective(procmemlist)
  BY <1>0 DEF FreeBlocks
<1>. QED BY <1>1, <1>2, <1>3 DEF NoDangling

(* As long as removeFromQueue returns what its comment says, "removed item *)
(* (null if none)" (timer.c:168), no descriptor in the queue outlives the  *)
(* call or the block it is in, with any mix of alternations and After.     *)
THEOREM TimerNoDangling == TimerSpec => NeverDangling
<1>1. TimerInit => TimerInv
  BY TimerStarts
<1>2. TimerInv /\ Own /\ [TimerNext]_timerVars => TimerInv'
  BY TimerStep
<1>3. TimerInv => NoDangling
  BY NothingDangles
<1>. QED BY <1>1, <1>2, <1>3, PTL DEF TimerSpec, NeverDangling

-----------------------------------------------------------------------------
(* The steps of After.                                                     *)

(* No step returns from After before its time (timer.c:181).               *)
LEMMA NobodyEarly ==
  ASSUME TimerInv, [TimerNext]_timerVars, NEW p \in Procs,
         pc[p] \in {"relinquish", "asleep"}, pc'[p] = "run"
  PROVE  now >= time[p]
<1>0. TimerTypeOK /\ Stages /\ pc \in [Procs -> PCs]
  BY DEF TimerInv, TimerTypeOK
<1>1. CASE UNCHANGED timerVars
  BY <1>1 DEF timerVars
<1>2. CASE Tick \/ Expire
  BY <1>2 DEF Tick, Expire
<1>3. CASE Handle
  BY <1>3, HandleIs
<1>4. ASSUME NEW q \in Procs, NEW t \in Times, After(q, t) PROVE FALSE
  BY <1>0, <1>4 DEF After, Go
<1>5. ASSUME NEW q \in Procs, NEW ts \in [1..Guards[q] -> Times], Select(q, ts) PROVE FALSE
  BY <1>0, <1>5 DEF Select, Go
<1>6. ASSUME NEW q \in Procs, Communicate(q) PROVE FALSE
  BY <1>0, <1>6 DEF Communicate
<1>7. ASSUME NEW q \in Procs, Relinquish(q) PROVE now >= time[p]
  BY <1>0, <1>7 DEF Relinquish, Stages
<1>8. ASSUME NEW q \in Procs, AfterInsert(q) \/ AltFinish(q) \/ Allocate(q) PROVE FALSE
  BY <1>0, <1>8 DEF AfterInsert, AltFinish, Allocate, Go
<1>9. ASSUME NEW q \in Procs, EnableTest(q) \/ EnableInsert(q) \/ AltShouldWait(q) PROVE FALSE
  BY <1>0, <1>9 DEF EnableTest, EnableInsert, AltShouldWait
<1>10. ASSUME NEW q \in Procs, Disable(q) \/ Release(q) PROVE FALSE
  BY <1>0, <1>10 DEF Disable, Release, NextGuard
<1>. QED BY <1>1, <1>2, <1>3, <1>4, <1>5, <1>6, <1>7, <1>8, <1>9, <1>10 DEF TimerNext, Step

(* Nobody is back from After before he has been in the queue.              *)
LEMMA NotFromInsert ==
  ASSUME TimerInv, [TimerNext]_timerVars, NEW p \in Procs, pc[p] = "insert"
  PROVE  pc'[p] # "run"
<1>0. TimerTypeOK /\ pc \in [Procs -> PCs] /\ alt_state[p] # "WAITING"
  BY DEF TimerInv, TimerTypeOK, Stages
<1>1. CASE UNCHANGED timerVars \/ Tick \/ Expire
  BY <1>1 DEF timerVars, Tick, Expire
<1>2. CASE Handle
  BY <1>0, <1>2, HandleIs
<1>3. ASSUME NEW q \in Procs, NEW t \in Times, After(q, t) PROVE pc'[p] # "run"
  BY <1>0, <1>3 DEF After, Go
<1>4. ASSUME NEW q \in Procs, NEW ts \in [1..Guards[q] -> Times], Select(q, ts)
      PROVE  pc'[p] # "run"
  BY <1>0, <1>4 DEF Select, Go
<1>5. ASSUME NEW q \in Procs, Communicate(q) \/ Relinquish(q) \/ AfterInsert(q)
      PROVE  pc'[p] # "run"
  BY <1>0, <1>5 DEF Communicate, Relinquish, AfterInsert, Go
<1>6. ASSUME NEW q \in Procs, AltFinish(q) \/ Allocate(q) \/ EnableTest(q)
      PROVE  pc'[p] # "run"
  BY <1>0, <1>6 DEF AltFinish, Allocate, Go, EnableTest
<1>7. ASSUME NEW q \in Procs, EnableInsert(q) \/ AltShouldWait(q) PROVE pc'[p] # "run"
  BY <1>0, <1>7 DEF EnableInsert, AltShouldWait
<1>8. ASSUME NEW q \in Procs, Disable(q) \/ Release(q) PROVE pc'[p] # "run"
  BY <1>0, <1>8 DEF Disable, Release, NextGuard
<1>. QED BY <1>1, <1>2, <1>3, <1>4, <1>5, <1>6, <1>7, <1>8 DEF TimerNext, Step

(* The time of a call of After is not touched before the next call: the    *)
(* blocks of alternations are others (timer.c:187, 212).                   *)
LEMMA TimeKept ==
  ASSUME TimerInv, [TimerNext]_timerVars, NEW p \in Procs
  PROVE  now' >= now /\ (time'[p] = time[p] \/ pc'[p] = "insert")
<1>0. TimerTypeOK /\ pc \in [Procs -> PCs] /\ time \in [Descs -> Times] /\ now \in Nat
  BY TimesAreNat DEF TimerInv, TimerTypeOK
<1>1. CASE UNCHANGED <<now, time>>
  BY <1>0, <1>1
<1>2. CASE UNCHANGED timerVars \/ Expire \/ Handle
  BY <1>1, <1>2 DEF timerVars, Expire, Handle
<1>3. CASE Tick
  BY <1>0, <1>3 DEF Tick
<1>4. ASSUME NEW q \in Procs, NEW t \in Times, After(q, t)
      PROVE  now' >= now /\ (time'[p] = time[p] \/ pc'[p] = "insert")
  <2>1. /\ now' = now /\ time' = [time EXCEPT ![q] = t]
        /\ pc' = [pc EXCEPT ![q] = "insert"]
    BY <1>4 DEF After, Go, clock
  <2>. QED BY <1>0, <2>1, DescFacts
<1>5. ASSUME NEW q \in Procs, Allocate(q)
      PROVE  now' >= now /\ (time'[p] = time[p] \/ pc'[p] = "insert")
  <2> DEFINE b == IF procmemlist # << >> THEN Head(procmemlist) ELSE tail + 1
  <2>1. time' = [time EXCEPT ![b] = when[q][guard[q]]] /\ now' = now
    BY <1>5 DEF Allocate, clock
  <2>2. b \notin Procs
    <3>1. CASE procmemlist # << >>
      <4>1. b \in Range(procmemlist)
        BY <1>0, <3>1, TailRange DEF TimerTypeOK
      <4>2. b \in 1..tail /\ tail \in 0..MaxBlocks
        BY <1>0, <4>1 DEF TimerInv, FreeBlocks, TimerTypeOK
      <4> HIDE DEF b
      <4>3. b \in Blocks
        BY <4>2, DescFacts DEF Blocks
      <4>. QED BY <4>3, DescFacts
    <3>2. CASE procmemlist = << >>
      <4>1. b = tail + 1 /\ tail < MaxBlocks /\ tail \in 0..MaxBlocks
        BY <1>0, <1>5, <3>2 DEF Allocate, TimerTypeOK
      <4> HIDE DEF b
      <4>2. b \in Blocks
        BY <4>1, DescFacts DEF Blocks
      <4>. QED BY <4>2, DescFacts
    <3>. QED BY <3>1, <3>2
  <2> HIDE DEF b
  <2>. QED BY <1>0, <2>1, <2>2, DescFacts
<1>6. ASSUME NEW q \in Procs, NEW ts \in [1..Guards[q] -> Times], Select(q, ts)
      PROVE  UNCHANGED <<now, time>>
  BY <1>6 DEF Select, clock
<1>7. ASSUME NEW q \in Procs,
             \/ Communicate(q) \/ AfterInsert(q) \/ Relinquish(q)
             \/ EnableTest(q) \/ EnableInsert(q) \/ AltShouldWait(q)
             \/ Disable(q) \/ Release(q) \/ AltFinish(q)
      PROVE  UNCHANGED <<now, time>>
  BY <1>7 DEF Communicate, AfterInsert, Relinquish, EnableTest, EnableInsert, AltShouldWait,
     Disable, Release, AltFinish, clock
<1>. QED BY <1>1, <1>2, <1>3, <1>4, <1>5, <1>6, <1>7 DEF TimerNext, Step

(* Who is back from After stays past the time of that call.                *)
LEMMA NotEarlyKeeps ==
  ASSUME TimerInv, NotEarly, [TimerNext]_timerVars, TimerInv'
  PROVE  NotEarly'
<1> SUFFICES ASSUME NEW p \in Procs, Guards[p] = 0, pc'[p] = "run" PROVE now' >= time'[p]
  BY DEF NotEarly
<1>1. time'[p] = time[p] /\ now' >= now /\ p \in Descs
  BY TimeKept, DescFacts
<1>2. time[p] \in Nat /\ now \in Nat /\ now' \in Nat
  BY <1>1, TimesAreNat DEF TimerInv, TimerTypeOK, Times
<1>3. pc[p] \in {"run", "insert", "relinquish", "asleep"}
  <2>1. pc[p] \in PCs
    BY DEF TimerInv, TimerTypeOK
  <2>2. pc[p] \notin AltPCs
    <3>1. pc[p] \in AltPCs => Guards[p] > 0
      BY DEF TimerInv, Stages
    <3>. QED BY <3>1
  <2>. QED BY <2>1, <2>2 DEF PCs, AltPCs
<1>4. CASE pc[p] = "run"
  <2>1. now >= time[p]
    BY <1>4 DEF NotEarly
  <2>. QED BY <1>1, <1>2, <2>1
<1>5. CASE pc[p] \in {"relinquish", "asleep"}
  <2>1. now >= time[p]
    BY <1>5, NobodyEarly
  <2>. QED BY <1>1, <1>2, <2>1
<1>6. CASE pc[p] = "insert"
  BY <1>6, NotFromInsert
<1>. QED BY <1>3, <1>4, <1>5, <1>6

(* "Returns after given time" (timer.c:181): under the same condition no   *)
(* process comes back from After before its time.                          *)
THEOREM TimerNotEarly == TimerSpec => NeverEarly
<1>1. TimerInit => TimerInv /\ NotEarly
  <2>1. TimerInit => TimerInv
    BY TimerStarts
  <2>2. ASSUME TimerInit PROVE NotEarly
    BY <2>2, DescFacts DEF TimerInit, NotEarly
  <2>. QED BY <2>1, <2>2
<1>2. TimerInv /\ Own /\ [TimerNext]_timerVars => TimerInv'
  BY TimerStep
<1>3. TimerInv /\ NotEarly /\ [TimerNext]_timerVars /\ TimerInv' => NotEarly'
  BY NotEarlyKeeps
<1>. QED BY <1>1, <1>2, <1>3, PTL DEF TimerSpec, NeverEarly

-----------------------------------------------------------------------------
(* The interval timer.                                                     *)

(* A new first entry sets the timer to its time, another one leaves the    *)
(* timer to the first.                                                     *)
LEMMA InsertArms ==
  ASSUME TimerInv, Armed, NEW d \in Descs, d \notin Range(tque), insertInQueue(d),
         UNCHANGED <<time, now, pending>>, time[d] > now
  PROVE  Armed'
<1>0. TimerTypeOK /\ InTime /\ QueueOnce
  BY DEF TimerInv
<1>1. \/ Head(tque') = d /\ armed' = IF time[d] > now THEN time[d] ELSE 0
      \/ tque # << >> /\ Head(tque') = Head(tque) /\ armed' = armed
  BY <1>0, InsertEffect
<1>2. time[d] \in Nat /\ now \in Nat
  BY <1>0, TimesAreNat
<1>3. CASE Head(tque') = d /\ armed' = IF time[d] > now THEN time[d] ELSE 0
  <2>1. armed' = time[d] /\ armed' # 0 /\ armed' <= time'[Head(tque')]
    BY <1>2, <1>3
  <2>. QED BY <2>1 DEF Armed
<1>4. CASE tque # << >> /\ Head(tque') = Head(tque) /\ armed' = armed
  BY <1>4 DEF Armed
<1>. QED BY <1>1, <1>3, <1>4

(* A queue that only loses entries, its first for a later one, keeps the   *)
(* timer early enough (timer.c:161).                                       *)
LEMMA LaterArms ==
  ASSUME TimerInv, Armed, UNCHANGED <<time, armed, pending>>, tque' \in Seq(Descs),
         tque' # << >> => tque # << >> /\ time[Head(tque)] <= time[Head(tque')]
  PROVE  Armed'
<1>1. ASSUME tque' # << >>, ~ pending' PROVE armed' # 0 /\ armed' <= time'[Head(tque')]
  <2>1. Head(tque) \in Descs /\ Head(tque') \in Descs
    BY <1>1 DEF TimerInv, TimerTypeOK
  <2>2. time[Head(tque)] \in Nat /\ time[Head(tque')] \in Nat /\ armed \in Nat
    BY <2>1, TimesAreNat DEF TimerInv, TimerTypeOK
  <2>3. armed # 0 /\ armed <= time[Head(tque)]
    BY <1>1 DEF Armed
  <2>. QED BY <1>1, <2>2, <2>3
<1>. QED BY <1>1 DEF Armed

(* The timer stays set early enough.                                       *)
LEMMA ArmedKeeps ==
  ASSUME TimerInv, Own, Ahead, Armed, [TimerNext]_timerVars
  PROVE  Armed'
<1>0. TimerTypeOK /\ Stages /\ Sleeping /\ InTime /\ QueueOnce /\ HeldBlocks
  BY DEF TimerInv
<1>1. CASE UNCHANGED <<tque, armed, pending>> /\ (\A d \in Range(tque) : time'[d] = time[d])
  <2>1. tque # << >> => Head(tque) \in Range(tque)
    BY <1>0, TailRange DEF TimerTypeOK
  <2>. QED BY <1>1, <2>1 DEF Armed
<1>2. CASE Expire
  BY <1>2 DEF Expire, Armed
<1>3. CASE Handle
  <2>1. UNCHANGED <<now, time>> /\ tque' = SubSeq(tque, Due + 1, Len(tque))
    BY <1>3 DEF Handle
  <2>2. tque' \in Seq(Descs) /\ \A d \in Range(tque') : time[d] > now
    BY <1>0, <2>1, DropEffect
  <2>3. ASSUME tque' # << >> PROVE armed' # 0 /\ armed' <= time[Head(tque')]
    <3> DEFINE h == time[Head(tque')]
    <3>1. armed' = IF h - now > 0 THEN now + (h - now) ELSE 0
      BY <1>3, <2>1, <2>3 DEF Handle, set_timer_single
    <3>2. Head(tque') \in Descs /\ Head(tque') \in Range(tque')
      BY <2>2, <2>3, TailRange
    <3>3. h \in Nat /\ now \in Nat /\ h > now
      BY <1>0, <2>2, <3>2, TimesAreNat
    <3> HIDE DEF h
    <3>4. now + (h - now) = h /\ h - now > 0 /\ h # 0 /\ h <= h
      BY <3>3
    <3>. QED BY <3>1, <3>4 DEF h
  <2>. QED BY <2>1, <2>3 DEF Armed
<1>4. ASSUME NEW q \in Procs, AfterInsert(q) PROVE Armed'
  <2>1. /\ pc[q] = "insert" /\ insertInQueue(q) /\ UNCHANGED <<time, now, pending>>
    BY <1>4 DEF AfterInsert, Go
  <2>2. q \in Descs /\ q \notin Range(tque) /\ time[q] > now
    BY <1>0, <2>1, DescFacts DEF Sleeping, Ahead
  <2>. QED BY <2>1, <2>2, InsertArms
<1>5. ASSUME NEW q \in Procs, EnableInsert(q) PROVE Armed'
  <2>1. pc[q] = "insertAlt" /\ insertInQueue(desc[q]) /\ UNCHANGED <<time, now, pending>>
    BY <1>5 DEF EnableInsert
  <2>2. /\ desc[q] \in 1..tail /\ tail \in 0..MaxBlocks /\ desc[q] \notin Range(tque)
        /\ time[desc[q]] = when[q][guard[q]]
    BY <1>0, <2>1 DEF HeldBlocks, InHand, TimerTypeOK
  <2>3. desc[q] \in Descs /\ time[desc[q]] > now
    BY <2>1, <2>2, DescFacts DEF Ahead, Blocks
  <2>. QED BY <2>1, <2>2, <2>3, InsertArms
<1>6. ASSUME NEW q \in Procs, Disable(q) PROVE Armed'
  <2> DEFINE u == when[q][guard[q]]
  <2>1. pc[q] = "disable" /\ tque' = Unlinked(u, q) /\ UNCHANGED <<time, armed, pending>>
    BY <1>6 DEF Disable, clock
  <2>2. pc[q] \in AltPCs \ {"altFinish"}
    BY <2>1 DEF AltPCs
  <2>3. guard[q] \in Nat /\ guard[q] > 0 /\ Guards[q] \in Nat /\ guard[q] <= Guards[q]
    BY <1>0, <2>2, TimerAssumption DEF TimerTypeOK, Stages
  <2>4. guard[q] \in 1..Guards[q] /\ when[q] \in [1..Guards[q] -> Times]
    BY <1>0, <2>3 DEF TimerTypeOK
  <2>5. SearchEnds(u, q) # {} => Matches(CHOOSE i \in SearchEnds(u, q) : TRUE, u, q)
    BY <2>1 DEF Own
  <2>6. u \in Times
    BY <2>4
  <2> HIDE DEF u
  <2>7. /\ tque' \in Seq(Descs)
        /\ tque' # << >> => tque # << >> /\ time[Head(tque)] <= time[Head(tque')]
    BY <1>0, <2>1, <2>5, <2>6, UnlinkEffect
  <2>. QED BY <2>1, <2>7, LaterArms
<1>7. ASSUME NEW q \in Procs, NEW t \in Times, After(q, t) PROVE Armed'
  <2>1. q \notin Range(tque) /\ UNCHANGED <<tque, armed, pending>>
    BY <1>0, <1>7 DEF After, Go, Sleeping, clock
  <2>2. \A d \in Range(tque) : time'[d] = time[d]
    BY <1>0, <1>7, <2>1, Elements DEF After, TimerTypeOK
  <2>. QED BY <1>1, <2>1, <2>2
<1>8. ASSUME NEW q \in Procs, Allocate(q) PROVE Armed'
  <2> DEFINE b == IF procmemlist # << >> THEN Head(procmemlist) ELSE tail + 1
  <2>1. UNCHANGED <<tque, armed, pending>> /\ time' = [time EXCEPT ![b] = when[q][guard[q]]]
    BY <1>8 DEF Allocate, clock
  <2>2. b \notin Range(tque)
    <3>1. CASE procmemlist # << >>
      <4>1. b \in Range(procmemlist)
        BY <1>0, <3>1, TailRange DEF TimerTypeOK
      <4>. QED BY <4>1 DEF TimerInv, FreeBlocks
    <3>2. CASE procmemlist = << >>
      <4>1. b = tail + 1 /\ tail < MaxBlocks /\ tail \in 0..MaxBlocks
        BY <1>0, <1>8, <3>2 DEF Allocate, TimerTypeOK
      <4> HIDE DEF b
      <4>2. b \in Blocks /\ b > tail
        BY <4>1, DescFacts DEF Blocks
      <4>. QED BY <4>1, <4>2, DescFacts DEF TimerInv, QueuedBlocks
    <3>. QED BY <3>1, <3>2
  <2> HIDE DEF b
  <2>3. \A d \in Range(tque) : time'[d] = time[d]
    BY <1>0, <2>1, <2>2, Elements DEF TimerTypeOK
  <2>. QED BY <1>1, <2>1, <2>3
<1>9. ASSUME NEW q \in Procs, NEW ts \in [1..Guards[q] -> Times], Select(q, ts) PROVE Armed'
  BY <1>1, <1>9 DEF Select, clock
<1>10. ASSUME NEW q \in Procs,
              \/ Communicate(q) \/ Relinquish(q) \/ EnableTest(q)
              \/ AltShouldWait(q) \/ Release(q) \/ AltFinish(q)
       PROVE  Armed'
  BY <1>1, <1>10
     DEF Communicate, Relinquish, EnableTest, AltShouldWait, Release, AltFinish, clock
<1>11. CASE Tick \/ UNCHANGED timerVars
  BY <1>1, <1>11 DEF Tick, timerVars
<1>. QED BY <1>2, <1>3, <1>4, <1>5, <1>6, <1>7, <1>8, <1>9, <1>10, <1>11 DEF TimerNext, Step

(* If moreover what is inserted is still to come, the timer always runs to *)
(* the first timeout or its interrupt is pending: no removal and no early  *)
(* interrupt leaves a timeout behind, and a delay between the test of the  *)
(* clock and the insertion does so only if the time passes in it           *)
(* (timer.c:184-194, 209-215, 108).                                        *)
THEOREM TimerArmed == TimerSpec => StaysArmed
<1>1. TimerInit => TimerInv /\ Armed
  BY TimerStarts DEF TimerInit, Armed
<1>2. TimerInv /\ Own /\ [TimerNext]_timerVars => TimerInv'
  BY TimerStep
<1>3. TimerInv /\ Own /\ Ahead /\ Armed /\ [TimerNext]_timerVars => Armed'
  BY ArmedKeeps
<1>. QED BY <1>1, <1>2, <1>3, PTL DEF TimerSpec, StaysArmed

-----------------------------------------------------------------------------
(* Programs in which one process at a time waits for a timeout guard.      *)

\* Alternations have one timeout guard.
Single == \A p \in Procs : Guards[p] <= 1

\* While an alternation is in progress nobody else on the processor waits for
\* a time.
Alone == \A p, q \in Procs : alt_state[p] # "NONE" /\ q # p => pc[q] = "run"

(* Alone, a process with one guard finds its own entry or none: the queue  *)
(* has no other (timer.c:141-168).                                         *)
LEMMA AloneOwns ==
  ASSUME Single, TimerInv, Alone
  PROVE  Own
<1>0. TimerTypeOK /\ Stages /\ Sleeping
  BY DEF TimerInv
<1> SUFFICES ASSUME NEW p \in Procs, pc[p] = "disable",
                    SearchEnds(when[p][guard[p]], p) # {}
             PROVE  Matches(CHOOSE i \in SearchEnds(when[p][guard[p]], p) : TRUE,
                            when[p][guard[p]], p)
  BY DEF Own
<1>1. guard[p] = 1 /\ Reach(p) = 1
  <2>1. guard[p] > 0 /\ guard[p] \in Nat /\ guard[p] <= Guards[p] /\ Guards[p] <= 1
    BY <1>0 DEF Stages, TimerTypeOK, AltPCs, Single
  <2>2. Guards[p] \in Nat
    BY TimerAssumption
  <2>. QED BY <2>1, <2>2 DEF Reach
<1>2. \A q \in Procs : q # p => pc[q] = "run"
  BY <1>0 DEF Alone, Stages, AltPCs
<1>3. PICK i : i = CHOOSE x \in SearchEnds(when[p][guard[p]], p) : TRUE
  OBVIOUS
<1>4. i \in SearchEnds(when[p][guard[p]], p)
  BY <1>3
<1>5. i \in 1..Len(tque)
  BY <1>4 DEF SearchEnds
<1>6. tque[i] \in Range(tque)
  BY <1>0, <1>5, Elements DEF TimerTypeOK
<1>7. tque[i] \notin Procs
  <2> SUFFICES ASSUME tque[i] \in Procs PROVE FALSE
    OBVIOUS
  <2>1. pc[tque[i]] \in {"relinquish", "asleep"}
    BY <1>0, <1>6 DEF Sleeping
  <2>. QED BY <1>2, <2>1
<1>8. /\ proc[tque[i]] \in Procs /\ pc[proc[tque[i]]] \in AltPCs
      /\ Turns(proc[tque[i]], time[tque[i]]) # {}
  BY <1>6, <1>7, QueuedTurn
<1>9. proc[tque[i]] = p
  BY <1>2, <1>8 DEF AltPCs
<1>10. PICK x \in 1..Reach(p) : when[p][x] = time[tque[i]]
  BY <1>8, <1>9 DEF Turns
<1>11. time[tque[i]] = when[p][guard[p]]
  BY <1>1, <1>10
<1>. QED BY <1>3, <1>9, <1>11 DEF Matches

(* In such a program removeFromQueue always returns the caller's entry, so *)
(* nothing dangles: no entry outlives the call or the block it is in.      *)
THEOREM TimerSoloNoDangling == Single => (TimerSpec /\ []Alone => [](Own /\ NoDangling))
<1> SUFFICES ASSUME Single PROVE TimerSpec /\ []Alone => [](Own /\ NoDangling)
  OBVIOUS
<1>1. TimerInit => TimerInv
  BY TimerStarts
<1>2. TimerInv /\ Alone => Own
  BY AloneOwns
<1>3. TimerInv /\ Own /\ [TimerNext]_timerVars => TimerInv'
  BY TimerStep
<1>4. TimerInv => NoDangling
  BY NothingDangles
<1>. QED BY <1>1, <1>2, <1>3, <1>4, PTL DEF TimerSpec

(* There the timer runs to the first timeout whatever is inserted and      *)
(* removed, if what is inserted is still to come.                          *)
THEOREM TimerSoloArmed == Single => (TimerSpec /\ []Alone /\ []Ahead => []Armed)
<1> SUFFICES ASSUME Single PROVE TimerSpec /\ []Alone /\ []Ahead => []Armed
  OBVIOUS
<1>1. TimerSpec /\ []Alone => []Own
  BY TimerSoloNoDangling, PTL
<1>2. TimerSpec => ([]Own /\ []Ahead => []Armed)
  BY TimerArmed DEF StaysArmed
<1>. QED BY <1>1, <1>2, PTL

(* There nobody comes back from After before its time.                     *)
THEOREM TimerSoloNotEarly == Single => (TimerSpec /\ []Alone => []NotEarly)
<1> SUFFICES ASSUME Single PROVE TimerSpec /\ []Alone => []NotEarly
  OBVIOUS
<1>1. TimerSpec /\ []Alone => []Own
  BY TimerSoloNoDangling, PTL
<1>2. TimerSpec => ([]Own => []NotEarly)
  BY TimerNotEarly DEF NeverEarly
<1>. QED BY <1>1, <1>2, PTL
=============================================================================
