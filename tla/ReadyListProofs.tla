--------------------------- MODULE ReadyListProofs --------------------------
(***************************************************************************)
(* What the list operations of the ready queues do, for lists of any       *)
(* length over any set of processes.                                       *)
(***************************************************************************)
EXTENDS ReadyList, SequenceTheorems, FiniteSetTheorems, TLAPS

-----------------------------------------------------------------------------
(* Lists of processes.                                                     *)

(* The elements of a list, by position.                                    *)
LEMMA Elements ==
  ASSUME NEW S, NEW s \in Seq(S)
  PROVE  /\ DOMAIN s = 1..Len(s)
         /\ Len(s) \in Nat
         /\ \A i \in 1..Len(s) : s[i] \in Range(s) /\ s[i] \in S
         /\ \A x \in Range(s) : x \in S /\ \E i \in 1..Len(s) : s[i] = x
         /\ s # << >> <=> Len(s) > 0
BY DEF Range

(* What take removes: the head leaves the list and nothing else does.      *)
LEMMA TailRange ==
  ASSUME NEW S, NEW s \in Seq(S), s # << >>
  PROVE  /\ Head(s) \in Range(s) /\ Head(s) \in S
         /\ Tail(s) \in Seq(S)
         /\ Len(Tail(s)) = Len(s) - 1
         /\ Range(s) = {Head(s)} \cup Range(Tail(s))
         /\ IsInjective(s) => Head(s) \notin Range(Tail(s)) /\ IsInjective(Tail(s))
<1> DEFINE t == Tail(s)
<1>1. /\ t \in Seq(S) /\ Len(t) = Len(s) - 1 /\ Head(s) \in S
      /\ \A i \in 1..Len(t) : t[i] = s[i + 1]
  BY HeadTailProperties
<1>2. /\ DOMAIN s = 1..Len(s) /\ DOMAIN t = 1..Len(t)
      /\ Len(s) \in Nat /\ Len(s) > 0 /\ Len(t) \in Nat
      /\ Head(s) = s[1]
  BY <1>1, Elements
<1> HIDE DEF t
<1>3. Range(s) = {Head(s)} \cup Range(t)
  <2>1. ASSUME NEW x \in Range(s) PROVE x = Head(s) \/ x \in Range(t)
    <3>1. PICK i \in 1..Len(s) : s[i] = x
      BY <1>2 DEF Range
    <3>2. CASE i = 1
      BY <1>2, <3>1, <3>2
    <3>3. CASE i # 1
      <4>1. i - 1 \in 1..Len(t) /\ t[i - 1] = s[(i - 1) + 1]
        BY <1>1, <1>2, <3>3
      <4>2. t[i - 1] = x
        BY <3>1, <4>1
      <4>. QED BY <1>2, <4>1, <4>2 DEF Range
    <3>. QED BY <3>2, <3>3
  <2>2. ASSUME NEW x \in Range(t) PROVE x \in Range(s)
    <3>1. PICK i \in 1..Len(t) : t[i] = x
      BY <1>2 DEF Range
    <3>2. i + 1 \in 1..Len(s) /\ s[i + 1] = x
      BY <1>1, <1>2, <3>1
    <3>. QED BY <1>2, <3>2 DEF Range
  <2>3. Head(s) \in Range(s)
    BY <1>2 DEF Range
  <2>. QED BY <2>1, <2>2, <2>3
<1>4. ASSUME IsInjective(s) PROVE Head(s) \notin Range(t) /\ IsInjective(t)
  <2>1. \A i, j \in 1..Len(s) : s[i] = s[j] => i = j
    BY <1>2, <1>4 DEF IsInjective
  <2>2. \A i \in 1..Len(t) : i + 1 \in 1..Len(s) /\ i + 1 # 1
    BY <1>1, <1>2
  <2>3. 1 \in 1..Len(s)
    BY <1>2
  <2>4. \A i \in 1..Len(t) : t[i] # s[1]
    BY <1>1, <2>1, <2>2, <2>3
  <2>5. ASSUME NEW i \in 1..Len(t), NEW j \in 1..Len(t), t[i] = t[j] PROVE i = j
    <3>1. i + 1 = j + 1
      BY <1>1, <2>1, <2>2, <2>5
    <3>. QED BY <3>1
  <2>. QED BY <1>2, <2>4, <2>5 DEF IsInjective, Range
<1>. QED BY <1>1, <1>2, <1>3, <1>4 DEF t

(* What ipq_add does to the list of posted processes.                      *)
LEMMA AppendRange ==
  ASSUME NEW S, NEW s \in Seq(S), NEW x \in S
  PROVE  /\ Append(s, x) \in Seq(S)
         /\ Len(Append(s, x)) = Len(s) + 1
         /\ Range(Append(s, x)) = Range(s) \cup {x}
         /\ IsInjective(s) /\ x \notin Range(s) => IsInjective(Append(s, x))
<1> DEFINE t == Append(s, x)
<1>1. /\ t \in Seq(S) /\ Len(t) = Len(s) + 1
      /\ \A i \in 1..Len(s) : t[i] = s[i]
      /\ t[Len(s) + 1] = x
  BY AppendProperties
<1>2. DOMAIN s = 1..Len(s) /\ DOMAIN t = 1..Len(t) /\ Len(s) \in Nat
  BY <1>1, Elements
<1> HIDE DEF t
<1>3. \A i \in 1..Len(t) : i \in 1..Len(s) \/ i = Len(s) + 1
  BY <1>1, <1>2
<1>4. 1..Len(s) \subseteq 1..Len(t) /\ Len(s) + 1 \in 1..Len(t)
  BY <1>1, <1>2
<1>5. Range(t) = Range(s) \cup {x}
  <2>1. ASSUME NEW y \in Range(t) PROVE y \in Range(s) \/ y = x
    BY <1>1, <1>2, <1>3 DEF Range
  <2>2. ASSUME NEW y \in Range(s) PROVE y \in Range(t)
    BY <1>1, <1>2, <1>4 DEF Range
  <2>3. x \in Range(t)
    BY <1>1, <1>2, <1>4 DEF Range
  <2>. QED BY <2>1, <2>2, <2>3
<1>6. ASSUME IsInjective(s), x \notin Range(s) PROVE IsInjective(t)
  BY <1>1, <1>2, <1>3, <1>6 DEF IsInjective, Range
<1>. QED BY <1>1, <1>5, <1>6 DEF t

(* The search of enqueue0 stops inside the list, before any process of     *)
(* lower priority.                                                         *)
LEMMA PassedBound ==
  ASSUME NEW S, NEW s \in Seq(S), NEW p \in S
  PROVE  /\ Passed(s, p) \in Nat /\ Passed(s, p) <= Len(s)
         /\ \A m \in 1..Len(s) : ~ pri_le(p, s[m]) => Passed(s, p) < m
<1> DEFINE P == {i \in 1..Len(s) : \A j \in 1..i : pri_le(p, s[j])}
<1>0. Len(s) \in Nat
  OBVIOUS
<1>1. IsFiniteSet(1..Len(s)) /\ Cardinality(1..Len(s)) = Len(s)
  BY <1>0, FS_Interval
<1>2. P \in SUBSET (1..Len(s))
  OBVIOUS
<1>3. IsFiniteSet(P) /\ Cardinality(P) <= Len(s)
  BY <1>1, <1>2, FS_Subset
<1>4. Cardinality(P) \in Nat
  BY <1>3, FS_CardinalityType
<1>5. ASSUME NEW m \in 1..Len(s), ~ pri_le(p, s[m]) PROVE Cardinality(P) < m
  <2>1. P \in SUBSET (1..(m - 1))
    BY <1>0, <1>5
  <2>2. m - 1 \in Nat /\ m \in Nat
    OBVIOUS
  <2>3. IsFiniteSet(1..(m - 1)) /\ Cardinality(1..(m - 1)) = m - 1
    BY <2>2, FS_Interval
  <2>4. Cardinality(P) <= m - 1
    BY <2>1, <2>3, FS_Subset
  <2>. QED BY <1>4, <2>2, <2>4
<1>. QED BY <1>3, <1>4, <1>5 DEF Passed

\* M is the first k elements of s followed by p.
Front(M, s, p, k) ==
  /\ Len(M) = k + 1
  /\ \A i \in 1..k : M[i] = s[i]
  /\ M[k + 1] = p

\* R is s without its first k elements.
Back(R, s, k) ==
  /\ Len(R) = Len(s) - k
  /\ \A i \in 1..(Len(s) - k) : R[i] = s[k + i]

\* e is s with p inserted after the first k elements.
IsInsert(e, s, p, k) ==
  /\ Len(e) = Len(s) + 1
  /\ \A i \in 1..k : e[i] = s[i]
  /\ e[k + 1] = p
  /\ \A i \in (k + 1)..Len(s) : e[i + 1] = s[i]

(* The part of a list before a place.                                      *)
LEMMA FrontPart ==
  ASSUME NEW S, NEW s \in Seq(S), NEW d \in Nat, d <= Len(s)
  PROVE  /\ SubSeq(s, 1, d) \in Seq(S)
         /\ Len(SubSeq(s, 1, d)) = d
         /\ \A i \in 1..d : SubSeq(s, 1, d)[i] = s[i]
<1> DEFINE L == SubSeq(s, 1, d)
<1>1. \A i \in 1..d : s[i] \in S
  OBVIOUS
<1>2. /\ L \in Seq(S) /\ Len(L) = IF 1 <= d THEN d - 1 + 1 ELSE 0
      /\ \A i \in 1..(d - 1 + 1) : L[i] = s[1 + i - 1]
  BY <1>1, SubSeqProperties
<1>. QED BY <1>2

(* The part of a list after a place.                                       *)
LEMMA BackPart ==
  ASSUME NEW S, NEW s \in Seq(S), NEW k \in Nat, k <= Len(s)
  PROVE  SubSeq(s, k + 1, Len(s)) \in Seq(S) /\ Back(SubSeq(s, k + 1, Len(s)), s, k)
<1> DEFINE R == SubSeq(s, k + 1, Len(s))
<1>1. \A i \in (k + 1)..Len(s) : s[i] \in S
  OBVIOUS
<1>2. PICK n \in Nat : n = Len(s)
  OBVIOUS
<1>3. /\ R \in Seq(S) /\ Len(R) = IF k + 1 <= n THEN n - (k + 1) + 1 ELSE 0
      /\ \A i \in 1..(n - (k + 1) + 1) : R[i] = s[(k + 1) + i - 1]
  BY <1>1, <1>2, SubSeqProperties
<1> HIDE DEF R
<1>4. Len(R) = n - k
  <2>1. CASE k + 1 <= n
    <3>1. n - (k + 1) + 1 = n - k
      OBVIOUS
    <3>. QED BY <1>3, <2>1, <3>1
  <2>2. CASE ~ (k + 1 <= n)
    <3>1. n - k = 0
      BY <1>2, <2>2
    <3>. QED BY <1>3, <2>2, <3>1
  <2>. QED BY <2>1, <2>2
<1>5. \A i \in 1..(n - k) : i \in 1..(n - (k + 1) + 1) /\ (k + 1) + i - 1 = k + i
  OBVIOUS
<1>. QED BY <1>2, <1>3, <1>4, <1>5 DEF Back, R

(* Two lists glued together, the first ending in the new element p.        *)
LEMMA Glued ==
  ASSUME NEW S, NEW s \in Seq(S), NEW p, NEW k \in Nat, k <= Len(s),
         NEW M \in Seq(S), Front(M, s, p, k),
         NEW R \in Seq(S), Back(R, s, k)
  PROVE  M \o R \in Seq(S) /\ IsInsert(M \o R, s, p, k)
<1>1. PICK n \in Nat : n = Len(s)
  OBVIOUS
<1>2. /\ M \o R \in Seq(S) /\ Len(M \o R) = Len(M) + Len(R)
      /\ \A i \in 1..(Len(M) + Len(R)) :
           (M \o R)[i] = IF i <= Len(M) THEN M[i] ELSE R[i - Len(M)]
  BY ConcatProperties
<1>3. Len(M) = k + 1 /\ Len(R) = n - k /\ Len(M) + Len(R) = n + 1
  BY <1>1 DEF Front, Back
<1>4. ASSUME NEW i \in 1..k PROVE (M \o R)[i] = s[i]
  <2>1. i \in 1..(n + 1) /\ i <= k + 1
    BY <1>1
  <2>. QED BY <1>2, <1>3, <2>1 DEF Front
<1>5. (M \o R)[k + 1] = p
  <2>1. k + 1 \in 1..(n + 1) /\ k + 1 <= k + 1
    BY <1>1
  <2>. QED BY <1>2, <1>3, <2>1 DEF Front
<1>6. ASSUME NEW i \in (k + 1)..n PROVE (M \o R)[i + 1] = s[i]
  <2>1. /\ i + 1 \in 1..(n + 1) /\ ~ (i + 1 <= k + 1)
        /\ (i + 1) - (k + 1) = i - k
        /\ i - k \in 1..(n - k) /\ k + (i - k) = i
    BY <1>1
  <2>2. (M \o R)[i + 1] = R[i - k]
    BY <1>2, <1>3, <2>1
  <2>3. R[i - k] = s[k + (i - k)]
    BY <1>1, <2>1 DEF Back
  <2>. QED BY <2>1, <2>2, <2>3
<1>. QED BY <1>1, <1>2, <1>3, <1>4, <1>5, <1>6 DEF IsInsert

(* The list that enqueue0 builds for a process it does not find queued.    *)
LEMMA Inserted ==
  ASSUME NEW S, NEW s \in Seq(S), NEW p \in S, NEW k \in Nat, k <= Len(s)
  PROVE  /\ SubSeq(s, 1, k) \o <<p>> \o SubSeq(s, k + 1, Len(s)) \in Seq(S)
         /\ IsInsert(SubSeq(s, 1, k) \o <<p>> \o SubSeq(s, k + 1, Len(s)), s, p, k)
<1> DEFINE L == SubSeq(s, 1, k)
           R == SubSeq(s, k + 1, Len(s))
           M == Append(L, p)
<1>1. L \in Seq(S) /\ Len(L) = k /\ \A i \in 1..k : L[i] = s[i]
  BY FrontPart
<1>2. R \in Seq(S) /\ Back(R, s, k)
  BY BackPart
<1> HIDE DEF L, R
<1>3. L \o <<p>> = M
  BY <1>1, AppendIsConcat
<1>4. /\ M \in Seq(S) /\ Len(M) = k + 1
      /\ \A i \in 1..k : M[i] = L[i]
      /\ M[k + 1] = p
  BY <1>1, AppendProperties
<1> HIDE DEF M
<1>5. Front(M, s, p, k)
  BY <1>1, <1>4 DEF Front
<1>6. M \o R \in Seq(S) /\ IsInsert(M \o R, s, p, k)
  BY <1>2, <1>4, <1>5, Glued
<1>. QED BY <1>3, <1>6 DEF L, R

(* What an insertion means for the elements.                               *)
LEMMA InsertRange ==
  ASSUME NEW S, NEW s \in Seq(S), NEW p \in S, NEW k \in Nat, k <= Len(s),
         NEW e \in Seq(S), IsInsert(e, s, p, k)
  PROVE  /\ e # << >>
         /\ Range(e) = Range(s) \cup {p}
         /\ IsInjective(s) /\ p \notin Range(s) => IsInjective(e)
<1>1. PICK n \in Nat : n = Len(s)
  OBVIOUS
<1>2. Len(e) = n + 1 /\ DOMAIN s = 1..n /\ DOMAIN e = 1..(n + 1) /\ e # << >>
  BY <1>1, Elements DEF IsInsert
<1>3. /\ \A i \in 1..k : e[i] = s[i] /\ i \in 1..n
      /\ e[k + 1] = p
      /\ \A i \in (k + 1)..n : e[i + 1] = s[i] /\ i \in 1..n
  BY <1>1 DEF IsInsert
<1>4. ASSUME NEW i \in 1..(n + 1)
      PROVE  \/ i \in 1..k /\ e[i] = s[i]
             \/ i = k + 1 /\ e[i] = p
             \/ i > k + 1 /\ i - 1 \in (k + 1)..n /\ e[i] = s[i - 1]
  <2>1. i \in 1..k \/ i = k + 1 \/ (i - 1 \in (k + 1)..n /\ i > k + 1 /\ (i - 1) + 1 = i)
    BY <1>1
  <2>. QED BY <1>3, <2>1
<1>5. ASSUME NEW y \in Range(e) PROVE y \in Range(s) \cup {p}
  <2>1. PICK i \in 1..(n + 1) : e[i] = y
    BY <1>2 DEF Range
  <2>2. \A j \in 1..n : s[j] \in Range(s)
    BY <1>2 DEF Range
  <2>. QED BY <1>3, <1>4, <2>1, <2>2
<1>6. ASSUME NEW i \in 1..n PROVE s[i] \in Range(e)
  <2>1. i \in 1..k \/ i \in (k + 1)..n
    OBVIOUS
  <2>2. i \in 1..(n + 1) /\ i + 1 \in 1..(n + 1)
    OBVIOUS
  <2>. QED BY <1>2, <1>3, <2>1, <2>2 DEF Range
<1>7. k + 1 \in 1..(n + 1)
  BY <1>1
<1>8. Range(e) = Range(s) \cup {p}
  BY <1>2, <1>3, <1>5, <1>6, <1>7 DEF Range
<1>9. ASSUME IsInjective(s), p \notin Range(s) PROVE IsInjective(e)
  <2>1. /\ \A i, j \in 1..n : s[i] = s[j] => i = j
        /\ \A i \in 1..n : s[i] # p
    BY <1>2, <1>9 DEF IsInjective, Range
  <2>2. ASSUME NEW i \in 1..(n + 1), NEW j \in 1..(n + 1), e[i] = e[j], i < j
        PROVE  FALSE
    <3>1. CASE i \in 1..k /\ e[i] = s[i]
      <4>1. i # j
        BY <2>2
      <4>2. CASE j \in 1..k /\ e[j] = s[j]
        <5>1. i \in 1..n /\ j \in 1..n /\ s[i] = s[j]
          BY <1>3, <2>2, <3>1, <4>2
        <5>. QED BY <2>1, <4>1, <5>1
      <4>3. CASE j = k + 1 /\ e[j] = p
        BY <1>3, <2>1, <2>2, <3>1, <4>3
      <4>4. CASE j > k + 1 /\ j - 1 \in (k + 1)..n /\ e[j] = s[j - 1]
        <5>1. i # j - 1 /\ j - 1 \in 1..n
          BY <1>3, <3>1, <4>4
        <5>. QED BY <1>3, <2>1, <2>2, <3>1, <4>4, <5>1
      <4>. QED BY <1>4, <4>2, <4>3, <4>4
    <3>2. CASE i = k + 1 /\ e[i] = p
      <4>1. j > k + 1
        BY <2>2, <3>2
      <4>2. j - 1 \in (k + 1)..n /\ e[j] = s[j - 1]
        BY <1>4, <4>1
      <4>. QED BY <1>3, <2>1, <2>2, <3>2, <4>2
    <3>3. CASE i > k + 1 /\ i - 1 \in (k + 1)..n /\ e[i] = s[i - 1]
      <4>1. j > k + 1
        BY <2>2, <3>3
      <4>2. j - 1 \in (k + 1)..n /\ e[j] = s[j - 1]
        BY <1>4, <4>1
      <4>3. i - 1 # j - 1
        BY <2>2
      <4>. QED BY <1>3, <2>1, <2>2, <3>3, <4>2, <4>3
    <3>. QED BY <1>4, <3>1, <3>2, <3>3
  <2>3. \A i, j \in 1..(n + 1) : i < j \/ j < i \/ i = j
    OBVIOUS
  <2>4. \A i, j \in 1..(n + 1) : e[i] = e[j] => i = j
    BY <2>2, <2>3
  <2>. QED BY <1>2, <2>4 DEF IsInjective
<1>. QED BY <1>2, <1>8, <1>9

(* What enqueue0 does to a ready queue: the process is in it afterwards,   *)
(* no process of lower priority falls out, and if the process was not in   *)
(* the queue before, nothing falls out at all.                             *)
LEMMA EnqueueRange ==
  ASSUME NEW S, NEW s \in Seq(S), NEW p \in S
  PROVE  /\ enqueue0(s, p) \in Seq(S)
         /\ enqueue0(s, p) # << >>
         /\ Range(enqueue0(s, p)) \subseteq Range(s) \cup {p}
         /\ p \in Range(enqueue0(s, p))
         /\ \A x \in Range(s) : ~ pri_le(p, x) => x \in Range(enqueue0(s, p))
         /\ p \notin Range(s) =>
              /\ Range(enqueue0(s, p)) = Range(s) \cup {p}
              /\ IsInjective(s) => IsInjective(enqueue0(s, p))
<1> DEFINE k == Passed(s, p)
           n == Len(s)
           e == enqueue0(s, p)
<1>0. k \in Nat /\ n \in Nat /\ k <= n /\ DOMAIN s = 1..n
  BY PassedBound, Elements
<1>1. CASE p \notin Range(s)
  <2>1. e = SubSeq(s, 1, k) \o <<p>> \o SubSeq(s, k + 1, Len(s))
    <3>1. ~ (k + 1 <= k)
      BY <1>0
    <3>. QED BY <1>1, <3>1 DEF enqueue0
  <2> HIDE DEF k, e
  <2>2. e \in Seq(S) /\ IsInsert(e, s, p, k)
    BY <1>0, <2>1, Inserted
  <2>. QED BY <1>0, <1>1, <2>2, InsertRange DEF e
<1>2. CASE p \in Range(s)
  <2> DEFINE d == CHOOSE i \in 1..Len(s) : s[i] = p
  <2>1. d \in 1..n /\ s[d] = p
    BY <1>0, <1>2 DEF Range
  <2>2. d <= k => e = SubSeq(s, 1, d) \o SubSeq(s, k + 1, Len(s))
    BY <1>2 DEF enqueue0
  <2>3. ~ (d <= k) => e = SubSeq(s, 1, k) \o <<p>> \o SubSeq(s, k + 1, Len(s))
    BY <1>2 DEF enqueue0
  <2>4. \A m \in 1..n : ~ pri_le(p, s[m]) => k < m
    BY PassedBound
  <2> HIDE DEF d, k, e
  <2>5. CASE d <= k
    <3> DEFINE L == SubSeq(s, 1, d)
               R == SubSeq(s, k + 1, Len(s))
    <3>1. L \in Seq(S) /\ Len(L) = d /\ \A i \in 1..d : L[i] = s[i]
      BY <1>0, <2>1, FrontPart
    <3>2. R \in Seq(S) /\ Len(R) = n - k /\ \A i \in 1..(n - k) : R[i] = s[k + i]
      <4>1. R \in Seq(S) /\ Back(R, s, k)
        BY <1>0, BackPart
      <4>. QED BY <4>1 DEF Back
    <3>3. e = L \o R
      BY <2>2, <2>5
    <3> HIDE DEF L, R, n
    <3>4. e \in Seq(S) /\ Range(e) = Range(L) \cup Range(R)
      BY <3>1, <3>2, <3>3, ConcatProperties, RangeConcatenation
    <3>5. DOMAIN L = 1..d /\ DOMAIN R = 1..(n - k)
      BY <3>1, <3>2, Elements
    <3>6. p \in Range(L)
      <4>1. d \in 1..d
        BY <1>0, <2>1
      <4>. QED BY <2>1, <3>1, <3>5, <4>1 DEF Range
    <3>7. Range(L) \subseteq Range(s)
      <4>1. \A i \in 1..d : i \in 1..n
        BY <1>0, <2>1
      <4>. QED BY <1>0, <3>1, <3>5, <4>1 DEF Range
    <3>8. Range(R) \subseteq Range(s)
      <4>1. \A i \in 1..(n - k) : k + i \in 1..n
        BY <1>0
      <4>. QED BY <1>0, <3>2, <3>5, <4>1 DEF Range
    <3>9. ASSUME NEW x \in Range(s), ~ pri_le(p, x) PROVE x \in Range(R)
      <4>1. PICK m \in 1..n : s[m] = x
        BY <1>0 DEF Range
      <4>2. k < m
        BY <2>4, <3>9, <4>1
      <4>3. m - k \in 1..(n - k) /\ k + (m - k) = m
        BY <1>0, <4>2
      <4>4. R[m - k] = x
        BY <3>2, <4>1, <4>3
      <4>. QED BY <3>5, <4>3, <4>4 DEF Range
    <3>10. e # << >>
      BY <3>4, <3>6, Elements
    <3>. QED BY <1>2, <3>4, <3>6, <3>7, <3>8, <3>9, <3>10 DEF e
  <2>6. CASE ~ (d <= k)
    <3>1. e \in Seq(S) /\ IsInsert(e, s, p, k)
      BY <1>0, <2>3, <2>6, Inserted
    <3>. QED BY <1>0, <1>2, <3>1, InsertRange DEF e
  <2>. QED BY <2>5, <2>6
<1>. QED BY <1>1, <1>2

-----------------------------------------------------------------------------
(* enqueue0 on a list in the order of priority.                            *)

IsSorted(s) == \A i, j \in 1..Len(s) : i < j => Pri[s[i]] <= Pri[s[j]]

(* The search of enqueue0 passes what is not outranked by p, and stops at  *)
(* the first that is.                                                      *)
LEMMA PassedIs ==
  ASSUME NEW S, NEW s \in Seq(S), NEW p \in S
  PROVE  /\ Passed(s, p) \in 0..Len(s)
         /\ \A j \in 1..Passed(s, p) : pri_le(p, s[j])
         /\ Passed(s, p) < Len(s) => ~ pri_le(p, s[Passed(s, p) + 1])
<1> DEFINE P == {i \in 1..Len(s) : \A j \in 1..i : pri_le(p, s[j])}
           k == Cardinality(P)
<1>1. Len(s) \in Nat /\ k \in Nat /\ k <= Len(s)
  BY PassedBound DEF Passed
<1>2. IsFiniteSet(P)
  <2>1. IsFiniteSet(1..Len(s)) /\ P \in SUBSET (1..Len(s))
    BY <1>1, FS_Interval
  <2>. QED BY <2>1, FS_Subset
<1>3. ASSUME NEW i \in P PROVE i <= k
  <2>1. 1..i \subseteq P /\ i \in Nat
    BY <1>1
  <2>2. IsFiniteSet(1..i) /\ Cardinality(1..i) = i
    BY <2>1, FS_Interval
  <2>. QED BY <1>2, <2>1, <2>2, FS_Subset
<1>4. P = 1..k
  <2>1. P \subseteq 1..k
    BY <1>1, <1>3
  <2>2. IsFiniteSet(1..k) /\ Cardinality(1..k) = k
    BY <1>1, FS_Interval
  <2>. QED BY <2>1, <2>2, FS_Subset
<1>5. ASSUME NEW j \in 1..k PROVE pri_le(p, s[j])
  <2>1. j \in P /\ j \in 1..j
    BY <1>4
  <2>. QED BY <2>1
<1>6. ASSUME k < Len(s) PROVE ~ pri_le(p, s[k + 1])
  <2>1. k + 1 \in 1..Len(s) /\ k + 1 \notin 1..k
    BY <1>1, <1>6
  <2>2. PICK j \in 1..(k + 1) : ~ pri_le(p, s[j])
    BY <1>4, <2>1
  <2>3. j \notin 1..k
    BY <1>5, <2>2
  <2>. QED BY <1>1, <2>2, <2>3
<1>. QED BY <1>1, <1>5, <1>6 DEF Passed

\* e is s without the elements after position d up to position k.
IsCut(e, s, d, k) ==
  /\ Len(e) = d + (Len(s) - k)
  /\ \A i \in 1..d : e[i] = s[i]
  /\ \A i \in 1..(Len(s) - k) : e[d + i] = s[k + i]

(* The list that enqueue0 makes.                                           *)
LEMMA EnqueueShape ==
  ASSUME NEW S, NEW s \in Seq(S), NEW p \in S
  PROVE  /\ enqueue0(s, p) \in Seq(S)
         /\ \/ /\ IsInsert(enqueue0(s, p), s, p, Passed(s, p))
               /\ p \in Range(s) => \E m \in 1..Len(s) : s[m] = p /\ Passed(s, p) < m
            \/ \E d \in 1..Passed(s, p) : s[d] = p /\ IsCut(enqueue0(s, p), s, d, Passed(s, p))
<1> DEFINE k == Passed(s, p)
           n == Len(s)
           e == enqueue0(s, p)
           d == CHOOSE i \in 1..Len(s) : s[i] = p
<1>0. k \in Nat /\ n \in Nat /\ k <= n /\ DOMAIN s = 1..n /\ e \in Seq(S)
  BY PassedBound, Elements, EnqueueRange
<1>1. p \in Range(s) => d \in 1..n /\ s[d] = p
  BY <1>0 DEF Range
<1>2. CASE p \notin Range(s) \/ ~ (d <= k)
  <2>1. e = SubSeq(s, 1, k) \o <<p>> \o SubSeq(s, k + 1, Len(s))
    <3>1. ~ (k + 1 <= k)
      BY <1>0
    <3>. QED BY <1>2, <3>1 DEF enqueue0
  <2> HIDE DEF k, e, d
  <2>2. IsInsert(e, s, p, k)
    BY <1>0, <2>1, Inserted
  <2>3. p \in Range(s) => d \in 1..n /\ s[d] = p /\ k < d
    BY <1>0, <1>1, <1>2
  <2>. QED BY <1>0, <2>2, <2>3 DEF k, e
<1>3. CASE p \in Range(s) /\ d <= k
  <2> DEFINE L == SubSeq(s, 1, d)
             R == SubSeq(s, k + 1, Len(s))
  <2>1. e = L \o R
    BY <1>3 DEF enqueue0
  <2> HIDE DEF k, e, d
  <2>2. d \in 1..k /\ s[d] = p /\ d \in Nat /\ d <= n
    BY <1>0, <1>1, <1>3
  <2>3. L \in Seq(S) /\ Len(L) = d /\ \A i \in 1..d : L[i] = s[i]
    BY <2>2, FrontPart
  <2>4. R \in Seq(S) /\ Len(R) = n - k /\ \A i \in 1..(n - k) : R[i] = s[k + i]
    <3>1. R \in Seq(S) /\ Back(R, s, k)
      BY <1>0, BackPart
    <3>. QED BY <3>1 DEF Back
  <2> HIDE DEF L, R
  <2>5. /\ Len(e) = d + (n - k)
        /\ \A i \in 1..(d + (n - k)) : e[i] = IF i <= d THEN L[i] ELSE R[i - d]
    <3>1. /\ Len(L \o R) = Len(L) + Len(R)
          /\ \A i \in 1..(Len(L) + Len(R)) :
               (L \o R)[i] = IF i <= Len(L) THEN L[i] ELSE R[i - Len(L)]
      BY <2>3, <2>4, ConcatProperties
    <3>. QED BY <2>1, <2>3, <2>4, <3>1
  <2> HIDE DEF n
  <2>6. ASSUME NEW i \in 1..d PROVE e[i] = s[i]
    <3>1. i \in 1..(d + (n - k)) /\ i <= d
      BY <1>0, <2>2
    <3>. QED BY <2>3, <2>5, <3>1
  <2>7. ASSUME NEW i \in 1..(n - k) PROVE e[d + i] = s[k + i]
    <3>1. d + i \in 1..(d + (n - k)) /\ ~ (d + i <= d) /\ (d + i) - d = i
      BY <1>0, <2>2
    <3>. QED BY <2>4, <2>5, <3>1
  <2>8. IsCut(e, s, d, k)
    BY <2>5, <2>6, <2>7 DEF IsCut, n
  <2>. QED BY <1>0, <1>3, <2>2, <2>8 DEF k, e
<1>. QED BY <1>2, <1>3

(* The priorities of the members of a list are numbers.                    *)
LEMMA Priorities ==
  ASSUME NEW S, Pri \in [S -> Nat], NEW s \in Seq(S)
  PROVE  Len(s) \in Nat /\ \A i \in 1..Len(s) : s[i] \in S /\ Pri[s[i]] \in Nat
BY Elements

(* enqueue0 keeps the order.                                               *)
LEMMA EnqueueSorted ==
  ASSUME NEW S, Pri \in [S -> Nat], NEW s \in Seq(S), NEW p \in S, IsSorted(s)
  PROVE  IsSorted(enqueue0(s, p))
<1> DEFINE k == Passed(s, p)
           n == Len(s)
           e == enqueue0(s, p)
<1>1. /\ k \in 0..n /\ n \in Nat /\ Pri[p] \in Nat
      /\ \A j \in 1..k : Pri[p] >= Pri[s[j]]
      /\ k < n => Pri[p] < Pri[s[k + 1]]
  <2>1. \A j \in 1..n : Pri[s[j]] \in Nat
    BY Priorities
  <2>2. Pri[p] \in Nat /\ n \in Nat
    OBVIOUS
  <2>3. k < n => k + 1 \in 1..n
    BY <2>2, PassedIs
  <2>. QED BY <2>1, <2>2, <2>3, PassedIs DEF pri_le
<1>2. /\ \A i \in 1..n : Pri[s[i]] \in Nat
      /\ \A i, j \in 1..n : i <= j => Pri[s[i]] <= Pri[s[j]]
  <2>1. \A i \in 1..n : Pri[s[i]] \in Nat
    BY Priorities
  <2>. QED BY <2>1 DEF IsSorted
<1>3. \A j \in (k + 1)..n : Pri[p] < Pri[s[j]]
  <2>1. ASSUME NEW j \in (k + 1)..n PROVE Pri[p] < Pri[s[j]]
    <3>1. k + 1 \in 1..n /\ j \in 1..n /\ k + 1 <= j /\ k < n
      BY <1>1
    <3>2. Pri[s[k + 1]] <= Pri[s[j]] /\ Pri[s[k + 1]] \in Nat /\ Pri[s[j]] \in Nat
      BY <1>2, <3>1
    <3>. QED BY <1>1, <3>1, <3>2
  <2>. QED BY <2>1
<1>4. CASE IsInsert(e, s, p, k)
  <2> HIDE DEF k, n, e
  <2>1. /\ Len(e) = n + 1 /\ e[k + 1] = p
        /\ \A i \in 1..k : e[i] = s[i]
        /\ \A i \in (k + 2)..(n + 1) : e[i] = s[i - 1] /\ i - 1 \in (k + 1)..n
    <3>1. /\ Len(e) = n + 1 /\ e[k + 1] = p /\ \A i \in 1..k : e[i] = s[i]
          /\ \A i \in (k + 1)..n : e[i + 1] = s[i]
      BY <1>4 DEF IsInsert, n
    <3>2. ASSUME NEW i \in (k + 2)..(n + 1) PROVE e[i] = s[i - 1] /\ i - 1 \in (k + 1)..n
      <4>1. i - 1 \in (k + 1)..n /\ (i - 1) + 1 = i
        BY <1>1
      <4>. QED BY <3>1, <4>1
    <3>. QED BY <3>1, <3>2
  <2>2. ASSUME NEW i \in 1..(n + 1), NEW j \in 1..(n + 1), i < j
        PROVE  Pri[e[i]] <= Pri[e[j]]
    <3>1. CASE j \in 1..k
      <4>1. i \in 1..k /\ i \in 1..n /\ j \in 1..n /\ i <= j
        BY <1>1, <2>2, <3>1
      <4>. QED BY <1>2, <2>1, <3>1, <4>1
    <3>2. CASE j = k + 1
      <4>1. i \in 1..k /\ i \in 1..n
        BY <1>1, <2>2, <3>2
      <4>2. Pri[s[i]] \in Nat /\ Pri[p] >= Pri[s[i]]
        BY <1>1, <1>2, <4>1
      <4>. QED BY <1>1, <2>1, <3>2, <4>1, <4>2
    <3>3. CASE j \in (k + 2)..(n + 1)
      <4>1. e[j] = s[j - 1] /\ j - 1 \in (k + 1)..n /\ j - 1 \in 1..n
        BY <1>1, <2>1, <3>3
      <4>2. CASE i \in 1..k
        <5>1. i \in 1..n /\ i <= j - 1
          BY <1>1, <4>1, <4>2
        <5>. QED BY <1>2, <2>1, <4>1, <4>2, <5>1
      <4>3. CASE i = k + 1
        <5>1. Pri[p] < Pri[s[j - 1]] /\ Pri[s[j - 1]] \in Nat
          BY <1>2, <1>3, <4>1
        <5>. QED BY <1>1, <2>1, <4>1, <4>3, <5>1
      <4>4. CASE i \in (k + 2)..(n + 1)
        <5>1. e[i] = s[i - 1] /\ i - 1 \in 1..n /\ i - 1 <= j - 1
          BY <1>1, <2>1, <2>2, <4>4
        <5>. QED BY <1>2, <4>1, <5>1
      <4>5. i \in 1..k \/ i = k + 1 \/ i \in (k + 2)..(n + 1)
        BY <1>1
      <4>. QED BY <4>2, <4>3, <4>4, <4>5
    <3>4. j \in 1..k \/ j = k + 1 \/ j \in (k + 2)..(n + 1)
      BY <1>1
    <3>. QED BY <3>1, <3>2, <3>3, <3>4
  <2>. QED BY <2>1, <2>2 DEF IsSorted, e
<1>5. ASSUME NEW d \in 1..k, IsCut(e, s, d, k)
      PROVE  IsSorted(e)
  <2> HIDE DEF k, n, e
  <2>1. /\ Len(e) = d + (n - k) /\ \A i \in 1..d : e[i] = s[i]
        /\ \A i \in 1..(n - k) : e[d + i] = s[k + i]
    BY <1>5 DEF IsCut, n
  <2>2. ASSUME NEW i \in 1..(d + (n - k))
        PROVE  \/ i <= d /\ e[i] = s[i] /\ i \in 1..n
               \/ i > d /\ e[i] = s[i + (k - d)] /\ i + (k - d) \in 1..n
    <3>1. CASE i <= d
      <4>1. i \in 1..d /\ i \in 1..n
        BY <1>1, <3>1
      <4>. QED BY <2>1, <3>1, <4>1
    <3>2. CASE ~ (i <= d)
      <4>1. i - d \in 1..(n - k) /\ d + (i - d) = i /\ k + (i - d) = i + (k - d) /\ i > d
            /\ i + (k - d) \in 1..n
        BY <1>1, <3>2
      <4>. QED BY <2>1, <4>1
    <3>. QED BY <3>1, <3>2
  <2>3. ASSUME NEW i \in 1..(d + (n - k)), NEW j \in 1..(d + (n - k)), i < j
        PROVE  Pri[e[i]] <= Pri[e[j]]
    <3>1. CASE j <= d
      <4>1. e[i] = s[i] /\ e[j] = s[j] /\ i \in 1..n /\ j \in 1..n /\ i <= j
        BY <1>1, <2>2, <2>3, <3>1
      <4>. QED BY <1>2, <4>1
    <3>2. CASE ~ (j <= d) /\ i <= d
      <4>1. e[i] = s[i] /\ e[j] = s[j + (k - d)] /\ i \in 1..n /\ j + (k - d) \in 1..n
            /\ i <= j + (k - d)
        BY <1>1, <2>2, <2>3, <3>2
      <4>. QED BY <1>2, <4>1
    <3>3. CASE ~ (j <= d) /\ ~ (i <= d)
      <4>1. e[i] = s[i + (k - d)] /\ e[j] = s[j + (k - d)] /\ i + (k - d) \in 1..n
            /\ j + (k - d) \in 1..n /\ i + (k - d) <= j + (k - d)
        BY <1>1, <2>2, <2>3, <3>3
      <4>. QED BY <1>2, <4>1
    <3>. QED BY <3>1, <3>2, <3>3
  <2>. QED BY <2>1, <2>3 DEF IsSorted, e
<1>. QED BY <1>4, <1>5, EnqueueShape

(* The head of the queue after enqueue0.                                   *)
LEMMA EnqueueHead ==
  ASSUME NEW S, Pri \in [S -> Nat], NEW s \in Seq(S), NEW p \in S
  PROVE  /\ Head(enqueue0(s, p)) = p \/ (s # << >> /\ Head(enqueue0(s, p)) = Head(s))
         /\ s # << >> => Pri[Head(enqueue0(s, p))] <= Pri[Head(s)]
<1> DEFINE k == Passed(s, p)
           e == enqueue0(s, p)
<1>1. /\ k \in 0..Len(s) /\ Len(s) \in Nat /\ e \in Seq(S) /\ e # << >>
      /\ s # << >> => Len(s) > 0
  BY PassedIs, Elements, EnqueueRange
<1>2. Head(e) = e[1] /\ (s # << >> => Head(s) = s[1] /\ 1 \in 1..Len(s) /\ Pri[s[1]] \in Nat)
  <2>1. s # << >> => 1 \in 1..Len(s)
    BY <1>1
  <2>. QED BY <1>1, <2>1, Priorities
<1>3. CASE k = 0 /\ IsInsert(e, s, p, k)
  <2>1. e[1] = p
    BY <1>3 DEF IsInsert
  <2>2. s # << >> => ~ pri_le(p, s[1])
    BY <1>1, <1>3, PassedIs
  <2>. QED BY <1>2, <2>1, <2>2 DEF pri_le
<1>4. CASE k # 0
  <2>1. e[1] = s[1] /\ s # << >>
    <3>1. 1 \in 1..k /\ Len(s) > 0 /\ s # << >>
      BY <1>1, <1>4
    <3>2. IsInsert(e, s, p, k) => e[1] = s[1]
      BY <3>1 DEF IsInsert
    <3>3. ASSUME NEW d \in 1..k, IsCut(e, s, d, k) PROVE e[1] = s[1]
      <4>1. 1 \in 1..d
        OBVIOUS
      <4>. QED BY <3>3, <4>1 DEF IsCut
    <3>. QED BY <3>1, <3>2, <3>3, EnqueueShape
  <2>. QED BY <1>2, <2>1
<1>5. k = 0 => IsInsert(e, s, p, k)
  <2>1. k = 0 => 1..k = {}
    OBVIOUS
  <2>. QED BY <2>1, EnqueueShape
<1>. QED BY <1>3, <1>4, <1>5

(* A list in order stays in order when its head is taken, and the head     *)
(* is not outranked by what is left.                                       *)
LEMMA TailSorted ==
  ASSUME NEW S, Pri \in [S -> Nat], NEW s \in Seq(S), s # << >>, IsSorted(s)
  PROVE  /\ Tail(s) \in Seq(S) /\ Head(s) \in S
         /\ IsSorted(Tail(s))
         /\ Tail(s) # << >> => Head(Tail(s)) \in S /\ ~ pri_gt(Head(Tail(s)), Head(s))
<1> DEFINE t == Tail(s)
<1>1. /\ t \in Seq(S) /\ Len(t) = Len(s) - 1 /\ Head(s) \in S
      /\ \A i \in 1..Len(t) : t[i] = s[i + 1]
  BY HeadTailProperties
<1>2. Len(s) \in Nat /\ Len(s) > 0 /\ Head(s) = s[1] /\ (t # << >> => Len(t) > 0)
  BY <1>1, Elements
<1> HIDE DEF t
<1>3. ASSUME NEW i \in 1..Len(t), NEW j \in 1..Len(t), i < j PROVE Pri[t[i]] <= Pri[t[j]]
  <2>1. i + 1 \in 1..Len(s) /\ j + 1 \in 1..Len(s) /\ i + 1 < j + 1
    BY <1>1, <1>2, <1>3
  <2>. QED BY <1>1, <2>1 DEF IsSorted
<1>4. ASSUME t # << >> PROVE Head(t) \in S /\ ~ pri_gt(Head(t), Head(s))
  <2>1. Head(t) = t[1] /\ 1 \in 1..Len(t) /\ 1 \in 1..Len(s) /\ 2 \in 1..Len(s)
    BY <1>1, <1>2, <1>4
  <2>2. Head(t) = s[2]
    BY <1>1, <2>1
  <2>3. Pri[s[1]] <= Pri[s[2]]
    BY <2>1 DEF IsSorted
  <2>4. s[1] \in S /\ s[2] \in S /\ Pri[s[1]] \in Nat /\ Pri[s[2]] \in Nat
    BY <2>1, Priorities
  <2>. QED BY <1>2, <2>2, <2>3, <2>4 DEF pri_gt
<1>. QED BY <1>1, <1>3, <1>4 DEF IsSorted, t

\* x is in s at most as its last element.
OnlyLast(s, x) == \A i \in 1..Len(s) : s[i] = x => i = Len(s)

(* take and the end of the queue.                                          *)
LEMMA TailLast ==
  ASSUME NEW S, NEW s \in Seq(S), s # << >>, NEW x, OnlyLast(s, x)
  PROVE  /\ Tail(s) \in Seq(S) /\ Range(Tail(s)) \subseteq Range(s)
         /\ OnlyLast(Tail(s), x)
         /\ Head(s) = x => Tail(s) = << >> /\ ~ (Len(s) >= 2)
<1> DEFINE t == Tail(s)
<1>1. /\ t \in Seq(S) /\ Len(t) = Len(s) - 1
      /\ \A i \in 1..Len(t) : t[i] = s[i + 1]
  BY HeadTailProperties
<1>2. Len(s) \in Nat /\ Len(s) > 0 /\ Head(s) = s[1] /\ (t # << >> => Len(t) > 0)
  BY <1>1, Elements
<1>3. Range(t) \subseteq Range(s)
  BY TailRange
<1> HIDE DEF t
<1>4. ASSUME NEW i \in 1..Len(t), t[i] = x PROVE i = Len(t)
  <2>1. i + 1 \in 1..Len(s) /\ s[i + 1] = x
    BY <1>1, <1>2, <1>4
  <2>2. i + 1 = Len(s)
    BY <2>1 DEF OnlyLast
  <2>. QED BY <1>1, <1>2, <2>2
<1>5. ASSUME Head(s) = x PROVE t = << >> /\ ~ (Len(s) >= 2)
  <2>1. 1 \in 1..Len(s)
    BY <1>2
  <2>2. Len(s) = 1
    BY <1>2, <1>5, <2>1 DEF OnlyLast
  <2>. QED BY <1>1, <1>2, <2>2
<1>. QED BY <1>1, <1>3, <1>4, <1>5 DEF OnlyLast, t

-----------------------------------------------------------------------------
(* Lists that hold a process once.                                         *)

\* x is in s once at most.
OnceIn(s, x) == \A i, j \in 1..Len(s) : s[i] = x /\ s[j] = x => i = j

(* take removes the process from the list if it is the head.               *)
LEMMA OnceTail ==
  ASSUME NEW S, NEW s \in Seq(S), s # << >>, NEW x, OnceIn(s, x)
  PROVE  /\ OnceIn(Tail(s), x)
         /\ Head(s) = x => x \notin Range(Tail(s))
<1> DEFINE t == Tail(s)
<1>1. /\ t \in Seq(S) /\ Len(t) = Len(s) - 1 /\ \A i \in 1..Len(t) : t[i] = s[i + 1]
      /\ Len(s) \in Nat /\ Len(s) > 0 /\ Head(s) = s[1] /\ DOMAIN t = 1..Len(t)
  BY HeadTailProperties, Elements
<1> HIDE DEF t
<1>2. \A i \in 1..Len(t) : i + 1 \in 1..Len(s) /\ i + 1 # 1 /\ 1 \in 1..Len(s)
  BY <1>1
<1>3. ASSUME NEW i \in 1..Len(t), NEW j \in 1..Len(t), t[i] = x, t[j] = x PROVE i = j
  <2>1. i + 1 = j + 1
    BY <1>1, <1>2, <1>3 DEF OnceIn
  <2>. QED BY <2>1
<1>4. ASSUME Head(s) = x, NEW i \in 1..Len(t), t[i] = x PROVE FALSE
  <2>1. s[1] = x /\ s[i + 1] = x
    BY <1>1, <1>4
  <2>. QED BY <1>2, <2>1 DEF OnceIn
<1>. QED BY <1>1, <1>3, <1>4 DEF OnceIn, t, Range

(* ipq_add of a process that is not in the list, or of another.            *)
LEMMA OnceAppend ==
  ASSUME NEW S, NEW s \in Seq(S), NEW y \in S, NEW x, OnceIn(s, x),
         y = x => x \notin Range(s)
  PROVE  OnceIn(Append(s, y), x)
<1> DEFINE t == Append(s, y)
<1>1. /\ Len(t) = Len(s) + 1 /\ \A i \in 1..Len(s) : t[i] = s[i]
      /\ t[Len(s) + 1] = y /\ Len(s) \in Nat
      /\ \A i \in 1..Len(s) : s[i] \in Range(s)
  BY AppendProperties, Elements
<1> HIDE DEF t
<1>2. \A i \in 1..Len(t) : i \in 1..Len(s) \/ i = Len(s) + 1
  BY <1>1
<1>3. ASSUME NEW i \in 1..Len(t), NEW j \in 1..Len(t), t[i] = x, t[j] = x PROVE i = j
  BY <1>1, <1>2, <1>3 DEF OnceIn
<1>. QED BY <1>3 DEF OnceIn, t

(* enqueue0 keeps the process once even if it is inserted again: in a      *)
(* sorted list the search passes its first place.                          *)
LEMMA OnceEnqueue ==
  ASSUME NEW S, Pri \in [S -> Nat], NEW s \in Seq(S), NEW p \in S, IsSorted(s),
         NEW x, OnceIn(s, x)
  PROVE  OnceIn(enqueue0(s, p), x)
<1> DEFINE k == Passed(s, p)
           n == Len(s)
           e == enqueue0(s, p)
<1>1. /\ k \in 0..n /\ n \in Nat /\ Pri[p] \in Nat
      /\ k < n => Pri[p] < Pri[s[k + 1]]
      /\ \A i \in 1..n : s[i] \in Range(s)
  <2>1. \A j \in 1..n : Pri[s[j]] \in Nat
    BY Priorities
  <2>2. Pri[p] \in Nat /\ n \in Nat
    OBVIOUS
  <2>3. k < n => k + 1 \in 1..n
    BY <2>2, PassedIs
  <2>. QED BY <2>1, <2>2, <2>3, PassedIs, Elements DEF pri_le
<1>2. \A i \in 1..n : Pri[s[i]] \in Nat
  BY Priorities
<1>3. ASSUME NEW m \in 1..n, k < m PROVE s[m] # p
  <2>1. k + 1 \in 1..n /\ k + 1 <= m
    BY <1>1, <1>3
  <2>2. Pri[s[k + 1]] <= Pri[s[m]]
    BY <1>2, <2>1 DEF IsSorted
  <2>. QED BY <1>1, <1>2, <2>1, <2>2
<1>4. CASE IsInsert(e, s, p, k) /\ \A i \in 1..n : s[i] # p
  <2> HIDE DEF k, n, e
  <2>1. /\ Len(e) = n + 1 /\ e[k + 1] = p
        /\ \A i \in 1..k : e[i] = s[i]
        /\ \A i \in (k + 1)..n : e[i + 1] = s[i]
    BY <1>4 DEF IsInsert, n
  <2>2. ASSUME NEW i \in 1..(n + 1)
        PROVE  \/ i <= k /\ i \in 1..n /\ e[i] = s[i]
               \/ i = k + 1 /\ e[i] = p
               \/ i > k + 1 /\ i - 1 \in 1..n /\ e[i] = s[i - 1]
    <3>1. CASE i <= k
      BY <1>1, <2>1, <3>1
    <3>2. CASE i > k + 1
      <4>1. i - 1 \in (k + 1)..n /\ (i - 1) + 1 = i /\ i - 1 \in 1..n
        BY <1>1, <3>2
      <4>. QED BY <2>1, <3>2, <4>1
    <3>. QED BY <1>1, <2>1, <3>1, <3>2
  <2>3. ASSUME NEW i \in 1..(n + 1), NEW j \in 1..(n + 1), e[i] = x, e[j] = x, i < j
        PROVE  FALSE
    <3>0. \A a, b \in 1..n : s[a] = x /\ s[b] = x => a = b
      BY DEF OnceIn, n
    <3>1. CASE i = k + 1 \/ j = k + 1
      <4>1. x = p
        BY <2>1, <2>3, <3>1
      <4>. QED BY <1>4, <2>2, <2>3, <3>1, <4>1
    <3>2. CASE i # k + 1 /\ j # k + 1
      <4>1. \/ i <= k /\ j <= k
            \/ i <= k /\ j > k + 1
            \/ i > k + 1 /\ j > k + 1
        BY <1>1, <2>3, <3>2
      <4>2. CASE i <= k /\ j <= k
        BY <1>1, <2>2, <2>3, <3>0, <4>2
      <4>3. CASE i <= k /\ j > k + 1
        <5>1. i \in 1..n /\ s[i] = x
          BY <1>1, <2>2, <2>3, <4>3
        <5>2. j - 1 \in 1..n /\ s[j - 1] = x
          BY <1>1, <2>2, <2>3, <4>3
        <5>3. i = j - 1
          BY <3>0, <5>1, <5>2
        <5>. QED BY <1>1, <4>3, <5>3
      <4>4. CASE i > k + 1 /\ j > k + 1
        <5>1. i - 1 \in 1..n /\ s[i - 1] = x
          <6>1. ~ (i <= k) /\ i # k + 1
            BY <1>1, <4>4
          <6>. QED BY <2>2, <2>3, <6>1
        <5>2. j - 1 \in 1..n /\ s[j - 1] = x
          BY <1>1, <2>2, <2>3, <4>4
        <5>3. i - 1 = j - 1
          BY <3>0, <5>1, <5>2
        <5>. QED BY <2>3, <5>3
      <4>. QED BY <4>1, <4>2, <4>3, <4>4
    <3>. QED BY <3>1, <3>2
  <2>4. \A i, j \in 1..(n + 1) : i < j \/ j < i \/ i = j
    BY <1>1
  <2>. QED BY <2>1, <2>3, <2>4 DEF OnceIn, e
<1>5. ASSUME NEW d \in 1..k, IsCut(e, s, d, k)
      PROVE  OnceIn(e, x)
  <2> HIDE DEF k, n, e
  <2>1. /\ Len(e) = d + (n - k) /\ \A i \in 1..d : e[i] = s[i]
        /\ \A i \in 1..(n - k) : e[d + i] = s[k + i]
    BY <1>5 DEF IsCut, n
  <2>2. ASSUME NEW i \in 1..(d + (n - k))
        PROVE  \/ i <= d /\ e[i] = s[i] /\ i \in 1..n
               \/ i > d /\ e[i] = s[i + (k - d)] /\ i + (k - d) \in 1..n
    <3>1. CASE i <= d
      <4>1. i \in 1..d /\ i \in 1..n
        BY <1>1, <3>1
      <4>. QED BY <2>1, <3>1, <4>1
    <3>2. CASE ~ (i <= d)
      <4>1. i - d \in 1..(n - k) /\ d + (i - d) = i /\ k + (i - d) = i + (k - d) /\ i > d
            /\ i + (k - d) \in 1..n
        BY <1>1, <3>2
      <4>. QED BY <2>1, <4>1
    <3>. QED BY <3>1, <3>2
  <2>3. ASSUME NEW i \in 1..(d + (n - k)), NEW j \in 1..(d + (n - k)), e[i] = x, e[j] = x
        PROVE  i = j
    <3>0. \A a, b \in 1..n : s[a] = x /\ s[b] = x => a = b
      BY DEF OnceIn, n
    <3>1. CASE i <= d /\ j <= d
      BY <2>2, <2>3, <3>0, <3>1
    <3>2. CASE i <= d /\ j > d
      <4>1. i = j + (k - d)
        BY <2>2, <2>3, <3>0, <3>2
      <4>. QED BY <1>1, <3>2, <4>1
    <3>3. CASE i > d /\ j <= d
      <4>1. j = i + (k - d)
        BY <2>2, <2>3, <3>0, <3>3
      <4>. QED BY <1>1, <3>3, <4>1
    <3>4. CASE i > d /\ j > d
      <4>1. i + (k - d) = j + (k - d)
        BY <2>2, <2>3, <3>0, <3>4
      <4>. QED BY <1>1, <4>1
    <3>. QED BY <1>1, <3>1, <3>2, <3>3, <3>4
  <2>. QED BY <2>1, <2>3 DEF OnceIn, e
<1>6. CASE IsInsert(e, s, p, k) /\ (p \in Range(s) => \E m \in 1..n : s[m] = p /\ k < m)
  BY <1>1, <1>3, <1>4, <1>6
<1>. QED BY <1>5, <1>6, EnqueueShape

(* enqueue0 drops nobody of higher priority from a sorted list, not even   *)
(* when its process is in the list already.                                *)
LEMMA EnqueueAbove ==
  ASSUME NEW S, Pri \in [S -> Nat], NEW s \in Seq(S), NEW p \in S, IsSorted(s),
         NEW x \in Range(s), Pri[x] < Pri[p]
  PROVE  x \in Range(enqueue0(s, p))
<1> DEFINE k == Passed(s, p)
           n == Len(s)
           e == enqueue0(s, p)
<1>1. k \in 0..n /\ n \in Nat /\ Pri[p] \in Nat /\ \A i \in 1..n : Pri[s[i]] \in Nat
  BY Priorities, PassedIs
<1>2. PICK m \in 1..n : s[m] = x
  BY Elements
<1>3. CASE p \notin Range(s)
  BY <1>3, EnqueueRange
<1>4. CASE p \in Range(s)
  <2>1. e \in Seq(S)
    BY EnqueueShape
  <2>2. CASE IsInsert(e, s, p, k)
    <3> HIDE DEF k, n, e
    <3>1. /\ Len(e) = n + 1
          /\ \A i \in 1..k : e[i] = s[i]
          /\ \A i \in (k + 1)..n : e[i + 1] = s[i]
      BY <2>2 DEF IsInsert, n
    <3>2. m \in 1..k \/ m \in (k + 1)..n
      BY <1>1, <1>2
    <3>3. \E i \in 1..Len(e) : e[i] = x
      <4>1. CASE m \in 1..k
        <5>1. m \in 1..Len(e)
          BY <1>1, <3>1, <4>1
        <5>. QED BY <1>2, <3>1, <4>1, <5>1
      <4>2. CASE m \in (k + 1)..n
        <5>1. m + 1 \in 1..Len(e)
          BY <1>1, <3>1, <4>2
        <5>. QED BY <1>2, <3>1, <4>2, <5>1
      <4>. QED BY <3>2, <4>1, <4>2
    <3>. QED BY <2>1, <3>3, Elements DEF e
  <2>3. ASSUME NEW d \in 1..k, s[d] = p, IsCut(e, s, d, k) PROVE x \in Range(e)
    <3> HIDE DEF k, n, e
    <3>1. m < d /\ m \in 1..d /\ d \in 1..n
      <4>1. d \in 1..n
        BY <1>1
      <4>2. ~ (d <= m)
        <5>1. ASSUME d < m PROVE Pri[s[d]] <= Pri[s[m]]
          BY <1>2, <4>1, <5>1 DEF IsSorted, n
        <5>. QED BY <1>1, <1>2, <2>3, <4>1, <5>1
      <4>. QED BY <1>1, <4>1, <4>2
    <3>2. Len(e) = d + (n - k) /\ e[m] = s[m]
      BY <2>3, <3>1 DEF IsCut, n
    <3>3. m \in 1..Len(e)
      BY <1>1, <3>1, <3>2
    <3>. QED BY <1>2, <2>1, <3>2, <3>3, Elements
  <2>. QED BY <2>2, <2>3, EnqueueShape
<1>. QED BY <1>3, <1>4
=============================================================================
