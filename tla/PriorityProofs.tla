--------------------------- MODULE PriorityProofs ---------------------------
(***************************************************************************)
(* Proofs about the priority words of Priority.                            *)
(*                                                                         *)
(* The argument is that every process owns a band of values: its own value *)
(* and the width(level) - 1 values after it.  A child's band lies inside   *)
(* its parent's band, and the bands of two children of one par_pri are     *)
(* disjoint and in order.  Ranked follows, because it compares the first   *)
(* values of two disjoint bands.                                           *)
(***************************************************************************)
EXTENDS Priority, TLAPS

\* How many values a process at a level owns: the gap at that level.
width(lvl) == IF lvl = 0 THEN 4096 ELSE pri_delta(lvl)

\* A word par_pri can produce: a level of at most four and a band in range.
Wellformed(p) ==
  /\ p \in Nat
  /\ pri_level(p) \in 0..PRI_LEVELS
  /\ p = pri_level(p) * 8192 + pri_value(p)
  /\ pri_value(p) + width(pri_level(p)) <= 4096

\* The inductive invariant: both words are well formed, equal until the
\* lines separate, and after that the band of hi ends before lo begins.
BandInv ==
  /\ split \in BOOLEAN
  /\ Wellformed(hi)
  /\ Wellformed(lo)
  /\ ~split => lo = hi
  /\ split => pri_value(hi) + width(pri_level(hi)) <= pri_value(lo)

(* The gaps of sched.h:57, level by level: the 3-bit shift divides the     *)
(* 12-bit range by eight at every level.                                   *)
LEMMA Gaps ==
  /\ pri_delta(1) = 512
  /\ pri_delta(2) = 64
  /\ pri_delta(3) = 8
  /\ pri_delta(4) = 1
BY DEF pri_delta, PRI_VAL_MASK

(* The widths of the bands, level by level.                                *)
LEMMA Widths ==
  /\ width(0) = 4096
  /\ width(1) = 512
  /\ width(2) = 64
  /\ width(3) = 8
  /\ width(4) = 1
BY Gaps DEF width

(* The fields of a well formed word are small numbers (sched.h:51-52).     *)
LEMMA Numbers ==
  ASSUME NEW p, Wellformed(p)
  PROVE  /\ pri_value(p) \in Nat
         /\ pri_value(p) <= 4095
         /\ pri_level(p) \in 0..4
         /\ width(pri_level(p)) \in Nat
         /\ width(pri_level(p)) >= 1
<1>1. pri_value(p) \in Nat /\ pri_value(p) <= 4095
  BY DEF Wellformed, pri_value, PRI_VAL_MASK
<1>2. pri_level(p) \in 0..4
  BY DEF Wellformed, PRI_LEVELS
<1>3. width(pri_level(p)) \in Nat /\ width(pri_level(p)) >= 1
  <2> DEFINE l == pri_level(p)
  <2>1. l = 0 \/ l = 1 \/ l = 2 \/ l = 3 \/ l = 4
    BY <1>2
  <2> HIDE DEF l
  <2>2. width(l) \in {4096, 512, 64, 8, 1}
    BY <2>1, Widths
  <2>. QED BY <2>2 DEF l
<1>. QED BY <1>1, <1>2, <1>3

(* A well formed word fits the 16-bit field (sched.h:83).                  *)
LEMMA WordFits ==
  ASSUME NEW p, Wellformed(p)
  PROVE  p \in Nat /\ p <= 65535
<1>1. PICK l \in 0..4 : l = pri_level(p)
  BY Numbers
<1>2. PICK v \in Nat : v = pri_value(p) /\ v <= 4095
  BY Numbers
<1>3. p = l * 8192 + v
  BY <1>1, <1>2 DEF Wellformed
<1>. QED BY <1>2, <1>3

(* Plain arithmetic on the ends of bands.                                  *)
LEMMA SumBelow ==
  \A x, w, y, v, z, u \in Int :
    /\ x + w <= y + v /\ y + v <= z => x + w <= z
    /\ x + w <= z /\ u >= z => x + w <= u
    /\ x + w <= z /\ w >= 1 => x < z
OBVIOUS

(* What a well formed pair of words has in common with plain numbers.      *)
LEMMA PairNumbers ==
  ASSUME BandInv
  PROVE  /\ Wellformed(hi) /\ Wellformed(lo)
         /\ pri_value(hi) \in Nat /\ pri_value(lo) \in Nat
         /\ width(pri_level(hi)) \in Nat /\ width(pri_level(hi)) >= 1
<1>1. Wellformed(hi) /\ Wellformed(lo)
  BY DEF BandInv
<1>. QED BY <1>1, Numbers

(* What par_pri gives to child number i (run.c:117): a well formed word    *)
(* one level down, i gaps after the parent, its band inside the parent's.  *)
LEMMA ChildStep ==
  ASSUME NEW p, Wellformed(p), MayPriPar(p), NEW i \in 0..7
  PROVE  /\ Wellformed(child_pri(p, i))
         /\ pri_level(p) \in 0..3
         /\ pri_level(child_pri(p, i)) = pri_level(p) + 1
         /\ pri_value(child_pri(p, i)) = pri_value(p) + i * width(pri_level(p) + 1)
         /\ pri_value(child_pri(p, i)) + width(pri_level(p) + 1)
              <= pri_value(p) + width(pri_level(p))
         /\ pri_value(child_pri(p, i)) >= pri_value(p)
<1> DEFINE l == pri_level(p)
           v == pri_value(p)
           a == width(l)
           b == width(l + 1)
           w == v + i * b
<1>1. /\ p \in Nat /\ l \in 0..3 /\ v \in Nat
      /\ p = l * 8192 + v /\ v + a <= 4096
  BY DEF Wellformed, MayPriPar, PRI_LEVELS, pri_value, PRI_VAL_MASK
<1>2. /\ pri_delta(l + 1) = b
      /\ \/ a = 4096 /\ b = 512
         \/ a = 512 /\ b = 64
         \/ a = 64 /\ b = 8
         \/ a = 8 /\ b = 1
  <2>1. pri_delta(l + 1) = b
    BY <1>1 DEF width
  <2>2. \/ l = 0 /\ l + 1 = 1
        \/ l = 1 /\ l + 1 = 2
        \/ l = 2 /\ l + 1 = 3
        \/ l = 3 /\ l + 1 = 4
    BY <1>1
  <2>. QED BY <2>1, <2>2, Widths
<1> HIDE DEF l, v, a, b
<1>3. /\ w \in Nat /\ v <= w /\ w <= 4095
      /\ w + b <= v + a
      /\ p + i * b = l * 8192 + w
  <2>1. CASE a = 4096 /\ b = 512
    BY <1>1, <2>1
  <2>2. CASE a = 512 /\ b = 64
    BY <1>1, <2>2
  <2>3. CASE a = 64 /\ b = 8
    BY <1>1, <2>3
  <2>4. CASE a = 8 /\ b = 1
    BY <1>1, <2>4
  <2>. QED BY <1>2, <2>1, <2>2, <2>3, <2>4
<1> HIDE DEF w
<1>4. child_pri(p, i) = priority(l + 1, l * 8192 + w)
  BY <1>2, <1>3 DEF child_pri, l
<1>5. (l * 8192 + w) % 4096 = w
  BY <1>1, <1>3
<1>6. child_pri(p, i) = (l + 1) * 8192 + w
  BY <1>4, <1>5 DEF priority, PRI_VAL_MASK
<1>7. pri_level(child_pri(p, i)) = l + 1 /\ pri_value(child_pri(p, i)) = w
  BY <1>1, <1>3, <1>6 DEF pri_level, pri_value, PRI_VAL_MASK
<1>8. w + b <= 4096 /\ (l + 1) * 8192 + w \in Nat /\ l + 1 \in 0..4 /\ w >= v
  BY <1>1, <1>2, <1>3
<1>9. Wellformed(child_pri(p, i))
  BY <1>6, <1>7, <1>8 DEF Wellformed, PRI_LEVELS, b
<1>. QED BY <1>1, <1>3, <1>7, <1>8, <1>9 DEF l, v, w, a, b

(* Two children of one par_pri: the earlier child's band ends before the   *)
(* later child's begins.                                                   *)
LEMMA SiblingBands ==
  ASSUME NEW p, Wellformed(p), MayPriPar(p),
         NEW i \in 0..7, NEW j \in 0..7, i < j
  PROVE  pri_value(child_pri(p, i)) + width(pri_level(child_pri(p, i)))
           <= pri_value(child_pri(p, j))
<1> DEFINE b == width(pri_level(p) + 1)
           v == pri_value(p)
<1>1. /\ pri_value(child_pri(p, i)) = v + i * b
      /\ pri_level(child_pri(p, i)) = pri_level(p) + 1
      /\ pri_level(p) \in 0..3
  BY ChildStep
<1>2. pri_value(child_pri(p, j)) = v + j * b
  BY ChildStep
<1>3. v \in Nat
  BY Numbers
<1>4. b \in {512, 64, 8, 1}
  <2>1. pri_level(p) + 1 \in {1, 2, 3, 4}
    BY <1>1
  <2>. QED BY <2>1, Widths
<1>5. width(pri_level(child_pri(p, i))) = b
  BY <1>1
<1> HIDE DEF b, v
<1>6. v + i * b + b <= v + j * b
  BY <1>3, <1>4
<1>. QED BY <1>1, <1>2, <1>5, <1>6

-----------------------------------------------------------------------------
(* The initial process owns the whole range (INIT_PRI, sched.h:59).        *)
LEMMA InitBands == Init => BandInv
<1> SUFFICES ASSUME Init PROVE BandInv
  OBVIOUS
<1>1. pri_level(0) = 0 /\ pri_value(0) = 0
  BY DEF pri_level, pri_value, PRI_VAL_MASK
<1>2. Wellformed(0)
  BY <1>1, Widths DEF Wellformed, PRI_LEVELS
<1>. QED BY <1>2 DEF Init, BandInv, INIT_PRI

(* par_pri keeps bands nested and siblings' bands apart (run.c:108-125).   *)
LEMMA NextBands == BandInv /\ [Next]_vars => BandInv'
<1> SUFFICES ASSUME BandInv, [Next]_vars PROVE BandInv'
  OBVIOUS
<1>0. \A i \in Indices : i \in 0..7
  BY IndicesAssumption DEF PRI_PROCS
<1>9. /\ pri_value(hi) \in Nat /\ pri_value(lo) \in Nat
      /\ width(pri_level(hi)) \in Nat /\ width(pri_level(hi)) >= 1
  BY PairNumbers
<1> USE DEF BandInv
<1>1. ASSUME NEW i \in Indices, Descend(i) PROVE BandInv'
  BY <1>0, <1>1, ChildStep DEF Descend
<1>2. ASSUME NEW i \in Indices, NEW j \in Indices, Separate(i, j) PROVE BandInv'
  <2>1. lo = hi /\ i \in 0..7 /\ j \in 0..7
    BY <1>0, <1>2 DEF Separate
  <2>2. Wellformed(hi') /\ Wellformed(lo')
    BY <1>2, <2>1, ChildStep DEF Separate
  <2>3. pri_value(hi') + width(pri_level(hi')) <= pri_value(lo')
    BY <1>2, <2>1, SiblingBands DEF Separate
  <2>. QED BY <1>2, <2>2, <2>3 DEF Separate
<1>3. ASSUME NEW i \in Indices, DescendHi(i) PROVE BandInv'
  <2>1. /\ Wellformed(hi')
        /\ pri_value(hi') + width(pri_level(hi'))
             <= pri_value(hi) + width(pri_level(hi))
    BY <1>0, <1>3, ChildStep DEF DescendHi
  <2>2. pri_value(hi') \in Nat /\ width(pri_level(hi')) \in Nat
    BY <2>1, Numbers
  <2>3. pri_value(hi) + width(pri_level(hi)) <= pri_value(lo)
    BY <1>3 DEF DescendHi
  <2>4. pri_value(hi') + width(pri_level(hi')) <= pri_value(lo)
    BY <1>9, <2>1, <2>2, <2>3, SumBelow
  <2>. QED BY <1>3, <2>1, <2>4 DEF DescendHi
<1>4. ASSUME NEW j \in Indices, DescendLo(j) PROVE BandInv'
  <2>1. Wellformed(lo') /\ pri_value(lo') >= pri_value(lo)
    BY <1>0, <1>4, ChildStep DEF DescendLo
  <2>2. pri_value(lo') \in Nat
    BY <2>1, Numbers
  <2>3. pri_value(hi) + width(pri_level(hi)) <= pri_value(lo)
    BY <1>4 DEF DescendLo
  <2>4. pri_value(hi) + width(pri_level(hi)) <= pri_value(lo')
    BY <1>9, <2>1, <2>2, <2>3, SumBelow
  <2>. QED BY <1>4, <2>1, <2>4 DEF DescendLo
<1>5. CASE UNCHANGED vars
  BY <1>5 DEF vars
<1>. QED BY <1>1, <1>2, <1>3, <1>4, <1>5 DEF Next

(* BandInv holds of every process tree that nested par_pri calls build.    *)
LEMMA BandsHold == Spec => []BandInv
BY InitBands, NextBands, PTL DEF Spec

(* For every choice of child positions, everything created under the i-th  *)
(* child of a par_pri outranks everything created under a later child,     *)
(* whatever the nesting (run.c:108-125, sched.h:45-57).                    *)
THEOREM PriorityOrder == Spec => []Ranked
<1>1. BandInv => Ranked
  <2> SUFFICES ASSUME BandInv, split PROVE pri_value(hi) < pri_value(lo)
    BY DEF Ranked, pri_gt
  <2>1. pri_value(hi) + width(pri_level(hi)) <= pri_value(lo)
    BY DEF BandInv
  <2>. QED BY <2>1, PairNumbers, SumBelow
<1>. QED BY <1>1, BandsHold, PTL

(* The 16-bit priority field of the process record never overflows.        *)
THEOREM PriorityType == Spec => []TypeOK
<1>1. BandInv => TypeOK
  BY WordFits DEF BandInv, TypeOK, Wellformed, PRI_LEVELS
<1>. QED BY <1>1, BandsHold, PTL

(* No nested par_pri ever hands out a higher priority than its caller's.   *)
THEOREM PriorityNeverPromoted == Spec => NeverPromoted
<1> DEFINE Lower == /\ pri_value(hi') >= pri_value(hi)
                    /\ pri_value(lo') >= pri_value(lo)
<1>1. BandInv /\ [Next]_vars => [Lower]_vars
  <2> SUFFICES ASSUME BandInv, Next PROVE Lower
    OBVIOUS
  <2>0. \A i \in Indices : i \in 0..7
    BY IndicesAssumption DEF PRI_PROCS
  <2>1. Wellformed(hi) /\ Wellformed(lo) /\ (~split => lo = hi)
    BY DEF BandInv
  <2>2. pri_value(hi) >= pri_value(hi) /\ pri_value(lo) >= pri_value(lo)
    BY PairNumbers
  <2>3. ASSUME NEW i \in Indices, Descend(i) PROVE Lower
    BY <2>0, <2>1, <2>3, ChildStep DEF Descend
  <2>4. ASSUME NEW i \in Indices, NEW j \in Indices, Separate(i, j) PROVE Lower
    BY <2>0, <2>1, <2>4, ChildStep DEF Separate
  <2>5. ASSUME NEW i \in Indices, DescendHi(i) PROVE Lower
    BY <2>0, <2>1, <2>2, <2>5, ChildStep DEF DescendHi
  <2>6. ASSUME NEW j \in Indices, DescendLo(j) PROVE Lower
    BY <2>0, <2>1, <2>2, <2>6, ChildStep DEF DescendLo
  <2>. QED BY <2>3, <2>4, <2>5, <2>6 DEF Next
<1>2. QED BY <1>1, BandsHold, PTL DEF Spec, NeverPromoted
=============================================================================
