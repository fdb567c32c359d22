------------------------------ MODULE Priority ------------------------------
(***************************************************************************)
(* The priority words of sched.h and the way par_pri and placed_par_pri    *)
(* (run.c) hand them out.                                                  *)
(*                                                                         *)
(* A priority is a 16-bit word: the top 3 bits are the nesting level of    *)
(* PRI PAR, the low 12 bits the value; a SMALLER value is a HIGHER         *)
(* priority.  A par_pri gives child i the level of the parent plus one and *)
(* the value of the parent plus i gaps, and the gap shrinks by a factor of *)
(* eight with every level, so that everything a child ever creates fits    *)
(* between that child and its next sibling.                                *)
(*                                                                         *)
(* The state machine follows one line of descent from the initial process  *)
(* down to a par_pri whose children i < j it singles out, and then two     *)
(* lines, one below each: "hi" is a descendant of the i-th, "lo" of the    *)
(* j-th child.  An ordinary par copies the priority of the parent and so   *)
(* is a stuttering step here.                                              *)
(***************************************************************************)
EXTENDS Integers

CONSTANT Indices      \* bound: the child positions that are explored

PRI_PROCS    == 8
PRI_LEVELS   == 4
PRI_VAL_MASK == 4095

ASSUME IndicesAssumption == Indices \subseteq 0..(PRI_PROCS - 1)

\* The macros of sched.h.  x & PRI_VAL_MASK is x % (PRI_VAL_MASK + 1) and
\* lvl << 13 is lvl * 8192; the 16-bit field never overflows, because par_pri
\* refuses a level above PRI_LEVELS.
priority(lvl, val) == lvl * 8192 + (val % (PRI_VAL_MASK + 1))
pri_level(p)       == p \div 8192
pri_value(p)       == p % (PRI_VAL_MASK + 1)
pri_gt(p1, p2)     == pri_value(p1) < pri_value(p2)

\* (PRI_VAL_MASK+1)/(1 << (3*lvl)), with the powers of eight tabulated for the
\* eight levels that 3 bits can hold.
pri_delta(lvl) ==
  (PRI_VAL_MASK + 1)
    \div <<1, 8, 64, 512, 4096, 32768, 262144, 2097152>>[lvl + 1]

INIT_PRI == 0
IDLE_PRI == PRI_VAL_MASK

\* Plausible mistakes in run.c, for the mutants: the gap of the parent's level
\* (run.c:107); the child number subtracted from the end of the band.
child_pri_gap(p, i) ==
  LET level == pri_level(p) + 1
  IN  priority(level, p + i * pri_delta(level - 1))
child_pri_down(p, i) ==
  LET level == pri_level(p) + 1
  IN  priority(level, p - i * pri_delta(level))

\* The word that par_pri gives to child number i of a process with word p.
child_pri(p, i) ==
  LET level == pri_level(p) + 1
  IN  priority(level, p + i * pri_delta(level))

-----------------------------------------------------------------------------
VARIABLES
  hi, lo,    \* the priority words of the two processes followed
  split      \* have the two lines of descent separated?

vars == <<hi, lo, split>>

\* The words fit the 16-bit field and its level stays within PRI_LEVELS.
TypeOK ==
  /\ hi \in Nat /\ hi <= 65535 /\ pri_level(hi) <= PRI_LEVELS
  /\ lo \in Nat /\ lo <= 65535 /\ pri_level(lo) <= PRI_LEVELS
  /\ split \in BOOLEAN

Init ==
  /\ hi = INIT_PRI
  /\ lo = INIT_PRI
  /\ split = FALSE

\* par_pri stops the program ("Too many PRI levels") below level 4.
MayPriPar(p) == pri_level(p) + 1 <= PRI_LEVELS

\* The common ancestor runs a par_pri and we follow one child of it.
Descend(i) ==
  /\ ~split
  /\ MayPriPar(hi)
  /\ hi' = child_pri(hi, i)
  /\ lo' = hi'
  /\ UNCHANGED split

\* The common ancestor runs a par_pri and we follow two children of it.
Separate(i, j) ==
  /\ ~split
  /\ i < j
  /\ MayPriPar(hi)
  /\ hi' = child_pri(hi, i)
  /\ lo' = child_pri(lo, j)
  /\ split' = TRUE

\* One of the two followed processes runs a par_pri of its own.
DescendHi(i) ==
  /\ split
  /\ MayPriPar(hi)
  /\ hi' = child_pri(hi, i)
  /\ UNCHANGED <<lo, split>>

DescendLo(j) ==
  /\ split
  /\ MayPriPar(lo)
  /\ lo' = child_pri(lo, j)
  /\ UNCHANGED <<hi, split>>

Next ==
  \/ \E i \in Indices : Descend(i)
  \/ \E i, j \in Indices : Separate(i, j)
  \/ \E i \in Indices : DescendHi(i)
  \/ \E j \in Indices : DescendLo(j)

Spec == Init /\ [][Next]_vars

-----------------------------------------------------------------------------
(* "par_pri imposes priorities on the processes: the first process gets    *)
(* the highest priority, the second the next highest and so on" (README):  *)
(* everything the i-th child of a par_pri creates, at any depth of nesting, *)
(* outranks everything a later child creates.  The two words come from     *)
(* different sequences of nested par_pri calls (run.c:108-125).             *)
Ranked == split => pri_gt(hi, lo)

(* A nested par_pri never ranks a process above the process that called    *)
(* the outermost one, and never lets it wrap around the 12-bit field       *)
(* (run.c:117): going down, the value never decreases.                     *)
NeverPromoted ==
  [][pri_value(hi') >= pri_value(hi) /\ pri_value(lo') >= pri_value(lo)]_vars

(* "priority of idle process (lowest)" (sched.h:60): every process that    *)
(* par_pri can create outranks the idle process of its processor, so that  *)
(* waking it while the processor idles preempts the idle process           *)
(* (sched.c:296).  It does not hold: see section 5 of README.md.           *)
AboveIdle == pri_gt(lo, IDLE_PRI)

=============================================================================
