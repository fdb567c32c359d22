----------------------------- MODULE ReadyList ------------------------------
(***************************************************************************)
(* A ready queue of sched.c as the list its links form, and what enqueue0  *)
(* does to it.  RdyQue checks these operators against the linked records;  *)
(* Sched uses them.                                                        *)
(***************************************************************************)
EXTENDS Integers, Sequences, FiniteSets, Functions

CONSTANT Pri    \* Pri[p]: the priority value, SMALLER is higher (Process.pri)

\* sched.h's comparisons of two processes' priorities.
pri_le(p, q) == Pri[p] >= Pri[q]
pri_gt(p, q) == Pri[p] < Pri[q]

\* How many processes at the front of s the search of enqueue0 passes.
Passed(s, p) ==
  Cardinality({i \in 1..Len(s) : \A j \in 1..i : pri_le(p, s[j])})

\* enqueue0 relinks a process it finds in the queue already, and everything
\* between its old and its new place falls out of the list.
enqueue0(s, p) ==
  LET k == Passed(s, p)
      d == IF p \in Range(s) THEN CHOOSE i \in 1..Len(s) : s[i] = p ELSE k + 1
  IN  IF d <= k
      THEN SubSeq(s, 1, d) \o SubSeq(s, k + 1, Len(s))
      ELSE SubSeq(s, 1, k) \o <<p>> \o SubSeq(s, k + 1, Len(s))
=============================================================================
