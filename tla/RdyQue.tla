------------------------------- MODULE RdyQue -------------------------------
(***************************************************************************)
(* One ready queue of sched.c as it is in memory: the head of the queue    *)
(* and the next field of every process record.  take leaves the next field *)
(* of the process it removes as it was, and enqueue0 does not look whether *)
(* its process is in the queue already (two wakes for one wait put it      *)
(* there twice, see Sched), so whether the links always form a list that   *)
(* ends is not obvious.  "list" is the queue as Sched has it.              *)
(***************************************************************************)
EXTENDS ReadyList

CONSTANTS Records, NULL

ASSUME RecordsAssumption ==
  NULL \notin Records /\ Pri \in [Records -> Nat] /\ IsFiniteSet(Records)

VARIABLES
  head,    \* RdyQDesc.head
  next,    \* next[p]: the field of p's record
  list     \* the list that Sched keeps in its place

vars == <<head, next, list>>

TypeOK ==
  /\ head \in Records \cup {NULL}
  /\ next \in [Records -> Records \cup {NULL}]
  /\ list \in Seq(Records) /\ Len(list) <= Cardinality(Records)

\* sched_init's queue is empty; build_process sets next to NULL.
Init ==
  /\ head = NULL
  /\ next = [p \in Records |-> NULL]
  /\ list = << >>

\* node[i] is what the search has in curr after i turns of its loop.
node[i \in 0..Cardinality(Records)] ==
  IF i = 0 THEN head ELSE IF node[i - 1] = NULL THEN NULL ELSE next[node[i - 1]]

\* A plausible mistake, for the mutants: the search ignores priorities.
GoesOn_end(p, i) == node[i] # NULL

\* The condition of the loop in enqueue0, and the number of its turns.
GoesOn(p, i) == node[i] # NULL /\ pri_le(p, node[i])
StopsAt(p, i) == ~ GoesOn(p, i) /\ \A j \in 0..(i - 1) : GoesOn(p, j)

\* A plausible mistake, for the mutants: a first process without successor.
Link_first(p, prev, curr) ==
  /\ head' = IF prev = NULL THEN p ELSE head
  /\ next' = IF prev = NULL THEN next ELSE [next EXCEPT ![prev] = p, ![p] = curr]

\* The four cases of the insertion: prev and curr may each be NULL.
Link(p, prev, curr) ==
  /\ head' = IF prev = NULL THEN p ELSE head
  /\ next' = IF prev = NULL THEN [next EXCEPT ![p] = curr]
                            ELSE [next EXCEPT ![prev] = p, ![p] = curr]

Enqueue0(p) ==
  /\ \E i \in DOMAIN node :
       /\ StopsAt(p, i)
       /\ Link(p, IF i = 0 THEN NULL ELSE node[i - 1], node[i])
  /\ list' = enqueue0(list, p)

\* The end of take.
Take ==
  /\ head # NULL
  /\ head' = next[head]
  /\ list' = Tail(list)
  /\ UNCHANGED next

\* The end of take1: only if there are two processes.
Take1 ==
  /\ head # NULL /\ next[head] # NULL
  /\ head' = next[head]
  /\ list' = Tail(list)
  /\ UNCHANGED next

Next == (\E p \in Records : Enqueue0(p)) \/ Take \/ Take1

Spec == Init /\ [][Next]_vars

-----------------------------------------------------------------------------
(* The links from head form the list of Sched, and end there: enqueue0     *)
(* (sched.c:174-214) makes no cycle and loses no more than ReadyList says, *)
(* also when the process is in the queue already or carries a stale next.  *)
Linked ==
  \A i \in DOMAIN node : node[i] = IF i < Len(list) THEN list[i + 1] ELSE NULL

(* "Removes head (highest priority) process" (sched.c:227, 251): the head  *)
(* outranks or equals every process in the queue, and so on down the list. *)
Ordered ==
  \A i, j \in DOMAIN node :
    i < j /\ node[j] # NULL => Pri[node[i]] <= Pri[node[j]]
=============================================================================
