-------------------------------- MODULE Ipq ---------------------------------
(***************************************************************************)
(* The interprocessor queues of ipq.m, one atomic operation at a time: the *)
(* ring of slots, the two indices, adders that claim a slot before they    *)
(* fill it, and the remover, which stops at a slot that is not filled yet. *)
(*                                                                         *)
(* Both sides run with interrupts disabled (schedule, take, the handler),  *)
(* so each processor is in at most one of them and stays there until it is *)
(* done.  enable delivers what is pending before it returns; an interrupt  *)
(* that is sent to a processor with interrupts enabled may take a while.   *)
(***************************************************************************)
EXTENDS Integers, Sequences, FiniteSets

CONSTANTS
  Puns,        \* the processors
  Procs,       \* the processes that are made ready by another processor
  Place,       \* Place[p]: the processor p runs on
  QSIZE,       \* slots in a queue
  MaxSignals,  \* bound: nobody is woken while so many interrupts are pending
  NULL

ASSUME IpqAssumption ==
  /\ IsFiniteSet(Puns)
  /\ Place \in [Procs -> Puns]
  /\ QSIZE \in Nat /\ QSIZE >= 2
  /\ MaxSignals \in Nat
  /\ NULL \notin Procs

VARIABLES
  nextAdd,   \* nextAdd[u]: the slot of the next add
  nextRem,   \* nextRem[u]: the slot of the next removal
  que,       \* que[u][s]: what slot s holds, or NULL
  signals,   \* signals[u]: interprocessor interrupts pending on u
  pc,        \* where processor x is in ipq_add or ipq_remove
  proc,      \* the process it adds, or has just removed
  a,         \* the local variable of ipq_add
  waits      \* the processes that wait and may be made ready

vars == <<nextAdd, nextRem, que, signals, pc, proc, a, waits>>

Slots == 0..(QSIZE - 1)

Succ(s) == (s + 1) % QSIZE

Adding == {"loadAdd", "loadRem", "exchange", "store", "send"}
PCs == Adding \cup {"run", "enable", "test", "take", "release"}

TypeOK ==
  /\ nextAdd \in [Puns -> Slots]
  /\ nextRem \in [Puns -> Slots]
  /\ que \in [Puns -> [Slots -> Procs \cup {NULL}]]
  /\ signals \in [Puns -> Nat]
  /\ pc \in [Puns -> PCs]
  /\ proc \in [Puns -> Procs \cup {NULL}]
  /\ a \in [Puns -> Slots]
  /\ waits \subseteq Procs

ipq_init ==
  /\ nextAdd = [u \in Puns |-> 0]
  /\ nextRem = [u \in Puns |-> 0]
  /\ que = [u \in Puns |-> [s \in Slots |-> NULL]]

Init ==
  /\ ipq_init
  /\ signals = [u \in Puns |-> 0]
  /\ pc = [x \in Puns |-> "run"]
  /\ proc = [x \in Puns |-> NULL]
  /\ a = [x \in Puns |-> 0]
  /\ waits = Procs

Go(x, from, to) == pc[x] = from /\ pc' = [pc EXCEPT ![x] = to]

-----------------------------------------------------------------------------
(* ipq_add.                                                                *)

\* schedule finds that p runs on another processor and disables interrupts.
\* p is not made ready again before it has run and waits again.
Schedule(x, p) ==
  /\ Go(x, "run", "loadAdd")
  /\ p \in waits /\ Place[p] # x
  /\ signals[Place[p]] < MaxSignals
  /\ waits' = waits \ {p}
  /\ proc' = [proc EXCEPT ![x] = p]
  /\ UNCHANGED <<nextAdd, nextRem, que, signals, a>>

LoadAdd(x) ==
  /\ Go(x, "loadAdd", "loadRem")
  /\ a' = [a EXCEPT ![x] = nextAdd[Place[proc[x]]]]
  /\ UNCHANGED <<nextAdd, nextRem, que, signals, proc, waits>>

\* A plausible mistake, for the mutants: empty and full are confused.
Full_never(u, s) == FALSE
\* The test of the spin loop.
Full(u, s) == nextRem[u] = Succ(s)

LoadRem(x) ==
  /\ pc[x] = "loadRem"
  /\ pc' = [pc EXCEPT ![x] =
       IF Full(Place[proc[x]], a[x]) THEN "loadAdd" ELSE "exchange"]
  /\ UNCHANGED <<nextAdd, nextRem, que, signals, proc, a, waits>>

\* The compare-and-exchange: claims slot a, or starts again.
Exchange(x) ==
  LET u == Place[proc[x]]
  IN  /\ pc[x] = "exchange"
      /\ IF nextAdd[u] = a[x]
         THEN /\ nextAdd' = [nextAdd EXCEPT ![u] = Succ(a[x])]
              /\ pc' = [pc EXCEPT ![x] = "store"]
         ELSE /\ pc' = [pc EXCEPT ![x] = "loadAdd"]
              /\ UNCHANGED nextAdd
      /\ UNCHANGED <<nextRem, que, signals, proc, a, waits>>

Store(x) ==
  /\ Go(x, "store", "send")
  /\ que' = [que EXCEPT ![Place[proc[x]]][a[x]] = proc[x]]
  /\ UNCHANGED <<nextAdd, nextRem, signals, proc, a, waits>>

\* A plausible mistake, for the mutants: interrupts that merge while one is
\* pending, as ordinary (not real-time) signals do.
Send_merged(x) ==
  /\ Go(x, "send", "enable")
  /\ signals' = [signals EXCEPT ![Place[proc[x]]] = 1]
  /\ proc' = [proc EXCEPT ![x] = NULL]
  /\ UNCHANGED <<nextAdd, nextRem, que, a, waits>>

\* send_interprocessor_interrupt; the caller then enables interrupts.
Send(x) ==
  LET u == Place[proc[x]]
  IN  /\ Go(x, "send", "enable")
      /\ signals' = [signals EXCEPT ![u] = @ + 1]
      /\ proc' = [proc EXCEPT ![x] = NULL]
      /\ UNCHANGED <<nextAdd, nextRem, que, a, waits>>

-----------------------------------------------------------------------------
(* ipq_remove, in a loop until it returns NULL.                            *)

\* A pending interrupt is taken, at once when interrupts are enabled.
Handle(x) ==
  /\ pc[x] \in {"run", "enable"}
  /\ signals[x] > 0
  /\ signals' = [signals EXCEPT ![x] = @ - 1]
  /\ pc' = [pc EXCEPT ![x] = "test"]
  /\ UNCHANGED <<nextAdd, nextRem, que, proc, a, waits>>

\* A plausible mistake, for the mutants: interrupts stay pending.
Enable_late(x) ==
  /\ Go(x, "enable", "run")
  /\ UNCHANGED <<nextAdd, nextRem, que, signals, proc, a, waits>>

Enable(x) ==
  /\ Go(x, "enable", "run")
  /\ signals[x] = 0
  /\ UNCHANGED <<nextAdd, nextRem, que, signals, proc, a, waits>>

\* The queue is looked into without an interrupt: by take and take1, or by a
\* handler that had lost the processor in its loop and now goes on there.
Drain(x) ==
  /\ Go(x, "run", "test")
  /\ UNCHANGED <<nextAdd, nextRem, que, signals, proc, a, waits>>

Test(x) ==
  /\ pc[x] = "test"
  /\ pc' = [pc EXCEPT ![x] = IF nextAdd[x] # nextRem[x] THEN "take" ELSE "enable"]
  /\ UNCHANGED <<nextAdd, nextRem, que, signals, proc, a, waits>>

\* A slot that is claimed and not yet filled ends the loop too.
Take(x) ==
  LET p == que[x][nextRem[x]]
  IN  /\ pc[x] = "take"
      /\ que' = [que EXCEPT ![x][nextRem[x]] = NULL]
      /\ proc' = [proc EXCEPT ![x] = p]
      /\ pc' = [pc EXCEPT ![x] = IF p # NULL THEN "release" ELSE "enable"]
      /\ UNCHANGED <<nextAdd, nextRem, signals, a, waits>>

\* A plausible mistake, for the mutants: the slot after next is released.
Release_twice(x) ==
  /\ pc[x] = "release"
  /\ \E next \in {"test", "enable"} : pc' = [pc EXCEPT ![x] = next]
  /\ nextRem' = [nextRem EXCEPT ![x] = Succ(Succ(@))]
  /\ proc' = [proc EXCEPT ![x] = NULL]
  /\ waits' = waits \cup {proc[x]}
  /\ UNCHANGED <<nextAdd, que, signals, a>>

\* The slot is released.  The process is ready; sooner or later it will run
\* and wait again.  The caller looks for the next entry, unless it is the
\* handler and loses the processor to the process in schedule0
\* (sched.c:98-102): then another context enables interrupts, whatever is
\* left in the queue.  take and take1 always go on; the loops of all three
\* are one here, which may end early.
Release(x) ==
  /\ pc[x] = "release"
  /\ \E next \in {"test", "enable"} : pc' = [pc EXCEPT ![x] = next]
  /\ nextRem' = [nextRem EXCEPT ![x] = Succ(@)]
  /\ proc' = [proc EXCEPT ![x] = NULL]
  /\ waits' = waits \cup {proc[x]}
  /\ UNCHANGED <<nextAdd, que, signals, a>>

-----------------------------------------------------------------------------
Add(x) ==
  LoadAdd(x) \/ LoadRem(x) \/ Exchange(x) \/ Store(x) \/ Send(x)
Remove(x) ==
  Handle(x) \/ Enable(x) \/ Test(x) \/ Take(x) \/ Release(x)

Next ==
  \E x \in Puns :
    \/ \E p \in Procs : Schedule(x, p)
    \/ Drain(x)
    \/ Add(x)
    \/ Remove(x)

Spec == Init /\ [][Next]_vars

\* Processors run at their own speed but do not stop, and take the
\* interrupts that are pending.
LiveSpec == Spec /\ \A x \in Puns : WF_vars(Add(x)) /\ WF_vars(Remove(x))

-----------------------------------------------------------------------------
(* Properties.                                                             *)

\* The slots from nextRem up to nextAdd, in order.
Used(u) == (nextAdd[u] - nextRem[u]) % QSIZE
InUse(u) == [i \in 1..Used(u) |-> (nextRem[u] + i - 1) % QSIZE]

\* The processes there, from the store until the remover takes them: the
\* first slot may be empty already, the last may not be filled yet.
Filling(u) == \E x \in Puns : pc[x] = "store" /\ Place[proc[x]] = u
Contents(u) ==
  LET taken   == IF pc[u] = "release" THEN 1 ELSE 0
      claimed == IF Filling(u) THEN 1 ELSE 0
  IN  [i \in 1..(Used(u) - taken - claimed) |-> que[u][InUse(u)[taken + i]]]

(* "it puts a pointer to P in B's queue, so that B will become aware that  *)
(* it should schedule P" (ipq.m:26-28): a process made ready is in the     *)
(* hands of the adder, in a slot in use, or in the hands of its own        *)
(* processor, in exactly one of these places, and a slot is only filled    *)
(* when it is free.                                                        *)
NoneLost ==
  /\ \A p \in Procs \ waits :
       LET adders == {x \in Puns : proc[x] = p /\ pc[x] \in Adding \ {"send"}}
           places == {i \in DOMAIN InUse(Place[p]) :
                        que[Place[p]][InUse(Place[p])[i]] = p}
           taken  == {x \in {Place[p]} : proc[x] = p /\ pc[x] = "release"}
       IN  Cardinality(adders) + Cardinality(places) + Cardinality(taken) = 1
  /\ \A x \in Puns : pc[x] = "store" => que[Place[proc[x]]][a[x]] = NULL

\* The slots that are filled, and the adders that have still to announce one.
Stored(u) == {s \in Slots : que[u][s] # NULL}
Senders(u) == {x \in Puns : pc[x] = "send" /\ Place[proc[x]] = u}

(* Outside the loops of the remover there is an interrupt, pending or      *)
(* about to be sent, for every entry, although one handler takes as many   *)
(* entries as it finds, the loops take some without an interrupt, the      *)
(* remover gives up at an empty slot (ipq.m:124-125) and the handler may   *)
(* lose the processor with entries left (sched.c:98-102).  With one adder  *)
(* for each queue only.                                                    *)
Announced ==
  \A u \in Puns :
    pc[u] \notin {"test", "take", "release"} =>
      Cardinality(Stored(u)) <= signals[u] + Cardinality(Senders(u))

(* With one adder for each queue it is the atomic list Sched works with,   *)
(* of at most QSIZE - 1 entries, first in first out.                       *)
Box == INSTANCE Mailbox WITH Cap <- QSIZE - 1, box <- [u \in Puns |-> Contents(u)]
BoxSpec == Box!Spec

(* "ipq_add may spin waiting for queue to be nonfull, so call it with      *)
(* interrupts enabled" (ipq.m:32-33): schedule does not (sched.c:329-330), *)
(* and an add ends all the same with two processors, although both queues  *)
(* can be filled: enable takes the interrupts that are pending, so that    *)
(* the two queues are not full at once with both processors adding.        *)
AddEnds == \A x \in Puns : pc[x] \in Adding ~> pc[x] \notin Adding
=============================================================================
