------------------------------- MODULE Sched --------------------------------
(***************************************************************************)
(* The scheduler of sched.c: one ready queue and one interprocessor queue  *)
(* per processor, the wait protocol on sched_state, preemption, yielding   *)
(* and the interrupt handlers that make processes ready.                   *)
(*                                                                         *)
(* A step is what the code does between two points at which another actor  *)
(* can interfere: another processor anywhere, an interrupt of the same     *)
(* processor wherever interrupts are enabled.  "kernel" says which routine *)
(* a process is in with interrupts disabled, "pc" where it is in its own   *)
(* code.  A process that loses the processor inside a routine keeps its    *)
(* place there, as switch_context keeps its stack.                         *)
(*                                                                         *)
(* Who waits for whom (a channel, a timeout, an interrupt) is abstracted   *)
(* to the set "waiting" of the processes another party has been told of    *)
(* and may claim; claiming is exclusive (the channel's mutex, the timer    *)
(* queue, the atomic exchange of transmit).                                *)
(***************************************************************************)
EXTENDS ReadyList

CONSTANTS
  Puns,        \* the processors (0..NPUN-1), two at most
  Procs,       \* the application's processes
  Idle,        \* Idle[u]: the idle process of processor u
  Place,       \* Place[p]: the processor p runs on (Process.pun)
  Created,     \* Created[u]: the processes of u as first queued, idle last
  IntrPuns,    \* the processors that get timeout or user interrupts
  QCap,        \* entries an interprocessor queue holds (QSIZE - 1)
  MaxIpi,      \* bound: interprocessor interrupts pending on a processor
  NULL         \* no process

All == Procs \cup {Idle[u] : u \in Puns}

ASSUME SchedAssumption ==
  /\ Idle \in [Puns -> All]
  /\ Place \in [All -> Puns]
  /\ Pri \in [All -> Nat]
  /\ \A u \in Puns : Idle[u] \notin Procs /\ Place[Idle[u]] = u
  /\ NULL \notin All
  /\ QCap \in Nat /\ MaxIpi \in Nat
  /\ IntrPuns \subseteq Puns

\* One processor or two, as the program is built (NPUN, sched.h:27).  With
\* two, each interprocessor queue has one adder, and what ipq_add does to it
\* can be one step (BoxSpec and Announced in Ipq).  With three it cannot.
ASSUME PunsAssumption == \A u, x, y \in Puns : x # u /\ y # u => x = y

\* The processes are built by par or placed_par and queued in priority order,
\* the idle process last (initialize, and enqueue0 for the children).
ASSUME CreatedAssumption ==
  /\ Created \in [Puns -> Seq(All)]
  /\ \A u \in Puns :
       /\ Range(Created[u]) = {p \in All : Place[p] = u}
       /\ IsInjective(Created[u])
       /\ \A i, j \in 1..Len(Created[u]) :
            i < j => Pri[Created[u][i]] <= Pri[Created[u][j]]

-----------------------------------------------------------------------------
VARIABLES
  current,      \* current[u]: the process that has processor u
  rdyQues,      \* rdyQues[u]: the ready queue, as the list its links form
  ipQues,       \* ipQues[u]: the interprocessor queue (see Ipq for its slots)
  ipi,          \* ipi[u]: interprocessor interrupts (signals) still pending
  sched_state,  \* the field of the process record
  waiting,      \* processes that a waker can find
  pc,           \* where a process is in its own code
  kernel,       \* the routine it is in with interrupts disabled, or "none"
  wakee         \* the process it is making ready, or NULL

vars == <<current, rdyQues, ipQues, ipi, sched_state, waiting, pc, kernel, wakee>>

SchedStates == {"READY", "PREPARING_TO_WAIT", "WAITING"}
PCs == {"run", "publish", "relinquish", "disable", "free", "schedule"}
Kernels == {"none", "take", "take1", "ipq_add", "ipi", "resumed", "intr",
            "preempt", "stale"}

TypeOK ==
  /\ current \in [Puns -> All]
  /\ rdyQues \in [Puns -> Seq(All)]
  /\ ipQues \in [Puns -> Seq(All)]
  /\ \A u \in Puns : Len(ipQues[u]) <= QCap
  /\ ipi \in [Puns -> 0..MaxIpi]
  /\ sched_state \in [All -> SchedStates]
  /\ waiting \subseteq Procs
  /\ pc \in [All -> PCs]
  /\ kernel \in [All -> Kernels]
  /\ wakee \in [All -> Procs \cup {NULL}]

\* build_process gives every record the state PROC_WAITING.
Init ==
  /\ current = [u \in Puns |-> Head(Created[u])]
  /\ rdyQues = [u \in Puns |-> Tail(Created[u])]
  /\ ipQues = [u \in Puns |-> << >>]
  /\ ipi = [u \in Puns |-> 0]
  /\ sched_state = [p \in All |-> "WAITING"]
  /\ waiting = {}
  /\ pc = [p \in All |-> "run"]
  /\ kernel = [p \in All |-> "none"]
  /\ wakee = [p \in All |-> NULL]

-----------------------------------------------------------------------------
(* The ready queue.                                                        *)

\* enqueue0 of ReadyList, on the queue of processor u.
Enqueue(u, p) == rdyQues' = [rdyQues EXCEPT ![u] = enqueue0(@, p)]

\* set_current and the switch of contexts.
Dispatch(u, q) == current' = [current EXCEPT ![u] = q]

\* The process that is on processor u, at a point with interrupts enabled.
Runs(p) == current[Place[p]] = p /\ kernel[p] = "none"

\* The process that is on its processor, inside a kernel routine.
RunsIn(p, routine) == current[Place[p]] = p /\ kernel[p] = routine

-----------------------------------------------------------------------------
(* Waiting: PREPARE_TO_WAIT, telling the other party, relinquish.          *)

PrepareToWait(p) ==
  /\ Runs(p) /\ pc[p] = "run"
  /\ sched_state' = [sched_state EXCEPT ![p] = "PREPARING_TO_WAIT"]
  /\ pc' = [pc EXCEPT ![p] = "publish"]
  /\ UNCHANGED <<current, rdyQues, ipQues, ipi, waiting, kernel, wakee>>

Publish(p) ==
  /\ Runs(p) /\ pc[p] = "publish"
  /\ waiting' = waiting \cup {p}
  /\ pc' = [pc EXCEPT ![p] = "relinquish"]
  /\ UNCHANGED <<current, rdyQues, ipQues, ipi, sched_state, kernel, wakee>>

\* A plausible mistake, for the mutants: a store in place of the
\* compare-and-exchange, which forgets a wake that came first.
Relinquish_store(p) ==
  /\ Runs(p) /\ pc[p] = "relinquish"
  /\ sched_state' = [sched_state EXCEPT ![p] = "WAITING"]
  /\ pc' = [pc EXCEPT ![p] = "disable"]
  /\ UNCHANGED <<current, rdyQues, ipQues, ipi, waiting, kernel, wakee>>

\* The compare-and-exchange of relinquish: succeeds unless already woken.
Relinquish(p) ==
  /\ Runs(p) /\ pc[p] = "relinquish"
  /\ IF sched_state[p] = "PREPARING_TO_WAIT"
     THEN /\ sched_state' = [sched_state EXCEPT ![p] = "WAITING"]
          /\ pc' = [pc EXCEPT ![p] = "disable"]
     ELSE /\ pc' = [pc EXCEPT ![p] = "run"]
          /\ UNCHANGED sched_state
  /\ UNCHANGED <<current, rdyQues, ipQues, ipi, waiting, kernel, wakee>>

\* The disable() between the exchange and take: until here p is WAITING,
\* still has the processor and can be interrupted.
Disable(p) ==
  /\ Runs(p) /\ pc[p] = "disable"
  /\ kernel' = [kernel EXCEPT ![p] = "take"]
  /\ UNCHANGED <<current, rdyQues, ipQues, ipi, sched_state, waiting, pc, wakee>>

\* The loop at the start of take and of take1: one ipq_remove and enqueue0.
Drain(p) ==
  LET u == Place[p]
  IN  /\ \E routine \in {"take", "take1", "preempt", "stale"} : RunsIn(p, routine)
      /\ ipQues[u] # << >>
      /\ ipQues' = [ipQues EXCEPT ![u] = Tail(@)]
      /\ Enqueue(u, Head(ipQues[u]))
      /\ UNCHANGED <<current, ipi, sched_state, waiting, pc, kernel, wakee>>

\* The rest of relinquish: the head of the queue gets the processor.
Switch(p) ==
  LET u == Place[p]
  IN  /\ RunsIn(p, "take")
      /\ ipQues[u] = << >>
      /\ rdyQues[u] # << >>
      /\ Dispatch(u, Head(rdyQues[u]))
      /\ rdyQues' = [rdyQues EXCEPT ![u] = Tail(@)]
      /\ pc' = [pc EXCEPT ![p] = "run"]
      /\ kernel' = [kernel EXCEPT ![p] = "none"]
      /\ UNCHANGED <<ipQues, ipi, sched_state, waiting, wakee>>

\* yield, as claim_mutex calls it, which processes do before and after they
\* prepare to wait.
Yield(p) ==
  /\ Runs(p) /\ pc[p] \in {"run", "publish"}
  /\ kernel' = [kernel EXCEPT ![p] = "take1"]
  /\ UNCHANGED <<current, rdyQues, ipQues, ipi, sched_state, waiting, pc, wakee>>

\* A plausible mistake, for the mutants: take in place of take1.
YieldSwitch_take(p) ==
  LET u == Place[p]
  IN  /\ RunsIn(p, "take1")
      /\ ipQues[u] = << >>
      /\ rdyQues[u] # << >>
      /\ Dispatch(u, Head(rdyQues[u]))
      /\ rdyQues' = [rdyQues EXCEPT ![u] = enqueue0(Tail(@), p)]
      /\ kernel' = [kernel EXCEPT ![p] = "none"]
      /\ UNCHANGED <<ipQues, ipi, sched_state, waiting, pc, wakee>>

\* The rest of yield: with two processes in the queue the head gets the
\* processor and p is queued again, otherwise p goes on.
YieldSwitch(p) ==
  LET u == Place[p]
  IN  /\ RunsIn(p, "take1")
      /\ ipQues[u] = << >>
      /\ IF Len(rdyQues[u]) >= 2
         THEN /\ Dispatch(u, Head(rdyQues[u]))
              /\ rdyQues' = [rdyQues EXCEPT ![u] = enqueue0(Tail(@), p)]
         ELSE UNCHANGED <<current, rdyQues>>
      /\ kernel' = [kernel EXCEPT ![p] = "none"]
      /\ UNCHANGED <<ipQues, ipi, sched_state, waiting, pc, wakee>>

-----------------------------------------------------------------------------
(* Waking, by a process: claim the waiter, exchange its state, schedule it. *)

Claim(p, q) ==
  /\ Runs(p) /\ pc[p] = "run"
  /\ waiting' = waiting \ {q}
  /\ wakee' = [wakee EXCEPT ![p] = q]
  /\ pc' = [pc EXCEPT ![p] = "free"]
  /\ UNCHANGED <<current, rdyQues, ipQues, ipi, sched_state, kernel>>

\* A plausible mistake, for the mutants: schedule whatever the old state was.
Free_always(p) ==
  /\ Runs(p) /\ pc[p] = "free"
  /\ sched_state' = [sched_state EXCEPT ![wakee[p]] = "READY"]
  /\ pc' = [pc EXCEPT ![p] = "schedule"]
  /\ UNCHANGED <<current, rdyQues, ipQues, ipi, waiting, kernel, wakee>>

\* The atomic exchange of in and out: only a process found WAITING is
\* scheduled; one found PREPARING_TO_WAIT will see READY in relinquish.
Free(p) ==
  /\ Runs(p) /\ pc[p] = "free"
  /\ sched_state' = [sched_state EXCEPT ![wakee[p]] = "READY"]
  /\ IF sched_state[wakee[p]] = "WAITING"
     THEN /\ pc' = [pc EXCEPT ![p] = "schedule"]
          /\ UNCHANGED wakee
     ELSE /\ pc' = [pc EXCEPT ![p] = "run"]
          /\ wakee' = [wakee EXCEPT ![p] = NULL]
  /\ UNCHANGED <<current, rdyQues, ipQues, ipi, waiting, kernel>>

\* A plausible mistake, for the mutants: no preemption, the process made
\* ready just joins the queue.
schedule0_noPreempt(u, q) == Enqueue(u, q) /\ UNCHANGED current

\* Another: the preempted process is not put back in the queue.
schedule0_forget(u, q) ==
  \/ /\ pri_le(q, current[u])
     /\ Enqueue(u, q)
     /\ UNCHANGED current
  \/ /\ ~ pri_le(q, current[u])
     /\ Dispatch(u, q)
     /\ UNCHANGED rdyQues

\* schedule0 for a process of this processor.
schedule0(u, q) ==
  \/ /\ pri_le(q, current[u])
     /\ Enqueue(u, q)
     /\ UNCHANGED current
  \/ /\ ~ pri_le(q, current[u])
     /\ Dispatch(u, q)
     /\ Enqueue(u, current[u])

\* schedule, for a process of this processor: disable, schedule0, enable.
ScheduleLocal(p) ==
  /\ Runs(p) /\ pc[p] = "schedule"
  /\ Place[wakee[p]] = Place[p]
  /\ schedule0(Place[p], wakee[p])
  /\ pc' = [pc EXCEPT ![p] = "run"]
  /\ wakee' = [wakee EXCEPT ![p] = NULL]
  /\ UNCHANGED <<ipQues, ipi, sched_state, waiting, kernel>>

\* schedule, for a process of another processor: disable, then ipq_add.
ScheduleRemote(p) ==
  /\ Runs(p) /\ pc[p] = "schedule"
  /\ Place[wakee[p]] # Place[p]
  /\ kernel' = [kernel EXCEPT ![p] = "ipq_add"]
  /\ UNCHANGED <<current, rdyQues, ipQues, ipi, sched_state, waiting, pc, wakee>>

\* A plausible mistake, for the mutants: interrupts that merge while one is
\* pending, as ordinary (not real-time) signals do.
send_interprocessor_interrupt_merged(u) == ipi' = [ipi EXCEPT ![u] = 1]

\* Real-time signals queue: every call is one more pending interrupt.
send_interprocessor_interrupt(u) == ipi' = [ipi EXCEPT ![u] = @ + 1]

\* A plausible mistake, for the mutants: no test for a full queue.
IpqAdd_unchecked(p) ==
  LET u == Place[wakee[p]]
  IN  /\ RunsIn(p, "ipq_add")
      /\ ipi[u] < MaxIpi
      /\ ipQues' = [ipQues EXCEPT ![u] = Append(@, wakee[p])]
      /\ send_interprocessor_interrupt(u)
      /\ pc' = [pc EXCEPT ![p] = "run"]
      /\ kernel' = [kernel EXCEPT ![p] = "none"]
      /\ wakee' = [wakee EXCEPT ![p] = NULL]
      /\ UNCHANGED <<current, rdyQues, sched_state, waiting>>

\* ipq_add gets past its spin loop: the entry is stored, the other processor
\* is interrupted, and schedule enables interrupts.  The slot is claimed,
\* filled and announced in three steps, which Ipq has one by one: with one
\* adder the remover cannot tell (PunsAssumption).
IpqAdd(p) ==
  LET u == Place[wakee[p]]
  IN  /\ RunsIn(p, "ipq_add")
      /\ Len(ipQues[u]) < QCap
      /\ ipi[u] < MaxIpi
      /\ ipQues' = [ipQues EXCEPT ![u] = Append(@, wakee[p])]
      /\ send_interprocessor_interrupt(u)
      /\ pc' = [pc EXCEPT ![p] = "run"]
      /\ kernel' = [kernel EXCEPT ![p] = "none"]
      /\ wakee' = [wakee EXCEPT ![p] = NULL]
      /\ UNCHANGED <<current, rdyQues, sched_state, waiting>>

-----------------------------------------------------------------------------
(* Interrupts.  The handler runs as part of the process it interrupts.     *)

\* A plausible mistake, for the mutants: the handler returns without
\* looking for a process to preempt with.
schedule_from_interrupt_never(p) ==
  kernel' = [kernel EXCEPT ![p] = "none"]

\* The test of schedule_from_interrupt; if it succeeds, take follows.  The
\* context of a handler that has lost the processor before is not the one
\* that handle_signal saved.
schedule_from_interrupt(p) ==
  LET que == rdyQues[Place[p]]
  IN  kernel' = [kernel EXCEPT ![p] =
        IF que # << >> /\ pri_gt(Head(que), p)
        THEN IF @ = "resumed" THEN "stale" ELSE "preempt"
        ELSE "none"]

\* The rest of schedule_from_interrupt.  switch_interrupt_context saves
\* nothing: p goes on where its context was saved last, which is where it was
\* interrupted, or inside schedule0 if it lost the processor in the handler's
\* loop.  In that case the frame it returns through is dead, and it may leave
\* the handler or go round the loop again (or worse).
Preempt(p) ==
  LET u == Place[p]
  IN  /\ \/ RunsIn(p, "preempt") /\ kernel' = [kernel EXCEPT ![p] = "none"]
         \/ /\ RunsIn(p, "stale")
            /\ \E k \in {"none", "resumed"} : kernel' = [kernel EXCEPT ![p] = k]
      /\ ipQues[u] = << >>
      /\ Dispatch(u, Head(rdyQues[u]))
      /\ rdyQues' = [rdyQues EXCEPT ![u] = enqueue0(Tail(@), p)]
      /\ UNCHANGED <<ipQues, ipi, sched_state, waiting, pc, wakee>>

\* An interprocessor interrupt arrives.
IpiEnter(p) ==
  LET u == Place[p]
  IN  /\ Runs(p)
      /\ ipi[u] > 0
      /\ ipi' = [ipi EXCEPT ![u] = @ - 1]
      /\ kernel' = [kernel EXCEPT ![p] = "ipi"]
      /\ UNCHANGED <<current, rdyQues, ipQues, sched_state, waiting, pc, wakee>>

\* p is in the handler of an interprocessor interrupt.
Handles(p) == RunsIn(p, "ipi") \/ RunsIn(p, "resumed")

\* One turn of the handler's loop.  schedule0 may switch to the new process;
\* p then stays inside the handler, and goes on there when it runs again.
IpiStep(p) ==
  LET u == Place[p]
  IN  /\ Handles(p)
      /\ ipQues[u] # << >>
      /\ ipQues' = [ipQues EXCEPT ![u] = Tail(@)]
      /\ schedule0(u, Head(ipQues[u]))
      /\ kernel' = [kernel EXCEPT ![p] = IF current'[u] = p THEN @ ELSE "resumed"]
      /\ UNCHANGED <<ipi, sched_state, waiting, pc, wakee>>

IpiDone(p) ==
  /\ Handles(p)
  /\ ipQues[Place[p]] = << >>
  /\ schedule_from_interrupt(p)
  /\ UNCHANGED <<current, rdyQues, ipQues, ipi, sched_state, waiting, pc, wakee>>

\* A timeout or a user interrupt arrives.
IntrEnter(p) ==
  /\ Runs(p)
  /\ Place[p] \in IntrPuns
  /\ kernel' = [kernel EXCEPT ![p] = "intr"]
  /\ UNCHANGED <<current, rdyQues, ipQues, ipi, sched_state, waiting, pc, wakee>>

\* transmit, and freeProcess for each timeout that is due: a process of this
\* processor is made ready, and queued if it was WAITING.
IntrWake(p, q) ==
  /\ RunsIn(p, "intr")
  /\ Place[q] = Place[p]
  /\ waiting' = waiting \ {q}
  /\ sched_state' = [sched_state EXCEPT ![q] = "READY"]
  /\ IF sched_state[q] = "WAITING"
     THEN Enqueue(Place[p], q)
     ELSE UNCHANGED rdyQues
  /\ UNCHANGED <<current, ipQues, ipi, pc, kernel, wakee>>

IntrDone(p) ==
  /\ RunsIn(p, "intr")
  /\ schedule_from_interrupt(p)
  /\ UNCHANGED <<current, rdyQues, ipQues, ipi, sched_state, waiting, pc, wakee>>

-----------------------------------------------------------------------------
\* What a process does in its own code.
AppStep(p) ==
  \/ PrepareToWait(p)
  \/ Publish(p)
  \/ Relinquish(p)
  \/ Disable(p)
  \/ Yield(p)
  \/ \E q \in waiting : Claim(p, q)
  \/ Free(p)
  \/ ScheduleLocal(p)
  \/ ScheduleRemote(p)

\* What happens to whichever process has the processor.
KernelStep(p) ==
  \/ Drain(p)
  \/ Switch(p)
  \/ YieldSwitch(p)
  \/ IpqAdd(p)
  \/ Preempt(p)
  \/ IpiEnter(p)
  \/ IpiStep(p)
  \/ IpiDone(p)
  \/ IntrEnter(p)
  \/ \E q \in waiting : IntrWake(p, q)
  \/ IntrDone(p)

\* The idle process never leaves halt_processor: it only gets interrupted.
Next ==
  \/ \E p \in Procs : AppStep(p)
  \/ \E p \in All : KernelStep(p)

Spec == Init /\ [][Next]_vars

-----------------------------------------------------------------------------
(* Fairness.  Handlers and routines that run with interrupts disabled are  *)
(* finite.  A pending signal is delivered once interrupts are enabled,     *)
(* however briefly, and an interrupted process goes on: both need strong   *)
(* fairness, because each is disabled while the other happens.  There is   *)
(* no time slice and a process whose partners are always ready never       *)
(* waits, so the application must see to it that a process that keeps its  *)
(* processor yields now and then.                                          *)

Finish(p) ==
  \/ Publish(p) \/ Relinquish(p) \/ Disable(p)
  \/ Free(p) \/ ScheduleLocal(p) \/ ScheduleRemote(p)

Routine(p) ==
  \/ Drain(p) \/ Switch(p) \/ YieldSwitch(p) \/ IpqAdd(p) \/ Preempt(p)
  \/ IpiStep(p) \/ IpiDone(p) \/ IntrDone(p)

Delivery(u) == \E p \in All : Place[p] = u /\ IpiEnter(p)

Fairness ==
  /\ \A p \in All : WF_vars(Routine(p))
  /\ \A p \in Procs : SF_vars(Finish(p)) /\ SF_vars(Yield(p))
  /\ \A u \in Puns : SF_vars(Delivery(u))

LiveSpec == Spec /\ Fairness

-----------------------------------------------------------------------------
(* Properties.                                                             *)

Queued(q)    == q \in Range(rdyQues[Place[q]])
Posted(q)    == q \in Range(ipQues[Place[q]])
Scheduled(q) == \E p \in All : wakee[p] = q /\ pc[p] = "schedule"
Claimed(q)   == \E p \in All : wakee[p] = q /\ pc[p] = "free"
Running(q)   == current[Place[q]] = q

\* q is ready, or on its way to a ready queue.
Ready(q) == Queued(q) \/ Posted(q) \/ Scheduled(q)

(* "Makes the given process ready to execute" (sched.c:283, 324): every    *)
(* process is on its processor, ready, or waits where a waker can find it. *)
(* The wake that comes between the exchange in relinquish and the switch   *)
(* (sched.c:416-432) is the one that could be lost.                        *)
NeverLost ==
  \A q \in Procs :
    \/ Running(q)
    \/ Ready(q)
    \/ sched_state[q] = "WAITING" /\ (q \in waiting \/ Claimed(q))

(* A process is made ready once for each time it waits: it stands at most  *)
(* once in the two queues of its processor, with nobody else about to put  *)
(* it there, and while it has the processor only in the window of          *)
(* relinquish (comm.c:54-61, the comment on old_state).                    *)
ReadyOnce ==
  \A q \in Procs :
    /\ IsInjective(rdyQues[Place[q]]) /\ IsInjective(ipQues[Place[q]])
    /\ ~ (Queued(q) /\ Posted(q))
    /\ Scheduled(q) => ~ Queued(q) /\ ~ Posted(q)
    /\ \A p1, p2 \in All :
         wakee[p1] = q /\ wakee[p2] = q => p1 = p2
    /\ Ready(q) /\ Running(q) => pc[q] = "disable"

(* take always finds a process (sched.c:432-438 do not test for NULL): the *)
(* idle process is on its processor or in its queue.                       *)
IdleKept ==
  \A u \in Puns : current[u] = Idle[u] \/ Idle[u] \in Range(rdyQues[u])

(* The idle process has the processor only when nothing is ready there:    *)
(* preemption takes it away at once, and yield never hands the processor   *)
(* to it ("never returns the idle process", sched.c:254).                  *)
WorkConserving ==
  \A u \in Puns :
    current[u] = Idle[u] /\ kernel[Idle[u]] = "none" => rdyQues[u] = << >>

(* No process is left in an interprocessor queue without an interrupt to   *)
(* fetch it, not even when the handler loses the processor in its loop     *)
(* (sched.c:98-102) with entries still in the queue.                       *)
PostSignalled ==
  \A u \in Puns :
    kernel[current[u]] = "none" => Len(ipQues[u]) <= ipi[u]

(* "have already saved context of preempted process in handle_signal"      *)
(* (hardware.c:232): what a process that is preempted at the end of a      *)
(* handler goes on with is the context that was saved at its beginning.    *)
ContextSaved == \A p \in All : kernel[p] # "stale"

\* A process in u's ready queue outranks the one that has the processor,
\* which is not about to look at that queue: the loop of the interprocessor
\* handler compares what it takes with the process on the processor only.
Inverted(u) ==
  /\ rdyQues[u] # << >>
  /\ pri_gt(Head(rdyQues[u]), current[u])
  /\ kernel[current[u]] \in {"none", "ipq_add", "ipi", "resumed"}

(* "possibly preempting the currently executing process" (sched.c:283-4),  *)
(* "gives processor to highest priority ready process" (sched.h:110): a    *)
(* process that waits, wakes another, is interrupted or ends a handler     *)
(* never leaves a ready process behind that outranks the current one; only *)
(* yield does.                                                             *)
PriorityKept ==
  [][\A u \in Puns :
       Inverted(u)' => Inverted(u) \/ kernel[current[u]] = "take1"]_vars

(* "preserving fifo order in case of tie" (sched.c:178): a process that is *)
(* made ready gets the processor in the end, if none keeps it for good.    *)
ReadyRuns == \A q \in Procs : Ready(q) ~> Running(q)
=============================================================================
