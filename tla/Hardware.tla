------------------------------ MODULE Hardware ------------------------------
(***************************************************************************)
(* The emulated hardware (hardware.c) and the start of the processors      *)
(* (initialize in sched.c): which signal stands for which interrupt, which *)
(* signals a thread blocks, and what a switch of contexts does to that.    *)
(*                                                                         *)
(* A processor is a thread and an interrupt a real-time signal.  A signal  *)
(* sent by pthread_kill is pending on one thread; the signal of a timer is *)
(* pending on the program, and any thread takes it that does not block it. *)
(* A saved context contains the thread's signal mask, so that switching to *)
(* a process also gives the thread the mask it had when the process was    *)
(* saved, or when it was built.  Which process is next is the scheduler's  *)
(* affair (Sched): here it is any that exists on the processor.            *)
(*                                                                         *)
(* GetCurrentTime (timer.c) combines the interval timer with currentTime,  *)
(* which the elapsed time interrupt advances by a tick.  Of the times only *)
(* the ticks matter: the sum is right if currentTime counts every tick the *)
(* timer has completed when it is read ("lag" is 0).                       *)
(***************************************************************************)
EXTENDS Naturals, Sequences, FiniteSets

CONSTANTS
  NPUN,        \* number of processors
  Apps,        \* the processes that par and placed_par make
  Place,       \* Place[p]: the processor of process p
  Readers,     \* the processes that read the clock
  Raises,      \* Raises[p]: the user interrupts that process p sends
  MaxLag       \* bound: ticks the timer completes before one is counted

Puns == 0 .. NPUN - 1
Idle(u) == <<"idle", u>>
Main == <<"main", 0>>
Procs == {Main} \cup Apps \cup {Idle(u) : u \in Puns}
PlaceOf(p) == IF p \in Apps THEN Place[p] ELSE p[2]

\* The interrupts of processor u, in the order of define_interrupt_handlers.
Handlers(u) ==
  IF u = 0 THEN <<"ELAPSED", "TIMEOUT", "INTERPROC", "USER0", "USER1">>
           ELSE <<"TIMEOUT", "INTERPROC", "USER0", "USER1">>
Users == {"USER0", "USER1"}
Intrs == {"ELAPSED", "TIMEOUT", "INTERPROC"} \cup Users
Signos == 1 .. 4 * NPUN + 1
None == 0

\* A mask that nobody will read again.
Dead == {}

ASSUME HardwareAssumption ==
  /\ NPUN \in Nat \ {0}
  /\ Place \in [Apps -> Puns]
  /\ Apps \cap ({Main} \cup {Idle(u) : u \in Puns}) = {}
  /\ Readers \subseteq Procs
  /\ Raises \in [Procs -> SUBSET Users]
  /\ MaxLag \in Nat

VARIABLES
  stage,       \* stage[u]: how far the start of processor u is
  defined,     \* defined[u]: handlers it has defined
  next_signo, interrupt, signal_no, sigmask, barrier,   \* as in hardware.c
  mask,        \* mask[u]: the signals that the thread blocks
  sent,        \* sent[u]: the signals pending on the thread
  expired,     \* the timer signals pending on the program
  current,     \* current[u]: the process on u
  where,       \* where[p]: to "begin", "own" code, interrupts "disabled",
               \* a handler ("elapsed", "interproc", "timeout", which stands for
               \* that of user interrupts too), "switched" if that of interprocessor
               \* interrupts lost the processor in its loop, or not there ("none")
  context,     \* context[p]: the mask in the saved context (stackptr)
  frame,       \* frame[p]: the mask that its signal handler returns to
  fresh,       \* processes that began with a mask of another processor and
               \* have not called enable since
  lag,         \* ticks completed by the interval timer and not in currentTime
  reading      \* reading[p]: how far p is in GetCurrentTime

tables == <<next_signo, interrupt, signal_no, sigmask>>
start == <<stage, defined, barrier>>
threads == <<mask, sent, expired>>
procs == <<current, where, context, frame, fresh>>
clock == <<lag, reading>>
vars == <<tables, start, threads, procs, clock>>

\* "at" is the next of the two reads in the loop; "changed": currentTime is not
\* what it was when it was loaded last; "good": the timer was read in the tick
\* that currentTime had then.
Reading == [at : {"out", "timer", "load"}, changed : BOOLEAN, good : BOOLEAN]
Out == [at |-> "out", changed |-> FALSE, good |-> FALSE]

\* initialize has disabled interrupts and called hardware_init; init_processor
\* begins with all signals in the masks, and a created thread inherits its
\* creator's mask.
Init ==
  /\ stage = [u \in Puns |-> IF u = 0 THEN "define" ELSE "off"]
  /\ defined = [u \in Puns |-> 0]
  /\ next_signo = 1
  /\ interrupt = [s \in Signos |-> <<0, "none">>]
  /\ signal_no = [u \in Puns |-> [i \in Intrs |-> None]]
  /\ sigmask = [u \in Puns |-> Signos]
  /\ barrier = NPUN
  /\ mask = [u \in Puns |-> Signos]
  /\ sent = [u \in Puns |-> {}]
  /\ expired = {}
  /\ current = [u \in Puns |-> IF u = 0 THEN Main ELSE Idle(u)]
  /\ where = [p \in Procs |-> IF p = Main THEN "begin" ELSE "none"]
  /\ context = [p \in Procs |-> {}]
  /\ frame = [p \in Procs |-> {}]
  /\ fresh = {}
  /\ lag = 0
  /\ reading = [p \in Procs |-> Out]

-----------------------------------------------------------------------------
(* The start.                                                              *)

\* define_handler, called by define_interrupt_handlers.
define_handler(u) ==
  LET i == Handlers(u)[defined[u] + 1]
  IN  /\ stage[u] = "define"
      /\ defined[u] < Len(Handlers(u))
      /\ next_signo' = next_signo + 1
      /\ interrupt' = [interrupt EXCEPT ![next_signo] = <<u, i>>]
      /\ signal_no' = [signal_no EXCEPT ![u][i] = next_signo]
      /\ sigmask' = [sigmask EXCEPT ![u] = @ \ {next_signo}]
      /\ defined' = [defined EXCEPT ![u] = @ + 1]
      /\ UNCHANGED <<stage, barrier, threads, procs, clock>>

\* The end of init_processor: SIG_BLOCK only adds to what is blocked.
Block(u) ==
  /\ stage[u] = "define"
  /\ defined[u] = Len(Handlers(u))
  /\ mask' = [mask EXCEPT ![u] = @ \cup sigmask[u]]
  /\ stage' = [stage EXCEPT ![u] = IF u = 0 THEN "activate" ELSE "barrier"]
  /\ UNCHANGED <<tables, defined, barrier, sent, expired, procs, clock>>

\* make_process for the idle process of u: build_context copies the mask of
\* the thread that builds it.  activate_processor starts the other threads.
Activate(u) ==
  /\ stage[0] = "activate"
  /\ where[Idle(u)] = "none"
  /\ \A v \in Puns : v < u => where[Idle(v)] # "none"
  /\ where' = [where EXCEPT ![Idle(u)] = "begin"]
  /\ context' = [context EXCEPT ![Idle(u)] = mask[0]]
  /\ stage' = [stage EXCEPT ![u] = IF u = 0 THEN @ ELSE "define",
                            ![0] = IF u = NPUN - 1 THEN "barrier" ELSE @]
  /\ mask' = [mask EXCEPT ![u] = mask[0]]
  /\ UNCHANGED <<tables, defined, barrier, sent, expired, current, frame, fresh, clock>>

\* synchronize_processors: the decrement.
Arrive(u) ==
  /\ stage[u] = "barrier"
  /\ barrier' = barrier - 1
  /\ stage' = [stage EXCEPT ![u] = "spin"]
  /\ UNCHANGED <<tables, defined, threads, procs, clock>>

\* A plausible mistake, for the mutants: the barrier opens with one to come.
Open_early == barrier <= 1

Open == barrier <= 0

\* synchronize_processors: the loop ends.  Processor 0 goes on in initialize,
\* the others set the context of their idle process.
Depart(u) ==
  /\ stage[u] = "spin"
  /\ Open
  /\ stage' = [stage EXCEPT ![u] = "run"]
  /\ IF u = 0
     THEN UNCHANGED <<mask, context>>
     ELSE /\ mask' = [mask EXCEPT ![u] = context[Idle(u)]]
          /\ context' = [context EXCEPT ![Idle(u)] = Dead]
  /\ UNCHANGED <<tables, defined, barrier, sent, expired, current, where, frame, fresh, clock>>

-----------------------------------------------------------------------------
(* A processor that runs.                                                  *)

In(u, w) == stage[u] = "run" /\ where[current[u]] = w

\* The same, between two calls of GetCurrentTime.
At(u, w) == In(u, w) /\ reading[current[u]] = Out

Moves(u, w) == where' = [where EXCEPT ![current[u]] = w]

disable(u) ==
  /\ At(u, "own")
  /\ mask' = [mask EXCEPT ![u] = Signos]
  /\ Moves(u, "disabled")
  /\ UNCHANGED <<tables, start, sent, expired, current, context, frame, fresh, clock>>

\* In a routine, at the end of initialize, and at the beginning of idle.
enable(u) ==
  /\ At(u, "disabled") \/ At(u, "begin")
  /\ mask' = [mask EXCEPT ![u] = sigmask[u]]
  /\ Moves(u, "own")
  /\ fresh' = fresh \ {current[u]}
  /\ UNCHANGED <<tables, start, sent, expired, current, context, frame, clock>>

\* q is there, and can be given processor u.
Other(u, q) == PlaceOf(q) = u /\ where[q] # "none" /\ q # current[u]

\* The processor goes to q, and the thread gets the mask in its context;
\* "saved" is what the context of the process on u holds from now on.  A handler
\* that was switched may give up the processor later with this same context.
Resume(u, q, saved) ==
  /\ current' = [current EXCEPT ![u] = q]
  /\ mask' = [mask EXCEPT ![u] = context[q]]
  /\ context' = [context EXCEPT ![current[u]] = saved,
                                ![q] = IF where[q] = "switched" THEN @ ELSE Dead]

\* switch_context (swapcontext), with interrupts disabled: in a routine, or
\* in the loop of the interprocessor handler.
switch_context(u, q) ==
  /\ \/ At(u, "disabled") /\ UNCHANGED where
     \/ (In(u, "interproc") \/ In(u, "switched")) /\ Moves(u, "switched")
  /\ Other(u, q)
  /\ Resume(u, q, mask[u])
  /\ UNCHANGED <<tables, start, sent, expired, frame, fresh, clock>>

\* terminate: set_stack, and restore_context of the next process.
restore_context(u, q) ==
  /\ At(u, "disabled") /\ current[u] \in Apps
  /\ Other(u, q)
  /\ Moves(u, "none")
  /\ Resume(u, q, Dead)
  /\ fresh' = fresh \ {current[u]}
  /\ UNCHANGED <<tables, start, sent, expired, frame, clock>>

\* par and placed_par: build_context for a process of this or of another
\* processor, with the mask of the thread that builds it.
build_context(u, q) ==
  /\ At(u, "own") /\ current[u] \notin {Idle(v) : v \in Puns}
  /\ q \in Apps /\ where[q] = "none"
  /\ where' = [where EXCEPT ![q] = "own"]
  /\ context' = [context EXCEPT ![q] = mask[u]]
  /\ fresh' = IF PlaceOf(q) # u \/ current[u] \in fresh THEN fresh \cup {q} ELSE fresh \ {q}
  /\ UNCHANGED <<tables, start, threads, current, frame, clock>>

-----------------------------------------------------------------------------
(* Signals.                                                                *)

\* send_interprocessor_interrupt, from schedule: interrupts are disabled.
send_interprocessor_interrupt(u, v) ==
  /\ At(u, "disabled") /\ v # u
  /\ sent' = [sent EXCEPT ![v] = @ \cup {signal_no[v]["INTERPROC"]}]
  /\ UNCHANGED <<tables, start, mask, expired, procs, clock>>

\* The process on u raises a user interrupt, of its own processor.
send_interrupt(u, i) ==
  /\ At(u, "own") /\ i \in Raises[current[u]]
  /\ sent' = [sent EXCEPT ![u] = @ \cup {signal_no[u][i]}]
  /\ UNCHANGED <<tables, start, mask, expired, procs, clock>>

\* The timeout timer of u, once it runs.
Expire(u) ==
  /\ stage[u] = "run"
  /\ expired' = expired \cup {signal_no[u]["TIMEOUT"]}
  /\ UNCHANGED <<tables, start, mask, sent, procs, clock>>

\* The handler that handle_interrupt calls for the interrupt of signal s.  That
\* of user interrupts ends like that of timeouts: it returns, or preempts for
\* the process that it has made ready (see Interrupt).
Handler(s) ==
  CASE interrupt[s][2] = "INTERPROC" -> "interproc"
    [] interrupt[s][2] = "TIMEOUT" -> "timeout"
    [] interrupt[s][2] = "ELAPSED" -> "elapsed"
    [] interrupt[s][2] \in Users -> "timeout"

\* handle_signal is called: it blocks all signals, and copies the interrupted
\* context.  handle_interrupt goes by interrupt[s].
handle_signal(u, s) ==
  /\ stage[u] = "run"
  /\ s \in (sent[u] \cup expired) \ mask[u]
  /\ sent' = [sent EXCEPT ![u] = @ \ {s}]
  /\ expired' = IF s \in sent[u] THEN expired ELSE expired \ {s}
  /\ mask' = [mask EXCEPT ![u] = Signos]
  /\ context' = [context EXCEPT ![current[u]] = mask[u]]
  /\ frame' = [frame EXCEPT ![current[u]] = mask[u]]
  /\ Moves(u, Handler(s))
  /\ UNCHANGED <<tables, start, current, fresh, clock>>

\* The end of handle_signal: the interrupted code goes on with its own mask.  A
\* signal taken between the call of enable and the return is one taken after it.
Ends(u) ==
  /\ mask' = [mask EXCEPT ![u] = frame[current[u]]]
  /\ context' = [context EXCEPT ![current[u]] = Dead]
  /\ frame' = [frame EXCEPT ![current[u]] = Dead]
  /\ Moves(u, "own")

\* The handlers of timeouts and of interprocessor and user interrupts, with
\* nobody to preempt for.
Return(u) ==
  /\ In(u, "timeout") \/ In(u, "interproc") \/ In(u, "switched")
  /\ Ends(u)
  /\ UNCHANGED <<tables, start, sent, expired, current, fresh, clock>>

\* handle_elapsed_time_interrupt: currentTime is advanced by a tick.
handle_elapsed_time_interrupt(u) ==
  /\ In(u, "elapsed")
  /\ lag' = lag - 1
  /\ reading' = [p \in Procs |->
       IF reading[p] = Out THEN Out ELSE [reading[p] EXCEPT !.changed = TRUE]]
  /\ Ends(u)
  /\ UNCHANGED <<tables, start, sent, expired, current, fresh>>

\* A plausible mistake, for the mutants: the context is saved again.
switch_interrupt_context_swap(u, q) ==
  /\ Other(u, q)
  /\ \/ In(u, "switched") /\ UNCHANGED <<where, frame>>
     \/ /\ In(u, "timeout") \/ In(u, "interproc")
        /\ Moves(u, "own")
        /\ frame' = [frame EXCEPT ![current[u]] = Dead]
  /\ Resume(u, q, mask[u])
  /\ UNCHANGED <<tables, start, sent, expired, fresh, clock>>

\* schedule_from_interrupt at the end of a handler: switch_interrupt_context
\* saves nothing.  The process goes on where handle_signal interrupted it or,
\* if that context was overwritten by a switch in the loop, in the loop.
switch_interrupt_context(u, q) ==
  /\ Other(u, q)
  /\ \/ In(u, "switched") /\ UNCHANGED <<where, frame>>
     \/ /\ In(u, "timeout") \/ In(u, "interproc")
        /\ Moves(u, "own")
        /\ frame' = [frame EXCEPT ![current[u]] = Dead]
  /\ Resume(u, q, context[current[u]])
  /\ UNCHANGED <<tables, start, sent, expired, fresh, clock>>

-----------------------------------------------------------------------------
(* The clock.                                                              *)

Elapsed == signal_no[0]["ELAPSED"]

\* The interval timer completes a tick and starts again; its signal is pending
\* once, however many ticks pass.
Tick ==
  /\ Elapsed # None
  /\ lag < MaxLag
  /\ lag' = lag + 1
  /\ expired' = expired \cup {Elapsed}
  /\ UNCHANGED <<tables, start, mask, sent, procs, reading>>

Reads(u, new) == reading' = [reading EXCEPT ![current[u]] = new]

\* In GetCurrentTime on u.  A signal that the thread does not block is taken
\* before it goes on.
InClock(u, at) ==
  /\ In(u, "own") \/ In(u, "disabled")
  /\ current[u] \in Readers
  /\ reading[current[u]].at = at
  /\ Elapsed \notin expired \ mask[u]

\* The call, and the first load of currentTime.
GetCurrentTime(u) ==
  /\ InClock(u, "out")
  /\ Reads(u, [Out EXCEPT !.at = "timer"])
  /\ UNCHANGED <<tables, start, threads, procs, lag>>

\* t = read_timer(TIMER_ELAPSED)
read_timer(u) ==
  LET r == reading[current[u]]
  IN  /\ InClock(u, "timer")
      /\ Reads(u, [r EXCEPT !.at = "load", !.good = ~ r.changed /\ lag = 0])
      /\ UNCHANGED <<tables, start, threads, procs, lag>>

\* A plausible mistake, for the mutants: no loop.
Same_always(r) == TRUE

\* c == cc
Same(r) == ~ r.changed

\* currentTime is loaded again, and the loop ends or goes on.
Reload(u) ==
  /\ InClock(u, "load")
  /\ Reads(u, IF Same(reading[current[u]]) THEN Out ELSE [Out EXCEPT !.at = "timer"])
  /\ UNCHANGED <<tables, start, threads, procs, lag>>

Next ==
  \/ Tick
  \/ \E u \in Puns :
    \/ define_handler(u) \/ Block(u) \/ Activate(u) \/ Arrive(u) \/ Depart(u)
    \/ disable(u) \/ enable(u) \/ Expire(u) \/ Return(u)
    \/ handle_elapsed_time_interrupt(u)
    \/ GetCurrentTime(u) \/ read_timer(u) \/ Reload(u)
    \/ \E q \in Procs :
         \/ switch_context(u, q) \/ restore_context(u, q) \/ build_context(u, q)
         \/ switch_interrupt_context(u, q)
    \/ \E v \in Puns : send_interprocessor_interrupt(u, v)
    \/ \E i \in Users : send_interrupt(u, i)
    \/ \E s \in Signos : handle_signal(u, s)

Spec == Init /\ [][Next]_vars

-----------------------------------------------------------------------------
(* Properties.                                                             *)

(* "use this barrier so that thread_id and signal_no need not be atomic"   *)
(* (hardware.c:328-330): when the first processor runs, every processor    *)
(* has its thread, and the two maps of signals and interrupts are complete *)
(* and inverse to each other.                                              *)
Complete ==
  \A u, v \in Puns :
    stage[u] = "run" =>
      /\ stage[v] \in {"spin", "run"}
      /\ \A k \in 1 .. Len(Handlers(v)) :
           LET s == signal_no[v][Handlers(v)[k]]
           IN  s # None /\ interrupt[s] = <<v, Handlers(v)[k]>>

(* "when the process gains the processor again, it needs to be restored    *)
(* with interrupts enabled" (sched.c:588-592): a process that executes its *)
(* own code has the signals of its own processor unblocked and no others,  *)
(* however it lost and regained the processor.  One placed from another    *)
(* processor has that processor's mask until it first calls enable.        *)
Settled ==
  \A u \in Puns :
    In(u, "own") /\ current[u] \notin fresh => mask[u] = sigmask[u]

(* "same currentTime twice in a row ensures t is good" (timer.c:80): on    *)
(* the processor of the clock, with its interrupt enabled and not taken by *)
(* another processor, the time that GetCurrentTime returns is right.       *)
TimeGood ==
  InClock(0, "load") /\ Same(reading[current[0]])
    /\ Elapsed \notin mask[0] /\ ~ (\E v \in Puns : In(v, "elapsed"))
    => reading[current[0]].good

(* The same wherever GetCurrentTime is called: insertInQueue and the       *)
(* timeout handler call it with interrupts disabled (timer.c:108, 299).    *)
TimeAlwaysGood ==
  \A u \in Puns :
    InClock(u, "load") /\ Same(reading[current[u]]) => reading[current[u]].good

(* Every tick of the interval timer is counted or its signal is pending.   *)
(* It holds only while no two ticks pass with the signal blocked.          *)
TicksCounted ==
  lag > 0 => Elapsed \in expired \/ \E u \in Puns : In(u, "elapsed")

(* "only the processor to which signo is assigned reads this array         *)
(* element" (hardware.c:126-127): a signal is taken by the processor whose *)
(* interrupt it stands for.                                                *)
Routed ==
  [][\A u \in Puns, s \in Signos : handle_signal(u, s) => interrupt[s][1] = u]_vars
=============================================================================
