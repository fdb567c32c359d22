----------------------------- MODULE Interrupt ------------------------------
(***************************************************************************)
(* User interrupts (interrupt.c) on top of the scheduler: a process calls  *)
(* receive for an interrupt of its processor, send_interrupt raises it,    *)
(* and the handler calls transmit, which wakes the receiver.               *)
(*                                                                         *)
(* Everything else is Sched: a process that has stored its name for an     *)
(* interrupt is in "waiting", where Sched keeps whoever can be woken, but  *)
(* only the handler of that interrupt finds it there.  The other members   *)
(* of "waiting" are in channels and timer queues.                          *)
(***************************************************************************)
EXTENDS Sched

CONSTANTS
  Users,       \* the user interrupts of a processor (INTR_USER0, ...)
  Listens,     \* Listens[p]: those that p calls receive for
  MaxRaised    \* bound: signals of one interrupt pending on a processor

ASSUME InterruptAssumption ==
  /\ Listens \in [Procs -> SUBSET Users]
  /\ NULL \notin Users
  /\ MaxRaised \in Nat

VARIABLES
  interrupts,  \* interrupts[u][n]: the process waiting for n on u, or NULL
  raised,      \* raised[u][n]: signals of n pending on u
  receives,    \* receives[p]: the interrupt p waits for, from its call of
               \* receive until transmit has taken its name, or NULL
  serves       \* serves[p]: the interrupt whose handler runs on p's stack,
               \* before its transmit, or NULL

userVars == <<interrupts, raised, receives, serves>>
allVars == <<vars, userVars>>

\* interrupt_init.
InterruptInit ==
  /\ Init
  /\ interrupts = [u \in Puns |-> [n \in Users |-> NULL]]
  /\ raised = [u \in Puns |-> [n \in Users |-> 0]]
  /\ receives = [p \in Procs |-> NULL]
  /\ serves = [p \in All |-> NULL]

\* The processes whose names are stored.
Named == {interrupts[u][n] : u \in Puns, n \in Users}

-----------------------------------------------------------------------------
(* The receiver.                                                           *)

\* receive: PREPARE_TO_WAIT.
Receive(p, n) ==
  /\ n \in Listens[p]
  /\ PrepareToWait(p)
  /\ receives' = [receives EXCEPT ![p] = n]
  /\ UNCHANGED <<interrupts, raised, serves>>

\* receive: the store of its name; relinquish follows, as in Sched.
StoreName(p) ==
  /\ receives[p] # NULL
  /\ Publish(p)
  /\ interrupts' = [interrupts EXCEPT ![Place[p]][receives[p]] = p]
  /\ UNCHANGED <<raised, receives, serves>>

-----------------------------------------------------------------------------
(* The interrupt.                                                          *)

\* send_interrupt: the signal goes to the caller's own processor.
send_interrupt(p, n) ==
  /\ Runs(p) /\ pc[p] = "run"
  /\ Place[p] \in IntrPuns
  /\ raised[Place[p]][n] < MaxRaised
  /\ raised' = [raised EXCEPT ![Place[p]][n] = @ + 1]
  /\ UNCHANGED <<vars, interrupts, receives, serves>>

\* handle_signal and handle_interrupt: the signal is taken.
UserEnter(p, n) ==
  /\ raised[Place[p]][n] > 0
  /\ IntrEnter(p)
  /\ raised' = [raised EXCEPT ![Place[p]][n] = @ - 1]
  /\ serves' = [serves EXCEPT ![p] = n]
  /\ UNCHANGED <<interrupts, receives>>

\* A plausible mistake, for the mutants: transmit loads the name and leaves
\* it where it is.
TakeName_load(u, n) == UNCHANGED interrupts

\* The exchange of transmit.
TakeName(u, n) == interrupts' = [interrupts EXCEPT ![u][n] = NULL]

\* transmit finds a receiver: the exchange of its name, then of its state;
\* handle_user_interrupt goes on to schedule_from_interrupt (IntrDone).
Transmit(p) ==
  LET u == Place[p]
      n == serves[p]
  IN  /\ n # NULL
      /\ interrupts[u][n] # NULL
      /\ IntrWake(p, interrupts[u][n])
      /\ TakeName(u, n)
      /\ receives' = [receives EXCEPT ![interrupts[u][n]] = NULL]
      /\ serves' = [serves EXCEPT ![p] = NULL]
      /\ UNCHANGED raised

\* transmit finds no receiver: the interrupt is missed, and the handler
\* returns without looking at the ready queue.
Miss(p) ==
  /\ RunsIn(p, "intr")
  /\ serves[p] # NULL
  /\ interrupts[Place[p]][serves[p]] = NULL
  /\ kernel' = [kernel EXCEPT ![p] = "none"]
  /\ serves' = [serves EXCEPT ![p] = NULL]
  /\ UNCHANGED <<current, rdyQues, ipQues, ipi, sched_state, waiting, pc, wakee,
                 interrupts, raised, receives>>

-----------------------------------------------------------------------------
\* The steps of Sched that are none of receive, transmit and their handler.
\* Timeouts and partners on channels wake the processes not named above.
OtherApp(p) ==
  \/ PrepareToWait(p)
  \/ receives[p] = NULL /\ (Publish(p) \/ Yield(p))
  \/ Relinquish(p) \/ Disable(p)
  \/ \E q \in waiting \ Named : Claim(p, q)
  \/ Free(p) \/ ScheduleLocal(p) \/ ScheduleRemote(p)

OtherKernel(p) ==
  \/ Drain(p) \/ Switch(p) \/ YieldSwitch(p) \/ IpqAdd(p) \/ Preempt(p)
  \/ IpiEnter(p) \/ IpiStep(p) \/ IpiDone(p)
  \/ IntrEnter(p)
  \/ serves[p] = NULL /\ \E q \in waiting \ Named : IntrWake(p, q)
  \/ serves[p] = NULL /\ IntrDone(p)

InterruptNext ==
  \/ \E p \in Procs, n \in Users : Receive(p, n) \/ send_interrupt(p, n)
  \/ \E p \in Procs : StoreName(p)
  \/ \E p \in All, n \in Users : UserEnter(p, n)
  \/ \E p \in All : Transmit(p) \/ Miss(p)
  \/ \E p \in Procs : OtherApp(p) /\ UNCHANGED userVars
  \/ \E p \in All : OtherKernel(p) /\ UNCHANGED userVars

InterruptSpec == InterruptInit /\ [][InterruptNext]_allVars

\* As in Sched, and a raised signal is taken once interrupts are enabled.
InterruptFairness ==
  /\ \A p \in All : WF_allVars(Routine(p) /\ UNCHANGED userVars)
  /\ \A p \in All : WF_allVars(Transmit(p) \/ Miss(p))
  /\ \A p \in Procs :
       /\ SF_allVars(StoreName(p) \/ (Finish(p) /\ UNCHANGED userVars))
       /\ SF_allVars(Yield(p) /\ UNCHANGED userVars)
  /\ \A u \in Puns :
       /\ SF_allVars(Delivery(u) /\ UNCHANGED userVars)
       /\ \A n \in Users :
            SF_allVars(\E p \in All : Place[p] = u /\ UserEnter(p, n))

InterruptLiveSpec == InterruptSpec /\ InterruptFairness

-----------------------------------------------------------------------------
(* Properties.                                                             *)

(* "let it be known that this process is waiting to receive the interrupt" *)
(* (interrupt.c:72): from the store until transmit takes it, the name of a *)
(* receiver stands for its interrupt, and it stands there only while the   *)
(* process waits: a name that is overwritten is never woken, and one that  *)
(* is left behind lets a later interrupt queue a process that runs or is   *)
(* ready already.                                                          *)
ReceiverKept ==
  /\ \A p \in Procs :
       receives[p] # NULL /\ pc[p] # "publish"
         => interrupts[Place[p]][receives[p]] = p
  /\ \A u \in Puns, n \in Users :
       LET p == interrupts[u][n]
       IN  p # NULL =>
             /\ receives[p] = n /\ Place[p] = u
             /\ p \in waiting /\ ~ Ready(p) /\ ~ Claimed(p)
             /\ sched_state[p] \in {"PREPARING_TO_WAIT", "WAITING"}

(* "When the interrupt fires, the interrupt handler calls 'transmit'"      *)
(* (interrupt.c:25-27): an interrupt that is raised once the name of its   *)
(* receiver is stored makes receive return.                                *)
Received ==
  \A p \in Procs, n \in Users :
    (interrupts[Place[p]][n] = p /\ raised[Place[p]][n] > 0)
      ~> (Running(p) /\ pc[p] = "run" /\ receives[p] = NULL)
=============================================================================
