------------------------------- MODULE ParRun -------------------------------
(***************************************************************************)
(* The life of processes: par and placed_par (run.c), the barrier at their *)
(* end (par_barrier.m), termination (sched.c) and the process records that *)
(* are allocated and released with it (memory.c), on top of the scheduler. *)
(*                                                                         *)
(* The kernel's steps are those of Sched.  A process is named by its       *)
(* record, so a record that is released and allocated again is the next    *)
(* process of that name; processor and priority go with the name.  The     *)
(* initial process runs one par after the other; which of the four         *)
(* functions it calls shows in the places and priorities of the children.  *)
(* The other processes are there already: they yield, and wait for an      *)
(* interrupt of their processor.                                           *)
(***************************************************************************)
EXTENDS Sched

CONSTANTS
  Parent,      \* the process that calls par
  Roles,       \* Roles[i]: the records that child number i can get
  Living0,     \* Living0[u]: the processes of u that are there at the beginning
  MaxPars      \* bound: how often the parent calls par

ASSUME ParAssumption ==
  /\ Parent \in Procs
  /\ Roles \in Seq(SUBSET (Procs \ {Parent})) /\ Roles # << >>
  /\ MaxPars \in Nat

Children == UNION Range(Roles)
Others == Procs \ (Children \cup {Parent})

\* They are queued in priority order, as in Sched.
ASSUME LivingAssumption ==
  /\ Living0 \in [Puns -> Seq(All)]
  /\ \A u \in Puns :
       /\ Range(Living0[u]) = {p \in All \ Children : Place[p] = u}
       /\ IsInjective(Living0[u])
       /\ \A i, j \in 1..Len(Living0[u]) :
            i < j => Pri[Living0[u][i]] <= Pri[Living0[u][j]]

VARIABLES
  at,         \* how far a process is in its life
  children,   \* ParBarrier.children
  made,       \* children built so far in this par
  pars,       \* calls of par so far
  term,       \* term[u]: who holds the mutex of u's termination stack
  dying       \* the processes that run on without their record

life == <<at, children, made, pars, term, dying>>
parVars == <<vars, life>>

Ats == {"free", "main", "create", "join", "body", "terminate", "release"}

LifeTypeOK ==
  /\ TypeOK
  /\ at \in [Procs -> Ats]
  /\ children \in 0..Len(Roles) /\ made \in 0..Len(Roles) /\ pars \in 0..MaxPars
  /\ term \in [Puns -> Procs \cup {NULL}]
  /\ dying \subseteq Procs

ParInit ==
  /\ current = [u \in Puns |-> Head(Living0[u])]
  /\ rdyQues = [u \in Puns |-> Tail(Living0[u])]
  /\ ipQues = [u \in Puns |-> << >>]
  /\ ipi = [u \in Puns |-> 0]
  /\ sched_state = [p \in All |-> "WAITING"]
  /\ waiting = {}
  /\ pc = [p \in All |-> "run"]
  /\ kernel = [p \in All |-> "none"]
  /\ wakee = [p \in All |-> NULL]
  /\ at = [p \in Procs |-> IF p \in Children THEN "free" ELSE "main"]
  /\ children = 0 /\ made = 0 /\ pars = 0
  /\ term = [u \in Puns |-> NULL]
  /\ dying = {}

\* p runs its own code, and has got so far.
Lives(p, l) ==
  /\ Runs(p) /\ pc[p] = "run"
  /\ p \notin dying
  /\ at[p] = l

-----------------------------------------------------------------------------
(* The parent.                                                             *)

\* A plausible mistake, for the mutants: the barrier for one child less.
par_barr_init_less == children' = Len(Roles) - 1
par_barr_init == children' = Len(Roles)

\* par_barr_init and PREPARE_TO_WAIT.
Par ==
  /\ Lives(Parent, "main")
  /\ pars < MaxPars
  /\ pars' = pars + 1
  /\ par_barr_init
  /\ made' = 0
  /\ sched_state' = [sched_state EXCEPT ![Parent] = "PREPARING_TO_WAIT"]
  /\ at' = [at EXCEPT ![Parent] = "create"]
  /\ UNCHANGED <<current, rdyQues, ipQues, ipi, waiting, pc, kernel, wakee,
                 term, dying>>

\* build_process: the record is in no ready queue, even if its last process
\* still has a processor, so the link it clears joins nothing.
Build(r) ==
  /\ at' = [at EXCEPT ![r] = "body"]
  /\ sched_state' = [sched_state EXCEPT ![r] = "WAITING"]

\* make_process, then enqueue on this processor or schedule on another.
Create(r) ==
  /\ Lives(Parent, "create")
  /\ made < Len(Roles) /\ r \in Roles[made + 1]
  /\ at[r] = "free"
  /\ Build(r)
  /\ made' = made + 1
  /\ \/ /\ Place[r] = Place[Parent]
        /\ Enqueue(Place[r], r)
        /\ UNCHANGED <<pc, wakee>>
     \/ /\ Place[r] # Place[Parent]
        /\ pc' = [pc EXCEPT ![Parent] = "schedule"]
        /\ wakee' = [wakee EXCEPT ![Parent] = r]
        /\ UNCHANGED rdyQues
  /\ UNCHANGED <<current, ipQues, ipi, waiting, kernel, children, pars, term, dying>>

\* relinquish is called; its steps are those of Sched.
Join ==
  /\ Lives(Parent, "create")
  /\ made = Len(Roles)
  /\ at' = [at EXCEPT ![Parent] = "join"]
  /\ pc' = [pc EXCEPT ![Parent] = "relinquish"]
  /\ UNCHANGED <<current, rdyQues, ipQues, ipi, sched_state, waiting, kernel,
                 wakee, children, made, pars, term, dying>>

\* relinquish has returned, and so does par.
Return ==
  /\ Lives(Parent, "join")
  /\ at' = [at EXCEPT ![Parent] = "main"]
  /\ UNCHANGED <<vars, children, made, pars, term, dying>>

-----------------------------------------------------------------------------
(* A child.                                                                *)

\* A plausible mistake, for the mutants: the test is for the value after the
\* last decrement, and nobody wakes the parent.
LastChild_never == children = 0
LastChild == children = 1

\* par_barr_sync: the last child schedules the parent, whose sched_state it
\* leaves alone.
Sync(p) ==
  /\ p \in Children /\ Lives(p, "body")
  /\ children' = children - 1
  /\ IF LastChild
     THEN /\ pc' = [pc EXCEPT ![p] = "schedule"]
          /\ wakee' = [wakee EXCEPT ![p] = Parent]
     ELSE UNCHANGED <<pc, wakee>>
  /\ at' = [at EXCEPT ![p] = "terminate"]
  /\ UNCHANGED <<current, rdyQues, ipQues, ipi, sched_state, waiting, kernel,
                 made, pars, term, dying>>

\* A plausible mistake, for the mutants: the mutex is not looked at.
Terminate_unlocked(p) ==
  /\ Lives(p, "terminate")
  /\ term' = [term EXCEPT ![Place[p]] = p]
  /\ at' = [at EXCEPT ![p] = "release"]
  /\ UNCHANGED <<vars, children, made, pars, dying>>

\* terminate: claim the mutex and go on with the termination stack.
Terminate(p) ==
  /\ Lives(p, "terminate")
  /\ term[Place[p]] = NULL
  /\ term' = [term EXCEPT ![Place[p]] = p]
  /\ at' = [at EXCEPT ![p] = "release"]
  /\ UNCHANGED <<vars, children, made, pars, dying>>

\* finish_termination releases the record: from here on another processor
\* may allocate it, although p still has its processor.  The link of the free
\* list is now where stackptr was.
Release(p) ==
  /\ Lives(p, "release")
  /\ at' = [at EXCEPT ![p] = "free"]
  /\ dying' = dying \cup {p}
  /\ UNCHANGED <<vars, children, made, pars, term>>

\* The disable() of finish_termination, and release_mutex.
FinishTermination(p) ==
  /\ Runs(p) /\ p \in dying
  /\ kernel' = [kernel EXCEPT ![p] = "take"]
  /\ term' = [term EXCEPT ![Place[p]] = NULL]
  /\ UNCHANGED <<current, rdyQues, ipQues, ipi, sched_state, waiting, pc,
                 wakee, at, children, made, pars, dying>>

\* The end of finish_termination: take, set_current, restore_context.
Exit(p) ==
  /\ p \in dying
  /\ Switch(p)
  /\ dying' = dying \ {p}
  /\ UNCHANGED <<at, children, made, pars, term>>

\* claim_mutex yields while the mutex is taken: that of the termination
\* stack, that of a channel or of the allocator in the body, and that of the
\* allocator where the parent takes a record and where a child releases its
\* own (allocate_mem, release_mem).
MayYield(p) ==
  \/ p \in Children /\ (Lives(p, "body") \/ Lives(p, "release"))
  \/ p \in Children /\ Lives(p, "terminate") /\ term[Place[p]] # NULL
  \/ p = Parent /\ Lives(p, "create") /\ made < Len(Roles)

-----------------------------------------------------------------------------
\* handle_signal saves the context of the process that has the processor where
\* its stackptr points to (hardware.c:120).  Of one that has released its
\* record that is the next free block, or nowhere at all; what becomes of the
\* program then is not modelled, and such an interrupt does not come here.
Interrupt(p) == p \notin dying /\ (IpiEnter(p) \/ IntrEnter(p))

\* The steps of Sched that carry processes through all this.
Scheduling(p) ==
  \/ Relinquish(p) \/ Disable(p) \/ ScheduleLocal(p) \/ ScheduleRemote(p)
  \/ Switch(p) /\ p \notin dying
  \/ Drain(p) \/ YieldSwitch(p) \/ IpqAdd(p) \/ Preempt(p)
  \/ Interrupt(p) \/ IpiStep(p) \/ IpiDone(p)
  \/ IntrDone(p) \/ \E q \in waiting : IntrWake(p, q)

Living(p) ==
  Sync(p) \/ Terminate(p) \/ Release(p) \/ FinishTermination(p) \/ Exit(p)

ParNext ==
  \/ Par \/ Join \/ Return
  \/ \E r \in Children : Create(r)
  \/ \E p \in Children : Living(p)
  \/ /\ \/ \E p \in Procs : MayYield(p) /\ Yield(p)
        \/ \E p \in Others : PrepareToWait(p) \/ Publish(p) \/ Yield(p)
        \/ \E p \in All : Scheduling(p)
     /\ UNCHANGED life

ParSpec == ParInit /\ [][ParNext]_parVars

(* Fairness as in Sched: routines end, signals are delivered, a process    *)
(* that gets the processor goes on (claim_mutex by yielding, as long as    *)
(* the mutex is taken).  Bodies end, and that of the allocator is free now *)
(* and then when a process asks for it.                                    *)
GoesOnFrom(p) ==
  \/ (Routine(p) \/ Finish(p)) /\ UNCHANGED life
  \/ /\ p \in Children
     /\ \/ Terminate(p) \/ Release(p) \/ FinishTermination(p) \/ Exit(p)
        \/ Lives(p, "terminate") /\ MayYield(p) /\ Yield(p) /\ UNCHANGED life
  \/ p = Parent /\ (Join \/ Return \/ \E r \in Children : Create(r))

ParFairness ==
  /\ \A p \in All : SF_parVars(GoesOnFrom(p))
  /\ \A p \in Children : SF_parVars(Sync(p))
  /\ SF_parVars(\E p \in Children : Release(p) \/ Create(p))
  /\ \A u \in Puns :
       SF_parVars(\E p \in All \ dying : Place[p] = u /\ IpiEnter(p) /\ UNCHANGED life)

ParLiveSpec == ParSpec /\ ParFairness

-----------------------------------------------------------------------------
(* Properties.                                                             *)

(* "barrier will awaken parent when all children are done" (run.c:73): par *)
(* does not return while a child of it runs, although the parent may be    *)
(* scheduled before it has relinquished and without its sched_state being  *)
(* set (par_barrier.m:36-40).                                              *)
Joined == at[Parent] = "main" => \A p \in Children : at[p] # "body"

(* A parent that waits in par is on its processor, ready, or has a child   *)
(* left to wake it.                                                        *)
ParentKept ==
  at[Parent] = "join" =>
    Running(Parent) \/ Ready(Parent) \/ \E p \in Children : at[p] = "body"

(* par returns in the end, if its children do: the wake of the last child  *)
(* reaches a parent on another processor in any state of relinquish, and   *)
(* terminating processes do not wait for each other for ever.              *)
ParReturns == at[Parent] # "main" ~> at[Parent] = "main"

(* Waking the parent does no harm to the processes beside it: each is on   *)
(* its processor, ready, or waits for its interrupt.  enqueue0 "inserts    *)
(* process into the scheduling queue" (sched.c:171), and a process that is *)
(* PREPARING_TO_WAIT "is either executing or already in its scheduling     *)
(* queue" (comm.c:55-56), so that in and out do not schedule it; the       *)
(* barrier does (par_barrier.m:39).                                        *)
OthersKept ==
  \A q \in Others : Running(q) \/ Ready(q) \/ q \in waiting

(* "so this process has sole use of the termination stack" (sched.c:621):  *)
(* of the processes of one processor one at a time is on it, to the switch *)
(* of contexts after the mutex has been released (sched.c:563-565).        *)
OneTerminating ==
  \A p, q \in Children :
    /\ Place[p] = Place[q]
    /\ {p, q} \subseteq dying \cup {r \in Children : at[r] = "release"}
    => p = q

(* "free the process record (can do this now that process is using         *)
(* termination stack)" (sched.c:553-554): the scheduler has no use for a   *)
(* record that has been released, a new process does not get it while the  *)
(* old one has its processor, and no interrupt finds the old one there,    *)
(* which would save its context by way of the record.                      *)
ReleasedUnused ==
  \A p \in dying : Runs(p) =>
    /\ at[p] = "free" /\ ~ Queued(p)
    /\ ipi[Place[p]] = 0 /\ Place[p] \notin IntrPuns
=============================================================================
