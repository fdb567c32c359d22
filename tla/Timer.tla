------------------------------- MODULE Timer --------------------------------
(***************************************************************************)
(* The timeouts of one processor (timer.c): After, the timeout guards of   *)
(* an alternation, the queue of timeout descriptors, the interval timer    *)
(* and its interrupt.                                                      *)
(*                                                                         *)
(* A descriptor is named by the process on whose stack it is (After) or by *)
(* the memory block it is in (alternation).  Queue operations and the      *)
(* handler run with interrupts disabled, and the queue belongs to one      *)
(* processor, so each of them is one step.  What a process does between    *)
(* its test of the clock and the insertion can take any time.              *)
(***************************************************************************)
EXTENDS Integers, Sequences, FiniteSets, Functions

CONSTANTS
  Procs,       \* the processes of the processor
  Guards,      \* Guards[p]: timeout guards in p's alternation, 0: p uses After
  MaxTime,     \* bound: the last instant
  MaxBlocks,   \* bound: memory blocks for descriptors
  Nil          \* the null pointer

ASSUME TimerAssumption ==
  /\ Guards \in [Procs -> Nat]
  /\ MaxTime \in Nat /\ MaxBlocks \in Nat
  /\ Procs \cap (1..MaxBlocks) = {} /\ Nil \notin Procs \cup (1..MaxBlocks)

Times == 0..MaxTime
Blocks == 1..MaxBlocks
Descs == Procs \cup Blocks

VARIABLES
  now,           \* what GetCurrentTime returns
  tque,          \* the timer queue, as the list its links form
  time, proc,    \* the fields of the descriptors
  armed,         \* when the interval timer expires, 0 if it is not set
  pending,       \* a timeout interrupt is pending
  sched_state,
  alt_state,
  pc,
  when,          \* when[p]: the times of p's guards
  guard,         \* the guard p is at
  desc,          \* the block p has in hand
  procmemlist,   \* the released blocks, last released first
  tail           \* the number of blocks taken so far from fresh memory

timerVars ==
  <<now, tque, time, proc, armed, pending, sched_state, alt_state, pc, when,
    guard, desc, procmemlist, tail>>
clock == <<now, armed, pending>>
memory == <<procmemlist, tail>>

PCs == {"run", "insert", "relinquish", "asleep", "enable", "allocate",
        "insertAlt", "altShouldWait", "altAsleep", "disable", "release",
        "altFinish"}

TimerTypeOK ==
  /\ now \in Times /\ armed \in Times /\ pending \in BOOLEAN
  /\ tque \in Seq(Descs)
  /\ time \in [Descs -> Times] /\ proc \in [Descs -> Procs \cup {Nil}]
  /\ sched_state \in [Procs -> {"READY", "PREPARING_TO_WAIT", "WAITING"}]
  /\ alt_state \in [Procs -> {"NONE", "ENABLING", "WAITING", "READY"}]
  /\ pc \in [Procs -> PCs]
  /\ when \in [Procs -> UNION {[1..Guards[p] -> Times] : p \in Procs}]
  /\ guard \in [Procs -> Nat]
  /\ \A p \in Procs : when[p] \in [1..Guards[p] -> Times] /\ guard[p] <= Guards[p]
  /\ desc \in [Procs -> Descs \cup {Nil}]
  /\ procmemlist \in Seq(Descs) /\ tail \in 0..MaxBlocks

TimerInit ==
  /\ now = 0 /\ armed = 0 /\ pending = FALSE
  /\ tque = << >>
  /\ time = [d \in Descs |-> 0] /\ proc = [d \in Descs |-> Nil]
  /\ sched_state = [p \in Procs |-> "WAITING"]
  /\ alt_state = [p \in Procs |-> "NONE"]
  /\ pc = [p \in Procs |-> "run"]
  /\ when = [p \in Procs |-> [i \in 1..Guards[p] |-> 0]]
  /\ guard = [p \in Procs |-> 0]
  /\ desc = [p \in Procs |-> Nil]
  /\ procmemlist = << >> /\ tail = 0

Go(p, from, to) == pc[p] = from /\ pc' = [pc EXCEPT ![p] = to]

-----------------------------------------------------------------------------
(* The clock and the interval timer.                                       *)

Tick ==
  /\ now < MaxTime
  /\ now' = now + 1
  /\ UNCHANGED <<tque, time, proc, armed, pending, sched_state, alt_state, pc,
                 when, guard, desc, memory>>

\* timer_settime with an interval of zero stops the timer.
set_timer_single(diff) == armed' = IF diff > 0 THEN now + diff ELSE 0

Expire ==
  /\ armed # 0 /\ now >= armed
  /\ armed' = 0
  /\ pending' = TRUE
  /\ UNCHANGED <<now, tque, time, proc, sched_state, alt_state, pc, when, guard,
                 desc, memory>>

-----------------------------------------------------------------------------
(* The queue.                                                              *)

\* How many descriptors at the front of the queue are for t or earlier.
Earlier(t) ==
  Cardinality({i \in 1..Len(tque) : \A j \in 1..i : time[tque[j]] <= t})

\* A plausible mistake, for the mutants: the timer is only set when the
\* queue was empty.
insertInQueue_first(d) ==
  LET n == Earlier(time[d])
  IN  /\ tque' = SubSeq(tque, 1, n) \o <<d>> \o SubSeq(tque, n + 1, Len(tque))
      /\ IF tque = << >> THEN set_timer_single(time[d] - now) ELSE UNCHANGED armed

\* In time order, after its equals; a new head sets the timer.
insertInQueue(d) ==
  LET n == Earlier(time[d])
  IN  /\ tque' = SubSeq(tque, 1, n) \o <<d>> \o SubSeq(tque, n + 1, Len(tque))
      /\ IF n = 0 THEN set_timer_single(time[d] - now) ELSE UNCHANGED armed

\* Where the search of removeFromQueue for t and p stops.
SearchEnds(t, p) ==
  {i \in 1..Len(tque) :
     /\ time[tque[i]] > t \/ (time[tque[i]] = t /\ proc[tque[i]] = p)
     /\ \A j \in 1..(i - 1) :
          time[tque[j]] < t \/ (time[tque[j]] = t /\ proc[tque[j]] # p)}

\* The queue without its entry at position i.
Without(i) == SubSeq(tque, 1, i - 1) \o SubSeq(tque, i + 1, Len(tque))

\* Is the entry at i the one for t and p?
Matches(i, t, p) == time[tque[i]] = t /\ proc[tque[i]] = p

\* A plausible mistake, for the mutants: the first entry is not unlinked.
Unlinked_tail(t, p) ==
  LET i == CHOOSE i \in SearchEnds(t, p) : TRUE
  IN  IF SearchEnds(t, p) # {} /\ i # 1 /\ Matches(i, t, p) THEN Without(i) ELSE tque

\* The queue without the entry for t and p, if the search has found one.
Unlinked(t, p) ==
  LET i == CHOOSE i \in SearchEnds(t, p) : TRUE
  IN  IF SearchEnds(t, p) # {} /\ Matches(i, t, p) THEN Without(i) ELSE tque

\* What removeFromQueue returns: where the search stopped, removed or not.
Found(t, p) ==
  IF SearchEnds(t, p) = {} THEN Nil ELSE tque[CHOOSE i \in SearchEnds(t, p) : TRUE]

-----------------------------------------------------------------------------
(* After.                                                                  *)

After(p, t) ==
  /\ Go(p, "run", "insert")
  /\ Guards[p] = 0
  /\ t > now
  /\ time' = [time EXCEPT ![p] = t]
  /\ proc' = [proc EXCEPT ![p] = p]
  /\ sched_state' = [sched_state EXCEPT ![p] = "PREPARING_TO_WAIT"]
  /\ UNCHANGED <<clock, tque, alt_state, when, guard, desc, memory>>

AfterInsert(p) ==
  /\ Go(p, "insert", "relinquish")
  /\ insertInQueue(p)
  /\ UNCHANGED <<now, pending, time, proc, sched_state, alt_state, when, guard,
                 desc, memory>>

Relinquish(p) ==
  /\ pc[p] = "relinquish"
  /\ IF sched_state[p] = "PREPARING_TO_WAIT"
     THEN /\ sched_state' = [sched_state EXCEPT ![p] = "WAITING"]
          /\ pc' = [pc EXCEPT ![p] = "asleep"]
     ELSE /\ pc' = [pc EXCEPT ![p] = "run"]
          /\ UNCHANGED sched_state
  /\ UNCHANGED <<clock, tque, time, proc, alt_state, when, guard, desc, memory>>

-----------------------------------------------------------------------------
(* An alternation with timeout guards, and one channel guard.              *)

Select(p, ts) ==
  /\ Go(p, "run", "enable")
  /\ Guards[p] > 0
  /\ alt_state' = [alt_state EXCEPT ![p] = "ENABLING"]
  /\ when' = [when EXCEPT ![p] = ts]
  /\ guard' = [guard EXCEPT ![p] = 1]
  /\ UNCHANGED <<clock, tque, time, proc, sched_state, desc, memory>>

\* enable_timeout looks at the clock first.
EnableTest(p) ==
  /\ pc[p] = "enable"
  /\ pc' = [pc EXCEPT ![p] = IF now >= when[p][guard[p]] THEN "disable" ELSE "allocate"]
  /\ UNCHANGED <<clock, tque, time, proc, sched_state, alt_state, when, guard, desc,
                 memory>>

\* allocate_mem, and the descriptor is filled in.
Allocate(p) ==
  LET b == IF procmemlist # << >> THEN Head(procmemlist) ELSE tail + 1
  IN  /\ Go(p, "allocate", "insertAlt")
      /\ IF procmemlist # << >>
         THEN procmemlist' = Tail(procmemlist) /\ UNCHANGED tail
         ELSE tail < MaxBlocks /\ tail' = tail + 1 /\ UNCHANGED procmemlist
      /\ time' = [time EXCEPT ![b] = when[p][guard[p]]]
      /\ proc' = [proc EXCEPT ![b] = p]
      /\ desc' = [desc EXCEPT ![p] = b]
      /\ UNCHANGED <<clock, tque, sched_state, alt_state, when, guard>>

EnableInsert(p) ==
  /\ pc[p] = "insertAlt"
  /\ insertInQueue(desc[p])
  /\ desc' = [desc EXCEPT ![p] = Nil]
  /\ IF guard[p] < Guards[p]
     THEN pc' = [pc EXCEPT ![p] = "enable"] /\ guard' = [guard EXCEPT ![p] = @ + 1]
     ELSE pc' = [pc EXCEPT ![p] = "altShouldWait"] /\ UNCHANGED guard
  /\ UNCHANGED <<now, pending, time, proc, sched_state, alt_state, when, memory>>

\* A plausible mistake, for the mutants: a store in place of the exchange.
AltShouldWait_store(p) ==
  /\ Go(p, "altShouldWait", "altAsleep")
  /\ alt_state' = [alt_state EXCEPT ![p] = "WAITING"]
  /\ UNCHANGED <<clock, tque, time, proc, sched_state, when, guard, desc, memory>>

AltShouldWait(p) ==
  /\ pc[p] = "altShouldWait"
  /\ IF alt_state[p] = "ENABLING"
     THEN /\ alt_state' = [alt_state EXCEPT ![p] = "WAITING"]
          /\ pc' = [pc EXCEPT ![p] = "altAsleep"]
     ELSE /\ pc' = [pc EXCEPT ![p] = "disable"]
          /\ UNCHANGED alt_state
  /\ UNCHANGED <<clock, tque, time, proc, sched_state, when, guard, desc, memory>>

\* The next turn of the disabling loop, if there is one.
NextGuard(p) ==
  /\ guard' = [guard EXCEPT ![p] = @ - 1]
  /\ pc' = [pc EXCEPT ![p] = IF guard[p] > 1 THEN "disable" ELSE "altFinish"]

\* disable_timeout: removes the descriptor and releases what it gets back.
Disable(p) ==
  LET t == when[p][guard[p]]
  IN  /\ pc[p] = "disable"
      /\ tque' = Unlinked(t, p)
      /\ desc' = [desc EXCEPT ![p] = Found(t, p)]
      /\ IF Found(t, p) # Nil
         THEN pc' = [pc EXCEPT ![p] = "release"] /\ UNCHANGED guard
         ELSE NextGuard(p)
      /\ UNCHANGED <<clock, time, proc, sched_state, alt_state, when, memory>>

\* release_mem.
Release(p) ==
  /\ pc[p] = "release"
  /\ procmemlist' = <<desc[p]>> \o procmemlist
  /\ desc' = [desc EXCEPT ![p] = Nil]
  /\ NextGuard(p)
  /\ UNCHANGED <<clock, tque, time, proc, sched_state, alt_state, when, tail>>

AltFinish(p) ==
  /\ Go(p, "altFinish", "run")
  /\ alt_state' = [alt_state EXCEPT ![p] = "NONE"]
  /\ UNCHANGED <<clock, tque, time, proc, sched_state, when, guard, desc, memory>>

\* The channel guard becomes ready (freeProcessMaybe, see Comm).
Communicate(p) ==
  /\ alt_state[p] \in {"ENABLING", "WAITING"}
  /\ alt_state' = [alt_state EXCEPT ![p] = "READY"]
  /\ pc' = IF alt_state[p] = "WAITING" THEN [pc EXCEPT ![p] = "disable"] ELSE pc
  /\ UNCHANGED <<clock, tque, time, proc, sched_state, when, guard, desc, memory>>

-----------------------------------------------------------------------------
(* handle_timeout_interrupt.                                               *)

\* A plausible mistake, for the mutants: an off-by-one in the comparison.
Due_early == Earlier(now + 1)
\* How many descriptors at the head of the queue the loop removes.
Due == Earlier(now)

\* freeProcess for After, maybeFreeAltingProcess for an alternation, and the
\* timer is set for the next.
Handle ==
  LET rest    == SubSeq(tque, Due + 1, Len(tque))
      afters  == {p \in Procs : \E i \in 1..Due : tque[i] = p}
      alting  == {p \in Procs : \E i \in 1..Due : tque[i] \in Blocks /\ proc[tque[i]] = p}
      freed   == {p \in alting : alt_state[p] \in {"ENABLING", "WAITING"}}
  IN  /\ pending
      /\ pending' = FALSE
      /\ tque' = rest
      /\ sched_state' = [p \in Procs |->
           IF p \in afters THEN "READY" ELSE sched_state[p]]
      /\ alt_state' = [p \in Procs |-> IF p \in freed THEN "READY" ELSE alt_state[p]]
      /\ pc' = [p \in Procs |->
           CASE p \in afters /\ sched_state[p] = "WAITING" -> "run"
             [] p \in freed /\ alt_state[p] = "WAITING" -> "disable"
             [] OTHER -> pc[p]]
      /\ IF rest # << >> THEN set_timer_single(time[Head(rest)] - now) ELSE UNCHANGED armed
      /\ UNCHANGED <<now, time, proc, when, guard, desc, memory>>

-----------------------------------------------------------------------------
Step(p) ==
  \/ AfterInsert(p) \/ Relinquish(p)
  \/ EnableTest(p) \/ Allocate(p) \/ EnableInsert(p) \/ AltShouldWait(p)
  \/ Disable(p) \/ Release(p) \/ AltFinish(p)

TimerNext ==
  \/ Tick \/ Expire \/ Handle
  \/ \E p \in Procs :
       \/ \E t \in Times : After(p, t)
       \/ \E ts \in [1..Guards[p] -> Times] : Select(p, ts)
       \/ Communicate(p)
       \/ Step(p)

TimerSpec == TimerInit /\ [][TimerNext]_timerVars

\* Time passes, the timer expires when it is due, its interrupt is taken,
\* and a process that has called goes on until it sleeps.
TimerLiveSpec ==
  /\ TimerSpec
  /\ WF_timerVars(Tick) /\ WF_timerVars(Expire) /\ WF_timerVars(Handle)
  /\ \A p \in Procs : WF_timerVars(Step(p))

-----------------------------------------------------------------------------
(* Properties.  The code keeps its promises on two conditions, and says so  *)
(* of the first: removeFromQueue "returns removed item (null if none)"      *)
(* (timer.c:168).  It returns the next later entry too, and the clock can   *)
(* pass a time between its test and the insertion, and then they are broken *)
(* (MCTimerRelease.cfg, MCTimerLate.cfg).  The properties say that nothing  *)
(* else breaks them.                                                        *)

\* The search of a process that disables a guard ends at an entry of its
\* own for that time, or at none.
Own ==
  \A p \in Procs : pc[p] = "disable" =>
    LET t == when[p][guard[p]]
    IN  SearchEnds(t, p) # {} => Matches(CHOOSE i \in SearchEnds(t, p) : TRUE, t, p)

\* What a process inserts is still to come.
Ahead ==
  \A p \in Procs :
    /\ pc[p] = "insert" => time[p] > now
    /\ pc[p] = "insertAlt" => when[p][guard[p]] > now

\* While there is a timeout in the queue the timer runs, and not beyond the
\* first of them, or its interrupt is pending.
Armed == tque # << >> => pending \/ (armed # 0 /\ armed <= time[Head(tque)])

(* Also after the head has been removed without touching the timer         *)
(* (timer.c:161), after an interrupt that came too early, and with any mix *)
(* of After and alternations, the timer runs to the first timeout, unless  *)
(* one that is over has been inserted (timer.c:108).                       *)
StaysArmed == []Own /\ []Ahead => []Armed

\* Every descriptor in the queue is still somebody's: the process on whose
\* stack it is has not returned from After, the block it is in has not been
\* released, and no block is released twice.
NoDangling ==
  /\ \A d \in Range(tque) :
       IF d \in Procs THEN pc[d] \in {"relinquish", "asleep"}
       ELSE d \notin Range(procmemlist) /\ alt_state[proc[d]] # "NONE"
  /\ IsInjective(procmemlist)

(* The result of the search is the only way for a descriptor to outlive    *)
(* the call of After or the block it is in (timer.c:182-198, 221-229).     *)
NeverDangling == []Own => []NoDangling

\* Who uses After and is not in it is past the time of its last call.
NotEarly == \A p \in Procs : Guards[p] = 0 /\ pc[p] = "run" => now >= time[p]

(* "Returns after given time" (timer.c:181): no process comes back from    *)
(* After before its time, unless its descriptor is released by another.    *)
NeverEarly == []Own => []NotEarly

\* A process that waits for a time is woken.
Wakes == \A p \in Procs : pc[p] \in {"asleep", "altAsleep"} ~> pc[p] = "run"

(* "when resume here, timeout has expired" (timer.c:196): a process that   *)
(* waits for a time is woken when the time has come, or before if it       *)
(* alternates, whatever the others insert and remove, unless a timeout     *)
(* that is over has stopped the timer (timer.c:108).                       *)
AllWake == []Own /\ []Ahead => Wakes
=============================================================================
