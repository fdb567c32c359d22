---------------------------- MODULE SchedProofs -----------------------------
(***************************************************************************)
(* Proofs about the scheduler of Sched, for one processor or two           *)
(* (PunsAssumption) and any processes and placement: types, the            *)
(* interprocessor queues, the idle process, the order of the ready queues  *)
(* with what it does for the process on the processor, and the wakes.      *)
(***************************************************************************)
EXTENDS Sched, ReadyListProofs

-----------------------------------------------------------------------------
(* Type correctness.  It needs to know on which processor the members of   *)
(* each queue run, which routines a process can lose the processor in      *)
(* (only the loop of the interprocessor interrupt handler), and that a     *)
(* process in mid-wake has somebody to wake.                               *)

\* Everything in the queues of processor u runs on u.
Placed ==
  /\ \A u \in Puns : Place[current[u]] = u
  /\ \A u \in Puns : \A x \in Range(rdyQues[u]) : Place[x] = u
  /\ \A u \in Puns : \A x \in Range(ipQues[u]) : x \in Procs /\ Place[x] = u

\* Where a process can be in the kernel.
Steady ==
  \A p \in All :
    /\ kernel[p] \notin {"none", "ipi", "resumed"} => current[Place[p]] = p
    /\ kernel[p] \in {"preempt", "stale"} => rdyQues[Place[p]] # << >>
    /\ kernel[p] = "ipq_add" => pc[p] = "schedule"
    /\ pc[p] \in {"free", "schedule"} => wakee[p] \in Procs

BaseInv == TypeOK /\ Placed /\ Steady

(* The constants, as the proofs use them.                                  *)
LEMMA Constants ==
  /\ \A p \in All : Place[p] \in Puns /\ Pri[p] \in Nat
  /\ \A u \in Puns : Idle[u] \in All /\ Idle[u] \notin Procs /\ Place[Idle[u]] = u
  /\ Procs \subseteq All
  /\ NULL \notin Procs
  /\ MaxIpi \in Nat
  /\ QCap \in Nat
BY SchedAssumption DEF All

(* enqueue0 on one of the ready queues.                                    *)
LEMMA EnqueueEffect ==
  ASSUME BaseInv, NEW u \in Puns, NEW x \in All, Place[x] = u, Enqueue(u, x)
  PROVE  /\ rdyQues' \in [Puns -> Seq(All)]
         /\ \A w \in Puns : \A y \in Range(rdyQues'[w]) : Place[y] = w
         /\ rdyQues'[u] = enqueue0(rdyQues[u], x)
         /\ \A w \in Puns : w # u => rdyQues'[w] = rdyQues[w]
         /\ \A w \in Puns : rdyQues[w] # << >> => rdyQues'[w] # << >>
         /\ rdyQues'[u] # << >>
<1>1. rdyQues \in [Puns -> Seq(All)] /\ rdyQues[u] \in Seq(All)
  BY DEF BaseInv, TypeOK
<1>2. /\ enqueue0(rdyQues[u], x) \in Seq(All)
      /\ enqueue0(rdyQues[u], x) # << >>
      /\ Range(enqueue0(rdyQues[u], x)) \subseteq Range(rdyQues[u]) \cup {x}
  BY <1>1, EnqueueRange
<1>3. rdyQues' = [rdyQues EXCEPT ![u] = enqueue0(rdyQues[u], x)]
  BY DEF Enqueue
<1>4. /\ rdyQues'[u] = enqueue0(rdyQues[u], x)
      /\ \A w \in Puns : w # u => rdyQues'[w] = rdyQues[w]
      /\ rdyQues' \in [Puns -> Seq(All)]
  BY <1>1, <1>2, <1>3
<1>5. \A w \in Puns : \A y \in Range(rdyQues'[w]) : Place[y] = w
  BY <1>2, <1>4 DEF BaseInv, Placed
<1>. QED BY <1>2, <1>4, <1>5

(* take on one of the ready queues.                                        *)
LEMMA TakeEffect ==
  ASSUME BaseInv, NEW u \in Puns, rdyQues[u] # << >>,
         rdyQues' = [rdyQues EXCEPT ![u] = Tail(@)]
  PROVE  /\ rdyQues' \in [Puns -> Seq(All)]
         /\ \A w \in Puns : \A y \in Range(rdyQues'[w]) : Place[y] = w
         /\ rdyQues'[u] = Tail(rdyQues[u])
         /\ \A w \in Puns : w # u => rdyQues'[w] = rdyQues[w]
         /\ Head(rdyQues[u]) \in All /\ Place[Head(rdyQues[u])] = u
<1>1. rdyQues \in [Puns -> Seq(All)] /\ rdyQues[u] \in Seq(All)
  BY DEF BaseInv, TypeOK
<1>2. /\ Tail(rdyQues[u]) \in Seq(All) /\ Head(rdyQues[u]) \in All
      /\ Head(rdyQues[u]) \in Range(rdyQues[u])
      /\ Range(Tail(rdyQues[u])) \subseteq Range(rdyQues[u])
  BY <1>1, TailRange
<1>4. /\ rdyQues'[u] = Tail(rdyQues[u])
      /\ \A w \in Puns : w # u => rdyQues'[w] = rdyQues[w]
      /\ rdyQues' \in [Puns -> Seq(All)]
  BY <1>1, <1>2
<1>5. \A w \in Puns : \A y \in Range(rdyQues'[w]) : Place[y] = w
  BY <1>2, <1>4 DEF BaseInv, Placed
<1>. QED BY <1>2, <1>4, <1>5 DEF BaseInv, Placed

(* take followed by enqueue0, as yield and preemption do it.               *)
LEMMA RotateEffect ==
  ASSUME BaseInv, NEW p \in All, rdyQues[Place[p]] # << >>,
         rdyQues' = [rdyQues EXCEPT ![Place[p]] = enqueue0(Tail(@), p)]
  PROVE  /\ rdyQues' \in [Puns -> Seq(All)]
         /\ \A w \in Puns : \A y \in Range(rdyQues'[w]) : Place[y] = w
         /\ rdyQues'[Place[p]] = enqueue0(Tail(rdyQues[Place[p]]), p)
         /\ \A w \in Puns : w # Place[p] => rdyQues'[w] = rdyQues[w]
         /\ \A w \in Puns : rdyQues[w] # << >> => rdyQues'[w] # << >>
         /\ Head(rdyQues[Place[p]]) \in All
         /\ Place[Head(rdyQues[Place[p]])] = Place[p]
<1> DEFINE u == Place[p]
<1>0. u \in Puns
  BY Constants
<1>1. rdyQues \in [Puns -> Seq(All)] /\ rdyQues[u] \in Seq(All)
  BY <1>0 DEF BaseInv, TypeOK
<1>2. /\ Tail(rdyQues[u]) \in Seq(All) /\ Head(rdyQues[u]) \in All
      /\ Head(rdyQues[u]) \in Range(rdyQues[u])
      /\ Range(Tail(rdyQues[u])) \subseteq Range(rdyQues[u])
  BY <1>1, TailRange
<1>3. /\ enqueue0(Tail(rdyQues[u]), p) \in Seq(All)
      /\ enqueue0(Tail(rdyQues[u]), p) # << >>
      /\ Range(enqueue0(Tail(rdyQues[u]), p)) \subseteq Range(Tail(rdyQues[u])) \cup {p}
  <2>1. ASSUME NEW t \in Seq(All)
        PROVE  /\ enqueue0(t, p) \in Seq(All) /\ enqueue0(t, p) # << >>
               /\ Range(enqueue0(t, p)) \subseteq Range(t) \cup {p}
    BY EnqueueRange
  <2>. QED BY <1>2, <2>1
<1>4. /\ rdyQues'[u] = enqueue0(Tail(rdyQues[u]), p)
      /\ \A w \in Puns : w # u => rdyQues'[w] = rdyQues[w]
      /\ rdyQues' \in [Puns -> Seq(All)]
  BY <1>0, <1>1, <1>3
<1>5. \A w \in Puns : \A y \in Range(rdyQues'[w]) : Place[y] = w
  BY <1>2, <1>3, <1>4 DEF BaseInv, Placed
<1>. QED BY <1>0, <1>2, <1>3, <1>4, <1>5 DEF BaseInv, Placed

(* ipq_remove: the head of an interprocessor queue.                        *)
LEMMA RemoveEffect ==
  ASSUME BaseInv, NEW u \in Puns, ipQues[u] # << >>,
         ipQues' = [ipQues EXCEPT ![u] = Tail(@)]
  PROVE  /\ ipQues' \in [Puns -> Seq(All)]
         /\ \A w \in Puns : Len(ipQues'[w]) <= QCap
         /\ \A w \in Puns : \A y \in Range(ipQues'[w]) : y \in Procs /\ Place[y] = w
         /\ ipQues'[u] = Tail(ipQues[u])
         /\ \A w \in Puns : w # u => ipQues'[w] = ipQues[w]
         /\ Head(ipQues[u]) \in Procs /\ Head(ipQues[u]) \in All
         /\ Place[Head(ipQues[u])] = u
<1>1. /\ ipQues \in [Puns -> Seq(All)] /\ ipQues[u] \in Seq(All)
      /\ \A w \in Puns : Len(ipQues[w]) <= QCap
  BY DEF BaseInv, TypeOK
<1>2. /\ Tail(ipQues[u]) \in Seq(All)
      /\ Head(ipQues[u]) \in Range(ipQues[u])
      /\ Range(Tail(ipQues[u])) \subseteq Range(ipQues[u])
      /\ Len(Tail(ipQues[u])) = Len(ipQues[u]) - 1
  BY <1>1, TailRange
<1>3. Len(Tail(ipQues[u])) <= QCap
  BY <1>1, <1>2, Constants
<1>4. /\ ipQues'[u] = Tail(ipQues[u])
      /\ \A w \in Puns : w # u => ipQues'[w] = ipQues[w]
      /\ ipQues' \in [Puns -> Seq(All)]
  BY <1>1, <1>2
<1>5. \A w \in Puns : \A y \in Range(ipQues'[w]) : y \in Procs /\ Place[y] = w
  BY <1>2, <1>4 DEF BaseInv, Placed
<1>6. Head(ipQues[u]) \in Procs /\ Place[Head(ipQues[u])] = u
  BY <1>2 DEF BaseInv, Placed
<1>. QED BY <1>1, <1>3, <1>4, <1>5, <1>6, Constants

(* schedule0 for a process x of processor u: one of two queues' worth of   *)
(* effect, and the processor goes to x only if x outranks its process.     *)
LEMMA ScheduleEffect ==
  ASSUME BaseInv, NEW u \in Puns, NEW x \in All, Place[x] = u, schedule0(u, x)
  PROVE  /\ rdyQues' \in [Puns -> Seq(All)]
         /\ \A w \in Puns : \A y \in Range(rdyQues'[w]) : Place[y] = w
         /\ \A w \in Puns : w # u => rdyQues'[w] = rdyQues[w]
         /\ \A w \in Puns : rdyQues[w] # << >> => rdyQues'[w] # << >>
         /\ current' \in [Puns -> All]
         /\ \A w \in Puns : w # u => current'[w] = current[w]
         /\ \A w \in Puns : Place[current'[w]] = w
<1>1. current \in [Puns -> All] /\ \A w \in Puns : Place[current[w]] = w
  BY DEF BaseInv, TypeOK, Placed
<1>2. CASE pri_le(x, current[u]) /\ Enqueue(u, x) /\ UNCHANGED current
  BY <1>1, <1>2, EnqueueEffect
<1>3. CASE Dispatch(u, x) /\ Enqueue(u, current[u])
  <2>1. /\ current' \in [Puns -> All] /\ current'[u] = x
        /\ \A w \in Puns : w # u => current'[w] = current[w]
    BY <1>1, <1>3 DEF Dispatch
  <2>. QED BY <1>1, <1>3, <2>1, EnqueueEffect
<1>. QED BY <1>2, <1>3 DEF schedule0

(* The initial queues and processes are well placed.                       *)
LEMMA BaseInit == Init => BaseInv
<1> SUFFICES ASSUME Init PROVE BaseInv
  OBVIOUS
<1>1. ASSUME NEW u \in Puns
      PROVE  /\ Created[u] \in Seq(All) /\ Created[u] # << >>
             /\ Head(Created[u]) \in All /\ Place[Head(Created[u])] = u
             /\ Tail(Created[u]) \in Seq(All)
             /\ \A x \in Range(Tail(Created[u])) : Place[x] = u
  <2>1. Created[u] \in Seq(All) /\ \A x \in Range(Created[u]) : Place[x] = u
    BY CreatedAssumption
  <2>2. Idle[u] \in Range(Created[u])
    BY CreatedAssumption, Constants
  <2>3. Created[u] # << >>
    BY <2>1, <2>2, Elements
  <2>. QED BY <2>1, <2>3, TailRange
<1>2. TypeOK
  <2>1. \A u \in Puns : Len(<< >>) <= QCap
    BY Constants
  <2>. QED BY <1>1, <2>1, Constants DEF Init, TypeOK, SchedStates, PCs, Kernels
<1>3. Placed
  BY <1>1 DEF Init, Placed, Range
<1>4. Steady
  BY DEF Init, Steady
<1>. QED BY <1>2, <1>3, <1>4 DEF BaseInv

(* Every step keeps BaseInv.                                               *)
LEMMA BaseNext == BaseInv /\ [Next]_vars => BaseInv'
<1> SUFFICES ASSUME BaseInv, [Next]_vars PROVE BaseInv'
  OBVIOUS
<1> USE DEF BaseInv
<1>0. \A p \in All : Place[p] \in Puns
  BY Constants
<1>1. CASE UNCHANGED vars
  BY <1>1 DEF vars, TypeOK, Placed, Steady
<1>2. ASSUME NEW p \in All, PrepareToWait(p) PROVE BaseInv'
  <2>1. TypeOK'
    BY <1>2 DEF PrepareToWait, TypeOK, SchedStates, PCs, Kernels
  <2>2. Placed'
    BY <1>2 DEF PrepareToWait, Placed
  <2>3. Steady'
    BY <1>2 DEF PrepareToWait, Steady, TypeOK, Runs
  <2>. QED BY <2>1, <2>2, <2>3
<1>3. ASSUME NEW p \in All, Relinquish(p) PROVE BaseInv'
  <2>1. TypeOK'
    BY <1>3 DEF Relinquish, TypeOK, SchedStates, PCs, Kernels
  <2>2. Placed'
    BY <1>3 DEF Relinquish, Placed
  <2>3. Steady'
    BY <1>3 DEF Relinquish, Steady, TypeOK, Runs
  <2>. QED BY <2>1, <2>2, <2>3
<1>4. ASSUME NEW p \in All, Disable(p) PROVE BaseInv'
  <2>1. TypeOK'
    BY <1>4 DEF Disable, TypeOK, SchedStates, PCs, Kernels
  <2>2. Placed'
    BY <1>4 DEF Disable, Placed
  <2>3. Steady'
    BY <1>4 DEF Disable, Steady, TypeOK, Runs
  <2>. QED BY <2>1, <2>2, <2>3
<1>5. ASSUME NEW p \in All, Yield(p) PROVE BaseInv'
  <2>1. TypeOK'
    BY <1>5 DEF Yield, TypeOK, SchedStates, PCs, Kernels
  <2>2. Placed'
    BY <1>5 DEF Yield, Placed
  <2>3. Steady'
    BY <1>5 DEF Yield, Steady, TypeOK, Runs
  <2>. QED BY <2>1, <2>2, <2>3
<1>6. ASSUME NEW p \in All, Free(p) PROVE BaseInv'
  <2>1. TypeOK'
    BY <1>6 DEF Free, TypeOK, SchedStates, PCs, Kernels
  <2>2. Placed'
    BY <1>6 DEF Free, Placed
  <2>3. Steady'
    BY <1>6 DEF Free, Steady, TypeOK, Runs
  <2>. QED BY <2>1, <2>2, <2>3
<1>7. ASSUME NEW p \in All, ScheduleRemote(p) PROVE BaseInv'
  <2>1. TypeOK'
    BY <1>7 DEF ScheduleRemote, TypeOK, SchedStates, PCs, Kernels
  <2>2. Placed'
    BY <1>7 DEF ScheduleRemote, Placed
  <2>3. Steady'
    BY <1>7 DEF ScheduleRemote, Steady, TypeOK, Runs
  <2>. QED BY <2>1, <2>2, <2>3
<1>8. ASSUME NEW p \in All, IntrEnter(p) PROVE BaseInv'
  <2>1. TypeOK'
    BY <1>8 DEF IntrEnter, TypeOK, SchedStates, PCs, Kernels
  <2>2. Placed'
    BY <1>8 DEF IntrEnter, Placed
  <2>3. Steady'
    BY <1>8 DEF IntrEnter, Steady, TypeOK, Runs
  <2>. QED BY <2>1, <2>2, <2>3
<1>9. ASSUME NEW p \in All, p \in Procs, Publish(p) PROVE BaseInv'
  <2>1. TypeOK'
    BY <1>9 DEF Publish, TypeOK, PCs
  <2>2. Placed'
    BY <1>9 DEF Publish, Placed
  <2>3. Steady'
    BY <1>9 DEF Publish, Steady, TypeOK, Runs
  <2>. QED BY <2>1, <2>2, <2>3
<1>10. ASSUME NEW p \in All, NEW q \in waiting, Claim(p, q) PROVE BaseInv'
  <2>1. TypeOK'
    BY <1>10 DEF Claim, TypeOK, PCs
  <2>2. Placed'
    BY <1>10 DEF Claim, Placed
  <2>3. Steady'
    BY <1>10 DEF Claim, Steady, TypeOK, Runs
  <2>. QED BY <2>1, <2>2, <2>3
<1>11. ASSUME NEW p \in All, ScheduleLocal(p) PROVE BaseInv'
  <2>1. wakee[p] \in Procs /\ wakee[p] \in All
    BY <1>11, Constants DEF ScheduleLocal, Steady
  <2>2. /\ rdyQues' \in [Puns -> Seq(All)]
        /\ \A w \in Puns : \A y \in Range(rdyQues'[w]) : Place[y] = w
        /\ \A w \in Puns : rdyQues[w] # << >> => rdyQues'[w] # << >>
        /\ current' \in [Puns -> All]
        /\ \A w \in Puns : w # Place[p] => current'[w] = current[w]
        /\ \A w \in Puns : Place[current'[w]] = w
    BY <1>0, <1>11, <2>1, ScheduleEffect DEF ScheduleLocal
  <2>3. TypeOK'
    BY <1>11, <2>2 DEF ScheduleLocal, TypeOK, PCs
  <2>4. Placed'
    BY <1>11, <2>2 DEF ScheduleLocal, Placed
  <2>5. Steady'
    BY <1>0, <1>11, <2>2 DEF ScheduleLocal, Steady, TypeOK, Runs
  <2>. QED BY <2>3, <2>4, <2>5
<1>12. ASSUME NEW p \in All, IpqAdd(p) PROVE BaseInv'
  <2> DEFINE x == wakee[p]
             u == Place[x]
  <2>1. x \in Procs /\ x \in All /\ u \in Puns
    BY <1>12, Constants DEF IpqAdd, RunsIn, Steady
  <2>2. ipQues[u] \in Seq(All) /\ Len(ipQues[u]) < QCap /\ ipi[u] < MaxIpi
    BY <1>12, <2>1 DEF IpqAdd, TypeOK
  <2>3. /\ Append(ipQues[u], x) \in Seq(All)
        /\ Len(Append(ipQues[u], x)) = Len(ipQues[u]) + 1
        /\ Range(Append(ipQues[u], x)) = Range(ipQues[u]) \cup {x}
    BY <2>1, <2>2, AppendRange
  <2>4. Len(Append(ipQues[u], x)) <= QCap
    BY <2>2, <2>3, Constants
  <2>5. /\ ipQues' = [ipQues EXCEPT ![u] = Append(ipQues[u], x)]
        /\ ipi' = [ipi EXCEPT ![u] = ipi[u] + 1]
    BY <1>12 DEF IpqAdd, send_interprocessor_interrupt
  <2>6. /\ ipQues' \in [Puns -> Seq(All)]
        /\ ipQues'[u] = Append(ipQues[u], x)
        /\ \A w \in Puns : w # u => ipQues'[w] = ipQues[w]
    BY <2>1, <2>3, <2>5 DEF TypeOK
  <2>7. ipi' \in [Puns -> 0..MaxIpi]
    BY <2>1, <2>2, <2>5, Constants DEF TypeOK
  <2>8. TypeOK'
    BY <1>12, <2>4, <2>6, <2>7 DEF IpqAdd, TypeOK, PCs, Kernels
  <2>9. Placed'
    BY <1>12, <2>1, <2>3, <2>6 DEF IpqAdd, Placed
  <2>10. Steady'
    BY <1>12 DEF IpqAdd, Steady, TypeOK, RunsIn
  <2>. QED BY <2>8, <2>9, <2>10
<1>13. ASSUME NEW p \in All, Drain(p) PROVE BaseInv'
  <2> DEFINE u == Place[p]
  <2>1. u \in Puns /\ ipQues[u] # << >> /\ Enqueue(u, Head(ipQues[u]))
    BY <1>0, <1>13 DEF Drain
  <2>2. /\ ipQues' \in [Puns -> Seq(All)]
        /\ \A w \in Puns : Len(ipQues'[w]) <= QCap
        /\ \A w \in Puns : \A y \in Range(ipQues'[w]) : y \in Procs /\ Place[y] = w
        /\ Head(ipQues[u]) \in All /\ Place[Head(ipQues[u])] = u
    BY <1>13, <2>1, RemoveEffect DEF Drain
  <2>3. /\ rdyQues' \in [Puns -> Seq(All)]
        /\ \A w \in Puns : \A y \in Range(rdyQues'[w]) : Place[y] = w
        /\ \A w \in Puns : rdyQues[w] # << >> => rdyQues'[w] # << >>
    BY <2>1, <2>2, EnqueueEffect
  <2>4. TypeOK'
    BY <1>13, <2>2, <2>3 DEF Drain, TypeOK
  <2>5. Placed'
    BY <1>13, <2>2, <2>3 DEF Drain, Placed
  <2>6. Steady'
    BY <1>0, <1>13, <2>3 DEF Drain, Steady
  <2>. QED BY <2>4, <2>5, <2>6
<1>14. ASSUME NEW p \in All, Switch(p) PROVE BaseInv'
  <2> DEFINE u == Place[p]
  <2>1. /\ u \in Puns /\ rdyQues[u] # << >>
        /\ rdyQues' = [rdyQues EXCEPT ![u] = Tail(@)]
    BY <1>0, <1>14 DEF Switch
  <2>2. /\ rdyQues' \in [Puns -> Seq(All)]
        /\ \A w \in Puns : \A y \in Range(rdyQues'[w]) : Place[y] = w
        /\ \A w \in Puns : w # u => rdyQues'[w] = rdyQues[w]
        /\ Head(rdyQues[u]) \in All /\ Place[Head(rdyQues[u])] = u
    BY <2>1, TakeEffect
  <2>3. /\ current' \in [Puns -> All]
        /\ \A w \in Puns : w # u => current'[w] = current[w]
        /\ \A w \in Puns : Place[current'[w]] = w
    BY <1>14, <2>1, <2>2 DEF Switch, Dispatch, TypeOK, Placed
  <2>4. TypeOK'
    BY <1>14, <2>2, <2>3 DEF Switch, TypeOK, PCs, Kernels
  <2>5. Placed'
    BY <1>14, <2>2, <2>3 DEF Switch, Placed
  <2>6. Steady'
    BY <1>0, <1>14, <2>2, <2>3 DEF Switch, Steady, TypeOK, RunsIn
  <2>. QED BY <2>4, <2>5, <2>6
<1>15. ASSUME NEW p \in All, Preempt(p) PROVE BaseInv'
  <2> DEFINE u == Place[p]
  <2>1. /\ u \in Puns /\ rdyQues[u] # << >> /\ Dispatch(u, Head(rdyQues[u]))
        /\ rdyQues' = [rdyQues EXCEPT ![u] = enqueue0(Tail(@), p)]
    BY <1>0, <1>15 DEF Preempt, RunsIn, Steady
  <2>2. /\ rdyQues' \in [Puns -> Seq(All)]
        /\ \A w \in Puns : \A y \in Range(rdyQues'[w]) : Place[y] = w
        /\ \A w \in Puns : rdyQues[w] # << >> => rdyQues'[w] # << >>
        /\ Head(rdyQues[u]) \in All /\ Place[Head(rdyQues[u])] = u
    BY <2>1, RotateEffect
  <2>3. /\ current' \in [Puns -> All]
        /\ \A w \in Puns : w # u => current'[w] = current[w]
        /\ \A w \in Puns : Place[current'[w]] = w
    BY <2>1, <2>2 DEF Dispatch, TypeOK, Placed
  <2>7. kernel' \in [All -> Kernels]
    BY <1>15 DEF Preempt, TypeOK, Kernels
  <2>4. TypeOK'
    BY <1>15, <2>2, <2>3, <2>7 DEF Preempt, TypeOK
  <2>5. Placed'
    BY <1>15, <2>2, <2>3 DEF Preempt, Placed
  <2>6. Steady'
    BY <1>0, <1>15, <2>2, <2>3 DEF Preempt, Steady, TypeOK, RunsIn
  <2>. QED BY <2>4, <2>5, <2>6
<1>16. ASSUME NEW p \in All, YieldSwitch(p), Len(rdyQues[Place[p]]) >= 2 PROVE BaseInv'
  <2> DEFINE u == Place[p]
  <2>0. rdyQues[Place[p]] # << >>
    BY <1>0, <1>16, Elements DEF TypeOK
  <2>1. /\ u \in Puns /\ rdyQues[u] # << >> /\ Dispatch(u, Head(rdyQues[u]))
        /\ rdyQues' = [rdyQues EXCEPT ![u] = enqueue0(Tail(@), p)]
    BY <1>0, <1>16, <2>0 DEF YieldSwitch, RunsIn, Steady
  <2>2. /\ rdyQues' \in [Puns -> Seq(All)]
        /\ \A w \in Puns : \A y \in Range(rdyQues'[w]) : Place[y] = w
        /\ \A w \in Puns : rdyQues[w] # << >> => rdyQues'[w] # << >>
        /\ Head(rdyQues[u]) \in All /\ Place[Head(rdyQues[u])] = u
    BY <2>1, RotateEffect
  <2>3. /\ current' \in [Puns -> All]
        /\ \A w \in Puns : w # u => current'[w] = current[w]
        /\ \A w \in Puns : Place[current'[w]] = w
    BY <2>1, <2>2 DEF Dispatch, TypeOK, Placed
  <2>4. TypeOK'
    BY <1>16, <2>2, <2>3 DEF YieldSwitch, TypeOK, Kernels
  <2>5. Placed'
    BY <1>16, <2>2, <2>3 DEF YieldSwitch, Placed
  <2>6. Steady'
    BY <1>0, <1>16, <2>2, <2>3 DEF YieldSwitch, Steady, TypeOK, RunsIn
  <2>. QED BY <2>4, <2>5, <2>6
<1>17. ASSUME NEW p \in All, YieldSwitch(p), ~ (Len(rdyQues[Place[p]]) >= 2) PROVE BaseInv'
  <2>1. TypeOK'
    BY <1>17 DEF YieldSwitch, TypeOK, Kernels
  <2>2. Placed'
    BY <1>17 DEF YieldSwitch, Placed
  <2>3. Steady'
    BY <1>17 DEF YieldSwitch, Steady, TypeOK, RunsIn
  <2>. QED BY <2>1, <2>2, <2>3
<1>18. ASSUME NEW p \in All, IpiEnter(p) PROVE BaseInv'
  <2>1. ipi' \in [Puns -> 0..MaxIpi]
    <3>1. ipi[Place[p]] - 1 \in 0..MaxIpi
      BY <1>0, <1>18, Constants DEF IpiEnter, TypeOK
    <3>. QED BY <1>18, <3>1 DEF IpiEnter, TypeOK
  <2>2. TypeOK'
    BY <1>18, <2>1 DEF IpiEnter, TypeOK, Kernels
  <2>3. Placed'
    BY <1>18 DEF IpiEnter, Placed
  <2>4. Steady'
    BY <1>18 DEF IpiEnter, Steady, TypeOK, Runs
  <2>. QED BY <2>2, <2>3, <2>4
<1>19. ASSUME NEW p \in All, IpiStep(p) PROVE BaseInv'
  <2> DEFINE u == Place[p]
             x == Head(ipQues[u])
  <2>1. u \in Puns /\ ipQues[u] # << >> /\ schedule0(u, x)
    BY <1>0, <1>19 DEF IpiStep
  <2>2. /\ ipQues' \in [Puns -> Seq(All)]
        /\ \A w \in Puns : Len(ipQues'[w]) <= QCap
        /\ \A w \in Puns : \A y \in Range(ipQues'[w]) : y \in Procs /\ Place[y] = w
        /\ x \in All /\ Place[x] = u
    BY <1>19, <2>1, RemoveEffect DEF IpiStep
  <2>3. /\ rdyQues' \in [Puns -> Seq(All)]
        /\ \A w \in Puns : \A y \in Range(rdyQues'[w]) : Place[y] = w
        /\ \A w \in Puns : rdyQues[w] # << >> => rdyQues'[w] # << >>
        /\ current' \in [Puns -> All]
        /\ \A w \in Puns : w # u => current'[w] = current[w]
        /\ \A w \in Puns : Place[current'[w]] = w
    BY <2>1, <2>2, ScheduleEffect
  <2>4. TypeOK'
    BY <1>19, <2>2, <2>3 DEF IpiStep, TypeOK, Kernels
  <2>5. Placed'
    BY <1>19, <2>2, <2>3 DEF IpiStep, Placed
  <2>6. Steady'
    BY <1>0, <1>19, <2>3 DEF IpiStep, Handles, Steady, TypeOK, RunsIn
  <2>. QED BY <2>4, <2>5, <2>6
<1>20. ASSUME NEW p \in All, IpiDone(p) PROVE BaseInv'
  <2>1. TypeOK'
    BY <1>20 DEF IpiDone, schedule_from_interrupt, TypeOK, Kernels
  <2>2. Placed'
    BY <1>20 DEF IpiDone, Placed
  <2>3. Steady'
    BY <1>20 DEF IpiDone, Handles, schedule_from_interrupt, Steady, TypeOK, RunsIn
  <2>. QED BY <2>1, <2>2, <2>3
<1>21. ASSUME NEW p \in All, IntrDone(p) PROVE BaseInv'
  <2>1. TypeOK'
    BY <1>21 DEF IntrDone, schedule_from_interrupt, TypeOK, Kernels
  <2>2. Placed'
    BY <1>21 DEF IntrDone, Placed
  <2>3. Steady'
    BY <1>21 DEF IntrDone, schedule_from_interrupt, Steady, TypeOK, RunsIn
  <2>. QED BY <2>1, <2>2, <2>3
<1>22. ASSUME NEW p \in All, NEW q \in waiting, IntrWake(p, q) PROVE BaseInv'
  <2>1. q \in Procs /\ q \in All /\ Place[p] \in Puns /\ Place[q] = Place[p]
    BY <1>0, <1>22, Constants DEF IntrWake, TypeOK
  <2>2. /\ rdyQues' \in [Puns -> Seq(All)]
        /\ \A w \in Puns : \A y \in Range(rdyQues'[w]) : Place[y] = w
        /\ \A w \in Puns : rdyQues[w] # << >> => rdyQues'[w] # << >>
    <3>1. CASE Enqueue(Place[p], q)
      BY <2>1, <3>1, EnqueueEffect
    <3>2. CASE UNCHANGED rdyQues
      BY <3>2 DEF TypeOK, Placed
    <3>. QED BY <1>22, <3>1, <3>2 DEF IntrWake
  <2>3. TypeOK'
    BY <1>22, <2>1, <2>2 DEF IntrWake, TypeOK, SchedStates
  <2>4. Placed'
    BY <1>22, <2>2 DEF IntrWake, Placed
  <2>5. Steady'
    BY <1>0, <1>22, <2>2 DEF IntrWake, Steady
  <2>. QED BY <2>3, <2>4, <2>5
<1>. QED BY <1>1, <1>2, <1>3, <1>4, <1>5, <1>6, <1>7, <1>8, <1>9, <1>10, <1>11, <1>12,
            <1>13, <1>14, <1>15, <1>16, <1>17, <1>18, <1>19, <1>20, <1>21, <1>22,
          Constants DEF Next, AppStep, KernelStep

(* So BaseInv holds throughout.                                            *)
LEMMA BaseHolds == Spec => []BaseInv
BY BaseInit, BaseNext, PTL DEF Spec

(* The scheduler's state stays of the right type: in particular the head   *)
(* of a ready queue is always there when it is preempted with, and no      *)
(* interprocessor queue holds more than QSIZE - 1 entries.                 *)
THEOREM SchedType == Spec => []TypeOK
<1>1. BaseInv => TypeOK
  BY DEF BaseInv
<1>. QED BY <1>1, BaseHolds, PTL
-----------------------------------------------------------------------------
(* Interprocessor interrupts.  The invariant says that the handler         *)
(* accounts for one entry, because the interrupt that started it has been  *)
(* taken off the count: that is what makes PostSignalled inductive.        *)

PostsInv ==
  \A u \in Puns :
    /\ Len(ipQues[u]) <= ipi[u] + 1
    /\ kernel[current[u]] \notin {"ipi", "resumed"} => Len(ipQues[u]) <= ipi[u]

(* Every step keeps PostsInv.                                              *)
LEMMA PostsNext == BaseInv /\ PostsInv /\ [Next]_vars => PostsInv'
<1> SUFFICES ASSUME BaseInv, PostsInv, [Next]_vars, NEW w \in Puns
             PROVE  /\ Len(ipQues'[w]) <= ipi'[w] + 1
                    /\ kernel'[current'[w]] \notin {"ipi", "resumed"} => Len(ipQues'[w]) <= ipi'[w]
  BY DEF PostsInv
<1> DEFINE Goal == /\ Len(ipQues'[w]) <= ipi'[w] + 1
                   /\ kernel'[current'[w]] \notin {"ipi", "resumed"} => Len(ipQues'[w]) <= ipi'[w]
<1>0. /\ ipQues \in [Puns -> Seq(All)] /\ ipi \in [Puns -> Nat]
      /\ current \in [Puns -> All] /\ kernel \in [All -> Kernels]
      /\ Len(ipQues[w]) \in Nat /\ ipi[w] \in Nat /\ current[w] \in All
      /\ \A p \in All : Place[p] \in Puns
      /\ Len(ipQues[w]) <= ipi[w] + 1
      /\ kernel[current[w]] \notin {"ipi", "resumed"} => Len(ipQues[w]) <= ipi[w]
  <2>1. \A u \in Puns : ipi[u] \in Nat
    BY Constants DEF BaseInv, TypeOK
  <2>2. Len(ipQues[w]) \in Nat
    BY Elements DEF BaseInv, TypeOK
  <2>. QED BY <2>1, <2>2, Constants DEF BaseInv, TypeOK, PostsInv
<1>1. CASE UNCHANGED vars
  BY <1>0, <1>1 DEF vars
<1>2. ASSUME NEW p \in All, PrepareToWait(p) PROVE Goal
  BY <1>0, <1>2 DEF PrepareToWait
<1>3. ASSUME NEW p \in All, Publish(p) PROVE Goal
  BY <1>0, <1>3 DEF Publish
<1>4. ASSUME NEW p \in All, Relinquish(p) PROVE Goal
  BY <1>0, <1>4 DEF Relinquish
<1>5. ASSUME NEW p \in All, Free(p) PROVE Goal
  BY <1>0, <1>5 DEF Free
<1>6. ASSUME NEW p \in All, Disable(p) PROVE Goal
  BY <1>0, <1>6 DEF Disable, Runs
<1>7. ASSUME NEW p \in All, Yield(p) PROVE Goal
  BY <1>0, <1>7 DEF Yield, Runs
<1>8. ASSUME NEW p \in All, ScheduleRemote(p) PROVE Goal
  BY <1>0, <1>8 DEF ScheduleRemote, Runs
<1>9. ASSUME NEW p \in All, IntrEnter(p) PROVE Goal
  BY <1>0, <1>9 DEF IntrEnter, Runs
<1>10. ASSUME NEW p \in All, NEW q \in waiting, Claim(p, q) PROVE Goal
  BY <1>0, <1>10 DEF Claim
<1>11. ASSUME NEW p \in All, NEW q \in waiting, IntrWake(p, q) PROVE Goal
  BY <1>0, <1>11 DEF IntrWake
<1>12. ASSUME NEW p \in All, ScheduleLocal(p) PROVE Goal
  <2>1. /\ wakee[p] \in All /\ current[Place[p]] = p /\ kernel[p] = "none"
        /\ Place[wakee[p]] = Place[p] /\ schedule0(Place[p], wakee[p])
    BY <1>12, Constants DEF ScheduleLocal, Runs, BaseInv, Steady
  <2>2. w # Place[p] => current'[w] = current[w]
    BY <1>0, <2>1, ScheduleEffect
  <2>3. w = Place[p] => Len(ipQues[w]) <= ipi[w]
    BY <1>0, <2>1
  <2>. QED BY <1>0, <1>12, <2>2, <2>3 DEF ScheduleLocal
<1>13. ASSUME NEW p \in All, IpqAdd(p) PROVE Goal
  <2> DEFINE u == Place[wakee[p]]
  <2>1. /\ wakee[p] \in All /\ u \in Puns /\ kernel[p] = "ipq_add"
        /\ ipQues' = [ipQues EXCEPT ![u] = Append(ipQues[u], wakee[p])]
        /\ ipi' = [ipi EXCEPT ![u] = ipi[u] + 1]
        /\ kernel' = [kernel EXCEPT ![p] = "none"] /\ current' = current
    BY <1>13, Constants
    DEF IpqAdd, RunsIn, BaseInv, Steady, send_interprocessor_interrupt
  <2>2. Len(Append(ipQues[u], wakee[p])) = Len(ipQues[u]) + 1
    BY <1>0, <2>1, AppendRange
  <2>3. w = u => Len(ipQues'[w]) = Len(ipQues[w]) + 1 /\ ipi'[w] = ipi[w] + 1
    BY <1>0, <2>1, <2>2
  <2>4. w # u => ipQues'[w] = ipQues[w] /\ ipi'[w] = ipi[w]
    BY <1>0, <2>1
  <2>5. kernel'[current'[w]] \notin {"ipi", "resumed"}
          => kernel[current[w]] \notin {"ipi", "resumed"}
    BY <1>0, <2>1
  <2>. QED BY <1>0, <2>3, <2>4, <2>5
<1>14. ASSUME NEW p \in All, Drain(p) PROVE Goal
  <2>1. /\ Place[p] \in Puns /\ ipQues[Place[p]] # << >>
        /\ ipQues' = [ipQues EXCEPT ![Place[p]] = Tail(@)]
    BY <1>0, <1>14 DEF Drain
  <2>2. /\ Len(Tail(ipQues[Place[p]])) = Len(ipQues[Place[p]]) - 1
        /\ ipQues'[Place[p]] = Tail(ipQues[Place[p]])
        /\ w # Place[p] => ipQues'[w] = ipQues[w]
    <3>1. Len(Tail(ipQues[Place[p]])) = Len(ipQues[Place[p]]) - 1
      BY <1>0, <2>1, TailRange
    <3>. QED BY <2>1, <3>1, RemoveEffect
  <2>3. Len(ipQues'[w]) <= Len(ipQues[w]) /\ Len(ipQues'[w]) \in Int
    <3>1. CASE w = Place[p]
      <4>1. Len(ipQues'[w]) = Len(ipQues[w]) - 1
        BY <2>2, <3>1
      <4>. QED BY <1>0, <4>1
    <3>. QED BY <1>0, <2>2, <3>1
  <2>. QED BY <1>0, <1>14, <2>3 DEF Drain
<1>15. ASSUME NEW p \in All, Switch(p) PROVE Goal
  <2>1. w = Place[p] => Len(ipQues[w]) = 0
    BY <1>15 DEF Switch
  <2>2. w # Place[p] => current'[w] = current[w] /\ current[w] # p
    BY <1>0, <1>15 DEF Switch, Dispatch, BaseInv, Placed
  <2>. QED BY <1>0, <1>15, <2>1, <2>2 DEF Switch
<1>16. ASSUME NEW p \in All, Preempt(p) PROVE Goal
  <2>1. w = Place[p] => Len(ipQues[w]) = 0
    BY <1>16 DEF Preempt
  <2>2. w # Place[p] => current'[w] = current[w] /\ current[w] # p
    BY <1>0, <1>16 DEF Preempt, Dispatch, BaseInv, Placed
  <2>. QED BY <1>0, <1>16, <2>1, <2>2 DEF Preempt
<1>17. ASSUME NEW p \in All, YieldSwitch(p) PROVE Goal
  <2>1. w = Place[p] => Len(ipQues[w]) = 0
    BY <1>17 DEF YieldSwitch
  <2>2. w # Place[p] => current'[w] = current[w] /\ current[w] # p
    BY <1>0, <1>17 DEF YieldSwitch, Dispatch, BaseInv, Placed
  <2>. QED BY <1>0, <1>17, <2>1, <2>2 DEF YieldSwitch
<1>18. ASSUME NEW p \in All, IpiEnter(p) PROVE Goal
  <2>1. /\ current[Place[p]] = p /\ kernel[p] = "none"
        /\ ipi' = [ipi EXCEPT ![Place[p]] = ipi[Place[p]] - 1]
        /\ kernel' = [kernel EXCEPT ![p] = "ipi"]
        /\ current' = current /\ ipQues' = ipQues
    BY <1>18 DEF IpiEnter, Runs
  <2>2. CASE w = Place[p]
    <3>1. Len(ipQues[w]) <= ipi[w] /\ ipi'[w] = ipi[w] - 1 /\ kernel'[current'[w]] = "ipi"
      BY <1>0, <2>1, <2>2
    <3>. QED BY <1>0, <2>1, <3>1
  <2>3. CASE w # Place[p]
    <3>1. current[w] # p
      BY <2>3 DEF BaseInv, Placed
    <3>. QED BY <1>0, <2>1, <2>3, <3>1
  <2>. QED BY <2>2, <2>3
<1>19. ASSUME NEW p \in All, IpiStep(p) PROVE Goal
  <2>1. /\ Place[p] \in Puns /\ ipQues[Place[p]] # << >>
        /\ ipQues' = [ipQues EXCEPT ![Place[p]] = Tail(@)]
        /\ schedule0(Place[p], Head(ipQues[Place[p]]))
    BY <1>0, <1>19 DEF IpiStep
  <2>2. /\ Len(Tail(ipQues[Place[p]])) = Len(ipQues[Place[p]]) - 1
        /\ ipQues'[Place[p]] = Tail(ipQues[Place[p]])
        /\ w # Place[p] => ipQues'[w] = ipQues[w]
        /\ Head(ipQues[Place[p]]) \in All
        /\ Place[Head(ipQues[Place[p]])] = Place[p]
    <3>1. Len(Tail(ipQues[Place[p]])) = Len(ipQues[Place[p]]) - 1
      BY <1>0, <2>1, TailRange
    <3>. QED BY <2>1, <3>1, RemoveEffect
  <2>3. w # Place[p] => current'[w] = current[w]
    BY <2>1, <2>2, ScheduleEffect
  <2>6. w = Place[p] => Len(ipQues'[w]) = Len(ipQues[w]) - 1
    BY <2>2
  <2>4. w = Place[p] => Len(ipQues'[w]) <= ipi[w]
    BY <1>0, <2>6
  <2>5. Len(ipQues'[w]) \in Int
    BY <1>0, <2>2, <2>6
  <2>. QED BY <1>0, <1>19, <2>2, <2>3, <2>4, <2>5 DEF IpiStep
<1>20. ASSUME NEW p \in All, IpiDone(p) PROVE Goal
  <2>1. w = Place[p] => current[w] = p /\ Len(ipQues[w]) = 0
    BY <1>20 DEF IpiDone, Handles, RunsIn
  <2>2. w # Place[p] => current[w] # p
    BY DEF BaseInv, Placed
  <2>. QED BY <1>0, <1>20, <2>1, <2>2 DEF IpiDone, schedule_from_interrupt
<1>21. ASSUME NEW p \in All, IntrDone(p) PROVE Goal
  <2>1. w = Place[p] => current[w] = p /\ kernel[p] = "intr"
    BY <1>21 DEF IntrDone, RunsIn
  <2>2. w # Place[p] => current[w] # p
    BY DEF BaseInv, Placed
  <2>. QED BY <1>0, <1>21, <2>1, <2>2 DEF IntrDone, schedule_from_interrupt
<1>. QED
  BY <1>1, <1>2, <1>3, <1>4, <1>5, <1>6, <1>7, <1>8, <1>9, <1>10, <1>11, <1>12, <1>13,
     <1>14, <1>15, <1>16, <1>17, <1>18, <1>19, <1>20, <1>21,
     Constants DEF Next, AppStep, KernelStep

(* No process is left in an interprocessor queue without an interrupt to   *)
(* fetch it: each ipq_add sends an interrupt (ipq.m:96-100), and the       *)
(* handler (sched.c:94-106) empties the queue or loses the processor to    *)
(* the entry it just took.                                                 *)
THEOREM SchedPosts == Spec => []PostSignalled
<1>1. Init => PostsInv
  <2>1. Len(<< >>) = 0
    OBVIOUS
  <2>. QED BY <2>1 DEF Init, PostsInv
<1>2. PostsInv => PostSignalled
  BY DEF PostsInv, PostSignalled
<1>. QED BY <1>1, <1>2, BaseHolds, PostsNext, PTL DEF Spec
-----------------------------------------------------------------------------
(* The idle process.  A double enqueue can make enqueue0 drop processes    *)
(* from the queue, but never one of lower priority than the process it     *)
(* links in: so the idle process is safe as long as it is below all        *)
(* others, which Priority shows is the application's responsibility.       *)

IdleLowest == \A p \in Procs : Pri[p] < Pri[Idle[Place[p]]]

\* The idle process never waits.
IdleInv == IdleKept /\ \A u \in Puns : kernel[Idle[u]] # "take"

(* A process other than the idle one is one of the application's.          *)
LEMMA NotIdle ==
  ASSUME NEW p \in All, p # Idle[Place[p]]
  PROVE  p \in Procs
BY Constants DEF All

(* enqueue0 keeps the idle process in the queue.                           *)
LEMMA IdleStays ==
  ASSUME IdleLowest, NEW u \in Puns, NEW s \in Seq(All), NEW x \in All,
         Place[x] = u, Idle[u] \in Range(s) \/ x = Idle[u]
  PROVE  Idle[u] \in Range(enqueue0(s, x))
<1>1. CASE x = Idle[u]
  BY <1>1, EnqueueRange
<1>2. CASE x # Idle[u]
  <2>1. x \in Procs
    BY <1>2, NotIdle
  <2>2. ~ pri_le(x, Idle[u])
    BY <2>1, Constants DEF IdleLowest, pri_le
  <2>. QED BY <1>2, <2>2, EnqueueRange
<1>. QED BY <1>1, <1>2

(* The queue after take and enqueue0, and the process that was taken.      *)
LEMMA IdleRotates ==
  ASSUME IdleLowest, BaseInv, NEW p \in All, rdyQues[Place[p]] # << >>,
         Idle[Place[p]] \in Range(rdyQues[Place[p]]) \/ p = Idle[Place[p]],
         Dispatch(Place[p], Head(rdyQues[Place[p]])),
         rdyQues' = [rdyQues EXCEPT ![Place[p]] = enqueue0(Tail(@), p)]
  PROVE  \/ current'[Place[p]] = Idle[Place[p]]
         \/ Idle[Place[p]] \in Range(rdyQues'[Place[p]])
<1> DEFINE u == Place[p]
<1>1. u \in Puns /\ rdyQues[u] \in Seq(All) /\ current \in [Puns -> All]
  BY Constants DEF BaseInv, TypeOK
<1>2. /\ Tail(rdyQues[u]) \in Seq(All)
      /\ Range(rdyQues[u]) = {Head(rdyQues[u])} \cup Range(Tail(rdyQues[u]))
  BY <1>1, TailRange
<1>3. current'[u] = Head(rdyQues[u])
  BY <1>1 DEF Dispatch
<1>4. rdyQues'[u] = enqueue0(Tail(rdyQues[u]), p)
  BY RotateEffect
<1>. QED BY <1>1, <1>2, <1>3, <1>4, IdleStays

(* Every step keeps the idle process where take can find it.               *)
LEMMA IdleNext == IdleLowest /\ BaseInv /\ IdleInv /\ [Next]_vars => IdleInv'
<1> SUFFICES ASSUME IdleLowest, BaseInv, IdleInv, [Next]_vars, NEW w \in Puns
             PROVE  /\ current'[w] = Idle[w] \/ Idle[w] \in Range(rdyQues'[w])
                    /\ kernel'[Idle[w]] # "take"
  BY DEF IdleInv, IdleKept
<1> DEFINE Goal == /\ current'[w] = Idle[w] \/ Idle[w] \in Range(rdyQues'[w])
                   /\ kernel'[Idle[w]] # "take"
<1>0. /\ rdyQues \in [Puns -> Seq(All)] /\ ipQues \in [Puns -> Seq(All)]
      /\ current \in [Puns -> All] /\ kernel \in [All -> Kernels]
      /\ \A p \in All : Place[p] \in Puns
      /\ \A u \in Puns : current[u] = Idle[u] \/ Idle[u] \in Range(rdyQues[u])
      /\ current[w] = Idle[w] \/ Idle[w] \in Range(rdyQues[w])
      /\ Idle[w] \in All /\ Idle[w] \notin Procs /\ Place[Idle[w]] = w
      /\ kernel[Idle[w]] # "take"
      /\ \A u \in Puns : Place[current[u]] = u
  BY Constants DEF BaseInv, TypeOK, Placed, IdleInv, IdleKept
<1>1. CASE UNCHANGED vars
  BY <1>0, <1>1 DEF vars
<1>2. ASSUME NEW p \in All, PrepareToWait(p) PROVE Goal
  BY <1>0, <1>2 DEF PrepareToWait
<1>3. ASSUME NEW p \in All, Publish(p) PROVE Goal
  BY <1>0, <1>3 DEF Publish
<1>4. ASSUME NEW p \in All, Relinquish(p) PROVE Goal
  BY <1>0, <1>4 DEF Relinquish
<1>5. ASSUME NEW p \in All, Free(p) PROVE Goal
  BY <1>0, <1>5 DEF Free
<1>6. ASSUME NEW p \in All, Yield(p) PROVE Goal
  BY <1>0, <1>6 DEF Yield
<1>7. ASSUME NEW p \in All, ScheduleRemote(p) PROVE Goal
  BY <1>0, <1>7 DEF ScheduleRemote
<1>8. ASSUME NEW p \in All, IntrEnter(p) PROVE Goal
  BY <1>0, <1>8 DEF IntrEnter
<1>9. ASSUME NEW p \in All, IpqAdd(p) PROVE Goal
  BY <1>0, <1>9 DEF IpqAdd
<1>10. ASSUME NEW p \in All, IpiEnter(p) PROVE Goal
  BY <1>0, <1>10 DEF IpiEnter
<1>11. ASSUME NEW p \in All, IpiDone(p) PROVE Goal
  BY <1>0, <1>11 DEF IpiDone, schedule_from_interrupt
<1>12. ASSUME NEW p \in All, IntrDone(p) PROVE Goal
  BY <1>0, <1>12 DEF IntrDone, schedule_from_interrupt
<1>13. ASSUME NEW p \in All, p \in Procs, Disable(p) PROVE Goal
  BY <1>0, <1>13 DEF Disable
<1>14. ASSUME NEW p \in All, NEW q \in waiting, Claim(p, q) PROVE Goal
  BY <1>0, <1>14 DEF Claim
<1>15. ASSUME NEW p \in All, NEW q \in waiting, IntrWake(p, q) PROVE Goal
  <2>1. q \in All /\ Place[q] = Place[p]
    BY <1>15, Constants DEF IntrWake, BaseInv, TypeOK
  <2>2. CASE Enqueue(Place[p], q)
    <3>1. /\ rdyQues'[Place[p]] = enqueue0(rdyQues[Place[p]], q)
          /\ w # Place[p] => rdyQues'[w] = rdyQues[w]
      BY <1>0, <2>1, <2>2, EnqueueEffect
    <3>. QED BY <1>0, <1>15, <2>1, <3>1, IdleStays DEF IntrWake
  <2>3. CASE UNCHANGED rdyQues
    BY <1>0, <1>15, <2>3 DEF IntrWake
  <2>. QED BY <1>15, <2>2, <2>3 DEF IntrWake
<1>16. ASSUME NEW p \in All, NEW x \in All, Place[x] = Place[p], schedule0(Place[p], x),
              kernel'[Idle[w]] # "take"
       PROVE  Goal
  <2>1. /\ w # Place[p] => current'[w] = current[w] /\ rdyQues'[w] = rdyQues[w]
        /\ Place[p] \in Puns
    BY <1>0, <1>16, ScheduleEffect
  <2>2. CASE w # Place[p]
    BY <1>0, <1>16, <2>1, <2>2
  <2>3. CASE w = Place[p] /\ Enqueue(w, x) /\ current' = current
    <3>1. rdyQues'[w] = enqueue0(rdyQues[w], x)
      BY <1>16, <2>3, EnqueueEffect
    <3>. QED BY <1>0, <1>16, <2>3, <3>1, IdleStays
  <2>4. CASE w = Place[p] /\ Dispatch(w, x) /\ Enqueue(w, current[w])
    <3>1. rdyQues'[w] = enqueue0(rdyQues[w], current[w])
      BY <1>0, <2>4 DEF Enqueue
    <3>. QED BY <1>0, <1>16, <3>1, IdleStays
  <2>. QED BY <1>16, <2>2, <2>3, <2>4 DEF schedule0
<1>17. ASSUME NEW p \in All, ScheduleLocal(p) PROVE Goal
  <2>1. /\ wakee[p] \in All /\ Place[wakee[p]] = Place[p]
        /\ schedule0(Place[p], wakee[p]) /\ kernel'[Idle[w]] # "take"
    BY <1>0, <1>17, Constants DEF ScheduleLocal, BaseInv, Steady
  <2>. QED BY <2>1, <1>16
<1>18. ASSUME NEW p \in All, IpiStep(p) PROVE Goal
  <2>1. /\ Place[p] \in Puns /\ ipQues[Place[p]] # << >>
        /\ ipQues' = [ipQues EXCEPT ![Place[p]] = Tail(@)]
        /\ schedule0(Place[p], Head(ipQues[Place[p]]))
        /\ kernel'[Idle[w]] # "take"
    BY <1>0, <1>18 DEF IpiStep
  <2>2. /\ Head(ipQues[Place[p]]) \in All
        /\ Place[Head(ipQues[Place[p]])] = Place[p]
    BY <2>1, RemoveEffect
  <2>. QED BY <2>1, <2>2, <1>16
<1>19. ASSUME NEW p \in All, Drain(p) PROVE Goal
  <2>1. /\ Place[p] \in Puns /\ ipQues[Place[p]] # << >>
        /\ ipQues' = [ipQues EXCEPT ![Place[p]] = Tail(@)]
        /\ Enqueue(Place[p], Head(ipQues[Place[p]]))
        /\ kernel' = kernel /\ current' = current
    BY <1>0, <1>19 DEF Drain
  <2>2. /\ Head(ipQues[Place[p]]) \in All
        /\ Place[Head(ipQues[Place[p]])] = Place[p]
    BY <2>1, RemoveEffect
  <2>3. /\ rdyQues'[Place[p]] = enqueue0(rdyQues[Place[p]], Head(ipQues[Place[p]]))
        /\ w # Place[p] => rdyQues'[w] = rdyQues[w]
    BY <1>0, <2>1, <2>2, EnqueueEffect
  <2>. QED BY <1>0, <2>1, <2>2, <2>3, IdleStays
<1>20. ASSUME NEW p \in All, Switch(p) PROVE Goal
  <2> DEFINE u == Place[p]
  <2>1. /\ u \in Puns /\ current[u] = p /\ kernel[p] = "take"
        /\ rdyQues[u] # << >> /\ rdyQues[u] \in Seq(All)
        /\ rdyQues' = [rdyQues EXCEPT ![u] = Tail(rdyQues[u])]
        /\ current' = [current EXCEPT ![u] = Head(rdyQues[u])]
        /\ kernel' = [kernel EXCEPT ![p] = "none"]
    BY <1>0, <1>20 DEF Switch, RunsIn, Dispatch
  <2>2. Range(rdyQues[u]) = {Head(rdyQues[u])} \cup Range(Tail(rdyQues[u]))
    BY <2>1, TailRange
  <2>3. w = u => Idle[w] \in Range(rdyQues[w])
    BY <1>0, <2>1
  <2>. QED BY <1>0, <2>1, <2>2, <2>3
<1>21. ASSUME NEW p \in All, Preempt(p) PROVE Goal
  <2>1. /\ Place[p] \in Puns /\ current[Place[p]] = p
        /\ rdyQues[Place[p]] # << >>
        /\ rdyQues' = [rdyQues EXCEPT ![Place[p]] = enqueue0(Tail(@), p)]
        /\ Dispatch(Place[p], Head(rdyQues[Place[p]]))
        /\ kernel'[Idle[w]] # "take"
    BY <1>0, <1>21 DEF Preempt, RunsIn, BaseInv, Steady
  <2>2. /\ w # Place[p] => rdyQues'[w] = rdyQues[w]
        /\ w # Place[p] => current'[w] = current[w]
    BY <1>0, <2>1, RotateEffect DEF Dispatch
  <2>. QED BY <1>0, <2>1, <2>2, IdleRotates
<1>22. ASSUME NEW p \in All, YieldSwitch(p), Len(rdyQues[Place[p]]) >= 2 PROVE Goal
  <2>1. /\ Place[p] \in Puns /\ current[Place[p]] = p
        /\ rdyQues[Place[p]] # << >>
        /\ rdyQues' = [rdyQues EXCEPT ![Place[p]] = enqueue0(Tail(@), p)]
        /\ Dispatch(Place[p], Head(rdyQues[Place[p]]))
        /\ kernel' = [kernel EXCEPT ![p] = "none"]
    BY <1>0, <1>22, Elements DEF YieldSwitch, RunsIn, BaseInv, Steady
  <2>2. /\ w # Place[p] => rdyQues'[w] = rdyQues[w]
        /\ w # Place[p] => current'[w] = current[w]
    BY <1>0, <2>1, RotateEffect DEF Dispatch
  <2>. QED BY <1>0, <2>1, <2>2, IdleRotates
<1>23. ASSUME NEW p \in All, YieldSwitch(p), ~ (Len(rdyQues[Place[p]]) >= 2) PROVE Goal
  BY <1>0, <1>23 DEF YieldSwitch
<1>. QED
  BY <1>1, <1>2, <1>3, <1>4, <1>5, <1>6, <1>7, <1>8, <1>9, <1>10, <1>11, <1>12, <1>13,
     <1>14, <1>15, <1>17, <1>18, <1>19, <1>20, <1>21, <1>22, <1>23,
     Constants DEF Next, AppStep, KernelStep

(* take always finds a process (relinquish does not test for NULL,         *)
(* sched.c:432-438), provided no process of the application has the idle   *)
(* process's priority.  It holds even when a process is lost: what falls   *)
(* out of a queue is never the idle process.                               *)
THEOREM SchedIdle == IdleLowest => (Spec => []IdleKept)
<1> SUFFICES ASSUME IdleLowest PROVE Spec => []IdleKept
  OBVIOUS
<1>1. Init => IdleInv
  <2> SUFFICES ASSUME Init, NEW u \in Puns
               PROVE  /\ current[u] = Idle[u] \/ Idle[u] \in Range(rdyQues[u])
                      /\ kernel[Idle[u]] # "take"
    BY DEF IdleInv, IdleKept
  <2>1. Created[u] \in Seq(All) /\ Idle[u] \in Range(Created[u])
    BY CreatedAssumption, Constants
  <2>2. Created[u] # << >>
    BY <2>1, Elements
  <2>3. Range(Created[u]) = {Head(Created[u])} \cup Range(Tail(Created[u]))
    BY <2>1, <2>2, TailRange
  <2>. QED BY <2>1, <2>3, Constants DEF Init
<1>2. BaseInv /\ IdleInv /\ [Next]_vars => IdleInv'
  BY IdleNext
<1>3. IdleInv => IdleKept
  BY DEF IdleInv
<1>. QED BY <1>1, <1>2, <1>3, BaseHolds, PTL DEF Spec

-----------------------------------------------------------------------------
(* What a step does to the order of things on one processor.  Every step   *)
(* is the work of the process p that has a processor, and touches no other *)
(* processor's ready queue.                                                *)

\* The routines that do not look at the ready queue before they end.
Passive == {"none", "ipq_add", "ipi", "resumed"}

\* The routines that have decided to preempt.
Deciding == {"preempt", "stale"}

\* p keeps the processor and the queue stays as it is.
Stay(p) ==
  LET que == rdyQues[Place[p]]
  IN  /\ current'[Place[p]] = p
      /\ rdyQues'[Place[p]] = que
      /\ kernel'[p] \in Deciding =>
           kernel[p] \in Deciding \/ (que # << >> /\ pri_gt(Head(que), p))
      /\ kernel'[p] \in Passive =>
           \/ kernel[p] \in Passive \cup {"take1"}
           \/ que = << >>
           \/ ~ pri_gt(Head(que), p)
      /\ kernel'[p] \in {"take", "take1", "ipq_add"} =>
           p \in Procs \/ kernel'[p] = kernel[p]

\* x joins the queue and p keeps the processor.
Admit(p, x) ==
  /\ x \in Procs /\ Place[x] = Place[p]
  /\ kernel[p] \notin Passive \/ pri_le(x, p)
  /\ current'[Place[p]] = p
  /\ rdyQues'[Place[p]] = enqueue0(rdyQues[Place[p]], x)
  /\ kernel'[p] = kernel[p]

\* x takes the processor away from p.
Displace(p, x) ==
  /\ x \in Procs /\ Place[x] = Place[p]
  /\ kernel[p] \in Passive /\ ~ pri_le(x, p)
  /\ current'[Place[p]] = x
  /\ rdyQues'[Place[p]] = enqueue0(rdyQues[Place[p]], p)
  /\ kernel'[p] \in {kernel[p], "resumed"}

\* p gives the processor up.
Leave(p) ==
  /\ kernel[p] = "take" /\ kernel'[p] = "none"
  /\ rdyQues[Place[p]] # << >>
  /\ current'[Place[p]] = Head(rdyQues[Place[p]])
  /\ rdyQues'[Place[p]] = Tail(rdyQues[Place[p]])

\* p goes back to the queue, in yield or in a preemption.
Rotate(p) ==
  /\ \/ kernel[p] \in Deciding
     \/ kernel[p] = "take1" /\ Len(rdyQues[Place[p]]) >= 2
  /\ rdyQues[Place[p]] # << >>
  /\ kernel'[p] \in {"none", "resumed"}
  /\ current'[Place[p]] = Head(rdyQues[Place[p]])
  /\ rdyQues'[Place[p]] = enqueue0(Tail(rdyQues[Place[p]]), p)

\* Nothing happens elsewhere.
Alone(p) ==
  /\ current[Place[p]] = p
  /\ \A w \in Puns : w # Place[p] =>
       rdyQues'[w] = rdyQues[w] /\ current'[w] = current[w]
  /\ \A q \in All : q # p => kernel'[q] = kernel[q]

StepOf(p) ==
  /\ Alone(p)
  /\ \/ Stay(p)
     \/ \E x \in Procs : Admit(p, x)
     \/ \E x \in Procs : Displace(p, x)
     \/ Leave(p)
     \/ Rotate(p)

(* A step that changes neither the queues nor the process on a processor,  *)
(* and of the kernel routines only that of p.                              *)
LEMMA StayIs ==
  ASSUME BaseInv, NEW p \in All, NEW k \in Kernels,
         current[Place[p]] = p, UNCHANGED <<current, rdyQues>>,
         kernel' = [kernel EXCEPT ![p] = k],
         k \in Deciding =>
           /\ rdyQues[Place[p]] # << >>
           /\ pri_gt(Head(rdyQues[Place[p]]), p),
         k \in Passive =>
           \/ kernel[p] \in Passive \cup {"take1"}
           \/ rdyQues[Place[p]] = << >>
           \/ ~ pri_gt(Head(rdyQues[Place[p]]), p),
         k \in {"take", "take1", "ipq_add"} => p \in Procs
  PROVE  StepOf(p)
<1>1. kernel'[p] = k /\ \A q \in All : q # p => kernel'[q] = kernel[q]
  BY DEF BaseInv, TypeOK
<1>2. Stay(p)
  BY <1>1 DEF Stay
<1>. QED BY <1>1, <1>2 DEF StepOf, Alone

(* A step that leaves all three alone.                                     *)
LEMMA StillIs ==
  ASSUME NEW p \in All, current[Place[p]] = p, UNCHANGED <<current, rdyQues, kernel>>
  PROVE  StepOf(p)
BY DEF StepOf, Alone, Stay

(* enqueue0 and nothing else.                                              *)
LEMMA JoinIs ==
  ASSUME BaseInv, NEW p \in All, NEW x \in Procs, Place[x] = Place[p],
         current[Place[p]] = p, Enqueue(Place[p], x), UNCHANGED <<current, kernel>>,
         kernel[p] \notin Passive \/ pri_le(x, p)
  PROVE  StepOf(p)
<1>1. /\ rdyQues'[Place[p]] = enqueue0(rdyQues[Place[p]], x)
      /\ \A w \in Puns : w # Place[p] => rdyQues'[w] = rdyQues[w]
  BY Constants, EnqueueEffect
<1>2. Admit(p, x)
  BY <1>1 DEF Admit
<1>. QED BY <1>1, <1>2 DEF StepOf, Alone

(* schedule0, called by the process on the processor.                      *)
LEMMA ScheduleIs ==
  ASSUME BaseInv, NEW p \in All, NEW x \in Procs, Place[x] = Place[p],
         current[Place[p]] = p, schedule0(Place[p], x), kernel[p] \in Passive,
         NEW k \in {kernel[p], "resumed"},
         kernel' = [kernel EXCEPT ![p] = IF current'[Place[p]] = p THEN @ ELSE k]
  PROVE  StepOf(p)
<1>0. /\ Place[p] \in Puns /\ x \in All
      /\ current \in [Puns -> All] /\ kernel \in [All -> Kernels]
  BY Constants DEF BaseInv, TypeOK
<1>1. CASE pri_le(x, p) /\ Enqueue(Place[p], x) /\ UNCHANGED current
  <2>1. kernel' = kernel
    BY <1>0, <1>1
  <2>. QED BY <1>1, <2>1, JoinIs
<1>2. CASE ~ pri_le(x, p) /\ Dispatch(Place[p], x) /\ Enqueue(Place[p], p)
  <2>1. /\ rdyQues'[Place[p]] = enqueue0(rdyQues[Place[p]], p)
        /\ \A w \in Puns : w # Place[p] => rdyQues'[w] = rdyQues[w]
    BY <1>0, <1>2, EnqueueEffect
  <2>2. /\ current'[Place[p]] = x
        /\ \A w \in Puns : w # Place[p] => current'[w] = current[w]
    BY <1>0, <1>2 DEF Dispatch
  <2>3. /\ kernel'[p] \in {kernel[p], "resumed"}
        /\ \A q \in All : q # p => kernel'[q] = kernel[q]
    BY <1>0
  <2>4. Displace(p, x)
    BY <1>2, <2>1, <2>2, <2>3 DEF Displace
  <2>. QED BY <2>1, <2>2, <2>3, <2>4 DEF StepOf, Alone
<1>. QED BY <1>1, <1>2 DEF schedule0

(* take and enqueue0, with the switch to the process that was taken.       *)
LEMMA RotateIs ==
  ASSUME BaseInv, NEW p \in All, current[Place[p]] = p, rdyQues[Place[p]] # << >>,
         \/ kernel[p] \in Deciding
         \/ kernel[p] = "take1" /\ Len(rdyQues[Place[p]]) >= 2,
         NEW k \in {"none", "resumed"}, kernel' = [kernel EXCEPT ![p] = k],
         Dispatch(Place[p], Head(rdyQues[Place[p]])),
         rdyQues' = [rdyQues EXCEPT ![Place[p]] = enqueue0(Tail(@), p)]
  PROVE  StepOf(p)
<1>0. /\ Place[p] \in Puns
      /\ current \in [Puns -> All] /\ kernel \in [All -> Kernels]
  BY Constants DEF BaseInv, TypeOK
<1>1. /\ rdyQues'[Place[p]] = enqueue0(Tail(rdyQues[Place[p]]), p)
      /\ \A w \in Puns : w # Place[p] => rdyQues'[w] = rdyQues[w]
  BY RotateEffect
<1>2. /\ current'[Place[p]] = Head(rdyQues[Place[p]])
      /\ \A w \in Puns : w # Place[p] => current'[w] = current[w]
  BY <1>0 DEF Dispatch
<1>3. kernel'[p] = k /\ \A q \in All : q # p => kernel'[q] = kernel[q]
  BY <1>0
<1>4. Rotate(p)
  BY <1>1, <1>2, <1>3 DEF Rotate
<1>. QED BY <1>1, <1>2, <1>3, <1>4 DEF StepOf, Alone

(* Every step of the system is one of these.                               *)
LEMMA StepIs == BaseInv /\ Next => \E p \in All : StepOf(p)
<1> SUFFICES ASSUME BaseInv, Next PROVE \E p \in All : StepOf(p)
  OBVIOUS
<1>0. /\ rdyQues \in [Puns -> Seq(All)] /\ ipQues \in [Puns -> Seq(All)]
      /\ current \in [Puns -> All] /\ kernel \in [All -> Kernels]
      /\ waiting \subseteq Procs
      /\ \A p \in All : Place[p] \in Puns
      /\ Procs \subseteq All
  BY Constants DEF BaseInv, TypeOK
<1>2. ASSUME NEW p \in All, PrepareToWait(p) PROVE StepOf(p)
  BY <1>2, StillIs DEF PrepareToWait, Runs
<1>3. ASSUME NEW p \in All, Publish(p) PROVE StepOf(p)
  BY <1>3, StillIs DEF Publish, Runs
<1>4. ASSUME NEW p \in All, Relinquish(p) PROVE StepOf(p)
  BY <1>4, StillIs DEF Relinquish, Runs
<1>5. ASSUME NEW p \in All, Free(p) PROVE StepOf(p)
  BY <1>5, StillIs DEF Free, Runs
<1>6. ASSUME NEW p \in All, NEW q \in waiting, Claim(p, q) PROVE StepOf(p)
  BY <1>6, StillIs DEF Claim, Runs
<1>7. ASSUME NEW p \in Procs, Yield(p) PROVE StepOf(p)
  <2>1. /\ current[Place[p]] = p /\ UNCHANGED <<current, rdyQues>>
        /\ kernel' = [kernel EXCEPT ![p] = "take1"]
    BY <1>7 DEF Yield, Runs
  <2>. QED BY <1>0, <2>1, StayIs DEF Deciding, Passive, Kernels
<1>8. ASSUME NEW p \in Procs, Disable(p) PROVE StepOf(p)
  <2>1. /\ current[Place[p]] = p /\ UNCHANGED <<current, rdyQues>>
        /\ kernel' = [kernel EXCEPT ![p] = "take"]
    BY <1>8 DEF Disable, Runs
  <2>. QED BY <1>0, <2>1, StayIs DEF Deciding, Passive, Kernels
<1>9. ASSUME NEW p \in Procs, ScheduleRemote(p) PROVE StepOf(p)
  <2>1. /\ current[Place[p]] = p /\ UNCHANGED <<current, rdyQues>>
        /\ kernel[p] = "none" /\ kernel' = [kernel EXCEPT ![p] = "ipq_add"]
    BY <1>9 DEF ScheduleRemote, Runs
  <2>. QED BY <1>0, <2>1, StayIs DEF Deciding, Passive, Kernels
<1>10. ASSUME NEW p \in All, IpqAdd(p) PROVE StepOf(p)
  <2>1. /\ current[Place[p]] = p /\ UNCHANGED <<current, rdyQues>>
        /\ kernel[p] = "ipq_add" /\ kernel' = [kernel EXCEPT ![p] = "none"]
    BY <1>10 DEF IpqAdd, RunsIn
  <2>. QED BY <2>1, StayIs DEF Deciding, Passive, Kernels
<1>11. ASSUME NEW p \in All, IpiEnter(p) PROVE StepOf(p)
  <2>1. /\ current[Place[p]] = p /\ UNCHANGED <<current, rdyQues>>
        /\ kernel[p] = "none" /\ kernel' = [kernel EXCEPT ![p] = "ipi"]
    BY <1>11 DEF IpiEnter, Runs
  <2>. QED BY <2>1, StayIs DEF Deciding, Passive, Kernels
<1>12. ASSUME NEW p \in All, IntrEnter(p) PROVE StepOf(p)
  <2>1. /\ current[Place[p]] = p /\ UNCHANGED <<current, rdyQues>>
        /\ kernel' = [kernel EXCEPT ![p] = "intr"]
    BY <1>12 DEF IntrEnter, Runs
  <2>. QED BY <2>1, StayIs DEF Deciding, Passive, Kernels
<1>13. ASSUME NEW p \in All, schedule_from_interrupt(p), current[Place[p]] = p,
              UNCHANGED <<current, rdyQues>>
       PROVE  StepOf(p)
  <2> DEFINE que == rdyQues[Place[p]]
             k == IF que # << >> /\ pri_gt(Head(que), p)
                  THEN IF kernel[p] = "resumed" THEN "stale" ELSE "preempt"
                  ELSE "none"
  <2>1. kernel' = [kernel EXCEPT ![p] = k] /\ k \in Kernels
    BY <1>13 DEF schedule_from_interrupt, Kernels
  <2>2. /\ k \in Deciding => que # << >> /\ pri_gt(Head(que), p)
        /\ k \in Passive => que = << >> \/ ~ pri_gt(Head(que), p)
        /\ k \notin {"take", "take1", "ipq_add"}
    BY DEF Deciding, Passive
  <2> HIDE DEF k
  <2>. QED BY <1>13, <2>1, <2>2, StayIs
<1>14. ASSUME NEW p \in All, IpiDone(p) PROVE StepOf(p)
  BY <1>13, <1>14 DEF IpiDone, Handles, RunsIn
<1>15. ASSUME NEW p \in All, IntrDone(p) PROVE StepOf(p)
  BY <1>13, <1>15 DEF IntrDone, RunsIn
<1>16. ASSUME NEW p \in All, NEW q \in waiting, IntrWake(p, q) PROVE StepOf(p)
  <2>1. /\ q \in Procs /\ Place[q] = Place[p] /\ current[Place[p]] = p
        /\ kernel[p] \notin Passive /\ UNCHANGED <<current, kernel>>
        /\ Enqueue(Place[p], q) \/ UNCHANGED rdyQues
    BY <1>0, <1>16 DEF IntrWake, RunsIn, Passive
  <2>. QED BY <2>1, JoinIs, StillIs
<1>17. ASSUME NEW p \in All, Drain(p) PROVE StepOf(p)
  <2>1. /\ ipQues[Place[p]] # << >> /\ ipQues' = [ipQues EXCEPT ![Place[p]] = Tail(@)]
        /\ Enqueue(Place[p], Head(ipQues[Place[p]])) /\ UNCHANGED <<current, kernel>>
        /\ current[Place[p]] = p /\ kernel[p] \notin Passive
    BY <1>17 DEF Drain, RunsIn, Passive
  <2>2. Head(ipQues[Place[p]]) \in Procs /\ Place[Head(ipQues[Place[p]])] = Place[p]
    BY <1>0, <2>1, RemoveEffect
  <2>. QED BY <2>1, <2>2, JoinIs
<1>18. ASSUME NEW p \in All, ScheduleLocal(p) PROVE StepOf(p)
  <2>1. /\ wakee[p] \in Procs /\ Place[wakee[p]] = Place[p] /\ current[Place[p]] = p
        /\ schedule0(Place[p], wakee[p]) /\ kernel[p] \in Passive /\ kernel' = kernel
    BY <1>18 DEF ScheduleLocal, Runs, BaseInv, Steady, Passive
  <2>2. kernel' = [kernel EXCEPT ![p] = IF current'[Place[p]] = p THEN @ ELSE kernel[p]]
    BY <1>0, <2>1
  <2>. QED BY <2>1, <2>2, ScheduleIs
<1>19. ASSUME NEW p \in All, IpiStep(p) PROVE StepOf(p)
  <2>1. /\ ipQues[Place[p]] # << >> /\ ipQues' = [ipQues EXCEPT ![Place[p]] = Tail(@)]
        /\ schedule0(Place[p], Head(ipQues[Place[p]]))
        /\ current[Place[p]] = p /\ kernel[p] \in Passive
        /\ kernel' = [kernel EXCEPT ![p] = IF current'[Place[p]] = p THEN @ ELSE "resumed"]
    BY <1>19 DEF IpiStep, Handles, RunsIn, Passive
  <2>2. Head(ipQues[Place[p]]) \in Procs /\ Place[Head(ipQues[Place[p]])] = Place[p]
    BY <1>0, <2>1, RemoveEffect
  <2>. QED BY <2>1, <2>2, ScheduleIs
<1>20. ASSUME NEW p \in All, Switch(p) PROVE StepOf(p)
  <2>1. /\ current[Place[p]] = p /\ kernel[p] = "take" /\ rdyQues[Place[p]] # << >>
        /\ rdyQues' = [rdyQues EXCEPT ![Place[p]] = Tail(@)]
        /\ kernel' = [kernel EXCEPT ![p] = "none"]
        /\ Dispatch(Place[p], Head(rdyQues[Place[p]]))
    BY <1>20 DEF Switch, RunsIn
  <2>2. /\ rdyQues'[Place[p]] = Tail(rdyQues[Place[p]])
        /\ \A w \in Puns : w # Place[p] => rdyQues'[w] = rdyQues[w]
    BY <1>0, <2>1, TakeEffect
  <2>3. /\ current'[Place[p]] = Head(rdyQues[Place[p]])
        /\ \A w \in Puns : w # Place[p] => current'[w] = current[w]
    BY <1>0, <2>1 DEF Dispatch
  <2>4. kernel'[p] = "none" /\ \A q \in All : q # p => kernel'[q] = kernel[q]
    BY <1>0, <2>1
  <2>5. Leave(p)
    BY <2>1, <2>2, <2>3, <2>4 DEF Leave
  <2>. QED BY <2>1, <2>2, <2>3, <2>4, <2>5 DEF StepOf, Alone
<1>21. ASSUME NEW p \in All, Preempt(p) PROVE StepOf(p)
  <2>1. /\ current[Place[p]] = p /\ kernel[p] \in Deciding /\ rdyQues[Place[p]] # << >>
        /\ \E k \in {"none", "resumed"} : kernel' = [kernel EXCEPT ![p] = k]
        /\ rdyQues' = [rdyQues EXCEPT ![Place[p]] = enqueue0(Tail(@), p)]
        /\ Dispatch(Place[p], Head(rdyQues[Place[p]]))
    BY <1>21 DEF Preempt, RunsIn, Deciding, BaseInv, Steady
  <2>. QED BY <2>1, RotateIs
<1>22. ASSUME NEW p \in All, YieldSwitch(p) PROVE StepOf(p)
  <2>1. /\ current[Place[p]] = p /\ kernel[p] = "take1"
        /\ kernel' = [kernel EXCEPT ![p] = "none"]
    BY <1>22 DEF YieldSwitch, RunsIn
  <2>2. CASE Len(rdyQues[Place[p]]) >= 2
    <3>1. rdyQues[Place[p]] # << >>
      BY <1>0, <2>2, Elements
    <3>2. /\ rdyQues' = [rdyQues EXCEPT ![Place[p]] = enqueue0(Tail(@), p)]
          /\ Dispatch(Place[p], Head(rdyQues[Place[p]]))
      BY <1>22, <2>2 DEF YieldSwitch
    <3>. QED BY <2>1, <2>2, <3>1, <3>2, RotateIs
  <2>3. CASE ~ (Len(rdyQues[Place[p]]) >= 2)
    <3>1. UNCHANGED <<current, rdyQues>>
      BY <1>22, <2>3 DEF YieldSwitch
    <3>. QED BY <2>1, <3>1, StayIs DEF Deciding, Passive, Kernels
  <2>. QED BY <2>2, <2>3
<1>. QED
  BY <1>0, <1>2, <1>3, <1>4, <1>5, <1>6, <1>7, <1>8, <1>9, <1>10, <1>11, <1>12, <1>14,
     <1>15, <1>16, <1>17, <1>18, <1>19, <1>20, <1>21, <1>22
  DEF Next, AppStep, KernelStep

-----------------------------------------------------------------------------
(* The ready queues are in the order of priority, and a handler that has   *)
(* decided to preempt still finds a process of higher priority when take   *)
(* has emptied the interprocessor queue into the ready queue.              *)

Sorted == \A u \in Puns : IsSorted(rdyQues[u])

Urgent ==
  \A p \in All :
    kernel[p] \in Deciding =>
      /\ rdyQues[Place[p]] # << >>
      /\ pri_gt(Head(rdyQues[Place[p]]), p)

OrderInv == Sorted /\ Urgent

(* The queues and the process on the processor p's step works on.          *)
LEMMA Around ==
  ASSUME BaseInv, NEW p \in All
  PROVE  /\ Place[p] \in Puns
         /\ rdyQues[Place[p]] \in Seq(All)
         /\ rdyQues[Place[p]] # << >> => Head(rdyQues[Place[p]]) \in All
         /\ \A x \in All : Pri[x] \in Nat
BY Constants, TailRange DEF BaseInv, TypeOK

(* No step disturbs the order of a ready queue.                            *)
LEMMA StepSorted ==
  ASSUME BaseInv, Sorted, NEW p \in All, StepOf(p)
  PROVE  Sorted'
<1> DEFINE u == Place[p]
           que == rdyQues[u]
<1>0. /\ u \in Puns /\ que \in Seq(All) /\ IsSorted(que)
      /\ \A x \in All : Pri[x] \in Nat
  BY Around DEF Sorted
<1>1. \A w \in Puns : w # u => rdyQues'[w] = rdyQues[w]
  BY DEF StepOf, Alone
<1>2. IsSorted(rdyQues'[u])
  <2>1. CASE Stay(p)
    BY <1>0, <2>1 DEF Stay
  <2>2. ASSUME NEW x \in Procs, Admit(p, x) PROVE IsSorted(rdyQues'[u])
    BY <1>0, <2>2, EnqueueSorted, Constants, SchedAssumption DEF Admit
  <2>3. ASSUME NEW x \in Procs, Displace(p, x) PROVE IsSorted(rdyQues'[u])
    BY <1>0, <2>3, EnqueueSorted, SchedAssumption DEF Displace
  <2>4. CASE Leave(p)
    BY <1>0, <2>4, TailSorted, SchedAssumption DEF Leave
  <2>5. CASE Rotate(p)
    <3>1. Tail(que) \in Seq(All) /\ IsSorted(Tail(que))
      BY <1>0, <2>5, TailSorted, SchedAssumption DEF Rotate
    <3>2. IsSorted(enqueue0(Tail(que), p))
      BY <3>1, EnqueueSorted, SchedAssumption
    <3>. QED BY <2>5, <3>2 DEF Rotate
  <2>. QED BY <2>1, <2>2, <2>3, <2>4, <2>5 DEF StepOf
<1>. QED BY <1>1, <1>2 DEF Sorted

(* The first step of PriorityKept: every step keeps the order.             *)
LEMMA OrderNext == BaseInv /\ OrderInv /\ [Next]_vars => OrderInv'
<1> SUFFICES ASSUME BaseInv, OrderInv, [Next]_vars PROVE OrderInv'
  OBVIOUS
<1>1. CASE UNCHANGED vars
  BY <1>1 DEF OrderInv, Sorted, Urgent, vars
<1>2. ASSUME NEW p \in All, StepOf(p) PROVE OrderInv'
  <2> DEFINE u == Place[p]
             que == rdyQues[u]
  <2>0. /\ u \in Puns /\ que \in Seq(All) /\ IsSorted(que)
        /\ que # << >> => Head(que) \in All
        /\ \A x \in All : Pri[x] \in Nat
    BY Around DEF OrderInv, Sorted
  <2>1. /\ current[u] = p
        /\ \A w \in Puns : w # u => rdyQues'[w] = rdyQues[w]
        /\ \A q \in All : q # p => kernel'[q] = kernel[q]
    BY <1>2 DEF StepOf, Alone
  <2>3. Sorted'
    BY <1>2, StepSorted DEF OrderInv
  <2>4. ASSUME NEW q \in All, q # p, kernel'[q] \in Deciding
        PROVE  rdyQues'[Place[q]] # << >> /\ pri_gt(Head(rdyQues'[Place[q]]), q)
    <3>1. kernel[q] \in Deciding /\ Place[q] \in Puns
      BY <2>1, <2>4, Constants
    <3>2. current[Place[q]] = q
      BY <3>1 DEF BaseInv, Steady, Deciding
    <3>3. rdyQues'[Place[q]] = rdyQues[Place[q]]
      BY <2>1, <2>4, <3>1, <3>2
    <3>. QED BY <3>1, <3>3 DEF OrderInv, Urgent
  <2>5. ASSUME kernel'[p] \in Deciding
        PROVE  rdyQues'[u] # << >> /\ pri_gt(Head(rdyQues'[u]), p)
    <3>0. kernel[p] \in Deciding => que # << >> /\ pri_gt(Head(que), p)
      BY DEF OrderInv, Urgent
    <3>1. CASE Stay(p)
      BY <2>5, <3>0, <3>1 DEF Stay
    <3>2. ASSUME NEW x \in Procs, Admit(p, x)
          PROVE  rdyQues'[u] # << >> /\ pri_gt(Head(rdyQues'[u]), p)
      <4>1. /\ que # << >> /\ pri_gt(Head(que), p) /\ x \in All
            /\ rdyQues'[u] = enqueue0(que, x)
        BY <2>5, <3>0, <3>2, Constants DEF Admit
      <4>2. enqueue0(que, x) \in Seq(All) /\ enqueue0(que, x) # << >>
        BY <2>0, <4>1, EnqueueRange
      <4>3. Head(enqueue0(que, x)) \in All /\ Pri[Head(enqueue0(que, x))] <= Pri[Head(que)]
        BY <2>0, <4>1, <4>2, EnqueueHead, TailRange, SchedAssumption
      <4>. QED BY <2>0, <4>1, <4>2, <4>3 DEF pri_gt
    <3>3. ~ Leave(p) /\ ~ Rotate(p)
      BY <2>5 DEF Leave, Rotate, Deciding
    <3>4. ASSUME NEW x \in Procs PROVE ~ Displace(p, x)
      BY <2>5 DEF Displace, Deciding, Passive
    <3>. QED BY <1>2, <3>1, <3>2, <3>3, <3>4 DEF StepOf
  <2>6. Urgent'
    BY <2>4, <2>5 DEF Urgent
  <2>. QED BY <2>3, <2>6 DEF OrderInv
<1>. QED BY <1>1, <1>2, StepIs

(* The queues are in order in the beginning.                               *)
LEMMA OrderInit == Init => OrderInv
<1> SUFFICES ASSUME Init PROVE OrderInv
  OBVIOUS
<1>1. ASSUME NEW u \in Puns PROVE IsSorted(rdyQues[u])
  <2>1. Created[u] \in Seq(All) /\ IsSorted(Created[u]) /\ Idle[u] \in Range(Created[u])
    BY CreatedAssumption, Constants DEF IsSorted
  <2>2. Created[u] # << >>
    BY <2>1, Elements
  <2>. QED BY <2>1, <2>2, TailSorted, SchedAssumption DEF Init
<1>. QED BY <1>1 DEF OrderInv, Sorted, Urgent, Deciding, Init

(* No step but one of yield leaves a process behind in the queue that      *)
(* outranks the one on the processor.                                      *)
LEMMA KeptNext ==
  ASSUME BaseInv, OrderInv, Next, NEW w \in Puns, Inverted(w)',
         kernel[current[w]] # "take1"
  PROVE  Inverted(w)
<1>1. PICK p \in All : StepOf(p)
  BY StepIs
<1> DEFINE u == Place[p]
           que == rdyQues[u]
<1>2. /\ u \in Puns /\ que \in Seq(All) /\ IsSorted(que)
      /\ que # << >> => Head(que) \in All
      /\ \A x \in All : Pri[x] \in Nat
      /\ current[w] \in All /\ Place[current[w]] = w
  BY Around DEF OrderInv, Sorted, BaseInv, TypeOK, Placed
<1>3. /\ current[u] = p
      /\ \A v \in Puns : v # u => rdyQues'[v] = rdyQues[v] /\ current'[v] = current[v]
      /\ \A q \in All : q # p => kernel'[q] = kernel[q]
  BY <1>1 DEF StepOf, Alone
<1>4. /\ rdyQues'[w] # << >> /\ pri_gt(Head(rdyQues'[w]), current'[w])
      /\ kernel'[current'[w]] \in Passive
  BY DEF Inverted, Passive
<1>5. CASE w # u
  <2>1. current'[w] = current[w] /\ rdyQues'[w] = rdyQues[w] /\ current[w] # p
    BY <1>2, <1>3, <1>5
  <2>2. kernel'[current[w]] = kernel[current[w]]
    BY <1>2, <1>3, <2>1
  <2>. QED BY <1>4, <2>1, <2>2 DEF Inverted, Passive
<1>6. CASE w = u /\ Stay(p)
  <2>1. current'[w] = p /\ current[w] = p /\ rdyQues'[w] = que /\ rdyQues[w] = que
    BY <1>3, <1>6 DEF Stay
  <2>2. kernel[p] \in Passive
    BY <1>4, <1>6, <2>1 DEF Stay
  <2>. QED BY <1>4, <2>1, <2>2 DEF Inverted, Passive
<1>7. ASSUME w = u, NEW x \in Procs, Admit(p, x) PROVE Inverted(w)
  <2>1. /\ current'[w] = p /\ current[w] = p /\ rdyQues[w] = que
        /\ rdyQues'[w] = enqueue0(que, x) /\ x \in All
        /\ kernel[p] \in Passive /\ pri_le(x, p)
    BY <1>3, <1>4, <1>7, Constants DEF Admit
  <2>2. Head(enqueue0(que, x)) = x \/ (que # << >> /\ Head(enqueue0(que, x)) = Head(que))
    BY <1>2, <2>1, EnqueueHead, SchedAssumption
  <2>3. ~ pri_gt(x, p)
    BY <1>2, <2>1 DEF pri_gt, pri_le
  <2>4. que # << >> /\ pri_gt(Head(que), p)
    BY <1>4, <2>1, <2>2, <2>3
  <2>. QED BY <2>1, <2>4 DEF Inverted, Passive
<1>8. ASSUME w = u, NEW x \in Procs, Displace(p, x) PROVE Inverted(w)
  <2>1. /\ current'[w] = x /\ current[w] = p /\ rdyQues[w] = que
        /\ rdyQues'[w] = enqueue0(que, p) /\ x \in All
        /\ kernel[p] \in Passive /\ ~ pri_le(x, p)
    BY <1>3, <1>8, Constants DEF Displace
  <2>2. Head(enqueue0(que, p)) = p \/ (que # << >> /\ Head(enqueue0(que, p)) = Head(que))
    BY <1>2, EnqueueHead, SchedAssumption
  <2>3. Pri[x] < Pri[p] /\ ~ pri_gt(p, x)
    BY <1>2, <2>1 DEF pri_gt, pri_le
  <2>4. que # << >> /\ pri_gt(Head(que), x)
    BY <1>4, <2>1, <2>2, <2>3
  <2>5. pri_gt(Head(que), p)
    BY <1>2, <2>1, <2>3, <2>4 DEF pri_gt
  <2>. QED BY <2>1, <2>4, <2>5 DEF Inverted, Passive
<1>9. CASE w = u /\ Leave(p)
  <2>1. /\ current'[w] = Head(que) /\ rdyQues'[w] = Tail(que) /\ que # << >>
    BY <1>9 DEF Leave
  <2>2. Tail(que) # << >> => ~ pri_gt(Head(Tail(que)), Head(que))
    BY <1>2, <2>1, TailSorted, SchedAssumption
  <2>. QED BY <1>4, <2>1, <2>2
<1>10. CASE w = u /\ Rotate(p)
  <2>1. /\ current'[w] = Head(que) /\ rdyQues'[w] = enqueue0(Tail(que), p) /\ que # << >>
        /\ kernel[p] \in Deciding
    BY <1>3, <1>10 DEF Rotate
  <2>2. /\ Tail(que) \in Seq(All)
        /\ Tail(que) # << >> => Head(Tail(que)) \in All /\ ~ pri_gt(Head(Tail(que)), Head(que))
    BY <1>2, <2>1, TailSorted, SchedAssumption
  <2>3. \/ Head(enqueue0(Tail(que), p)) = p
        \/ Tail(que) # << >> /\ Head(enqueue0(Tail(que), p)) = Head(Tail(que))
    BY <2>2, EnqueueHead, SchedAssumption
  <2>4. pri_gt(Head(que), p)
    BY <2>1 DEF OrderInv, Urgent
  <2>5. ~ pri_gt(p, Head(que))
    BY <1>2, <2>1, <2>4 DEF pri_gt
  <2>. QED BY <1>4, <2>1, <2>2, <2>3, <2>5
<1>. QED BY <1>1, <1>5, <1>6, <1>7, <1>8, <1>9, <1>10 DEF StepOf

(* Preemption keeps the processor with the highest priority: a step after  *)
(* which the head of a ready queue outranks the process on the processor,  *)
(* and nothing is about to look at the queue, is a step of yield, or finds *)
(* things so already (schedule0, schedule_from_interrupt and relinquish,   *)
(* sched.c:287-321, 344-369, 416-440).                                     *)
THEOREM SchedPriorityKept == Spec => PriorityKept
<1>1. BaseInv /\ OrderInv /\ [Next]_vars
      => [\A u \in Puns : Inverted(u)' => Inverted(u) \/ kernel[current[u]] = "take1"]_vars
  BY KeptNext
<1>. QED BY <1>1, BaseHolds, OrderInit, OrderNext, PTL DEF Spec, PriorityKept

-----------------------------------------------------------------------------
(* The idle process, when it is below all others: it is the last of its    *)
(* queue, and not in it while it has the processor.                        *)

IdleLast ==
  \A u \in Puns :
    /\ OnlyLast(rdyQues[u], Idle[u])
    /\ current[u] = Idle[u] => Idle[u] \notin Range(rdyQues[u])

\* What the idle process never does, and what its handlers find.
IdleCalm ==
  \A u \in Puns :
    /\ kernel[Idle[u]] \notin {"take", "take1", "ipq_add"}
    /\ current[u] = Idle[u] /\ kernel[Idle[u]] \in Passive => rdyQues[u] = << >>

CalmInv == IdleLast /\ IdleCalm

(* The members of the ready queue of u other than its idle process outrank *)
(* the idle process.                                                       *)
LEMMA Outranked ==
  ASSUME IdleLowest, NEW u \in Puns, NEW x \in All, Place[x] = u, x # Idle[u]
  PROVE  x \in Procs /\ pri_gt(x, Idle[u]) /\ ~ pri_gt(Idle[u], x) /\ ~ pri_le(x, Idle[u])
<1>1. x \in Procs
  BY NotIdle
<1>2. Pri[x] < Pri[Idle[u]] /\ Pri[x] \in Nat /\ Pri[Idle[u]] \in Nat
  BY <1>1, Constants DEF IdleLowest
<1>. QED BY <1>1, <1>2 DEF pri_gt, pri_le

(* enqueue0 keeps the idle process at the end of the queue.                *)
LEMMA EnqueueLast ==
  ASSUME IdleLowest, NEW u \in Puns, NEW s \in Seq(All), NEW x \in All, Place[x] = u,
         \A y \in Range(s) : Place[y] = u,
         OnlyLast(s, Idle[u]), x = Idle[u] => Idle[u] \notin Range(s)
  PROVE  OnlyLast(enqueue0(s, x), Idle[u])
<1> DEFINE k == Passed(s, x)
           n == Len(s)
           e == enqueue0(s, x)
<1>1. /\ k \in 0..n /\ n \in Nat
      /\ \A j \in 1..k : pri_le(x, s[j])
      /\ k < n => ~ pri_le(x, s[k + 1])
      /\ \A j \in 1..n : s[j] \in All /\ s[j] \in Range(s) /\ Place[s[j]] = u
  BY PassedIs, Elements
<1>2. \A i \in 1..n : s[i] = Idle[u] => i = n
  BY DEF OnlyLast
<1>3. ASSUME x # Idle[u], NEW i \in 1..k PROVE s[i] # Idle[u]
  BY <1>1, <1>3, Outranked
<1>4. ASSUME x = Idle[u] PROVE k = n
  <2>1. SUFFICES ASSUME k < n PROVE FALSE
    BY <1>1
  <2>2. k + 1 \in 1..n
    BY <1>1, <2>1
  <2>3. s[k + 1] \in All /\ Place[s[k + 1]] = u /\ s[k + 1] # Idle[u]
    BY <1>1, <1>4, <2>2
  <2>4. pri_gt(s[k + 1], x) /\ ~ pri_le(x, s[k + 1])
    BY <1>1, <1>4, <2>1, <2>3, Outranked
  <2>. QED BY <1>4, <2>3, <2>4, Constants DEF pri_gt, pri_le
<1>5. CASE IsInsert(e, s, x, k)
  <2> HIDE DEF k, n, e
  <2>1. /\ Len(e) = n + 1 /\ e[k + 1] = x /\ \A i \in 1..k : e[i] = s[i]
        /\ \A i \in (k + 1)..n : e[i + 1] = s[i]
    BY <1>5 DEF IsInsert, n
  <2>2. ASSUME NEW i \in 1..(n + 1), e[i] = Idle[u] PROVE i = n + 1
    <3>1. CASE i \in 1..k
      <4>1. s[i] = Idle[u] /\ i \in 1..n
        BY <1>1, <2>1, <2>2, <3>1
      <4>2. s[i] \in Range(s)
        BY <1>1, <4>1
      <4>. QED BY <1>3, <3>1, <4>1, <4>2
    <3>2. CASE i = k + 1
      BY <1>4, <2>1, <2>2, <3>2
    <3>3. CASE i \in (k + 2)..(n + 1)
      <4>1. i - 1 \in (k + 1)..n /\ i - 1 \in 1..n /\ (i - 1) + 1 = i
        BY <1>1, <3>3
      <4>2. s[i - 1] = Idle[u]
        BY <2>1, <2>2, <4>1
      <4>3. i - 1 = n
        BY <1>2, <4>1, <4>2
      <4>. QED BY <1>1, <4>1, <4>3
    <3>4. i \in 1..k \/ i = k + 1 \/ i \in (k + 2)..(n + 1)
      BY <1>1
    <3>. QED BY <3>1, <3>2, <3>3, <3>4
  <2>. QED BY <2>1, <2>2 DEF OnlyLast, e
<1>6. ASSUME NEW d \in 1..k, s[d] = x, IsCut(e, s, d, k) PROVE OnlyLast(e, Idle[u])
  <2> HIDE DEF k, n, e
  <2>1. /\ Len(e) = d + (n - k) /\ \A i \in 1..d : e[i] = s[i]
        /\ \A i \in 1..(n - k) : e[d + i] = s[k + i]
    BY <1>6 DEF IsCut, n
  <2>2. d \in 1..n
    BY <1>1
  <2>3. x # Idle[u]
    BY <1>1, <1>6, <2>2
  <2>4. ASSUME NEW i \in 1..(d + (n - k)), e[i] = Idle[u] PROVE i = d + (n - k)
    <3>1. CASE i \in 1..d
      <4>1. i \in 1..k
        BY <1>1, <3>1
      <4>. QED BY <1>3, <2>1, <2>3, <2>4, <3>1, <4>1
    <3>2. CASE i \notin 1..d
      <4>1. i - d \in 1..(n - k) /\ d + (i - d) = i /\ k + (i - d) \in 1..n
        BY <1>1, <3>2
      <4>2. s[k + (i - d)] = Idle[u]
        BY <2>1, <2>4, <4>1
      <4>3. k + (i - d) = n
        BY <1>2, <4>1, <4>2
      <4>. QED BY <1>1, <4>3
    <3>. QED BY <3>1, <3>2
  <2>. QED BY <2>1, <2>4 DEF OnlyLast, e
<1>. QED BY <1>5, <1>6, EnqueueShape

(* Every step keeps the idle process in its place.                         *)
LEMMA CalmNext ==
  IdleLowest /\ BaseInv /\ OrderInv /\ CalmInv /\ [Next]_vars => CalmInv'
<1> SUFFICES ASSUME IdleLowest, BaseInv, OrderInv, CalmInv, [Next]_vars PROVE CalmInv'
  OBVIOUS
<1>1. CASE UNCHANGED vars
  BY <1>1 DEF CalmInv, IdleLast, IdleCalm, vars
<1>2. ASSUME NEW p \in All, StepOf(p) PROVE CalmInv'
  <2> DEFINE u == Place[p]
             que == rdyQues[u]
             idle == Idle[u]
  <2>0. /\ u \in Puns /\ que \in Seq(All) /\ idle \in All /\ Place[idle] = u
        /\ idle \notin Procs
        /\ que # << >> => Head(que) \in All /\ Head(que) \in Range(que)
        /\ \A x \in Range(que) : x \in All /\ Place[x] = u
    BY Around, Constants, TailRange, Elements DEF BaseInv, Placed
  <2>1. /\ current[u] = p
        /\ \A w \in Puns : w # u => rdyQues'[w] = rdyQues[w] /\ current'[w] = current[w]
        /\ \A q \in All : q # p => kernel'[q] = kernel[q]
    BY <1>2 DEF StepOf, Alone
  <2>2. /\ OnlyLast(que, idle)
        /\ p = idle => idle \notin Range(que)
        /\ kernel[idle] \notin {"take", "take1", "ipq_add"}
        /\ p = idle /\ kernel[p] \in Passive => que = << >>
    BY <2>0, <2>1 DEF CalmInv, IdleLast, IdleCalm
  <2>3. /\ OnlyLast(rdyQues'[u], idle)
        /\ current'[u] = idle => idle \notin Range(rdyQues'[u])
        /\ kernel'[idle] \notin {"take", "take1", "ipq_add"}
        /\ current'[u] = idle /\ kernel'[idle] \in Passive => rdyQues'[u] = << >>
    <3>1. CASE Stay(p)
      <4>1. current'[u] = p /\ rdyQues'[u] = que
        BY <3>1 DEF Stay
      <4>2. kernel'[idle] \notin {"take", "take1", "ipq_add"}
        BY <2>0, <2>1, <2>2, <3>1 DEF Stay
      <4>3. ASSUME p = idle, kernel'[p] \in Passive PROVE que = << >>
        <5>1. \/ kernel[p] \in Passive \/ que = << >> \/ ~ pri_gt(Head(que), p)
          BY <2>2, <3>1, <4>3 DEF Stay
        <5>2. que # << >> => pri_gt(Head(que), p)
          BY <2>0, <2>2, <4>3, Outranked
        <5>. QED BY <2>2, <4>3, <5>1, <5>2
      <4>. QED BY <2>2, <4>1, <4>2, <4>3
    <3>2. ASSUME NEW x \in Procs, Admit(p, x)
          PROVE  /\ OnlyLast(rdyQues'[u], idle)
                 /\ current'[u] = idle => idle \notin Range(rdyQues'[u])
                 /\ kernel'[idle] \notin {"take", "take1", "ipq_add"}
                 /\ current'[u] = idle /\ kernel'[idle] \in Passive => rdyQues'[u] = << >>
      <4>1. /\ x \in All /\ Place[x] = u /\ x # idle
            /\ kernel[p] \notin Passive \/ pri_le(x, p)
            /\ current'[u] = p /\ rdyQues'[u] = enqueue0(que, x) /\ kernel'[p] = kernel[p]
        BY <2>0, <3>2, Constants DEF Admit
      <4>2. OnlyLast(rdyQues'[u], idle)
        BY <2>0, <2>2, <4>1, EnqueueLast
      <4>3. Range(enqueue0(que, x)) \subseteq Range(que) \cup {x}
        BY <2>0, <4>1, EnqueueRange
      <4>4. kernel'[idle] = kernel[idle]
        BY <2>0, <2>1, <4>1
      <4>5. p = idle => kernel[p] \notin Passive
        BY <2>0, <4>1, Outranked
      <4>. QED BY <2>2, <4>1, <4>2, <4>3, <4>4, <4>5
    <3>3. ASSUME NEW x \in Procs, Displace(p, x)
          PROVE  /\ OnlyLast(rdyQues'[u], idle)
                 /\ current'[u] # idle
                 /\ kernel'[idle] \notin {"take", "take1", "ipq_add"}
      <4>1. /\ current'[u] = x /\ rdyQues'[u] = enqueue0(que, p)
            /\ kernel'[p] \in {kernel[p], "resumed"}
        BY <3>3 DEF Displace
      <4>2. OnlyLast(rdyQues'[u], idle)
        BY <2>0, <2>2, <4>1, EnqueueLast
      <4>. QED BY <2>0, <2>1, <2>2, <4>1, <4>2
    <3>4. CASE Leave(p)
      <4>1. /\ kernel[p] = "take" /\ kernel'[p] = "none" /\ que # << >>
            /\ current'[u] = Head(que) /\ rdyQues'[u] = Tail(que)
        BY <3>4 DEF Leave
      <4>2. /\ OnlyLast(Tail(que), idle)
            /\ Head(que) = idle => Tail(que) = << >>
        BY <2>0, <2>2, <4>1, TailLast
      <4>3. Range(<< >>) = {}
        BY DEF Range
      <4>. QED BY <2>0, <2>1, <2>2, <4>1, <4>2, <4>3
    <3>5. CASE Rotate(p)
      <4>1. /\ kernel[p] \in Deciding \/ (kernel[p] = "take1" /\ Len(que) >= 2)
            /\ kernel'[p] \in {"none", "resumed"} /\ que # << >>
            /\ current'[u] = Head(que) /\ rdyQues'[u] = enqueue0(Tail(que), p)
        BY <3>5 DEF Rotate
      <4>2. /\ Tail(que) \in Seq(All) /\ Range(Tail(que)) \subseteq Range(que)
            /\ OnlyLast(Tail(que), idle)
            /\ Head(que) = idle => ~ (Len(que) >= 2)
        BY <2>0, <2>2, <4>1, TailLast
      <4>3. OnlyLast(rdyQues'[u], idle)
        BY <2>0, <2>2, <4>1, <4>2, EnqueueLast
      <4>4. Head(que) # idle
        <5>1. CASE p = idle
          BY <2>0, <2>2, <4>1, <5>1
        <5>2. CASE p # idle /\ kernel[p] \in Deciding
          <6>1. pri_gt(Head(que), p)
            BY <5>2 DEF OrderInv, Urgent
          <6>. QED BY <2>0, <5>2, <6>1, Outranked
        <5>. QED BY <4>1, <4>2, <5>1, <5>2
      <4>. QED BY <2>0, <2>1, <2>2, <4>1, <4>3, <4>4
    <3>. QED BY <1>2, <3>1, <3>2, <3>3, <3>4, <3>5 DEF StepOf
  <2>4. ASSUME NEW w \in Puns, w # u
        PROVE  /\ rdyQues'[w] = rdyQues[w] /\ current'[w] = current[w]
               /\ kernel'[Idle[w]] = kernel[Idle[w]]
    <3>1. Idle[w] \in All /\ Idle[w] # p
      BY <2>4, Constants
    <3>. QED BY <2>1, <2>4, <3>1
  <2>5. IdleLast'
    BY <2>3, <2>4 DEF CalmInv, IdleLast
  <2>6. IdleCalm'
    BY <2>3, <2>4 DEF CalmInv, IdleCalm
  <2>. QED BY <2>5, <2>6 DEF CalmInv
<1>. QED BY <1>1, <1>2, StepIs

(* The idle process is created last.                                       *)
LEMMA CalmInit == IdleLowest /\ Init => CalmInv
<1> SUFFICES ASSUME IdleLowest, Init, NEW u \in Puns
             PROVE  /\ OnlyLast(rdyQues[u], Idle[u])
                    /\ current[u] = Idle[u] => rdyQues[u] = << >>
                    /\ Idle[u] \notin Range(<< >>)
                    /\ kernel[Idle[u]] = "none"
  BY DEF CalmInv, IdleLast, IdleCalm
<1> DEFINE s == Created[u]
<1>1. /\ s \in Seq(All) /\ IsSorted(s) /\ IsInjective(s) /\ Idle[u] \in Range(s)
      /\ \A x \in Range(s) : x \in All /\ Place[x] = u
  BY CreatedAssumption, Constants, Elements DEF IsSorted
<1>2. s # << >> /\ Len(s) \in Nat
  BY <1>1, Elements
<1>3. OnlyLast(s, Idle[u])
  <2> SUFFICES ASSUME NEW i \in 1..Len(s), s[i] = Idle[u], i # Len(s) PROVE FALSE
    BY DEF OnlyLast
  <2>1. i + 1 \in 1..Len(s) /\ i < i + 1 /\ i # i + 1
    BY <1>2
  <2>2. Pri[s[i]] <= Pri[s[i + 1]]
    BY <1>1, <2>1 DEF IsSorted
  <2>3. s[i + 1] # Idle[u]
    BY <1>1, <2>1, Elements DEF IsInjective
  <2>4. s[i + 1] \in All /\ Place[s[i + 1]] = u
    BY <1>1, <2>1, Elements
  <2>. QED BY <2>2, <2>3, <2>4, Outranked, Constants DEF pri_gt
<1>4. current[u] = Head(s) /\ rdyQues[u] = Tail(s)
  BY DEF Init
<1> HIDE DEF s
<1>5. Idle[u] \notin Range(<< >>)
  BY DEF Range
<1>. QED BY <1>1, <1>2, <1>3, <1>4, <1>5, TailLast, Constants DEF Init

(* The idle process has the processor only when nothing is ready there, if *)
(* no process of the application has its priority: a handler that finds    *)
(* work preempts it, yield never hands the processor to it ("never returns *)
(* the idle process", sched.c:254), and enqueue0 keeps it last.            *)
THEOREM SchedWorkConserving == IdleLowest => (Spec => []WorkConserving)
<1> SUFFICES ASSUME IdleLowest PROVE Spec => []WorkConserving
  OBVIOUS
<1>1. CalmInv => WorkConserving
  BY DEF CalmInv, IdleCalm, WorkConserving, Passive
<1>2. Init => CalmInv
  BY CalmInit
<1>3. BaseInv /\ OrderInv /\ CalmInv /\ [Next]_vars => CalmInv'
  BY CalmNext
<1>. QED BY <1>1, <1>2, <1>3, BaseHolds, OrderInit, OrderNext, PTL DEF Spec

-----------------------------------------------------------------------------
(* Wakes are neither lost nor doubled, where nobody but the idle process   *)
(* is preempted.  Otherwise they are: a process that is woken after the    *)
(* exchange of relinquish and preempted there is queued twice, as one      *)
(* entry, and goes on to switch away.  The invariant says for each place   *)
(* in the code of a process which wakes may be under way for it.           *)

\* Nobody outranks a process on its own processor, so that only the idle
\* processes are preempted.
Level ==
  \A p \in Procs, x \in All : Place[x] = Place[p] => ~ pri_gt(x, p)

\* Where a process is in the kernel, with nobody to preempt it.
Calls ==
  /\ \A p \in Procs :
       /\ kernel[p] \in {"none", "take", "take1", "ipq_add", "ipi", "intr"}
       /\ kernel[p] # "none" => Running(p)
       /\ kernel[p] = "take" => pc[p] = "disable"
       /\ kernel[p] = "take1" => pc[p] \in {"run", "publish"}
  /\ \A p \in All \ Procs :
       kernel[p] \notin {"take", "take1", "ipq_add"} /\ pc[p] = "run"

\* Nobody wakes for two, and no two wake the same process.
Wakers ==
  /\ \A p \in All : wakee[p] # NULL <=> pc[p] \in {"free", "schedule"}
  /\ \A p1, p2 \in All : wakee[p1] = wakee[p2] /\ wakee[p1] # NULL => p1 = p2

\* No queue has a process twice, and an idle process that runs is in none.
Once ==
  \A u \in Puns :
    /\ IsInjective(rdyQues[u]) /\ IsInjective(ipQues[u])
    /\ current[u] \in Range(rdyQues[u]) => current[u] \in Procs

\* Somebody has yet to exchange the state of q.
Expected(q) == q \in waiting \/ Claimed(q)

\* A process has one wake for each wait: it is on its way to a queue or not yet
\* claimed, never both, and a process that has the processor is on no way
\* except between the exchange of relinquish and the switch.
Status(q) ==
  /\ ~ (q \in waiting /\ Claimed(q))
  /\ ~ (Queued(q) /\ Posted(q))
  /\ Scheduled(q) => ~ Queued(q) /\ ~ Posted(q)
  /\ Expected(q) => ~ Ready(q)
  /\ Running(q) \/ Ready(q) \/ Expected(q)
  /\ pc[q] = "run" =>
       /\ Running(q) => ~ Ready(q) /\ ~ Expected(q)
       /\ Expected(q) => sched_state[q] = "WAITING"
  /\ pc[q] \in {"publish", "free", "schedule"} =>
       /\ Running(q) => ~ Queued(q)
       /\ ~ Posted(q) /\ ~ Scheduled(q) /\ ~ Expected(q)
       /\ pc[q] = "publish" => sched_state[q] = "PREPARING_TO_WAIT"
  /\ pc[q] = "relinquish" =>
       /\ Running(q) /\ ~ Ready(q)
       /\ Expected(q) <=> sched_state[q] = "PREPARING_TO_WAIT"
  /\ pc[q] = "disable" =>
       /\ Running(q)
       /\ Ready(q) \/ Expected(q)
       /\ Expected(q) => sched_state[q] = "WAITING"

WakeInv == Calls /\ Wakers /\ Once /\ \A q \in Procs : Status(q)

-----------------------------------------------------------------------------
(* What the steps do to the queues and to the wakers.                      *)

(* Nothing changes but where a process is in the kernel.                   *)
LEMMA KernelOnly ==
  ASSUME WakeInv,
         UNCHANGED <<current, rdyQues, ipQues, sched_state, waiting, pc, wakee>>
  PROVE  Wakers' /\ Once' /\ \A q \in Procs : Status(q)'
<1>1. Wakers'
  BY DEF WakeInv, Wakers
<1>2. Once'
  BY DEF WakeInv, Once
<1>3. ASSUME NEW q \in Procs PROVE Status(q)'
  <2>1. Status(q)
    BY DEF WakeInv
  <2>. QED BY <2>1 DEF Status, Expected, Ready, Queued, Posted, Scheduled, Claimed, Running
<1>. QED BY <1>1, <1>2, <1>3

(* A process goes into a routine of the kernel or leaves one, and keeps    *)
(* the processor.                                                          *)
LEMMA CallsKeep ==
  ASSUME BaseInv, Calls, NEW p \in All, NEW k \in Kernels,
         kernel' = [kernel EXCEPT ![p] = k], UNCHANGED <<current, pc>>, Running(p),
         p \in Procs =>
           /\ k \in {"none", "take", "take1", "ipq_add", "ipi", "intr"}
           /\ k = "take" => pc[p] = "disable"
           /\ k = "take1" => pc[p] \in {"run", "publish"},
         p \notin Procs => k \notin {"take", "take1", "ipq_add"}
  PROVE  Calls'
<1>1. kernel \in [All -> Kernels] /\ Procs \subseteq All
  BY Constants DEF BaseInv, TypeOK
<1>2. kernel'[p] = k /\ \A x \in All : x # p => kernel'[x] = kernel[x]
  BY <1>1
<1>. QED BY <1>1, <1>2 DEF Calls, Running

(* enqueue0 of a process that is not in the queue.                         *)
LEMMA Joins ==
  ASSUME BaseInv, Once, NEW u \in Puns, NEW x \in All, Place[x] = u,
         x \notin Range(rdyQues[u]), Enqueue(u, x)
  PROVE  /\ Range(rdyQues'[u]) = Range(rdyQues[u]) \cup {x}
         /\ IsInjective(rdyQues'[u])
         /\ \A w \in Puns : w # u => rdyQues'[w] = rdyQues[w]
<1>1. rdyQues[u] \in Seq(All) /\ IsInjective(rdyQues[u])
  BY DEF BaseInv, TypeOK, Once
<1>2. /\ rdyQues'[u] = enqueue0(rdyQues[u], x)
      /\ \A w \in Puns : w # u => rdyQues'[w] = rdyQues[w]
  BY EnqueueEffect
<1>3. ASSUME NEW t \in Seq(All), IsInjective(t), x \notin Range(t)
      PROVE  Range(enqueue0(t, x)) = Range(t) \cup {x} /\ IsInjective(enqueue0(t, x))
  BY <1>3, EnqueueRange
<1>. QED BY <1>1, <1>2, <1>3

(* take.                                                                   *)
LEMMA Leaves ==
  ASSUME BaseInv, Once, NEW u \in Puns, rdyQues[u] # << >>,
         rdyQues' = [rdyQues EXCEPT ![u] = Tail(@)]
  PROVE  /\ Head(rdyQues[u]) \in Range(rdyQues[u])
         /\ Range(rdyQues'[u]) = Range(rdyQues[u]) \ {Head(rdyQues[u])}
         /\ IsInjective(rdyQues'[u])
         /\ \A w \in Puns : w # u => rdyQues'[w] = rdyQues[w]
<1>1. rdyQues[u] \in Seq(All) /\ IsInjective(rdyQues[u])
  BY DEF BaseInv, TypeOK, Once
<1>2. /\ rdyQues'[u] = Tail(rdyQues[u])
      /\ \A w \in Puns : w # u => rdyQues'[w] = rdyQues[w]
  BY TakeEffect
<1>. QED BY <1>1, <1>2, TailRange

(* take followed by enqueue0 of the process that has the processor.        *)
LEMMA Rotates ==
  ASSUME BaseInv, Once, NEW p \in All, rdyQues[Place[p]] # << >>,
         p \notin Range(rdyQues[Place[p]]),
         rdyQues' = [rdyQues EXCEPT ![Place[p]] = enqueue0(Tail(@), p)]
  PROVE  LET u == Place[p]
         IN  /\ Head(rdyQues[u]) \in Range(rdyQues[u])
             /\ Range(rdyQues'[u]) = (Range(rdyQues[u]) \ {Head(rdyQues[u])}) \cup {p}
             /\ IsInjective(rdyQues'[u])
             /\ \A w \in Puns : w # u => rdyQues'[w] = rdyQues[w]
<1> DEFINE u == Place[p]
<1>0. u \in Puns
  BY Constants
<1>1. rdyQues[u] \in Seq(All) /\ IsInjective(rdyQues[u])
  BY <1>0 DEF BaseInv, TypeOK, Once
<1>2. /\ rdyQues'[u] = enqueue0(Tail(rdyQues[u]), p)
      /\ \A w \in Puns : w # u => rdyQues'[w] = rdyQues[w]
  BY RotateEffect
<1>3. /\ Tail(rdyQues[u]) \in Seq(All) /\ IsInjective(Tail(rdyQues[u]))
      /\ Head(rdyQues[u]) \in Range(rdyQues[u])
      /\ Range(Tail(rdyQues[u])) = Range(rdyQues[u]) \ {Head(rdyQues[u])}
  BY <1>1, TailRange
<1>4. ASSUME NEW t \in Seq(All), IsInjective(t), p \notin Range(t)
      PROVE  /\ Range(enqueue0(t, p)) = Range(t) \cup {p}
             /\ IsInjective(enqueue0(t, p))
  BY <1>4, EnqueueRange
<1>. QED BY <1>2, <1>3, <1>4

(* ipq_remove.                                                             *)
LEMMA Fetched ==
  ASSUME BaseInv, Once, NEW u \in Puns, ipQues[u] # << >>,
         ipQues' = [ipQues EXCEPT ![u] = Tail(@)]
  PROVE  /\ Head(ipQues[u]) \in Range(ipQues[u])
         /\ Head(ipQues[u]) \in Procs /\ Place[Head(ipQues[u])] = u
         /\ Range(ipQues'[u]) = Range(ipQues[u]) \ {Head(ipQues[u])}
         /\ IsInjective(ipQues'[u])
         /\ \A w \in Puns : w # u => ipQues'[w] = ipQues[w]
<1>1. ipQues[u] \in Seq(All) /\ IsInjective(ipQues[u])
  BY DEF BaseInv, TypeOK, Once
<1>2. /\ ipQues'[u] = Tail(ipQues[u])
      /\ Head(ipQues[u]) \in Procs /\ Place[Head(ipQues[u])] = u
      /\ \A w \in Puns : w # u => ipQues'[w] = ipQues[w]
  BY RemoveEffect
<1>. QED BY <1>1, <1>2, TailRange

(* A process that wakes nobody goes on without waking anybody.             *)
LEMMA WakesNobody ==
  ASSUME BaseInv, Wakers, NEW p \in All, NEW l \in PCs,
         pc' = [pc EXCEPT ![p] = l], UNCHANGED wakee,
         pc[p] \notin {"free", "schedule"}, l \notin {"free", "schedule"}
  PROVE  /\ Wakers'
         /\ \A q \in Procs : Scheduled(q)' <=> Scheduled(q)
         /\ \A q \in Procs : Claimed(q)' <=> Claimed(q)
<1>1. pc \in [All -> PCs]
  BY DEF BaseInv, TypeOK
<1>2. pc'[p] = l /\ \A x \in All : x # p => pc'[x] = pc[x]
  BY <1>1
<1>3. Wakers'
  BY <1>2 DEF Wakers
<1>4. \A q \in Procs : Scheduled(q)' <=> Scheduled(q)
  BY <1>2 DEF Scheduled
<1>5. \A q \in Procs : Claimed(q)' <=> Claimed(q)
  BY <1>2 DEF Claimed
<1>. QED BY <1>3, <1>4, <1>5

(* A process has made its process ready and wakes nobody any more.         *)
LEMMA WakesNoMore ==
  ASSUME BaseInv, Wakers, NEW p \in All, pc[p] \in {"free", "schedule"},
         pc' = [pc EXCEPT ![p] = "run"], wakee' = [wakee EXCEPT ![p] = NULL]
  PROVE  /\ wakee[p] \in Procs
         /\ Wakers'
         /\ \A q \in Procs : Scheduled(q)' <=> Scheduled(q) /\ q # wakee[p]
         /\ \A q \in Procs : Claimed(q)' <=> Claimed(q) /\ q # wakee[p]
<1>1. pc \in [All -> PCs] /\ wakee \in [All -> Procs \cup {NULL}] /\ NULL \notin Procs
  BY Constants DEF BaseInv, TypeOK
<1>2. /\ pc'[p] = "run" /\ \A x \in All : x # p => pc'[x] = pc[x]
      /\ wakee'[p] = NULL /\ \A x \in All : x # p => wakee'[x] = wakee[x]
  BY <1>1
<1>3. wakee[p] \in Procs /\ \A x \in All : wakee[x] = wakee[p] => x = p
  BY <1>1 DEF Wakers
<1>4. Wakers'
  BY <1>2 DEF Wakers
<1>5. \A q \in Procs : Scheduled(q)' <=> Scheduled(q) /\ q # wakee[p]
  BY <1>1, <1>2, <1>3 DEF Scheduled
<1>6. \A q \in Procs : Claimed(q)' <=> Claimed(q) /\ q # wakee[p]
  BY <1>1, <1>2, <1>3 DEF Claimed
<1>. QED BY <1>3, <1>4, <1>5, <1>6

-----------------------------------------------------------------------------
(* The steps of a process that waits.                                      *)

(* What holds of a process at a point with interrupts enabled.             *)
LEMMA AtWork ==
  ASSUME BaseInv, WakeInv, NEW p \in Procs, Runs(p)
  PROVE  /\ p \in All /\ Place[p] \in Puns
         /\ Running(p) /\ kernel[p] = "none" /\ Status(p)
         /\ pc \in [All -> PCs] /\ sched_state \in [All -> SchedStates]
         /\ kernel \in [All -> Kernels] /\ Procs \subseteq All
BY Constants DEF BaseInv, TypeOK, WakeInv, Runs, Running

(* Its own code takes a process further, outside the kernel and with the   *)
(* queues as they are.                                                     *)
LEMMA GoesOn ==
  ASSUME BaseInv, WakeInv, NEW p \in Procs, Runs(p), NEW l \in PCs,
         pc' = [pc EXCEPT ![p] = l], UNCHANGED <<current, rdyQues, ipQues, kernel>>
  PROVE  /\ Calls' /\ Once'
         /\ pc'[p] = l /\ \A q \in Procs : q # p => pc'[q] = pc[q]
         /\ \A q \in Procs : /\ Queued(q)' <=> Queued(q)
                             /\ Posted(q)' <=> Posted(q)
                             /\ Running(q)' <=> Running(q)
<1>1. /\ pc \in [All -> PCs] /\ kernel[p] = "none" /\ Procs \subseteq All
  BY AtWork
<1>2. pc'[p] = l /\ \A x \in All : x # p => pc'[x] = pc[x]
  BY <1>1
<1>3. Calls'
  BY <1>1, <1>2 DEF WakeInv, Calls, Running
<1>4. Once'
  BY DEF WakeInv, Once
<1>5. \A q \in Procs : /\ Queued(q)' <=> Queued(q)
                       /\ Posted(q)' <=> Posted(q)
                       /\ Running(q)' <=> Running(q)
  BY DEF Queued, Posted, Running
<1>. QED BY <1>1, <1>2, <1>3, <1>4, <1>5

(* PREPARE_TO_WAIT.                                                        *)
LEMMA PrepareWakes ==
  ASSUME BaseInv, WakeInv, NEW p \in Procs, PrepareToWait(p)
  PROVE  WakeInv'
<1>0. Runs(p) /\ pc[p] = "run" /\ "publish" \in PCs
  BY DEF PrepareToWait, PCs
<1>1. Running(p) /\ sched_state \in [All -> SchedStates] /\ Procs \subseteq All /\ Status(p)
  BY <1>0, AtWork
<1>2. /\ Calls' /\ Once'
      /\ pc'[p] = "publish" /\ \A q \in Procs : q # p => pc'[q] = pc[q]
      /\ \A q \in Procs : /\ Queued(q)' <=> Queued(q)
                          /\ Posted(q)' <=> Posted(q)
                          /\ Running(q)' <=> Running(q)
  BY <1>0, GoesOn DEF PrepareToWait
<1>3. /\ Wakers'
      /\ \A q \in Procs : Scheduled(q)' <=> Scheduled(q)
      /\ \A q \in Procs : Claimed(q)' <=> Claimed(q)
  BY <1>0, <1>1, WakesNobody DEF PrepareToWait, WakeInv
<1>4. /\ sched_state'[p] = "PREPARING_TO_WAIT" /\ UNCHANGED waiting
      /\ \A q \in Procs : q # p => sched_state'[q] = sched_state[q]
  BY <1>1 DEF PrepareToWait
<1>5. ASSUME NEW q \in Procs PROVE Status(q)'
  <2>1. Status(q)
    BY DEF WakeInv
  <2>2. CASE q = p
    BY <1>0, <1>1, <1>2, <1>3, <1>4, <2>2 DEF Status, Expected, Ready
  <2>3. CASE q # p
    BY <1>2, <1>3, <1>4, <2>1, <2>3 DEF Status, Expected, Ready
  <2>. QED BY <2>2, <2>3
<1>. QED BY <1>2, <1>3, <1>5 DEF WakeInv

(* A process gives its name to the other party.                            *)
LEMMA PublishWakes ==
  ASSUME BaseInv, WakeInv, NEW p \in Procs, Publish(p)
  PROVE  WakeInv'
<1>0. Runs(p) /\ pc[p] = "publish" /\ "relinquish" \in PCs
  BY DEF Publish, PCs
<1>1. Running(p) /\ Procs \subseteq All /\ Status(p)
  BY <1>0, AtWork
<1>2. /\ Calls' /\ Once'
      /\ pc'[p] = "relinquish" /\ \A q \in Procs : q # p => pc'[q] = pc[q]
      /\ \A q \in Procs : /\ Queued(q)' <=> Queued(q)
                          /\ Posted(q)' <=> Posted(q)
                          /\ Running(q)' <=> Running(q)
  BY <1>0, GoesOn DEF Publish
<1>3. /\ Wakers'
      /\ \A q \in Procs : Scheduled(q)' <=> Scheduled(q)
      /\ \A q \in Procs : Claimed(q)' <=> Claimed(q)
  BY <1>0, <1>1, WakesNobody DEF Publish, WakeInv
<1>4. waiting' = waiting \cup {p} /\ UNCHANGED sched_state
  BY DEF Publish
<1>5. ASSUME NEW q \in Procs PROVE Status(q)'
  <2>1. Status(q)
    BY DEF WakeInv
  <2>2. CASE q = p
    BY <1>0, <1>1, <1>2, <1>3, <1>4, <2>2 DEF Status, Expected, Ready
  <2>3. CASE q # p
    BY <1>2, <1>3, <1>4, <2>1, <2>3 DEF Status, Expected, Ready
  <2>. QED BY <2>2, <2>3
<1>. QED BY <1>2, <1>3, <1>5 DEF WakeInv

(* The exchange of relinquish.                                             *)
LEMMA RelinquishWakes ==
  ASSUME BaseInv, WakeInv, NEW p \in Procs, Relinquish(p)
  PROVE  WakeInv'
<1> DEFINE late == sched_state[p] # "PREPARING_TO_WAIT"
           l == IF late THEN "run" ELSE "disable"
<1>0. /\ Runs(p) /\ pc[p] = "relinquish" /\ l \in PCs
      /\ pc' = [pc EXCEPT ![p] = l] /\ l \notin {"free", "schedule"}
      /\ UNCHANGED <<current, rdyQues, ipQues, kernel, waiting, wakee>>
  BY DEF Relinquish, PCs
<1>1. Running(p) /\ sched_state \in [All -> SchedStates] /\ Procs \subseteq All /\ Status(p)
  BY <1>0, AtWork
<1>2. /\ late => UNCHANGED sched_state
      /\ ~ late => sched_state'[p] = "WAITING"
      /\ \A q \in Procs : q # p => sched_state'[q] = sched_state[q]
  BY <1>1 DEF Relinquish
<1>3. /\ Calls' /\ Once'
      /\ pc'[p] = l /\ \A q \in Procs : q # p => pc'[q] = pc[q]
      /\ \A q \in Procs : /\ Queued(q)' <=> Queued(q)
                          /\ Posted(q)' <=> Posted(q)
                          /\ Running(q)' <=> Running(q)
  <2> HIDE DEF l
  <2>. QED BY <1>0, GoesOn
<1>4. /\ Wakers'
      /\ \A q \in Procs : Scheduled(q)' <=> Scheduled(q)
      /\ \A q \in Procs : Claimed(q)' <=> Claimed(q)
  <2> HIDE DEF l
  <2>. QED BY <1>0, <1>1, WakesNobody DEF WakeInv
<1>5. ASSUME NEW q \in Procs PROVE Status(q)'
  <2>1. Status(q)
    BY DEF WakeInv
  <2>2. CASE q = p
    BY <1>0, <1>1, <1>2, <1>3, <1>4, <2>2 DEF Status, Expected, Ready
  <2>3. CASE q # p
    BY <1>0, <1>2, <1>3, <1>4, <2>1, <2>3 DEF Status, Expected, Ready
  <2>. QED BY <2>2, <2>3
<1>. QED BY <1>3, <1>4, <1>5 DEF WakeInv

-----------------------------------------------------------------------------
(* The steps of a process that wakes another.                              *)

(* The waker takes the name of the process that waits.                     *)
LEMMA ClaimWakes ==
  ASSUME BaseInv, WakeInv, NEW p \in Procs, NEW x \in waiting, Claim(p, x)
  PROVE  WakeInv'
<1>0. Runs(p) /\ pc[p] = "run" /\ "free" \in PCs
  BY DEF Claim, PCs
<1>1. /\ Running(p) /\ Procs \subseteq All /\ Status(p) /\ p \in All
      /\ x \in Procs /\ NULL \notin Procs /\ pc \in [All -> PCs]
      /\ wakee \in [All -> Procs \cup {NULL}]
  BY <1>0, AtWork, Constants DEF BaseInv, TypeOK
<1>2. /\ Calls' /\ Once'
      /\ pc'[p] = "free" /\ \A q \in Procs : q # p => pc'[q] = pc[q]
      /\ \A q \in Procs : /\ Queued(q)' <=> Queued(q)
                          /\ Posted(q)' <=> Posted(q)
                          /\ Running(q)' <=> Running(q)
  BY <1>0, GoesOn DEF Claim
<1>3. /\ wakee'[p] = x /\ \A y \in All : y # p => wakee'[y] = wakee[y]
      /\ pc'[p] = "free" /\ \A y \in All : y # p => pc'[y] = pc[y]
      /\ wakee[p] = NULL /\ \A y \in All : wakee[y] # x
  <2>1. ~ Claimed(x) /\ ~ Scheduled(x)
    BY <1>1 DEF WakeInv, Status, Expected, Ready
  <2>2. \A y \in All : wakee[y] # x
    BY <1>1, <2>1 DEF WakeInv, Wakers, Claimed, Scheduled
  <2>. QED BY <1>0, <1>1, <2>2 DEF Claim, WakeInv, Wakers
<1>4. Wakers'
  BY <1>1, <1>3 DEF WakeInv, Wakers
<1>5. /\ \A q \in Procs : Scheduled(q)' <=> Scheduled(q)
      /\ \A q \in Procs : Claimed(q)' <=> Claimed(q) \/ q = x
  <2>1. \A q \in Procs : Scheduled(q)' <=> Scheduled(q)
    BY <1>0, <1>1, <1>3 DEF Scheduled
  <2>2. \A q \in Procs : Claimed(q)' <=> Claimed(q) \/ q = x
    BY <1>0, <1>1, <1>3 DEF Claimed
  <2>. QED BY <2>1, <2>2
<1>6. waiting' = waiting \ {x} /\ UNCHANGED sched_state
  BY DEF Claim
<1>7. x # p
  BY <1>0, <1>1 DEF Status, Expected
<1>8. ASSUME NEW q \in Procs PROVE Status(q)'
  <2>1. Status(q)
    BY DEF WakeInv
  <2>2. CASE q = p
    BY <1>0, <1>1, <1>2, <1>5, <1>6, <1>7, <2>2 DEF Status, Expected, Ready
  <2>3. CASE q # p
    BY <1>2, <1>5, <1>6, <2>1, <2>3 DEF Status, Expected, Ready
  <2>. QED BY <2>2, <2>3
<1>. QED BY <1>2, <1>4, <1>8 DEF WakeInv

(* The exchange that makes the process ready.                              *)
LEMMA FreeWakes ==
  ASSUME BaseInv, WakeInv, NEW p \in Procs, Free(p)
  PROVE  WakeInv'
<1> DEFINE x == wakee[p]
           l == IF sched_state[x] = "WAITING" THEN "schedule" ELSE "run"
<1>0. /\ Runs(p) /\ pc[p] = "free" /\ l \in PCs
      /\ pc' = [pc EXCEPT ![p] = l]
      /\ UNCHANGED <<current, rdyQues, ipQues, kernel, waiting>>
  BY DEF Free, PCs
<1>1. /\ Running(p) /\ Procs \subseteq All /\ Status(p) /\ p \in All
      /\ x \in Procs /\ NULL \notin Procs /\ pc \in [All -> PCs]
      /\ sched_state \in [All -> SchedStates]
      /\ wakee \in [All -> Procs \cup {NULL}]
  BY <1>0, AtWork, Constants DEF BaseInv, TypeOK, Steady
<1>2. /\ Calls' /\ Once'
      /\ pc'[p] = l /\ \A q \in Procs : q # p => pc'[q] = pc[q]
      /\ \A q \in Procs : /\ Queued(q)' <=> Queued(q)
                          /\ Posted(q)' <=> Posted(q)
                          /\ Running(q)' <=> Running(q)
  <2> HIDE DEF l
  <2>. QED BY <1>0, GoesOn
<1>3. /\ sched_state'[x] = "READY"
      /\ \A q \in Procs : q # x => sched_state'[q] = sched_state[q]
  BY <1>1 DEF Free
<1>4. Claimed(x) /\ x # p /\ Status(x)
  BY <1>0, <1>1 DEF Claimed, Status, Expected, WakeInv
<1>5. /\ Wakers'
      /\ \A q \in Procs : Claimed(q)' <=> Claimed(q) /\ q # x
      /\ \A q \in Procs :
           Scheduled(q)' <=> Scheduled(q) \/ (q = x /\ sched_state[x] = "WAITING")
  <2>1. CASE sched_state[x] = "WAITING"
    <3>1. /\ UNCHANGED wakee /\ pc'[p] = "schedule"
          /\ \A y \in All : y # p => pc'[y] = pc[y]
          /\ \A y \in All : wakee[y] = x => y = p
      BY <1>0, <1>1, <2>1 DEF Free, WakeInv, Wakers
    <3>2. Wakers'
      BY <1>0, <3>1 DEF WakeInv, Wakers
    <3>3. \A q \in Procs : Claimed(q)' <=> Claimed(q) /\ q # x
      BY <1>0, <1>1, <3>1 DEF Claimed
    <3>4. \A q \in Procs : Scheduled(q)' <=> Scheduled(q) \/ q = x
      BY <1>0, <1>1, <3>1 DEF Scheduled
    <3>. QED BY <2>1, <3>2, <3>3, <3>4
  <2>2. CASE sched_state[x] # "WAITING"
    <3>1. pc' = [pc EXCEPT ![p] = "run"] /\ wakee' = [wakee EXCEPT ![p] = NULL]
      BY <2>2 DEF Free
    <3>2. /\ Wakers'
          /\ \A q \in Procs : Scheduled(q)' <=> Scheduled(q) /\ q # x
          /\ \A q \in Procs : Claimed(q)' <=> Claimed(q) /\ q # x
      BY <1>0, <1>1, <3>1, WakesNoMore DEF WakeInv
    <3>3. ~ Scheduled(x)
      BY <1>4 DEF Status, Expected, Ready
    <3>. QED BY <2>2, <3>2, <3>3
  <2>. QED BY <2>1, <2>2
<1>6. ASSUME NEW q \in Procs PROVE Status(q)'
  <2>1. Status(q)
    BY DEF WakeInv
  <2>2. CASE q = p
    BY <1>0, <1>1, <1>2, <1>3, <1>4, <1>5, <2>2 DEF Status, Expected, Ready
  <2>3. CASE q = x
    <3>1. pc'[x] = pc[x] /\ pc[x] \in PCs
      BY <1>1, <1>2, <1>4
    <3>. QED
      BY <1>0, <1>2, <1>3, <1>4, <1>5, <2>3, <3>1 DEF Status, Expected, Ready, PCs
  <2>4. CASE q # p /\ q # x
    BY <1>0, <1>2, <1>3, <1>5, <2>1, <2>4 DEF Status, Expected, Ready
  <2>. QED BY <2>2, <2>3, <2>4
<1>. QED BY <1>2, <1>5, <1>6 DEF WakeInv

(* Among equals schedule0 does not switch.                                 *)
LEMMA JustQueues ==
  ASSUME Level, NEW u \in Puns, NEW x \in All, Place[x] = u,
         current[u] \in Procs, Place[current[u]] = u, schedule0(u, x)
  PROVE  UNCHANGED current /\ Enqueue(u, x)
<1>1. ~ pri_gt(x, current[u]) /\ Pri[x] \in Nat /\ Pri[current[u]] \in Nat
  BY Constants DEF Level
<1>2. pri_le(x, current[u])
  BY <1>1 DEF pri_gt, pri_le
<1>. QED BY <1>2 DEF schedule0

(* schedule of a process of the same processor.                            *)
LEMMA LocalWakes ==
  ASSUME Level, BaseInv, WakeInv, NEW p \in Procs, ScheduleLocal(p)
  PROVE  WakeInv'
<1> DEFINE x == wakee[p]
           u == Place[p]
<1>0. /\ Runs(p) /\ pc[p] = "schedule" /\ Place[x] = u
      /\ pc' = [pc EXCEPT ![p] = "run"] /\ wakee' = [wakee EXCEPT ![p] = NULL]
      /\ UNCHANGED <<ipQues, kernel, waiting, sched_state>>
      /\ schedule0(u, x)
  BY DEF ScheduleLocal
<1>1. /\ Running(p) /\ Procs \subseteq All /\ Status(p) /\ p \in All /\ u \in Puns
      /\ x \in Procs /\ pc \in [All -> PCs] /\ kernel[p] = "none"
  BY <1>0, AtWork, Constants DEF BaseInv, TypeOK, Steady
<1>2. Scheduled(x) /\ x # p /\ Status(x) /\ ~ Queued(x)
  BY <1>0, <1>1 DEF Scheduled, Status, WakeInv
<1>3. UNCHANGED current /\ Enqueue(u, x)
  BY <1>0, <1>1, JustQueues DEF Running
<1>4. /\ Range(rdyQues'[u]) = Range(rdyQues[u]) \cup {x}
      /\ IsInjective(rdyQues'[u])
      /\ \A w \in Puns : w # u => rdyQues'[w] = rdyQues[w]
  BY <1>0, <1>1, <1>2, <1>3, Joins DEF WakeInv, Queued
<1>5. /\ Wakers'
      /\ \A q \in Procs : Scheduled(q)' <=> Scheduled(q) /\ q # x
      /\ \A q \in Procs : Claimed(q)' <=> Claimed(q) /\ q # x
  BY <1>0, <1>1, WakesNoMore DEF WakeInv
<1>6. pc'[p] = "run" /\ \A y \in All : y # p => pc'[y] = pc[y]
  BY <1>0, <1>1
<1>7. Calls'
  BY <1>0, <1>1, <1>3, <1>6 DEF WakeInv, Calls, Running
<1>8. Once'
  BY <1>0, <1>1, <1>3, <1>4 DEF WakeInv, Once
<1>9. /\ \A q \in Procs : Queued(q)' <=> Queued(q) \/ q = x
      /\ \A q \in Procs : Posted(q)' <=> Posted(q)
      /\ \A q \in Procs : Running(q)' <=> Running(q)
  BY <1>0, <1>1, <1>3, <1>4, Constants DEF Queued, Posted, Running
<1>10. ASSUME NEW q \in Procs PROVE Status(q)'
  <2>1. Status(q)
    BY DEF WakeInv
  <2>2. CASE q = p
    BY <1>0, <1>1, <1>2, <1>5, <1>6, <1>9, <2>2 DEF Status, Expected, Ready
  <2>3. CASE q = x
    <3>1. pc'[x] = pc[x]
      BY <1>1, <1>2, <1>6
    <3>. QED BY <1>0, <1>2, <1>5, <1>9, <2>3, <3>1 DEF Status, Expected, Ready
  <2>4. CASE q # p /\ q # x
    BY <1>0, <1>1, <1>5, <1>6, <1>9, <2>1, <2>4 DEF Status, Expected, Ready
  <2>. QED BY <2>2, <2>3, <2>4
<1>. QED BY <1>5, <1>7, <1>8, <1>10 DEF WakeInv

(* ipq_add, for a process of another processor.                            *)
LEMMA PostWakes ==
  ASSUME BaseInv, WakeInv, NEW p \in Procs, IpqAdd(p)
  PROVE  WakeInv'
<1> DEFINE x == wakee[p]
           u == Place[x]
<1>0. /\ RunsIn(p, "ipq_add") /\ pc[p] = "schedule"
      /\ pc' = [pc EXCEPT ![p] = "run"] /\ wakee' = [wakee EXCEPT ![p] = NULL]
      /\ kernel' = [kernel EXCEPT ![p] = "none"]
      /\ ipQues' = [ipQues EXCEPT ![u] = Append(@, x)]
      /\ UNCHANGED <<current, rdyQues, waiting, sched_state>>
  BY Constants DEF IpqAdd, BaseInv, Steady, RunsIn
<1>1. /\ Running(p) /\ Procs \subseteq All /\ Status(p) /\ p \in All
      /\ x \in Procs /\ u \in Puns /\ pc \in [All -> PCs] /\ kernel \in [All -> Kernels]
      /\ ipQues \in [Puns -> Seq(All)]
  BY <1>0, Constants DEF BaseInv, TypeOK, Steady, WakeInv, RunsIn, Running
<1>2. Scheduled(x) /\ x # p /\ Status(x) /\ ~ Posted(x) /\ ~ Queued(x)
  BY <1>0, <1>1 DEF Scheduled, Status, WakeInv
<1>3. /\ Range(ipQues'[u]) = Range(ipQues[u]) \cup {x}
      /\ IsInjective(ipQues'[u])
      /\ \A w \in Puns : w # u => ipQues'[w] = ipQues[w]
  <2>1. ipQues[u] \in Seq(All) /\ x \in All /\ IsInjective(ipQues[u]) /\ x \notin Range(ipQues[u])
    BY <1>1, <1>2 DEF WakeInv, Once, Posted
  <2>2. /\ Range(Append(ipQues[u], x)) = Range(ipQues[u]) \cup {x}
        /\ IsInjective(Append(ipQues[u], x))
    BY <2>1, AppendRange
  <2>. QED BY <1>0, <1>1, <2>2
<1>4. /\ Wakers'
      /\ \A q \in Procs : Scheduled(q)' <=> Scheduled(q) /\ q # x
      /\ \A q \in Procs : Claimed(q)' <=> Claimed(q) /\ q # x
  BY <1>0, <1>1, WakesNoMore DEF WakeInv
<1>5. /\ pc'[p] = "run" /\ \A y \in All : y # p => pc'[y] = pc[y]
      /\ kernel'[p] = "none" /\ \A y \in All : y # p => kernel'[y] = kernel[y]
  BY <1>0, <1>1
<1>6. Calls'
  BY <1>0, <1>1, <1>5 DEF WakeInv, Calls, Running
<1>7. Once'
  BY <1>0, <1>1, <1>3 DEF WakeInv, Once
<1>8. /\ \A q \in Procs : Queued(q)' <=> Queued(q)
      /\ \A q \in Procs : Posted(q)' <=> Posted(q) \/ q = x
      /\ \A q \in Procs : Running(q)' <=> Running(q)
  BY <1>0, <1>1, <1>3, Constants DEF Queued, Posted, Running
<1>9. ASSUME NEW q \in Procs PROVE Status(q)'
  <2>1. Status(q)
    BY DEF WakeInv
  <2>2. CASE q = p
    BY <1>0, <1>1, <1>2, <1>4, <1>5, <1>8, <2>2 DEF Status, Expected, Ready
  <2>3. CASE q = x
    <3>1. pc'[x] = pc[x]
      BY <1>1, <1>2, <1>5
    <3>. QED BY <1>0, <1>2, <1>4, <1>8, <2>3, <3>1 DEF Status, Expected, Ready
  <2>4. CASE q # p /\ q # x
    BY <1>0, <1>1, <1>4, <1>5, <1>8, <2>1, <2>4 DEF Status, Expected, Ready
  <2>. QED BY <2>2, <2>3, <2>4
<1>. QED BY <1>4, <1>6, <1>7, <1>9 DEF WakeInv

-----------------------------------------------------------------------------
(* Handlers and switches.                                                  *)

(* A handler makes a process of its processor ready.                       *)
LEMMA HandlerWakes ==
  ASSUME BaseInv, WakeInv, NEW p \in All, NEW x \in waiting, IntrWake(p, x)
  PROVE  WakeInv'
<1> DEFINE u == Place[p]
           found == sched_state[x] = "WAITING"
<1>0. /\ Place[x] = u /\ waiting' = waiting \ {x}
      /\ sched_state' = [sched_state EXCEPT ![x] = "READY"]
      /\ found => Enqueue(u, x)
      /\ ~ found => UNCHANGED rdyQues
      /\ UNCHANGED <<current, ipQues, pc, kernel, wakee>>
  BY DEF IntrWake
<1>1. /\ x \in Procs /\ x \in All /\ u \in Puns /\ Procs \subseteq All /\ pc \in [All -> PCs]
      /\ sched_state \in [All -> SchedStates] /\ Status(x)
  BY Constants DEF BaseInv, TypeOK, WakeInv
<1>2. ~ Queued(x) /\ ~ Posted(x) /\ ~ Scheduled(x) /\ ~ Claimed(x)
  BY <1>1 DEF Status, Expected, Ready
<1>3. /\ Range(rdyQues'[u]) = IF found THEN Range(rdyQues[u]) \cup {x} ELSE Range(rdyQues[u])
      /\ IsInjective(rdyQues'[u])
      /\ \A w \in Puns : w # u => rdyQues'[w] = rdyQues[w]
  <2>1. CASE found
    BY <1>0, <1>1, <1>2, <2>1, Joins DEF WakeInv, Queued
  <2>2. CASE ~ found
    BY <1>0, <1>1, <2>2 DEF WakeInv, Once
  <2>. QED BY <2>1, <2>2
<1>4. Wakers' /\ Calls'
  BY <1>0 DEF WakeInv, Wakers, Calls, Running
<1>5. Once'
  BY <1>0, <1>1, <1>3 DEF WakeInv, Once
<1>6. /\ \A q \in Procs : Queued(q)' <=> Queued(q) \/ (q = x /\ found)
      /\ \A q \in Procs : Posted(q)' <=> Posted(q)
      /\ \A q \in Procs : Running(q)' <=> Running(q)
      /\ \A q \in Procs : Scheduled(q)' <=> Scheduled(q)
      /\ \A q \in Procs : Claimed(q)' <=> Claimed(q)
  <2>1. \A q \in Procs : Queued(q)' <=> Queued(q) \/ (q = x /\ found)
    BY <1>0, <1>1, <1>3, Constants DEF Queued
  <2>. QED BY <1>0, <2>1 DEF Posted, Running, Scheduled, Claimed
<1>7. /\ sched_state'[x] = "READY"
      /\ \A q \in Procs : q # x => sched_state'[q] = sched_state[q]
  BY <1>0, <1>1
<1>8. ASSUME NEW q \in Procs PROVE Status(q)'
  <2>1. Status(q) /\ pc[q] \in PCs
    BY <1>1 DEF WakeInv
  <2>2. CASE q = x
    BY <1>0, <1>2, <1>6, <1>7, <2>1, <2>2 DEF Status, Expected, Ready, PCs
  <2>3. CASE q # x
    BY <1>0, <1>6, <1>7, <2>1, <2>3 DEF Status, Expected, Ready
  <2>. QED BY <2>2, <2>3
<1>. QED BY <1>4, <1>5, <1>8 DEF WakeInv

(* A process that is fetched from the interprocessor queue and queued.     *)
LEMMA FetchWakes ==
  ASSUME BaseInv, WakeInv, NEW u \in Puns, ipQues[u] # << >>,
         ipQues' = [ipQues EXCEPT ![u] = Tail(@)], Enqueue(u, Head(ipQues[u])),
         UNCHANGED <<current, sched_state, waiting, pc, wakee>>
  PROVE  Wakers' /\ Once' /\ \A q \in Procs : Status(q)'
<1> DEFINE x == Head(ipQues[u])
<1>1. /\ x \in Range(ipQues[u])
      /\ x \in Procs /\ Place[x] = u
      /\ Range(ipQues'[u]) = Range(ipQues[u]) \ {x}
      /\ IsInjective(ipQues'[u])
      /\ \A w \in Puns : w # u => ipQues'[w] = ipQues[w]
  BY Fetched DEF WakeInv
<1> HIDE DEF x
<1>2. Posted(x) /\ ~ Queued(x) /\ Status(x) /\ x \in All
  BY <1>1, Constants DEF Posted, WakeInv, Status
<1>3. /\ Range(rdyQues'[u]) = Range(rdyQues[u]) \cup {x}
      /\ IsInjective(rdyQues'[u])
      /\ \A w \in Puns : w # u => rdyQues'[w] = rdyQues[w]
  BY <1>1, <1>2, Joins DEF WakeInv, Queued, x
<1>4. Wakers'
  BY DEF WakeInv, Wakers
<1>5. Once'
  BY <1>1, <1>3 DEF WakeInv, Once
<1>6. /\ \A q \in Procs : Queued(q)' <=> Queued(q) \/ q = x
      /\ \A q \in Procs : Posted(q)' <=> Posted(q) /\ q # x
      /\ \A q \in Procs : Running(q)' <=> Running(q)
      /\ \A q \in Procs : Scheduled(q)' <=> Scheduled(q)
      /\ \A q \in Procs : Claimed(q)' <=> Claimed(q)
  <2>1. \A q \in Procs : Place[q] \in Puns
    BY Constants
  <2>2. \A q \in Procs : Queued(q)' <=> Queued(q) \/ q = x
    BY <1>1, <1>3, <2>1 DEF Queued
  <2>3. \A q \in Procs : Posted(q)' <=> Posted(q) /\ q # x
    BY <1>1, <2>1 DEF Posted
  <2>. QED BY <2>2, <2>3 DEF Running, Scheduled, Claimed
<1>7. ASSUME NEW q \in Procs PROVE Status(q)'
  <2>1. Status(q)
    BY DEF WakeInv
  <2>. QED BY <1>2, <1>6, <2>1 DEF Status, Expected, Ready
<1>. QED BY <1>4, <1>5, <1>7

(* The process p gives the processor to the head of its queue and is       *)
(* queued again.                                                           *)
LEMMA RotateWakes ==
  ASSUME BaseInv, WakeInv, NEW p \in All, Running(p), rdyQues[Place[p]] # << >>,
         p \notin Range(rdyQues[Place[p]]), pc[p] \notin {"relinquish", "disable"},
         Dispatch(Place[p], Head(rdyQues[Place[p]])),
         rdyQues' = [rdyQues EXCEPT ![Place[p]] = enqueue0(Tail(@), p)],
         NEW k \in {"none", "resumed"}, kernel' = [kernel EXCEPT ![p] = k],
         p \in Procs => k = "none",
         UNCHANGED <<ipQues, sched_state, waiting, pc, wakee>>
  PROVE  WakeInv'
<1> DEFINE u == Place[p]
           x == Head(rdyQues[u])
<1>1. /\ u \in Puns /\ Procs \subseteq All /\ x \in All /\ Place[x] = u
      /\ current \in [Puns -> All] /\ kernel \in [All -> Kernels]
      /\ \A q \in All : Place[q] \in Puns
  BY Constants, RotateEffect DEF BaseInv, TypeOK
<1>2. /\ x \in Range(rdyQues[u])
      /\ Range(rdyQues'[u]) = (Range(rdyQues[u]) \ {x}) \cup {p}
      /\ IsInjective(rdyQues'[u])
      /\ \A w \in Puns : w # u => rdyQues'[w] = rdyQues[w]
  BY Rotates DEF WakeInv
<1>3. x # p
  BY <1>2
<1>4. current'[u] = x /\ \A w \in Puns : w # u => current'[w] = current[w]
  BY <1>1 DEF Dispatch
<1>5. kernel'[p] = k /\ \A y \in All : y # p => kernel'[y] = kernel[y]
  BY <1>1
<1> HIDE DEF x
<1>6. /\ \A q \in Procs : Running(q)' <=> (Running(q) /\ q # p) \/ q = x
      /\ \A q \in Procs : Queued(q)' <=> (Queued(q) /\ q # x) \/ q = p
      /\ \A q \in Procs : /\ Posted(q)' <=> Posted(q)
                          /\ Scheduled(q)' <=> Scheduled(q)
                          /\ Claimed(q)' <=> Claimed(q)
  <2>1. \A q \in Procs : Running(q)' <=> (Running(q) /\ q # p) \/ q = x
    BY <1>1, <1>3, <1>4 DEF Running
  <2>2. \A q \in Procs : Queued(q)' <=> (Queued(q) /\ q # x) \/ q = p
    BY <1>1, <1>2, <1>3 DEF Queued
  <2>. QED BY <2>1, <2>2 DEF Posted, Scheduled, Claimed
<1>7. Calls'
  <2>1. ASSUME NEW q \in Procs, q # p, kernel[q] # "none" PROVE Running(q)'
    BY <1>6, <2>1 DEF WakeInv, Calls
  <2>. QED BY <1>1, <1>5, <2>1 DEF WakeInv, Calls
<1>8. Wakers'
  BY DEF WakeInv, Wakers
<1>9. Once'
  BY <1>1, <1>2, <1>3, <1>4 DEF WakeInv, Once
<1>10. ASSUME NEW q \in Procs PROVE Status(q)'
  <2>1. Status(q)
    BY DEF WakeInv
  <2>2. CASE q = p
    <3>1. pc[p] \in PCs
      BY DEF BaseInv, TypeOK
    <3>. QED BY <1>3, <1>6, <2>1, <2>2, <3>1 DEF Status, Expected, Ready, PCs
  <2>3. CASE q = x
    <3>1. Queued(q) /\ ~ Running(q)
      BY <1>1, <1>2, <1>3, <2>3 DEF Queued, Running
    <3>. QED BY <1>3, <1>6, <2>1, <2>3, <3>1 DEF Status, Expected, Ready
  <2>4. CASE q # p /\ q # x
    BY <1>6, <2>1, <2>4 DEF Status, Expected, Ready
  <2>. QED BY <2>2, <2>3, <2>4
<1>. QED BY <1>7, <1>8, <1>9, <1>10 DEF WakeInv

(* The switch of relinquish, to the process itself if it was woken since.  *)
LEMMA SwitchWakes ==
  ASSUME BaseInv, WakeInv, NEW p \in All, Switch(p)
  PROVE  WakeInv'
<1> DEFINE u == Place[p]
           x == Head(rdyQues[u])
<1>0. /\ RunsIn(p, "take") /\ rdyQues[u] # << >> /\ Dispatch(u, x)
      /\ rdyQues' = [rdyQues EXCEPT ![u] = Tail(@)]
      /\ pc' = [pc EXCEPT ![p] = "run"] /\ kernel' = [kernel EXCEPT ![p] = "none"]
      /\ UNCHANGED <<ipQues, sched_state, waiting, wakee>>
  BY DEF Switch
<1>1. /\ u \in Puns /\ Procs \subseteq All /\ x \in All /\ Place[x] = u
      /\ current \in [Puns -> All] /\ kernel \in [All -> Kernels] /\ pc \in [All -> PCs]
      /\ \A q \in All : Place[q] \in Puns
  BY <1>0, Constants, TakeEffect DEF BaseInv, TypeOK
<1>2. p \in Procs /\ pc[p] = "disable" /\ Running(p) /\ "run" \in PCs
  BY <1>0 DEF RunsIn, Running, WakeInv, Calls, PCs
<1>3. /\ x \in Range(rdyQues[u])
      /\ Range(rdyQues'[u]) = Range(rdyQues[u]) \ {x}
      /\ IsInjective(rdyQues'[u])
      /\ \A w \in Puns : w # u => rdyQues'[w] = rdyQues[w]
  BY <1>0, <1>1, Leaves DEF WakeInv
<1>4. current'[u] = x /\ \A w \in Puns : w # u => current'[w] = current[w]
  BY <1>0, <1>1 DEF Dispatch
<1>5. /\ kernel'[p] = "none" /\ \A y \in All : y # p => kernel'[y] = kernel[y]
      /\ pc'[p] = "run" /\ \A y \in All : y # p => pc'[y] = pc[y]
  BY <1>0, <1>1
<1>6. /\ Wakers'
      /\ \A q \in Procs : Scheduled(q)' <=> Scheduled(q)
      /\ \A q \in Procs : Claimed(q)' <=> Claimed(q)
  BY <1>0, <1>2, WakesNobody DEF WakeInv
<1> HIDE DEF x
<1>7. /\ \A q \in Procs : Running(q)' <=> (Running(q) /\ q # p) \/ q = x
      /\ \A q \in Procs : Queued(q)' <=> Queued(q) /\ q # x
      /\ \A q \in Procs : Posted(q)' <=> Posted(q)
  <2>1. \A q \in Procs : Running(q)' <=> (Running(q) /\ q # p) \/ q = x
    BY <1>1, <1>2, <1>4 DEF Running
  <2>2. \A q \in Procs : Queued(q)' <=> Queued(q) /\ q # x
    BY <1>1, <1>3 DEF Queued
  <2>. QED BY <1>0, <2>1, <2>2 DEF Posted
<1>8. Calls'
  <2>1. ASSUME NEW q \in Procs, q # p, kernel[q] # "none" PROVE Running(q)'
    BY <1>7, <2>1 DEF WakeInv, Calls
  <2>. QED BY <1>1, <1>5, <2>1 DEF WakeInv, Calls
<1>9. Once'
  BY <1>0, <1>1, <1>3, <1>4 DEF WakeInv, Once
<1>10. ASSUME NEW q \in Procs PROVE Status(q)'
  <2>1. Status(q)
    BY DEF WakeInv
  <2>2. CASE q = p
    <3>1. q = x => Queued(q)
      BY <1>1, <1>3 DEF Queued
    <3>. QED BY <1>0, <1>2, <1>5, <1>6, <1>7, <2>1, <2>2, <3>1 DEF Status, Expected, Ready
  <2>3. CASE q # p /\ q = x
    <3>1. Queued(q) /\ ~ Running(q) /\ pc'[q] = pc[q]
      BY <1>1, <1>2, <1>3, <1>5, <2>3 DEF Queued, Running
    <3>. QED BY <1>0, <1>6, <1>7, <2>1, <2>3, <3>1 DEF Status, Expected, Ready
  <2>4. CASE q # p /\ q # x
    <3>1. pc'[q] = pc[q]
      BY <1>1, <1>5, <2>4
    <3>. QED BY <1>0, <1>6, <1>7, <2>1, <2>4, <3>1 DEF Status, Expected, Ready
  <2>. QED BY <2>2, <2>3, <2>4
<1>. QED BY <1>6, <1>8, <1>9, <1>10 DEF WakeInv

(* One turn of the handler's loop preempts the idle process.               *)
LEMMA HandlerSwitches ==
  ASSUME BaseInv, WakeInv, NEW u \in Puns, ipQues[u] # << >>, current[u] \notin Procs,
         ipQues' = [ipQues EXCEPT ![u] = Tail(@)],
         Dispatch(u, Head(ipQues[u])), Enqueue(u, current[u]),
         kernel' = [kernel EXCEPT ![current[u]] = "resumed"],
         UNCHANGED <<sched_state, waiting, pc, wakee>>
  PROVE  WakeInv'
<1> DEFINE x == Head(ipQues[u])
           p == current[u]
<1>1. /\ p \in All /\ Place[p] = u /\ Procs \subseteq All
      /\ current \in [Puns -> All] /\ kernel \in [All -> Kernels]
      /\ \A q \in All : Place[q] \in Puns
  BY Constants DEF BaseInv, TypeOK, Placed
<1>2. /\ x \in Range(ipQues[u])
      /\ x \in Procs /\ Place[x] = u
      /\ Range(ipQues'[u]) = Range(ipQues[u]) \ {x}
      /\ IsInjective(ipQues'[u])
      /\ \A w \in Puns : w # u => ipQues'[w] = ipQues[w]
  BY Fetched DEF WakeInv
<1>3. p \notin Range(rdyQues[u])
  BY DEF WakeInv, Once
<1>4. /\ Range(rdyQues'[u]) = Range(rdyQues[u]) \cup {p}
      /\ IsInjective(rdyQues'[u])
      /\ \A w \in Puns : w # u => rdyQues'[w] = rdyQues[w]
  BY <1>1, <1>3, Joins DEF WakeInv
<1>5. current'[u] = x /\ \A w \in Puns : w # u => current'[w] = current[w]
  BY <1>1 DEF Dispatch
<1>6. kernel'[p] = "resumed" /\ \A y \in All : y # p => kernel'[y] = kernel[y]
  BY <1>1
<1> HIDE DEF x
<1>7. /\ \A q \in Procs : Running(q)' <=> Running(q) \/ q = x
      /\ \A q \in Procs : Queued(q)' <=> Queued(q)
      /\ \A q \in Procs : Posted(q)' <=> Posted(q) /\ q # x
      /\ \A q \in Procs : Scheduled(q)' <=> Scheduled(q)
      /\ \A q \in Procs : Claimed(q)' <=> Claimed(q)
  <2>1. \A q \in Procs : Running(q)' <=> Running(q) \/ q = x
    BY <1>1, <1>2, <1>5 DEF Running
  <2>2. \A q \in Procs : Queued(q)' <=> Queued(q)
    BY <1>1, <1>4 DEF Queued
  <2>3. \A q \in Procs : Posted(q)' <=> Posted(q) /\ q # x
    BY <1>1, <1>2 DEF Posted
  <2>. QED BY <2>1, <2>2, <2>3 DEF Scheduled, Claimed
<1>8. Calls'
  <2>1. ASSUME NEW q \in Procs, kernel[q] # "none" PROVE Running(q)' /\ q # p
    BY <1>7, <2>1 DEF WakeInv, Calls
  <2>. QED BY <1>1, <1>6, <2>1 DEF WakeInv, Calls
<1>9. Wakers'
  BY DEF WakeInv, Wakers
<1>10. Once'
  BY <1>1, <1>2, <1>4, <1>5 DEF WakeInv, Once
<1>11. ASSUME NEW q \in Procs PROVE Status(q)'
  <2>1. Status(q)
    BY DEF WakeInv
  <2>2. CASE q = x
    <3>1. Posted(q) /\ ~ Running(q)
      BY <1>1, <1>2, <2>2 DEF Posted, Running
    <3>. QED BY <1>7, <2>1, <2>2, <3>1 DEF Status, Expected, Ready
  <2>3. CASE q # x
    BY <1>7, <2>1, <2>3 DEF Status, Expected, Ready
  <2>. QED BY <2>2, <2>3
<1>. QED BY <1>8, <1>9, <1>10, <1>11 DEF WakeInv

-----------------------------------------------------------------------------
(* The invariant, step by step.                                            *)

(* Nobody is preempted at the end of a handler but the idle process.       *)
LEMMA HandlerEnds ==
  ASSUME Level, BaseInv, WakeInv, NEW p \in All, Running(p), schedule_from_interrupt(p),
         UNCHANGED <<current, rdyQues, ipQues, sched_state, waiting, pc, wakee>>
  PROVE  WakeInv'
<1> DEFINE que == rdyQues[Place[p]]
           k == IF que # << >> /\ pri_gt(Head(que), p)
                THEN IF kernel[p] = "resumed" THEN "stale" ELSE "preempt"
                ELSE "none"
<1>1. kernel' = [kernel EXCEPT ![p] = k] /\ k \in Kernels
  BY DEF schedule_from_interrupt, Kernels
<1>2. k \notin {"take", "take1", "ipq_add"}
  OBVIOUS
<1>3. ASSUME p \in Procs PROVE k = "none"
  <2>1. ASSUME que # << >> PROVE ~ pri_gt(Head(que), p)
    <3>1. que \in Seq(All) /\ Place[p] \in Puns
      BY Constants DEF BaseInv, TypeOK
    <3>2. Head(que) \in Range(que) /\ Head(que) \in All
      BY <2>1, <3>1, TailRange
    <3>3. Place[Head(que)] = Place[p]
      BY <3>1, <3>2 DEF BaseInv, Placed
    <3>. QED BY <1>3, <3>2, <3>3 DEF Level
  <2>. QED BY <2>1
<1> HIDE DEF k
<1>4. Calls'
  BY <1>1, <1>2, <1>3, CallsKeep DEF WakeInv
<1>. QED BY <1>4, KernelOnly DEF WakeInv

(* One turn of the handler's loop.                                         *)
LEMMA TurnWakes ==
  ASSUME Level, BaseInv, WakeInv, NEW p \in All, IpiStep(p)
  PROVE  WakeInv'
<1> DEFINE u == Place[p]
           x == Head(ipQues[u])
<1>1. /\ u \in Puns /\ current[u] = p /\ Running(p) /\ Place[p] = u
      /\ ipQues[u] # << >> /\ ipQues' = [ipQues EXCEPT ![u] = Tail(@)]
      /\ schedule0(u, x)
      /\ kernel' = [kernel EXCEPT ![p] = IF current'[u] = p THEN kernel[p] ELSE "resumed"]
      /\ UNCHANGED <<sched_state, waiting, pc, wakee>>
      /\ kernel[p] \in {"ipi", "resumed"}
  BY Constants DEF IpiStep, Handles, RunsIn, Running
<1>2. x \in Procs /\ x \in All /\ Place[x] = u
  BY <1>1, RemoveEffect
<1>3. CASE UNCHANGED current /\ Enqueue(u, x)
  <2>1. kernel' = [kernel EXCEPT ![p] = kernel[p]] /\ kernel[p] \in Kernels
    BY <1>1, <1>3 DEF Kernels
  <2>2. p \in Procs => kernel[p] = "ipi"
    BY <1>1 DEF WakeInv, Calls
  <2>3. Calls'
    BY <1>1, <1>3, <2>1, <2>2, CallsKeep DEF WakeInv
  <2>. QED BY <1>1, <1>3, <2>3, FetchWakes DEF WakeInv
<1>4. CASE Dispatch(u, x) /\ Enqueue(u, current[u]) /\ p \notin Procs
  <2>1. current'[u] = x /\ x # p
    BY <1>1, <1>2, <1>4 DEF Dispatch, BaseInv, TypeOK
  <2>2. kernel' = [kernel EXCEPT ![current[u]] = "resumed"]
    BY <1>1, <2>1
  <2>. QED BY <1>1, <1>4, <2>2, HandlerSwitches
<1>5. p \in Procs => UNCHANGED current /\ Enqueue(u, x)
  BY <1>1, <1>2, JustQueues
<1>. QED BY <1>1, <1>3, <1>4, <1>5 DEF schedule0

(* A step of a process that is in the kernel, or goes into it.             *)
LEMMA KernelWakes ==
  ASSUME Level, BaseInv, WakeInv, NEW p \in All, KernelStep(p)
  PROVE  WakeInv'
<1>0. Place[p] \in Puns
  BY Constants
<1>1. CASE Drain(p)
  <2>1. Calls'
    BY <1>1 DEF Drain, WakeInv, Calls, Running
  <2>. QED BY <1>0, <1>1, <2>1, FetchWakes DEF WakeInv, Drain
<1>2. CASE Switch(p)
  BY <1>2, SwitchWakes
<1>3. CASE YieldSwitch(p)
  <2>1. /\ RunsIn(p, "take1") /\ kernel' = [kernel EXCEPT ![p] = "none"] /\ Running(p)
        /\ UNCHANGED <<ipQues, sched_state, waiting, pc, wakee>>
    BY <1>3 DEF YieldSwitch, RunsIn, Running
  <2>2. p \in Procs /\ pc[p] \in {"run", "publish"}
    BY <2>1 DEF RunsIn, WakeInv, Calls
  <2>3. CASE Len(rdyQues[Place[p]]) >= 2
    <3>1. rdyQues[Place[p]] # << >>
      BY <1>0, <2>3 DEF BaseInv, TypeOK
    <3>2. p \notin Range(rdyQues[Place[p]])
      BY <2>1, <2>2 DEF WakeInv, Status, Ready, Queued
    <3>. QED BY <1>3, <2>1, <2>2, <2>3, <3>1, <3>2, RotateWakes DEF YieldSwitch
  <2>4. CASE ~ (Len(rdyQues[Place[p]]) >= 2)
    <3>1. UNCHANGED <<current, rdyQues>>
      BY <1>3, <2>4 DEF YieldSwitch
    <3>2. Calls'
      BY <2>1, <2>2, <3>1, CallsKeep DEF WakeInv, Kernels
    <3>. QED BY <2>1, <3>1, <3>2, KernelOnly DEF WakeInv
  <2>. QED BY <2>3, <2>4
<1>4. CASE IpqAdd(p)
  <2>1. p \in Procs
    BY <1>4 DEF IpqAdd, RunsIn, WakeInv, Calls
  <2>. QED BY <1>4, <2>1, PostWakes
<1>5. CASE Preempt(p)
  <2>1. PICK k \in {"none", "resumed"} : kernel' = [kernel EXCEPT ![p] = k]
    BY <1>5 DEF Preempt
  <2>2. Running(p) /\ kernel[p] \in {"preempt", "stale"}
    BY <1>5 DEF Preempt, RunsIn, Running
  <2>3. p \notin Procs /\ pc[p] = "run"
    BY <2>2 DEF WakeInv, Calls
  <2>4. p \notin Range(rdyQues[Place[p]])
    BY <1>0, <2>2, <2>3 DEF WakeInv, Once, Running
  <2>5. rdyQues[Place[p]] # << >>
    BY <2>2 DEF BaseInv, Steady
  <2>. QED BY <1>5, <2>1, <2>2, <2>3, <2>4, <2>5, RotateWakes DEF Preempt
<1>6. CASE IpiEnter(p)
  <2>1. Calls'
    BY <1>6, CallsKeep DEF IpiEnter, WakeInv, Kernels, Runs, Running
  <2>. QED BY <1>6, <2>1, KernelOnly DEF WakeInv, IpiEnter
<1>7. CASE IpiStep(p)
  BY <1>7, TurnWakes
<1>8. CASE IpiDone(p)
  BY <1>8, HandlerEnds DEF IpiDone, Handles, RunsIn, Running
<1>9. CASE IntrEnter(p)
  <2>1. Calls'
    BY <1>9, CallsKeep DEF IntrEnter, WakeInv, Kernels, Runs, Running
  <2>. QED BY <1>9, <2>1, KernelOnly DEF WakeInv, IntrEnter
<1>10. CASE \E x \in waiting : IntrWake(p, x)
  BY <1>10, HandlerWakes
<1>11. CASE IntrDone(p)
  BY <1>11, HandlerEnds DEF IntrDone, RunsIn, Running
<1>. QED BY <1>1, <1>2, <1>3, <1>4, <1>5, <1>6, <1>7, <1>8, <1>9, <1>10, <1>11 DEF KernelStep

(* A step of a process of the application.                                 *)
LEMMA AppWakes ==
  ASSUME Level, BaseInv, WakeInv, NEW p \in Procs, AppStep(p)
  PROVE  WakeInv'
<1>0. p \in All
  BY Constants
<1>1. CASE Disable(p)
  <2>1. Calls'
    BY <1>0, <1>1, CallsKeep DEF Disable, WakeInv, Kernels, Runs, Running
  <2>. QED BY <1>1, <2>1, KernelOnly DEF WakeInv, Disable
<1>2. CASE Yield(p)
  <2>1. Calls'
    BY <1>0, <1>2, CallsKeep DEF Yield, WakeInv, Kernels, Runs, Running
  <2>. QED BY <1>2, <2>1, KernelOnly DEF WakeInv, Yield
<1>3. CASE ScheduleRemote(p)
  <2>1. Calls'
    BY <1>0, <1>3, CallsKeep DEF ScheduleRemote, WakeInv, Kernels, Runs, Running
  <2>. QED BY <1>3, <2>1, KernelOnly DEF WakeInv, ScheduleRemote
<1>4. CASE \E x \in waiting : Claim(p, x)
  BY <1>4, ClaimWakes
<1>. QED
  BY <1>1, <1>2, <1>3, <1>4, PrepareWakes, PublishWakes, RelinquishWakes, FreeWakes,
     LocalWakes DEF AppStep

(* Every step keeps the invariant.                                         *)
LEMMA WakeNext == Level /\ BaseInv /\ WakeInv /\ [Next]_vars => WakeInv'
<1> SUFFICES ASSUME Level, BaseInv, WakeInv, [Next]_vars PROVE WakeInv'
  OBVIOUS
<1>1. CASE UNCHANGED vars
  <2>1. Calls'
    BY <1>1 DEF vars, WakeInv, Calls, Running
  <2>. QED BY <1>1, <2>1, KernelOnly DEF vars, WakeInv
<1>. QED BY <1>1, AppWakes, KernelWakes DEF Next

(* The processes are created ready, each once.                             *)
LEMMA WakeInit == Init => WakeInv
<1> SUFFICES ASSUME Init PROVE WakeInv
  OBVIOUS
<1>0. /\ Procs \subseteq All /\ \A q \in All : Place[q] \in Puns
      /\ \A x \in All : pc[x] = "run" /\ kernel[x] = "none" /\ wakee[x] = NULL
      /\ waiting = {}
  BY Constants DEF Init
<1>1. ASSUME NEW u \in Puns
      PROVE  /\ IsInjective(rdyQues[u])
             /\ current[u] \notin Range(rdyQues[u])
             /\ \A q \in All : Place[q] = u => q = current[u] \/ q \in Range(rdyQues[u])
  <2> DEFINE s == Created[u]
  <2>1. /\ s \in Seq(All) /\ IsInjective(s) /\ Idle[u] \in Range(s)
        /\ \A q \in All : Place[q] = u => q \in Range(s)
    BY CreatedAssumption, Constants
  <2>2. s # << >>
    BY <2>1, Elements
  <2>3. current[u] = Head(s) /\ rdyQues[u] = Tail(s)
    BY DEF Init
  <2> HIDE DEF s
  <2>. QED BY <2>1, <2>2, <2>3, TailRange
<1>2. ASSUME NEW u \in Puns PROVE ipQues[u] = << >> /\ IsInjective(<< >>) /\ Range(<< >>) = {}
  BY DEF Init, IsInjective, Range
<1>3. Calls
  BY <1>0 DEF Calls
<1>4. Wakers
  BY <1>0 DEF Wakers
<1>5. Once
  BY <1>1, <1>2 DEF Once
<1>6. ASSUME NEW q \in Procs PROVE Status(q)
  <2>1. ~ Posted(q) /\ ~ Scheduled(q) /\ ~ Expected(q)
    BY <1>0, <1>2, Constants DEF Posted, Scheduled, Expected, Claimed
  <2>2. Running(q) <=> ~ Queued(q)
    BY <1>0, <1>1 DEF Running, Queued
  <2>. QED BY <1>0, <2>1, <2>2 DEF Status, Ready
<1>. QED BY <1>3, <1>4, <1>5, <1>6 DEF WakeInv

(* What the invariant says of wakes.                                       *)
LEMMA WakesKept == BaseInv /\ WakeInv => NeverLost /\ ReadyOnce
<1> SUFFICES ASSUME BaseInv, WakeInv, NEW q \in Procs
             PROVE  /\ \/ Running(q)
                       \/ Ready(q)
                       \/ sched_state[q] = "WAITING" /\ (q \in waiting \/ Claimed(q))
                    /\ IsInjective(rdyQues[Place[q]]) /\ IsInjective(ipQues[Place[q]])
                    /\ ~ (Queued(q) /\ Posted(q))
                    /\ Scheduled(q) => ~ Queued(q) /\ ~ Posted(q)
                    /\ \A p1, p2 \in All : wakee[p1] = q /\ wakee[p2] = q => p1 = p2
                    /\ Ready(q) /\ Running(q) => pc[q] = "disable"
  BY DEF NeverLost, ReadyOnce
<1>1. Status(q) /\ pc[q] \in PCs /\ Place[q] \in Puns /\ NULL \notin Procs
  BY Constants DEF WakeInv, BaseInv, TypeOK
<1>2. \/ Running(q)
      \/ Ready(q)
      \/ sched_state[q] = "WAITING" /\ (q \in waiting \/ Claimed(q))
  BY <1>1 DEF Status, Expected, PCs
<1>3. \A p1, p2 \in All : wakee[p1] = q /\ wakee[p2] = q => p1 = p2
  BY <1>1 DEF WakeInv, Wakers
<1>4. IsInjective(rdyQues[Place[q]]) /\ IsInjective(ipQues[Place[q]])
  BY <1>1 DEF WakeInv, Once
<1>5. Ready(q) /\ Running(q) => pc[q] = "disable"
  BY <1>1 DEF Status, Ready, PCs
<1>. QED BY <1>1, <1>2, <1>3, <1>4, <1>5 DEF Status

(* No wake is lost where nobody but the idle process is preempted: every   *)
(* process is on its processor, ready, or waits where a waker finds it,    *)
(* whatever comes between the exchange of relinquish and the switch        *)
(* (sched.c:416-432), and from whichever processor.                        *)
THEOREM SchedNeverLost == Level => (Spec => []NeverLost)
<1> SUFFICES ASSUME Level PROVE Spec => []NeverLost
  OBVIOUS
<1>1. BaseInv /\ WakeInv /\ [Next]_vars => WakeInv'
  BY WakeNext
<1>2. BaseInv /\ WakeInv => NeverLost
  BY WakesKept
<1>. QED BY <1>1, <1>2, WakeInit, BaseHolds, PTL DEF Spec

(* A process is made ready once for each time it waits (comm.c:54-61),     *)
(* where nobody but the idle process is preempted.                         *)
THEOREM SchedReadyOnce == Level => (Spec => []ReadyOnce)
<1> SUFFICES ASSUME Level PROVE Spec => []ReadyOnce
  OBVIOUS
<1>1. BaseInv /\ WakeInv /\ [Next]_vars => WakeInv'
  BY WakeNext
<1>2. BaseInv /\ WakeInv => ReadyOnce
  BY WakesKept
<1>. QED BY <1>1, <1>2, WakeInit, BaseHolds, PTL DEF Spec
=============================================================================
