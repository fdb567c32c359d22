--------------------------- MODULE HardwareProofs ---------------------------
(***************************************************************************)
(* Proofs about the start of the processors, the signal masks and the      *)
(* clock of Hardware, for any number of processors and processes.          *)
(***************************************************************************)
EXTENDS Hardware, Integers, FunctionTheorems, FiniteSetTheorems, TLAPS

-----------------------------------------------------------------------------
(* Processors, processes and handlers.                                     *)

(* Where the processes belong.                                             *)
LEMMA Places ==
  /\ 0 \in Puns /\ Puns \subseteq Nat
  /\ Main \in Procs /\ Main \notin Apps /\ PlaceOf(Main) = 0
  /\ \A u \in Puns :
       Idle(u) \in Procs /\ Idle(u) \notin Apps /\ PlaceOf(Idle(u)) = u /\ Idle(u) # Main
  /\ \A p \in Procs : PlaceOf(p) \in Puns
  /\ Apps \subseteq Procs
<1>1. NPUN \in Nat /\ NPUN > 0
  BY HardwareAssumption
<1>2. 0 \in Puns /\ Puns \subseteq Nat
  BY <1>1 DEF Puns
<1>3. Main \notin Apps /\ \A u \in Puns : Idle(u) \notin Apps
  BY HardwareAssumption
<1>4. PlaceOf(Main) = 0 /\ \A u \in Puns : PlaceOf(Idle(u)) = u /\ Idle(u) # Main
  BY <1>3 DEF PlaceOf, Main, Idle
<1>5. \A p \in Procs : PlaceOf(p) \in Puns
  BY <1>2, <1>4, HardwareAssumption DEF Procs, PlaceOf
<1>. QED BY <1>2, <1>3, <1>4, <1>5 DEF Procs

\* The interrupts whose signals are sent to one thread, with pthread_kill.
Direct == {"INTERPROC", "USER0", "USER1"}

(* Every processor has four interrupts and the first one the clock, too.   *)
LEMMA HandlersAre ==
  ASSUME NEW u \in Puns
  PROVE  /\ Len(Handlers(u)) = IF u = 0 THEN 5 ELSE 4
         /\ \A i \in 1 .. Len(Handlers(u)) : Handlers(u)[i] \in Intrs
         /\ \A i, j \in 1 .. Len(Handlers(u)) : Handlers(u)[i] = Handlers(u)[j] => i = j
         /\ \A i \in Direct : \E k \in 1 .. Len(Handlers(u)) : Handlers(u)[k] = i
         /\ \E i \in 1 .. Len(Handlers(u)) : Handlers(u)[i] = "TIMEOUT"
         /\ \A i \in 1 .. Len(Handlers(u)) : Handlers(u)[i] = "ELAPSED" <=> u = 0 /\ i = 1
<1>1. CASE u = 0
  <2>1. Handlers(u) = <<"ELAPSED", "TIMEOUT", "INTERPROC", "USER0", "USER1">>
    BY <1>1 DEF Handlers
  <2>2. Len(Handlers(u)) = 5 /\ 1 .. 5 = {1, 2, 3, 4, 5}
    BY <2>1
  <2>3. /\ Handlers(u)[1] = "ELAPSED" /\ Handlers(u)[2] = "TIMEOUT"
        /\ Handlers(u)[3] = "INTERPROC" /\ Handlers(u)[4] = "USER0"
        /\ Handlers(u)[5] = "USER1"
    BY <2>1
  <2>4. \A i \in 1 .. Len(Handlers(u)) : i \in {1, 2, 3, 4, 5}
    BY <2>2
  <2>5. \A i \in 1 .. Len(Handlers(u)) : Handlers(u)[i] \in Intrs
    BY <2>3, <2>4 DEF Intrs, Users
  <2>6. \A i, j \in 1 .. Len(Handlers(u)) : Handlers(u)[i] = Handlers(u)[j] => i = j
    BY <2>3, <2>4
  <2>7. \A i \in Direct : \E k \in 1 .. Len(Handlers(u)) : Handlers(u)[k] = i
    BY <2>2, <2>3 DEF Direct
  <2>8. \A i \in 1 .. Len(Handlers(u)) : Handlers(u)[i] = "ELAPSED" <=> i = 1
    BY <2>3, <2>4
  <2>. QED BY <1>1, <2>2, <2>3, <2>5, <2>6, <2>7, <2>8
<1>2. CASE u # 0
  <2>1. Handlers(u) = <<"TIMEOUT", "INTERPROC", "USER0", "USER1">>
    BY <1>2 DEF Handlers
  <2>2. Len(Handlers(u)) = 4 /\ 1 .. 4 = {1, 2, 3, 4}
    BY <2>1
  <2>3. /\ Handlers(u)[1] = "TIMEOUT" /\ Handlers(u)[2] = "INTERPROC"
        /\ Handlers(u)[3] = "USER0" /\ Handlers(u)[4] = "USER1"
    BY <2>1
  <2>4. \A i \in 1 .. Len(Handlers(u)) : i \in {1, 2, 3, 4}
    BY <2>2
  <2>5. \A i \in 1 .. Len(Handlers(u)) : Handlers(u)[i] \in Intrs
    BY <2>3, <2>4 DEF Intrs, Users
  <2>6. \A i, j \in 1 .. Len(Handlers(u)) : Handlers(u)[i] = Handlers(u)[j] => i = j
    BY <2>3, <2>4
  <2>7. \A i \in Direct : \E k \in 1 .. Len(Handlers(u)) : Handlers(u)[k] = i
    BY <2>2, <2>3 DEF Direct
  <2>8. \A i \in 1 .. Len(Handlers(u)) : Handlers(u)[i] # "ELAPSED"
    BY <2>3, <2>4
  <2>. QED BY <1>2, <2>2, <2>3, <2>5, <2>6, <2>7, <2>8
<1>. QED BY <1>1, <1>2

\* All interrupts of all processors.
AllIntrs == {<<0, "ELAPSED">>} \cup (Puns \X {"TIMEOUT", "INTERPROC", "USER0", "USER1"})

(* There are as many signals as interrupts.                                *)
LEMMA CountIntrs ==
  IsFiniteSet(AllIntrs) /\ Cardinality(AllIntrs) = 4 * NPUN + 1
<1> DEFINE I4 == {"TIMEOUT", "INTERPROC", "USER0", "USER1"}
<1>1. IsFiniteSet(Puns) /\ Cardinality(Puns) = NPUN
  BY HardwareAssumption, FS_Interval DEF Puns
<1>2. IsFiniteSet(I4) /\ Cardinality(I4) = 4
  <2>1. IsFiniteSet({"TIMEOUT"}) /\ Cardinality({"TIMEOUT"}) = 1
    BY FS_Singleton
  <2>2. IsFiniteSet({"TIMEOUT", "INTERPROC"}) /\ Cardinality({"TIMEOUT", "INTERPROC"}) = 2
    <3>1. {"TIMEOUT", "INTERPROC"} = {"TIMEOUT"} \cup {"INTERPROC"}
      OBVIOUS
    <3>. QED BY <2>1, <3>1, FS_AddElement
  <2>3. IsFiniteSet({"TIMEOUT", "INTERPROC", "USER0"})
        /\ Cardinality({"TIMEOUT", "INTERPROC", "USER0"}) = 3
    <3>1. {"TIMEOUT", "INTERPROC", "USER0"} = {"TIMEOUT", "INTERPROC"} \cup {"USER0"}
      OBVIOUS
    <3>. QED BY <2>2, <3>1, FS_AddElement
  <2>4. I4 = {"TIMEOUT", "INTERPROC", "USER0"} \cup {"USER1"}
    OBVIOUS
  <2>. QED BY <2>3, <2>4, FS_AddElement
<1> HIDE DEF I4
<1>3. IsFiniteSet(Puns \X I4) /\ Cardinality(Puns \X I4) = NPUN * 4
  BY <1>1, <1>2, FS_Product
<1>4. <<0, "ELAPSED">> \notin Puns \X I4
  BY DEF I4
<1>5. AllIntrs = (Puns \X I4) \cup {<<0, "ELAPSED">>}
  BY DEF AllIntrs, I4
<1>6. NPUN * 4 \in Nat /\ NPUN * 4 + 1 = 4 * NPUN + 1
  BY HardwareAssumption
<1> HIDE DEF I4
<1>7. IsFiniteSet(AllIntrs) /\ Cardinality(AllIntrs) = NPUN * 4 + 1
  <2> DEFINE S == Puns \X I4
  <2>1. IsFiniteSet(S) /\ Cardinality(S) = NPUN * 4 /\ <<0, "ELAPSED">> \notin S
    BY <1>3, <1>4
  <2>2. AllIntrs = S \cup {<<0, "ELAPSED">>}
    BY <1>5
  <2> HIDE DEF S
  <2>. QED BY <2>1, <2>2, FS_AddElement
<1>. QED BY <1>6, <1>7

(* If signals have been given one by one to interrupts, and one interrupt  *)
(* has none, there is a signal left.                                       *)
LEMMA SignalLeft ==
  ASSUME NEW n \in Nat, n > 0, NEW f \in [1 .. n - 1 -> AllIntrs],
         \A s, t \in 1 .. n - 1 : f[s] = f[t] => s = t,
         NEW i \in AllIntrs, \A s \in 1 .. n - 1 : f[s] # i
  PROVE  n \in Signos
<1>1. IsFiniteSet(AllIntrs \ {i}) /\ Cardinality(AllIntrs \ {i}) = 4 * NPUN
  BY CountIntrs, FS_RemoveElement, HardwareAssumption
<1>2. f \in Injection(1 .. n - 1, AllIntrs \ {i})
  BY DEF Injection, IsInjective
<1>3. Cardinality(1 .. n - 1) <= 4 * NPUN
  BY <1>1, <1>2, FS_Injection
<1>4. Cardinality(1 .. n - 1) = n - 1
  BY FS_Interval
<1>. QED BY <1>3, <1>4, HardwareAssumption DEF Signos

-----------------------------------------------------------------------------
(* The inductive invariant.                                                *)

Handling == {"elapsed", "timeout", "interproc"}
Wheres == {"none", "begin", "own", "disabled", "switched"} \cup Handling
Stages == {"off", "define", "activate", "barrier", "spin", "run"}

TypeOK ==
  /\ stage \in [Puns -> Stages]
  /\ defined \in [Puns -> Nat]
  /\ next_signo \in Nat \ {0}
  /\ interrupt \in [Signos -> Puns \X (Intrs \cup {"none"})]
  /\ signal_no \in [Puns -> [Intrs -> Signos \cup {None}]]
  /\ sigmask \in [Puns -> SUBSET Signos]
  /\ barrier \in Int
  /\ mask \in [Puns -> SUBSET Signos]
  /\ sent \in [Puns -> SUBSET Signos]
  /\ expired \in SUBSET Signos
  /\ current \in [Puns -> Procs]
  /\ where \in [Procs -> Wheres]
  /\ context \in [Procs -> SUBSET Signos]
  /\ frame \in [Procs -> SUBSET Signos]
  /\ fresh \in SUBSET Procs
  /\ lag \in Int
  /\ reading \in [Procs -> Reading]

\* The interrupts of v that have a handler.
Given(v) == {Handlers(v)[k] : k \in 1 .. defined[v]}

(* signal_no and interrupt are inverse to each other as far as they have   *)
(* been filled.                                                            *)
MapOK ==
  /\ next_signo <= 4 * NPUN + 2
  /\ \A v \in Puns, i \in Intrs :
       IF i \in Given(v)
       THEN /\ signal_no[v][i] \in Signos /\ signal_no[v][i] < next_signo
            /\ interrupt[signal_no[v][i]] = <<v, i>>
       ELSE signal_no[v][i] = None
  /\ \A s \in Signos :
       IF s < next_signo
       THEN interrupt[s] \in AllIntrs /\ signal_no[interrupt[s][1]][interrupt[s][2]] = s
       ELSE interrupt[s] = <<0, "none">>

\* The processors that have not been counted at the barrier.
Waiting == {u \in Puns : stage[u] \notin {"spin", "run"}}

(* The barrier counts those to come, and opens when all have defined their *)
(* handlers.                                                               *)
StartOK ==
  /\ barrier = Cardinality(Waiting)
  /\ (\E u \in Puns : stage[u] = "run") => Waiting = {}
  /\ \A u \in Puns :
       /\ defined[u] <= Len(Handlers(u))
       /\ stage[u] \notin {"off", "define"} => defined[u] = Len(Handlers(u))

(* Until it runs, a processor has all signals blocked and its first        *)
(* process has not begun.                                                  *)
FirstOK ==
  /\ stage[0] # "off"
  /\ \A u \in Puns : stage[u] # "run" =>
       /\ current[u] = IF u = 0 THEN Main ELSE Idle(u)
       /\ mask[u] = Signos
       /\ where[current[u]] = IF stage[u] = "off" THEN "none" ELSE "begin"
       /\ u # 0 /\ stage[u] # "off" => context[Idle(u)] = Signos

\* p has its processor.
Current(p) == current[PlaceOf(p)] = p

(* A process is on its own processor, and is in a handler only there.      *)
PlaceOK ==
  /\ \A u \in Puns : PlaceOf(current[u]) = u
  /\ \A u \in Puns : stage[u] = "run" => where[current[u]] # "none"
  /\ \A p \in Procs : where[p] \in Handling => Current(p) /\ stage[PlaceOf(p)] = "run"
  /\ (\E p \in Procs : where[p] \notin {"none", "begin"}) => Waiting = {}

(* The mask of p, on the thread while p has it and in its context while it *)
(* has not.                                                                *)
MaskOf(p) == IF Current(p) THEN mask[PlaceOf(p)] ELSE context[p]

(* All signals are blocked where interrupts are disabled and in a handler. *)
Blocked(p) ==
  /\ where[p] \in {"begin", "disabled", "switched"} => MaskOf(p) = Signos
  /\ where[p] \in Handling => mask[PlaceOf(p)] = Signos
  /\ where[p] = "switched" => context[p] = Signos

(* A process has the mask of its processor in its own code, and a handler  *)
(* keeps that mask for it, both to return and to be resumed.               *)
Own(p) ==
  p \notin fresh =>
    /\ where[p] = "own" => MaskOf(p) = sigmask[PlaceOf(p)]
    /\ where[p] \in Handling \cup {"switched"} => frame[p] = sigmask[PlaceOf(p)]
    /\ where[p] \in {"timeout", "interproc"} => context[p] = sigmask[PlaceOf(p)]

BlockedOK == \A p \in Procs : Blocked(p)
OwnOK == \A p \in Procs : Own(p)

(* What is pending on a thread is an interprocessor or a user interrupt,   *)
(* and on the program an interrupt of a timer.                             *)
SignalOK ==
  /\ \A u \in Puns : \A s \in sent[u] : interrupt[s][2] \in Direct
  /\ \A s \in expired : interrupt[s][2] \in {"TIMEOUT", "ELAPSED"}

Core == MapOK /\ StartOK /\ FirstOK /\ PlaceOK /\ BlockedOK /\ OwnOK /\ SignalOK
Inv == TypeOK /\ Core

-----------------------------------------------------------------------------
(* What the steps change, position by position.                            *)

\* Position x of f, a function on S, becomes v and the others stay.
Sets(f, S, x, v) == \A y \in S : f'[y] = IF y = x THEN v ELSE f[y]

DefineTo(u, i) ==
  /\ stage[u] = "define" /\ defined[u] < Len(Handlers(u)) /\ i = Handlers(u)[defined[u] + 1]
  /\ next_signo' = next_signo + 1
  /\ Sets(interrupt, Signos, next_signo, <<u, i>>)
  /\ \A v \in Puns, j \in Intrs :
       signal_no'[v][j] = IF v = u /\ j = i THEN next_signo ELSE signal_no[v][j]
  /\ \A v \in Puns \ {u} : sigmask'[v] = sigmask[v]
  /\ Sets(defined, Puns, u, defined[u] + 1)
  /\ UNCHANGED <<stage, barrier, threads, procs, clock>>

(* A step of define_handler finds a signal that has no interrupt.          *)
LEMMA DefineEffect ==
  ASSUME Inv, NEW u \in Puns, define_handler(u)
  PROVE  /\ TypeOK' /\ next_signo \in Signos
         /\ \E i \in Intrs \ Given(u) : <<u, i>> \in AllIntrs /\ DefineTo(u, i)
<1> DEFINE n == next_signo
           i == Handlers(u)[defined[u] + 1]
<1>1. TypeOK /\ MapOK /\ StartOK
  BY DEF Inv, Core
<1>2. defined[u] \in Nat /\ defined[u] < Len(Handlers(u)) /\ n \in Nat /\ n > 0
  BY <1>1 DEF TypeOK, define_handler
<1>3. defined[u] + 1 \in 1 .. Len(Handlers(u)) /\ 1 .. defined[u] \subseteq 1 .. Len(Handlers(u))
  BY <1>2, HandlersAre
<1>4. i \in Intrs
  BY <1>3, HandlersAre
<1>5. i \notin Given(u)
  <2>1. ASSUME NEW j \in 1 .. defined[u], Handlers(u)[j] = i PROVE FALSE
    <3>1. j = defined[u] + 1
      BY <1>3, <2>1, HandlersAre
    <3>. QED BY <3>1, <1>2
  <2>. QED BY <2>1 DEF Given
<1>6. <<u, i>> \in AllIntrs
  <2>1. i # "ELAPSED" \/ u = 0
    BY <1>3, HandlersAre
  <2>. QED BY <1>4, <2>1 DEF AllIntrs, Intrs, Users
<1>7. signal_no[u][i] = None
  BY <1>1, <1>4, <1>5 DEF MapOK
<1>8. n \in Signos
  <2> DEFINE f == [s \in 1 .. n - 1 |-> interrupt[s]]
  <2>1. 1 .. n - 1 \subseteq Signos
    BY <1>1, <1>2, HardwareAssumption DEF MapOK, Signos
  <2>2. \A s \in 1 .. n - 1 :
          interrupt[s] \in AllIntrs /\ signal_no[interrupt[s][1]][interrupt[s][2]] = s
    BY <2>1, <1>1, <1>2 DEF MapOK
  <2>3. f \in [1 .. n - 1 -> AllIntrs]
    BY <2>2
  <2>4. \A s, t \in 1 .. n - 1 : f[s] = f[t] => s = t
    BY <2>2
  <2>5. \A s \in 1 .. n - 1 : f[s] # <<u, i>>
    BY <2>2, <1>7, <1>2 DEF None
  <2> HIDE DEF f
  <2>. QED BY <1>2, <1>6, <2>3, <2>4, <2>5, SignalLeft
<1>9. TypeOK'
  BY <1>1, <1>2, <1>4, <1>8 DEF TypeOK, define_handler, threads, procs, clock
<1>10. DefineTo(u, i)
  BY <1>1, <1>4 DEF TypeOK, define_handler, DefineTo, Sets
<1>. QED BY <1>4, <1>5, <1>6, <1>8, <1>9, <1>10

BlockTo(u) ==
  /\ stage[u] = "define" /\ defined[u] = Len(Handlers(u))
  /\ Sets(mask, Puns, u, mask[u] \cup sigmask[u])
  /\ Sets(stage, Puns, u, IF u = 0 THEN "activate" ELSE "barrier")
  /\ UNCHANGED <<tables, defined, barrier, sent, expired, procs, clock>>

(* The end of init_processor.                                              *)
LEMMA BlockEffect ==
  ASSUME TypeOK, NEW u \in Puns, Block(u)
  PROVE  TypeOK' /\ BlockTo(u)
<1>1. TypeOK'
  BY DEF TypeOK, Stages, Block, tables, procs, clock
<1>. QED BY <1>1 DEF TypeOK, Block, BlockTo, Sets

ActivateTo(u) ==
  /\ stage[0] = "activate" /\ where[Idle(u)] = "none"
  /\ Sets(where, Procs, Idle(u), "begin")
  /\ Sets(context, Procs, Idle(u), mask[0])
  /\ Sets(mask, Puns, u, mask[0])
  /\ \A v \in Puns :
       \/ v = 0 /\ stage'[v] \in {"activate", "barrier"}
       \/ v # 0 /\ stage'[v] = IF v = u THEN "define" ELSE stage[v]
  /\ UNCHANGED <<tables, defined, barrier, sent, expired, current, frame, fresh, clock>>

(* A processor is started.                                                 *)
LEMMA ActivateEffect ==
  ASSUME TypeOK, NEW u \in Puns, Activate(u)
  PROVE  TypeOK' /\ ActivateTo(u)
<1>1. 0 \in Puns /\ Idle(u) \in Procs
  BY Places
<1>2. TypeOK'
  BY <1>1 DEF TypeOK, Stages, Wheres, Activate, tables, clock
<1>. QED BY <1>1, <1>2 DEF TypeOK, Activate, ActivateTo, Sets

ArriveTo(u) ==
  /\ stage[u] = "barrier" /\ barrier' = barrier - 1
  /\ Sets(stage, Puns, u, "spin")
  /\ UNCHANGED <<tables, defined, threads, procs, clock>>

(* A processor comes to the barrier.                                       *)
LEMMA ArriveEffect ==
  ASSUME TypeOK, NEW u \in Puns, Arrive(u)
  PROVE  TypeOK' /\ ArriveTo(u)
<1>1. TypeOK'
  BY DEF TypeOK, Stages, Arrive, tables, threads, procs, clock
<1>. QED BY <1>1 DEF TypeOK, Arrive, ArriveTo, Sets

DepartTo(u) ==
  /\ stage[u] = "spin" /\ barrier <= 0
  /\ Sets(stage, Puns, u, "run")
  /\ \/ u = 0 /\ UNCHANGED <<mask, context>>
     \/ /\ u # 0 /\ Sets(mask, Puns, u, context[Idle(u)])
        /\ Sets(context, Procs, Idle(u), Dead)
  /\ UNCHANGED <<tables, defined, barrier, sent, expired, current, where, frame, fresh, clock>>

(* A processor leaves the barrier.                                         *)
LEMMA DepartEffect ==
  ASSUME TypeOK, NEW u \in Puns, Depart(u)
  PROVE  TypeOK' /\ DepartTo(u)
<1>1. Idle(u) \in Procs
  BY Places
<1>2. TypeOK'
  BY <1>1 DEF TypeOK, Stages, Depart, Dead, tables, clock
<1>. QED BY <1>1, <1>2 DEF TypeOK, Depart, Open, DepartTo, Sets

\* The process on u goes on at w with mask m.
Keeps(u, w, m) ==
  /\ stage[u] = "run"
  /\ Sets(where, Procs, current[u], w) /\ Sets(mask, Puns, u, m)
  /\ UNCHANGED <<tables, start, current>>

DisableTo(u) ==
  /\ where[current[u]] = "own" /\ Keeps(u, "disabled", Signos)
  /\ UNCHANGED <<sent, expired, context, frame, fresh, clock>>

(* Interrupts are disabled.                                                *)
LEMMA DisableEffect ==
  ASSUME TypeOK, NEW u \in Puns, disable(u)
  PROVE  TypeOK' /\ DisableTo(u)
<1>1. TypeOK'
  BY DEF TypeOK, Wheres, disable, Moves, tables, start, clock
<1>. QED BY <1>1 DEF TypeOK, disable, Moves, At, In, DisableTo, Keeps, Sets

EnableTo(u) ==
  /\ where[current[u]] \in {"disabled", "begin"} /\ Keeps(u, "own", sigmask[u])
  /\ fresh' = fresh \ {current[u]}
  /\ UNCHANGED <<sent, expired, context, frame, clock>>

(* Interrupts are enabled.                                                 *)
LEMMA EnableEffect ==
  ASSUME TypeOK, NEW u \in Puns, enable(u)
  PROVE  TypeOK' /\ EnableTo(u)
<1>1. TypeOK'
  BY DEF TypeOK, Wheres, enable, Moves, tables, start, clock
<1>. QED BY <1>1 DEF TypeOK, enable, Moves, At, In, EnableTo, Keeps, Sets

\* Where the process on u is from now on, what its context holds, and why.
Leaves(u, w, saved) ==
  LET p == current[u]
  IN  \/ where[p] = "disabled" /\ w = "disabled" /\ saved = mask[u]
      \/ where[p] = "disabled" /\ w = "none"
      \/ where[p] = "interproc" /\ w = "switched" /\ saved = mask[u] /\ frame' = frame
      \/ /\ where[p] = "switched" /\ w = "switched"
         /\ saved \in {mask[u], context[p]} /\ frame' = frame
      \/ where[p] \in {"timeout", "interproc"} /\ w = "own" /\ saved = context[p]

SwitchTo(u, q, w, saved) ==
  /\ stage[u] = "run" /\ PlaceOf(q) = u /\ where[q] # "none" /\ q # current[u]
  /\ Leaves(u, w, saved)
  /\ Sets(current, Puns, u, q) /\ Sets(mask, Puns, u, context[q])
  /\ Sets(where, Procs, current[u], w)
  /\ \A p \in Procs :
       /\ p \notin {current[u], q} => context'[p] = context[p]
       /\ p = current[u] => context'[p] = saved
       /\ p = q /\ where[q] = "switched" => context'[p] = context[p]
       /\ p # current[u] => frame'[p] = frame[p]
       /\ p # current[u] \/ w # "none" => (p \in fresh' <=> p \in fresh)
  /\ UNCHANGED <<tables, start, sent, expired, clock>>

(* What may be written to reading.                                         *)
LEMMA Readings ==
  /\ Out \in Reading /\ Out.at = "out"
  /\ \A r \in Reading :
       /\ [r EXCEPT !.at = "timer"] \in Reading /\ [r EXCEPT !.at = "timer"].at = "timer"
       /\ [r EXCEPT !.changed = TRUE] \in Reading /\ [r EXCEPT !.changed = TRUE].changed
       /\ \A b \in BOOLEAN :
            LET x == [r EXCEPT !.at = "load", !.good = b]
            IN  x \in Reading /\ x.changed = r.changed /\ x.good = b
<1>1. Out \in Reading /\ Out.at = "out"
  BY DEF Out, Reading
<1>2. ASSUME NEW r \in Reading
      PROVE  [r EXCEPT !.at = "timer"] \in Reading /\ [r EXCEPT !.at = "timer"].at = "timer"
  BY <1>2 DEF Reading
<1>3. ASSUME NEW r \in Reading
      PROVE  [r EXCEPT !.changed = TRUE] \in Reading /\ [r EXCEPT !.changed = TRUE].changed
  <2>1. [r EXCEPT !.changed = TRUE] \in Reading
    BY <1>3 DEF Reading
  <2>2. [r EXCEPT !.changed = TRUE].changed = TRUE
    BY <1>3 DEF Reading
  <2>. QED BY <2>1, <2>2
<1>4. ASSUME NEW r \in Reading, NEW b \in BOOLEAN
      PROVE  LET x == [r EXCEPT !.at = "load", !.good = b]
             IN  x \in Reading /\ x.changed = r.changed /\ x.good = b
  <2>1. [r EXCEPT !.at = "load", !.good = b] \in Reading
    BY <1>4 DEF Reading
  <2>2. LET x == [r EXCEPT !.at = "load", !.good = b] IN x.changed = r.changed /\ x.good = b
    BY <1>4 DEF Reading
  <2>. QED BY <2>1, <2>2
<1>. QED BY <1>1, <1>2, <1>3, <1>4

(* What Resume does to the contexts.                                       *)
LEMMA ResumeEffect ==
  ASSUME TypeOK, NEW u \in Puns, NEW q \in Procs, NEW saved \in SUBSET Signos, q # current[u],
         Resume(u, q, saved)
  PROVE  /\ current' \in [Puns -> Procs] /\ mask' \in [Puns -> SUBSET Signos]
         /\ context' \in [Procs -> SUBSET Signos]
         /\ Sets(current, Puns, u, q) /\ Sets(mask, Puns, u, context[q])
         /\ \A p \in Procs :
              /\ p \notin {current[u], q} => context'[p] = context[p]
              /\ p = current[u] => context'[p] = saved
              /\ p = q /\ where[q] = "switched" => context'[p] = context[p]
BY DEF TypeOK, Resume, Dead, Sets

(* A process of u takes the processor from another one in a routine or in  *)
(* the loop of the interprocessor handler.                                 *)
LEMMA SwitchContextEffect ==
  ASSUME TypeOK, NEW u \in Puns, NEW q \in Procs, switch_context(u, q)
  PROVE  TypeOK' /\ \E w \in Wheres : \E m \in SUBSET Signos : SwitchTo(u, q, w, m)
<1>1. q # current[u] /\ PlaceOf(q) = u /\ where[q] # "none" /\ Resume(u, q, mask[u])
      /\ UNCHANGED <<tables, start, sent, expired, frame, fresh, clock>>
  BY DEF switch_context, Other
<1>2. mask[u] \in SUBSET Signos /\ current[u] \in Procs
  BY DEF TypeOK
<1>3. PICK w \in {"disabled", "switched"} :
        /\ stage[u] = "run" /\ Sets(where, Procs, current[u], w)
        /\ where' \in [Procs -> Wheres]
        /\ \/ where[current[u]] = "disabled" /\ w = "disabled"
           \/ where[current[u]] \in {"interproc", "switched"} /\ w = "switched"
  <2>1. CASE At(u, "disabled") /\ UNCHANGED where
    BY <2>1 DEF TypeOK, At, In, Sets
  <2>2. CASE (In(u, "interproc") \/ In(u, "switched")) /\ Moves(u, "switched")
    BY <2>2 DEF TypeOK, In, Moves, Sets, Wheres
  <2>. QED BY <2>1, <2>2 DEF switch_context
<1>4. TypeOK'
  BY <1>1, <1>2, <1>3, ResumeEffect DEF TypeOK, tables, start, clock
<1>5. SwitchTo(u, q, w, mask[u])
  BY <1>1, <1>2, <1>3, ResumeEffect DEF SwitchTo, Leaves
<1>. QED BY <1>2, <1>4, <1>5 DEF Wheres

(* ... or terminates,                                                      *)
LEMMA RestoreContextEffect ==
  ASSUME TypeOK, NEW u \in Puns, NEW q \in Procs, restore_context(u, q)
  PROVE  TypeOK' /\ \E w \in Wheres : \E m \in SUBSET Signos : SwitchTo(u, q, w, m)
<1>1. /\ q # current[u] /\ PlaceOf(q) = u /\ where[q] # "none" /\ Resume(u, q, Dead)
      /\ stage[u] = "run" /\ where[current[u]] = "disabled" /\ fresh' = fresh \ {current[u]}
      /\ UNCHANGED <<tables, start, sent, expired, frame, clock>>
  BY DEF restore_context, Other, At, In
<1>2. Dead \in SUBSET Signos /\ current[u] \in Procs
  BY DEF TypeOK, Dead
<1>3. where' \in [Procs -> Wheres] /\ Sets(where, Procs, current[u], "none")
  BY DEF TypeOK, restore_context, Moves, Wheres, Sets
<1>4. TypeOK'
  BY <1>1, <1>2, <1>3, ResumeEffect DEF TypeOK, tables, start, clock
<1>5. SwitchTo(u, q, "none", Dead)
  BY <1>1, <1>2, <1>3, ResumeEffect DEF SwitchTo, Leaves
<1>. QED BY <1>2, <1>4, <1>5 DEF Wheres

(* ... or at the end of a handler.                                         *)
LEMMA SwitchInterruptContextEffect ==
  ASSUME TypeOK, NEW u \in Puns, NEW q \in Procs, switch_interrupt_context(u, q)
  PROVE  TypeOK' /\ \E w \in Wheres : \E m \in SUBSET Signos : SwitchTo(u, q, w, m)
<1> DEFINE m == context[current[u]]
<1>1. /\ q # current[u] /\ PlaceOf(q) = u /\ where[q] # "none" /\ Resume(u, q, m)
      /\ UNCHANGED <<tables, start, sent, expired, fresh, clock>>
  BY DEF switch_interrupt_context, Other
<1>2. m \in SUBSET Signos /\ current[u] \in Procs
  BY DEF TypeOK
<1>3. PICK w \in {"own", "switched"} :
        /\ stage[u] = "run" /\ Sets(where, Procs, current[u], w)
        /\ where' \in [Procs -> Wheres] /\ frame' \in [Procs -> SUBSET Signos]
        /\ \A p \in Procs : p # current[u] => frame'[p] = frame[p]
        /\ \/ where[current[u]] = "switched" /\ w = "switched" /\ frame' = frame
           \/ where[current[u]] \in {"timeout", "interproc"} /\ w = "own"
  <2>1. CASE In(u, "switched") /\ UNCHANGED <<where, frame>>
    BY <2>1 DEF TypeOK, In, Sets
  <2>2. CASE /\ In(u, "timeout") \/ In(u, "interproc")
             /\ Moves(u, "own")
             /\ frame' = [frame EXCEPT ![current[u]] = Dead]
    BY <2>2 DEF TypeOK, In, Moves, Sets, Wheres, Dead
  <2>. QED BY <2>1, <2>2 DEF switch_interrupt_context
<1>4. TypeOK'
  BY <1>1, <1>2, <1>3, ResumeEffect DEF TypeOK, tables, start, clock
<1>5. SwitchTo(u, q, w, m)
  BY <1>1, <1>2, <1>3, ResumeEffect DEF SwitchTo, Leaves
<1>. QED BY <1>2, <1>4, <1>5 DEF Wheres

BuildTo(u, q) ==
  /\ stage[u] = "run" /\ where[current[u]] = "own"
  /\ q \in Apps /\ where[q] = "none"
  /\ Sets(where, Procs, q, "own") /\ Sets(context, Procs, q, mask[u])
  /\ \A p \in Procs \ {q} : p \in fresh' <=> p \in fresh
  /\ q \notin fresh' => PlaceOf(q) = u /\ current[u] \notin fresh
  /\ UNCHANGED <<tables, start, threads, current, frame, clock>>

(* A process is built.                                                     *)
LEMMA BuildEffect ==
  ASSUME TypeOK, NEW u \in Puns, NEW q \in Procs, build_context(u, q)
  PROVE  TypeOK' /\ BuildTo(u, q)
<1>1. TypeOK'
  BY DEF TypeOK, Wheres, build_context, tables, start, threads, clock
<1>. QED BY <1>1 DEF TypeOK, build_context, At, In, BuildTo, Sets

(* Once a processor runs, the interrupts of every processor have signals.  *)
LEMMA FullMaps ==
  ASSUME MapOK, StartOK, NEW u \in Puns, stage[u] = "run", NEW v \in Puns,
         NEW k \in 1 .. Len(Handlers(v))
  PROVE  /\ stage[v] \in {"spin", "run"}
         /\ signal_no[v][Handlers(v)[k]] \in Signos
         /\ interrupt[signal_no[v][Handlers(v)[k]]] = <<v, Handlers(v)[k]>>
<1>1. stage[v] \in {"spin", "run"}
  BY DEF StartOK, Waiting
<1>2. defined[v] = Len(Handlers(v))
  BY <1>1 DEF StartOK
<1>3. Handlers(v)[k] \in Given(v)
  BY <1>2 DEF Given
<1>4. Handlers(v)[k] \in Intrs
  BY HandlersAre
<1>. QED BY <1>1, <1>3, <1>4 DEF MapOK

SendTo(u, v, i) ==
  /\ stage[u] = "run" /\ interrupt[signal_no[v][i]] = <<v, i>>
  /\ Sets(sent, Puns, v, sent[v] \cup {signal_no[v][i]})
  /\ UNCHANGED <<tables, start, mask, expired, procs, clock>>

(* An interprocessor or a user interrupt is sent.                          *)
LEMMA SendEffect ==
  ASSUME Inv, NEW u \in Puns, NEW v \in Puns, NEW i \in Direct,
         \/ i = "INTERPROC" /\ send_interprocessor_interrupt(u, v)
         \/ v = u /\ send_interrupt(u, i)
  PROVE  TypeOK' /\ SendTo(u, v, i)
<1>1. TypeOK /\ MapOK /\ StartOK
  BY DEF Inv, Core
<1>2. /\ stage[u] = "run" /\ sent' = [sent EXCEPT ![v] = @ \cup {signal_no[v][i]}]
      /\ UNCHANGED <<tables, start, mask, expired, procs, clock>>
  BY DEF send_interprocessor_interrupt, send_interrupt, At, In
<1>3. PICK k \in 1 .. Len(Handlers(v)) : Handlers(v)[k] = i
  BY HandlersAre
<1>4. signal_no[v][i] \in Signos /\ interrupt[signal_no[v][i]] = <<v, i>>
  BY <1>1, <1>2, <1>3, FullMaps
<1>5. TypeOK'
  BY <1>1, <1>2, <1>4 DEF TypeOK, tables, start, procs, clock
<1>. QED BY <1>1, <1>2, <1>4, <1>5 DEF TypeOK, SendTo, Sets

ExpireTo(u) ==
  /\ stage[u] = "run" /\ signal_no[u]["TIMEOUT"] \in Signos
  /\ interrupt[signal_no[u]["TIMEOUT"]] = <<u, "TIMEOUT">>
  /\ expired' = expired \cup {signal_no[u]["TIMEOUT"]}
  /\ UNCHANGED <<tables, start, mask, sent, procs, clock>>

(* A timeout timer expires.                                                *)
LEMMA ExpireEffect ==
  ASSUME Inv, NEW u \in Puns, Expire(u)
  PROVE  TypeOK' /\ ExpireTo(u)
<1>1. TypeOK /\ MapOK /\ StartOK
  BY DEF Inv, Core
<1>2. stage[u] = "run"
  BY DEF Expire
<1>3. PICK k \in 1 .. Len(Handlers(u)) : Handlers(u)[k] = "TIMEOUT"
  BY HandlersAre
<1>4. /\ signal_no[u]["TIMEOUT"] \in Signos
      /\ interrupt[signal_no[u]["TIMEOUT"]] = <<u, "TIMEOUT">>
  BY <1>1, <1>2, <1>3, FullMaps
<1>5. TypeOK'
  BY <1>1, <1>4 DEF TypeOK, Expire, tables, start, procs, clock
<1>. QED BY <1>1, <1>2, <1>4, <1>5 DEF Expire, ExpireTo

\* w is the handler of signal s.
HandleTo(u, s, w) ==
  /\ s \notin mask[u] /\ (s \in expired \/ interrupt[s][2] \in Direct)
  /\ w \in Handling /\ (w = "elapsed" <=> interrupt[s][2] = "ELAPSED")
  /\ where[current[u]] = "own" /\ Keeps(u, w, Signos)
  /\ Sets(context, Procs, current[u], mask[u]) /\ Sets(frame, Procs, current[u], mask[u])
  /\ \A v \in Puns : sent'[v] \subseteq sent[v]
  /\ expired' \subseteq expired
  /\ interrupt[s][2] \notin Direct => s \notin expired'
  /\ \A t \in expired : t # s => t \in expired'
  /\ UNCHANGED <<fresh, clock>>

(* Only a process in its own code is interrupted, and its mask is kept in  *)
(* its context and in the frame of the handler.                            *)
LEMMA HandleEffect ==
  ASSUME Inv, NEW u \in Puns, NEW s \in Signos, handle_signal(u, s)
  PROVE  TypeOK' /\ HandleTo(u, s, Handler(s))
<1>1. TypeOK /\ PlaceOK /\ BlockedOK /\ SignalOK
  BY DEF Inv, Core
<1> DEFINE p == current[u]
<1>2. p \in Procs /\ PlaceOf(p) = u /\ Current(p) /\ where[p] # "none" /\ where[p] \in Wheres
  BY <1>1 DEF TypeOK, PlaceOK, handle_signal, Current
<1>3. where[p] = "own"
  <2>1. mask[u] # Signos
    BY DEF handle_signal
  <2>. QED BY <1>1, <1>2, <2>1 DEF BlockedOK, Blocked, MaskOf, Wheres
<1>4. /\ interrupt[s][2] \in Direct \cup {"TIMEOUT", "ELAPSED"}
      /\ s \in sent[u] => interrupt[s][2] \in Direct
      /\ s \notin sent[u] => s \in expired
  BY <1>1 DEF SignalOK, handle_signal
<1>5. Handler(s) \in Handling /\ (Handler(s) = "elapsed" <=> interrupt[s][2] = "ELAPSED")
  BY <1>4 DEF Handler, Handling, Direct, Users
<1>6. TypeOK'
  BY <1>1, <1>2, <1>5 DEF TypeOK, Wheres, handle_signal, Moves, tables, start, clock
<1>7. /\ Keeps(u, Handler(s), Signos)
      /\ Sets(context, Procs, p, mask[u]) /\ Sets(frame, Procs, p, mask[u])
  BY <1>1, <1>2 DEF TypeOK, handle_signal, Moves, Keeps, Sets
<1>8. /\ \A v \in Puns : sent'[v] \subseteq sent[v]
      /\ expired' = IF s \in sent[u] THEN expired ELSE expired \ {s}
      /\ s \notin mask[u]
      /\ UNCHANGED <<fresh, clock>>
  BY <1>1 DEF TypeOK, handle_signal
<1>. QED BY <1>3, <1>4, <1>5, <1>6, <1>7, <1>8 DEF HandleTo

EndTo(u) ==
  /\ where[current[u]] \in Handling \cup {"switched"}
  /\ Keeps(u, "own", frame[current[u]])
  /\ Sets(context, Procs, current[u], Dead) /\ Sets(frame, Procs, current[u], Dead)
  /\ UNCHANGED <<sent, expired, fresh>>

(* A handler returns.                                                      *)
LEMMA EndsEffect ==
  ASSUME TypeOK, NEW u \in Puns, Ends(u), stage[u] = "run",
         where[current[u]] \in Handling \cup {"switched"},
         UNCHANGED <<tables, start, sent, expired, current, fresh>>,
         lag' \in Int, reading' \in [Procs -> Reading]
  PROVE  TypeOK' /\ EndTo(u)
<1>1. current[u] \in Procs
  BY DEF TypeOK
<1>2. TypeOK'
  BY <1>1 DEF TypeOK, Wheres, Ends, Moves, Dead, tables, start
<1>. QED BY <1>1, <1>2 DEF TypeOK, Ends, Moves, EndTo, Keeps, Sets

(* The handler of timeouts or of interprocessor interrupts.                *)
LEMMA ReturnEffect ==
  ASSUME TypeOK, NEW u \in Puns, Return(u)
  PROVE  TypeOK' /\ EndTo(u) /\ UNCHANGED clock /\ where[current[u]] # "elapsed"
<1>1. lag' \in Int /\ reading' \in [Procs -> Reading]
  BY DEF TypeOK, Return, clock
<1>2. stage[u] = "run" /\ where[current[u]] \in {"timeout", "interproc", "switched"}
  BY DEF Return, In
<1>. QED BY <1>1, <1>2, EndsEffect DEF Return, Handling

ElapsedTo(u) ==
  /\ where[current[u]] = "elapsed" /\ lag' = lag - 1
  /\ \A p \in Procs : reading'[p].at = "load" => reading'[p].changed

(* The handler of elapsed time.                                            *)
LEMMA ElapsedEffect ==
  ASSUME TypeOK, NEW u \in Puns, handle_elapsed_time_interrupt(u)
  PROVE  TypeOK' /\ EndTo(u) /\ ElapsedTo(u)
<1>1. stage[u] = "run" /\ where[current[u]] = "elapsed" /\ lag' = lag - 1 /\ lag' \in Int
  BY DEF TypeOK, handle_elapsed_time_interrupt, In
<1>2. ASSUME NEW p \in Procs
      PROVE  reading'[p] \in Reading /\ (reading'[p].at = "load" => reading'[p].changed)
  <2>1. reading[p] \in Reading
    BY DEF TypeOK
  <2>2. reading'[p] = IF reading[p] = Out THEN Out ELSE [reading[p] EXCEPT !.changed = TRUE]
    BY DEF handle_elapsed_time_interrupt
  <2>. QED BY <2>1, <2>2, Readings
<1>3. reading' \in [Procs -> Reading]
  BY <1>2 DEF handle_elapsed_time_interrupt
<1>4. TypeOK' /\ EndTo(u)
  BY <1>1, <1>3, EndsEffect DEF handle_elapsed_time_interrupt, Handling
<1>. QED BY <1>1, <1>2, <1>4 DEF ElapsedTo

TickTo ==
  /\ Elapsed \in Signos /\ interrupt[Elapsed] = <<0, "ELAPSED">>
  /\ lag < MaxLag /\ lag' = lag + 1 /\ expired' = expired \cup {Elapsed}
  /\ UNCHANGED <<tables, start, mask, sent, procs, reading>>

(* The interval timer completes a tick.                                    *)
LEMMA TickEffect ==
  ASSUME Inv, Tick
  PROVE  TypeOK' /\ TickTo
<1>1. TypeOK /\ MapOK /\ 0 \in Puns /\ "ELAPSED" \in Intrs
  BY Places DEF Inv, Core, Intrs, Users
<1>2. Elapsed \in Signos /\ interrupt[Elapsed] = <<0, "ELAPSED">>
  BY <1>1 DEF MapOK, Tick, Elapsed
<1>3. TypeOK'
  BY <1>1, <1>2 DEF TypeOK, Tick, tables, start, procs
<1>. QED BY <1>2, <1>3 DEF Tick, TickTo

\* Only the reading of the process on u changes, and if it is bad a tick has
\* not been counted.
ReadTo(u) ==
  /\ \A p \in Procs :
       reading'[p] # reading[p] =>
         (reading'[p].at = "load" /\ ~ reading'[p].changed /\ ~ reading'[p].good => lag # 0)
  /\ UNCHANGED <<tables, start, threads, procs, lag>>

(* GetCurrentTime.                                                         *)
LEMMA ReadEffect ==
  ASSUME TypeOK, NEW u \in Puns, GetCurrentTime(u) \/ read_timer(u) \/ Reload(u)
  PROVE  TypeOK' /\ ReadTo(u)
<1> DEFINE p == current[u]
           r == reading[p]
<1>1. p \in Procs /\ r \in Reading
  BY DEF TypeOK
<1>2. UNCHANGED <<tables, start, threads, procs, lag>>
  BY DEF GetCurrentTime, read_timer, Reload
<1>3. PICK x : Reads(u, x) /\ x \in Reading
               /\ (x.at = "load" /\ ~ x.changed /\ ~ x.good => lag # 0)
  <2>1. CASE Reads(u, Out) \/ Reads(u, [Out EXCEPT !.at = "timer"])
    BY <2>1, Readings
  <2>2. CASE read_timer(u)
    <3> DEFINE b == ~ r.changed /\ lag = 0
    <3>1. Reads(u, [r EXCEPT !.at = "load", !.good = b]) /\ b \in BOOLEAN
      BY <2>2 DEF read_timer
    <3> HIDE DEF b, r
    <3>2. LET x == [r EXCEPT !.at = "load", !.good = b]
          IN  x \in Reading /\ x.changed = r.changed /\ x.good = b
      BY <1>1, <3>1, Readings
    <3> USE DEF b
    <3>3. LET x == [r EXCEPT !.at = "load", !.good = b]
          IN  ~ x.changed /\ ~ x.good => lag # 0
      BY <3>2
    <3>. QED BY <3>1, <3>2, <3>3
  <2>. QED BY <2>1, <2>2 DEF GetCurrentTime, Reload
<1>4. reading' \in [Procs -> Reading] /\ Sets(reading, Procs, p, x)
  BY <1>1, <1>3 DEF TypeOK, Reads, Sets
<1>5. TypeOK'
  BY <1>2, <1>4 DEF TypeOK, tables, start, threads, procs
<1>. QED BY <1>2, <1>3, <1>4, <1>5 DEF ReadTo, Sets

-----------------------------------------------------------------------------
(* The steps keep the invariant: the start.                                *)

(* define_handler extends both maps by a pair.                             *)
LEMMA DefineCore ==
  ASSUME Inv, NEW u \in Puns, NEW i \in Intrs \ Given(u), <<u, i>> \in AllIntrs,
         next_signo \in Signos, DefineTo(u, i)
  PROVE  Core'
<1>1. MapOK /\ StartOK /\ FirstOK /\ PlaceOK /\ BlockedOK /\ OwnOK /\ SignalOK
  BY DEF Inv, Core
<1>2. next_signo \in Nat /\ next_signo > 0 /\ defined[u] \in Nat
      /\ \A v \in Puns, j \in Intrs : signal_no[v][j] \in Signos \cup {None}
  BY DEF Inv, TypeOK
<1>3. \A v \in Puns : v # u => Given(v)' = Given(v)
  BY DEF DefineTo, Sets, Given
<1>4. Given(u)' = Given(u) \cup {i}
  <2>1. defined'[u] = defined[u] + 1 /\ i = Handlers(u)[defined[u] + 1]
    BY DEF DefineTo, Sets
  <2>2. 1 .. defined[u] + 1 = (1 .. defined[u]) \cup {defined[u] + 1}
    BY <1>2
  <2>. QED BY <2>1, <2>2 DEF Given
<1>5. MapOK'
  <2>1. next_signo' = next_signo + 1 /\ next_signo' <= 4 * NPUN + 2
    BY <1>2, HardwareAssumption DEF DefineTo, Signos
  <2>2. ASSUME NEW v \in Puns, NEW j \in Intrs, v # u \/ j # i
        PROVE  IF j \in Given(v)'
               THEN /\ signal_no'[v][j] \in Signos /\ signal_no'[v][j] < next_signo'
                    /\ interrupt'[signal_no'[v][j]] = <<v, j>>
               ELSE signal_no'[v][j] = None
    <3>1. signal_no'[v][j] = signal_no[v][j]
      BY <2>2 DEF DefineTo
    <3>2. j \in Given(v)' <=> j \in Given(v)
      BY <2>2, <1>3, <1>4
    <3>3. CASE j \notin Given(v)
      BY <3>1, <3>2, <3>3, <1>1 DEF MapOK
    <3>4. CASE j \in Given(v)
      <4>1. signal_no[v][j] \in Signos /\ signal_no[v][j] < next_signo
            /\ interrupt[signal_no[v][j]] = <<v, j>>
        BY <3>4, <1>1 DEF MapOK
      <4>2. interrupt'[signal_no[v][j]] = interrupt[signal_no[v][j]] /\ signal_no[v][j] \in Nat
        BY <4>1, <1>2 DEF DefineTo, Sets, Signos
      <4>. QED BY <3>1, <3>2, <3>4, <4>1, <4>2, <2>1, <1>2
    <3>. QED BY <3>3, <3>4
  <2>3. /\ i \in Given(u)' /\ signal_no'[u][i] = next_signo
        /\ interrupt'[next_signo] = <<u, i>>
    BY <1>4 DEF DefineTo, Sets
  <2>4. ASSUME NEW s \in Signos
        PROVE  IF s < next_signo'
               THEN /\ interrupt'[s] \in AllIntrs
                    /\ signal_no'[interrupt'[s][1]][interrupt'[s][2]] = s
               ELSE interrupt'[s] = <<0, "none">>
    <3>0. s \in Nat
      BY HardwareAssumption DEF Signos
    <3>1. CASE s = next_signo
      BY <3>1, <2>1, <2>3, <1>2
    <3>2. CASE s # next_signo
      <4>1. interrupt'[s] = interrupt[s]
        BY <3>2 DEF DefineTo, Sets
      <4>2. CASE s < next_signo
        <5>1. interrupt[s] \in AllIntrs /\ signal_no[interrupt[s][1]][interrupt[s][2]] = s
          BY <4>2, <1>1 DEF MapOK
        <5>2. interrupt[s][1] \in Puns /\ interrupt[s][2] \in Intrs
          BY <5>1, Places DEF AllIntrs, Intrs, Users
        <5>3. signal_no[u][i] = None
          BY <1>1 DEF MapOK
        <5>4. signal_no'[interrupt[s][1]][interrupt[s][2]] = s
          <6>1. ~ (interrupt[s][1] = u /\ interrupt[s][2] = i)
            BY <5>1, <5>3, HardwareAssumption DEF None, Signos
          <6>. QED BY <5>1, <5>2, <6>1 DEF DefineTo
        <5>. QED BY <4>1, <4>2, <5>1, <5>4, <2>1, <1>2, <3>0
      <4>3. CASE ~ (s < next_signo)
        <5>1. interrupt[s] = <<0, "none">>
          BY <4>3, <1>1 DEF MapOK
        <5>2. ~ (s < next_signo')
          BY <3>0, <3>2, <4>3, <2>1, <1>2
        <5>. QED BY <4>1, <5>1, <5>2
      <4>. QED BY <4>2, <4>3
    <3>. QED BY <3>1, <3>2
  <2>. QED BY <2>1, <2>2, <2>3, <2>4, <1>2 DEF MapOK
<1>6. StartOK'
  <2>1. Waiting' = Waiting /\ barrier' = barrier /\ stage' = stage
    BY DEF DefineTo, Waiting
  <2>2. \A v \in Puns : defined'[v] = IF v = u THEN defined[u] + 1 ELSE defined[v]
    BY DEF DefineTo, Sets
  <2>3. stage[u] = "define" /\ defined[u] < Len(Handlers(u))
    BY DEF DefineTo
  <2>4. defined[u] + 1 <= Len(Handlers(u))
    BY <2>3, <1>2, HandlersAre
  <2>. QED BY <1>1, <2>1, <2>2, <2>3, <2>4 DEF StartOK
<1>7. FirstOK'
  BY <1>1 DEF FirstOK, DefineTo, threads, procs
<1>8. Waiting' = Waiting /\ Waiting # {}
  BY DEF DefineTo, Waiting
<1>9. PlaceOK'
  BY <1>1, <1>8 DEF PlaceOK, Current, DefineTo, procs
<1>10. BlockedOK'
  BY <1>1 DEF BlockedOK, Blocked, MaskOf, Current, DefineTo, threads, procs
<1>11. OwnOK'
  <2>1. \A p \in Procs : where'[p] \in {"none", "begin"}
    BY <1>1, <1>8 DEF PlaceOK, DefineTo, procs
  <2>. QED BY <2>1 DEF OwnOK, Own, Handling
<1>12. SignalOK'
  <2>1. interrupt[next_signo] = <<0, "none">>
    BY <1>1, <1>2 DEF MapOK
  <2>2. \A s \in Signos : interrupt[s][2] # "none" => interrupt'[s] = interrupt[s]
    BY <2>1 DEF DefineTo, Sets
  <2>3. expired \subseteq Signos /\ \A v \in Puns : sent[v] \subseteq Signos
    BY DEF Inv, TypeOK
  <2>4. SignalOK /\ UNCHANGED <<sent, expired>>
    BY <1>1 DEF DefineTo, threads
  <2>. QED BY <2>2, <2>3, <2>4 DEF SignalOK, Direct
<1>. QED BY <1>5, <1>6, <1>7, <1>9, <1>10, <1>11, <1>12 DEF Core

(* The maps stay.                                                          *)
LEMMA MapFrame ==
  ASSUME MapOK, UNCHANGED <<tables, defined>>
  PROVE  MapOK'
BY DEF MapOK, tables, Given

(* The last that a processor does before the barrier.                      *)
LEMMA BlockCore ==
  ASSUME Inv, NEW u \in Puns, BlockTo(u)
  PROVE  Core'
<1>1. MapOK /\ StartOK /\ FirstOK /\ PlaceOK /\ BlockedOK /\ OwnOK /\ SignalOK
  BY DEF Inv, Core
<1>2. MapOK'
  BY <1>1, MapFrame DEF BlockTo
<1>3. Waiting' = Waiting /\ u \in Waiting
  BY DEF BlockTo, Sets, Waiting
<1>4. StartOK'
  BY <1>1, <1>3 DEF StartOK, BlockTo, Sets
<1>5. mask[u] = Signos /\ mask[u] \cup sigmask[u] = Signos /\ mask \in [Puns -> SUBSET Signos]
  BY <1>1 DEF Inv, TypeOK, FirstOK, BlockTo
<1>6. \A v \in Puns : mask'[v] = mask[v]
  BY <1>5 DEF BlockTo, Sets
<1>. /\ \A v \in Puns : v # u => stage'[v] = stage[v]
     /\ stage[u] = "define" /\ stage'[u] \in {"activate", "barrier"}
     /\ UNCHANGED <<current, where, context>>
  BY DEF BlockTo, Sets, procs
<1>7. FirstOK'
  BY <1>1, <1>6, Places DEF FirstOK
<1>8. PlaceOK'
  <2>1. \A v \in Puns : /\ PlaceOf(current'[v]) = v
                        /\ stage'[v] = "run" => where'[current'[v]] # "none"
    BY <1>1 DEF PlaceOK
  <2>2. ASSUME NEW p \in Procs, where'[p] \in Handling
        PROVE  current'[PlaceOf(p)] = p /\ stage'[PlaceOf(p)] = "run"
    <3>1. PlaceOf(p) \in Puns /\ current[PlaceOf(p)] = p /\ stage[PlaceOf(p)] = "run"
      BY <2>2, <1>1, Places DEF PlaceOK, Current
    <3>. QED BY <3>1
  <2>3. (\E p \in Procs : where'[p] \notin {"none", "begin"}) => Waiting' = {}
    BY <1>1, <1>3 DEF PlaceOK
  <2>. QED BY <2>1, <2>2, <2>3 DEF PlaceOK, Current
<1>9. BlockedOK'
  BY <1>1, <1>6, Places DEF BlockedOK, Blocked, MaskOf, Current, BlockTo, procs
<1>10. OwnOK'
  BY <1>1, <1>6, Places DEF OwnOK, Own, MaskOf, Current, BlockTo, procs, tables
<1>11. SignalOK'
  BY <1>1 DEF SignalOK, BlockTo, tables
<1>. QED BY <1>2, <1>4, <1>7, <1>8, <1>9, <1>10, <1>11 DEF Core

(* A processor is started with all signals blocked.                        *)
LEMMA ActivateCore ==
  ASSUME Inv, NEW u \in Puns, ActivateTo(u)
  PROVE  Core'
<1>1. MapOK /\ StartOK /\ FirstOK /\ PlaceOK /\ BlockedOK /\ OwnOK /\ SignalOK
  BY DEF Inv, Core
<1>2. MapOK'
  BY <1>1, MapFrame DEF ActivateTo
<1>3. 0 \in Puns /\ Idle(u) \in Procs /\ PlaceOf(Idle(u)) = u /\ Idle(u) # Main
      /\ Main \in Procs /\ \A v \in Puns : Idle(v) \in Procs /\ (Idle(v) = Idle(u) => v = u)
  BY Places
<1>4. 0 \in Waiting /\ \A v \in Puns : stage[v] # "run"
  BY <1>1, <1>3 DEF ActivateTo, StartOK, Waiting
<1>5. u # 0 => stage[u] = "off"
  BY <1>1, <1>4 DEF FirstOK, ActivateTo
<1>6. Waiting' = Waiting
  <2>1. \A v \in Puns : v # 0 /\ v # u => stage'[v] = stage[v]
    BY DEF ActivateTo
  <2>2. stage'[0] \in {"activate", "barrier"} /\ (u # 0 => stage'[u] = "define")
    BY <1>3 DEF ActivateTo
  <2>. QED BY <1>4, <1>5, <2>1, <2>2 DEF Waiting
<1>7. \A v \in Puns : stage'[v] # "run"
  BY <1>4 DEF ActivateTo
<1>8. StartOK'
  <2>1. \A v \in Puns : stage'[v] \notin {"off", "define"} => stage[v] \notin {"off", "define"}
    BY <1>5 DEF ActivateTo
  <2>. QED BY <1>1, <1>6, <1>7, <2>1 DEF StartOK, ActivateTo
<1>9. \A v \in Puns : mask'[v] = Signos /\ mask[v] = Signos
  BY <1>1, <1>3, <1>4 DEF FirstOK, ActivateTo, Sets
<1>10. context'[Idle(u)] = Signos /\ \A p \in Procs : p # Idle(u) => context'[p] = context[p]
  BY <1>3, <1>9 DEF ActivateTo, Sets
<1>11. where'[Idle(u)] = "begin" /\ \A p \in Procs : p # Idle(u) => where'[p] = where[p]
  BY <1>3 DEF ActivateTo, Sets
<1>12. FirstOK'
  <2>1. stage'[0] # "off"
    BY <1>3 DEF ActivateTo
  <2>2. ASSUME NEW v \in Puns
        PROVE  /\ current'[v] = IF v = 0 THEN Main ELSE Idle(v)
               /\ mask'[v] = Signos
               /\ where'[current'[v]] = IF stage'[v] = "off" THEN "none" ELSE "begin"
               /\ v # 0 /\ stage'[v] # "off" => context'[Idle(v)] = Signos
    <3>1. current'[v] = current[v] /\ current[v] = (IF v = 0 THEN Main ELSE Idle(v))
      BY <1>1, <1>4 DEF ActivateTo, FirstOK
    <3>2. where[current[v]] = (IF stage[v] = "off" THEN "none" ELSE "begin")
          /\ (v # 0 /\ stage[v] # "off" => context[Idle(v)] = Signos)
      BY <1>1, <1>4 DEF FirstOK
    <3>3. (v = 0 => stage'[v] # "off" /\ stage[v] # "off")
          /\ (v # 0 /\ v # u => stage'[v] = stage[v]) /\ (u # 0 => stage'[u] = "define")
      BY <1>1 DEF ActivateTo, FirstOK
    <3>. QED BY <3>1, <3>2, <3>3, <1>3, <1>9, <1>10, <1>11
  <2>. QED BY <2>1, <2>2 DEF FirstOK
<1>13. PlaceOK'
  BY <1>1, <1>6, <1>7, <1>11, <1>4, Places DEF PlaceOK, Current, ActivateTo, Handling
<1>14. BlockedOK'
  BY <1>1, <1>9, <1>10, <1>11, Places DEF BlockedOK, Blocked, MaskOf, Current, ActivateTo, Handling
<1>15. OwnOK'
  <2>1. \A p \in Procs : where'[p] \in {"none", "begin"}
    BY <1>1, <1>4, <1>11 DEF PlaceOK
  <2>. QED BY <2>1 DEF OwnOK, Own, Handling
<1>16. SignalOK'
  BY <1>1 DEF SignalOK, ActivateTo, tables
<1>. QED BY <1>2, <1>8, <1>12, <1>13, <1>14, <1>15, <1>16 DEF Core

(* The barrier counts a processor.                                         *)
LEMMA ArriveCore ==
  ASSUME Inv, NEW u \in Puns, ArriveTo(u)
  PROVE  Core'
<1>1. MapOK /\ StartOK /\ FirstOK /\ PlaceOK /\ BlockedOK /\ OwnOK /\ SignalOK
  BY DEF Inv, Core
<1>2. MapOK'
  BY <1>1, MapFrame DEF ArriveTo
<1>3. Waiting' = Waiting \ {u} /\ u \in Waiting
  BY DEF ArriveTo, Sets, Waiting
<1>4. IsFiniteSet(Waiting)
  <2>1. IsFiniteSet(Puns) /\ Waiting \subseteq Puns
    BY HardwareAssumption, FS_Interval DEF Puns, Waiting
  <2>. QED BY <2>1, FS_Subset
<1>5. barrier' = Cardinality(Waiting')
  BY <1>1, <1>3, <1>4, FS_RemoveElement DEF StartOK, ArriveTo
<1>6. StartOK'
  BY <1>1, <1>3, <1>5 DEF StartOK, ArriveTo, Sets
<1>. /\ \A v \in Puns : v # u => stage'[v] = stage[v]
     /\ stage[u] = "barrier" /\ stage'[u] = "spin"
     /\ UNCHANGED <<current, where, context, mask>>
  BY DEF ArriveTo, Sets, threads, procs
<1>7. FirstOK'
  BY <1>1, Places DEF FirstOK
<1>8. PlaceOK'
  <2>1. \A v \in Puns : /\ PlaceOf(current'[v]) = v
                        /\ stage'[v] = "run" => where'[current'[v]] # "none"
    BY <1>1 DEF PlaceOK
  <2>2. ASSUME NEW p \in Procs, where'[p] \in Handling
        PROVE  current'[PlaceOf(p)] = p /\ stage'[PlaceOf(p)] = "run"
    <3>1. PlaceOf(p) \in Puns /\ current[PlaceOf(p)] = p /\ stage[PlaceOf(p)] = "run"
      BY <2>2, <1>1, Places DEF PlaceOK, Current
    <3>. QED BY <3>1
  <2>3. (\E p \in Procs : where'[p] \notin {"none", "begin"}) => Waiting' = {}
    BY <1>1, <1>3 DEF PlaceOK
  <2>. QED BY <2>1, <2>2, <2>3 DEF PlaceOK, Current
<1>9. BlockedOK'
  BY <1>1 DEF BlockedOK, Blocked, MaskOf, Current, ArriveTo, threads, procs
<1>10. OwnOK'
  BY <1>1 DEF OwnOK, Own, MaskOf, Current, ArriveTo, threads, procs, tables
<1>11. SignalOK'
  BY <1>1 DEF SignalOK, ArriveTo, tables, threads
<1>. QED BY <1>2, <1>6, <1>7, <1>8, <1>9, <1>10, <1>11 DEF Core

(* When the barrier opens nobody is waited for.                            *)
LEMMA DepartCore ==
  ASSUME Inv, NEW u \in Puns, DepartTo(u)
  PROVE  Core'
<1>1. MapOK /\ StartOK /\ FirstOK /\ PlaceOK /\ BlockedOK /\ OwnOK /\ SignalOK
  BY DEF Inv, Core
<1>2. MapOK'
  BY <1>1, MapFrame DEF DepartTo
<1>3. Waiting = {}
  <2>1. IsFiniteSet(Puns) /\ Waiting \subseteq Puns
    BY HardwareAssumption, FS_Interval DEF Puns, Waiting
  <2>2. IsFiniteSet(Waiting)
    BY <2>1, FS_Subset
  <2>3. Cardinality(Waiting) \in Nat /\ Cardinality(Waiting) <= 0
    BY <1>1, <2>2, FS_CardinalityType DEF StartOK, DepartTo
  <2>. QED BY <2>2, <2>3, FS_EmptySet
<1>4. Waiting' = {}
  BY <1>3 DEF DepartTo, Sets, Waiting
<1>5. StartOK'
  BY <1>1, <1>3, <1>4 DEF StartOK, DepartTo, Sets
<1>6. \A v \in Puns : mask'[v] = mask[v]
  BY <1>1 DEF FirstOK, DepartTo, Sets
<1>7. \A p \in Procs : (u = 0 \/ p # Idle(u)) => context'[p] = context[p]
  BY DEF DepartTo, Sets
<1>8. \A v \in Puns : stage'[v] = IF v = u THEN "run" ELSE stage[v]
  BY DEF DepartTo, Sets
<1>9. u # 0 => current[u] = Idle(u) /\ where[Idle(u)] = "begin"
  BY <1>1 DEF FirstOK, DepartTo
<1>10. where[current[u]] = "begin"
  BY <1>1 DEF FirstOK, DepartTo
<1>11. UNCHANGED <<current, where, frame, fresh, sent, expired, tables>>
  BY DEF DepartTo
<1>12. FirstOK'
  BY <1>1, <1>6, <1>7, <1>8, <1>11, Places DEF FirstOK
<1>13. PlaceOK'
  BY <1>1, <1>4, <1>8, <1>10, <1>11, Places DEF PlaceOK, Current
<1>14. BlockedOK'
  BY <1>1, <1>6, <1>7, <1>9, <1>11, Places DEF BlockedOK, Blocked, MaskOf, Current
<1>15. OwnOK'
  BY <1>1, <1>6, <1>7, <1>9, <1>11, Places DEF OwnOK, Own, MaskOf, Current, Handling, tables
<1>16. SignalOK'
  BY <1>1, <1>11 DEF SignalOK, tables
<1>. QED BY <1>2, <1>5, <1>12, <1>13, <1>14, <1>15, <1>16 DEF Core

-----------------------------------------------------------------------------
(* The steps keep the invariant: a processor that runs.                    *)

(* A step of a processor that runs is none of the start.                   *)
LEMMA RunFrame ==
  ASSUME Core, NEW u \in Puns, stage[u] = "run", UNCHANGED <<tables, start>>,
         \A v \in Puns \ {u} : current'[v] = current[v] /\ mask'[v] = mask[v],
         \A p \in Procs \ Apps : PlaceOf(p) # u => where'[p] = where[p] /\ context'[p] = context[p]
  PROVE  MapOK' /\ StartOK' /\ FirstOK' /\ Waiting' = {}
<1>1. MapOK /\ StartOK /\ FirstOK
  BY DEF Core
<1>2. MapOK'
  BY <1>1, MapFrame DEF start
<1>3. stage' = stage /\ Waiting' = Waiting /\ Waiting = {}
  BY <1>1 DEF StartOK, start, Waiting
<1>4. StartOK'
  BY <1>1, <1>3 DEF StartOK, start
<1>5. FirstOK'
  <2>1. ASSUME NEW v \in Puns, stage'[v] # "run"
        PROVE  /\ current'[v] = IF v = 0 THEN Main ELSE Idle(v)
               /\ mask'[v] = Signos
               /\ where'[current'[v]] = IF stage'[v] = "off" THEN "none" ELSE "begin"
               /\ v # 0 /\ stage'[v] # "off" => context'[Idle(v)] = Signos
    <3>1. v # u /\ stage[v] # "run"
      BY <1>3, <2>1
    <3>2. /\ current[v] = IF v = 0 THEN Main ELSE Idle(v)
          /\ mask[v] = Signos
          /\ where[current[v]] = IF stage[v] = "off" THEN "none" ELSE "begin"
          /\ v # 0 /\ stage[v] # "off" => context[Idle(v)] = Signos
      BY <1>1, <3>1 DEF FirstOK
    <3>3. current[v] \in Procs \ Apps /\ PlaceOf(current[v]) = v
      BY <3>2, Places
    <3>4. Idle(v) \in Procs \ Apps /\ PlaceOf(Idle(v)) = v
      BY Places
    <3>5. where'[current[v]] = where[current[v]] /\ context'[Idle(v)] = context[Idle(v)]
      BY <3>1, <3>3, <3>4
    <3>6. current'[v] = current[v] /\ mask'[v] = mask[v]
      BY <3>1
    <3>. QED BY <1>3, <3>2, <3>5, <3>6
  <2>. QED BY <1>1, <1>3, <2>1 DEF FirstOK
<1>. QED BY <1>2, <1>3, <1>4, <1>5

(* The mask of a process that neither has nor gets processor u is not      *)
(* touched there.                                                          *)
LEMMA OtherKept ==
  ASSUME Core, NEW u \in Puns, NEW p \in Procs, p # current[u], p # current'[u],
         UNCHANGED tables,
         \A v \in Puns \ {u} : current'[v] = current[v] /\ mask'[v] = mask[v],
         where'[p] = where[p], context'[p] = context[p], frame'[p] = frame[p],
         p \in fresh' <=> p \in fresh
  PROVE  Blocked(p)' /\ Own(p)'
<1>1. Blocked(p) /\ Own(p)
  BY DEF Core, BlockedOK, OwnOK
<1>2. PlaceOf(p) \in Puns
  BY Places
<1>3. CASE PlaceOf(p) = u
  <2>1. ~ Current(p) /\ ~ Current(p)'
    BY <1>3 DEF Current
  <2>2. where[p] \notin Handling
    BY <2>1 DEF Core, PlaceOK
  <2>. QED BY <1>1, <2>1, <2>2 DEF Blocked, Own, MaskOf, Handling, tables
<1>4. CASE PlaceOf(p) # u
  <2>1. Current(p) <=> Current(p)'
    BY <1>2, <1>4 DEF Current
  <2>2. mask'[PlaceOf(p)] = mask[PlaceOf(p)]
    BY <1>2, <1>4
  <2>. QED BY <1>1, <2>1, <2>2 DEF Blocked, Own, MaskOf, tables
<1>. QED BY <1>3, <1>4

(* A process that keeps its processor, in whatever code.                   *)
LEMMA KeepsFrame ==
  ASSUME Inv, NEW u \in Puns, NEW w, NEW m, Keeps(u, w, m), w # "none",
         \A p \in Procs \ {current[u]} :
           context'[p] = context[p] /\ frame'[p] = frame[p] /\ (p \in fresh' <=> p \in fresh),
         Blocked(current[u])', Own(current[u])'
  PROVE  MapOK' /\ StartOK' /\ FirstOK' /\ PlaceOK' /\ BlockedOK' /\ OwnOK'
<1> DEFINE p == current[u]
<1>1. Core /\ p \in Procs /\ PlaceOf(p) = u
  BY DEF Inv, TypeOK, Core, PlaceOK
<1>2. /\ stage[u] = "run" /\ UNCHANGED <<tables, start, current>>
      /\ where'[p] = w /\ \A q \in Procs \ {p} : where'[q] = where[q]
      /\ \A v \in Puns \ {u} : mask'[v] = mask[v]
  BY <1>1 DEF Keeps, Sets
<1>3. MapOK' /\ StartOK' /\ FirstOK' /\ Waiting' = {}
  BY <1>1, <1>2, RunFrame
<1>4. PlaceOK'
  <2>1. stage' = stage
    BY <1>2 DEF start
  <2>2. \A v \in Puns : /\ PlaceOf(current'[v]) = v
                        /\ stage'[v] = "run" => where'[current'[v]] # "none"
    BY <1>1, <1>2, <2>1 DEF Core, PlaceOK, Inv, TypeOK
  <2>3. ASSUME NEW q \in Procs, where'[q] \in Handling
        PROVE  current'[PlaceOf(q)] = q /\ stage'[PlaceOf(q)] = "run"
    <3>1. CASE q = p
      BY <3>1, <1>1, <1>2, <2>1
    <3>2. CASE q # p
      BY <3>2, <2>3, <1>1, <1>2, <2>1 DEF Core, PlaceOK, Current
    <3>. QED BY <3>1, <3>2
  <2>. QED BY <1>3, <2>2, <2>3 DEF PlaceOK, Current
<1>5. ASSUME NEW q \in Procs
      PROVE  Blocked(q)' /\ Own(q)'
  <2>1. CASE q = p
    <3>1. current'[u] = q
      BY <2>1, <1>2
    <3>. QED BY <3>1
  <2>2. CASE q # p
    BY <2>2, <1>1, <1>2, OtherKept
  <2>. QED BY <2>1, <2>2
<1>. QED BY <1>3, <1>4, <1>5 DEF BlockedOK, OwnOK

(* The signals that are pending stand for the same interrupts.             *)
LEMMA SignalFrame ==
  ASSUME Core, UNCHANGED tables, expired' \subseteq expired,
         \A v \in Puns : sent'[v] \subseteq sent[v]
  PROVE  SignalOK'
BY DEF Core, SignalOK, tables

(* disable.                                                                *)
LEMMA DisableCore ==
  ASSUME Inv, NEW u \in Puns, DisableTo(u)
  PROVE  Core'
<1> DEFINE p == current[u]
<1>1. Core /\ p \in Procs /\ PlaceOf(p) = u
  BY DEF Inv, TypeOK, Core, PlaceOK
<1>2. /\ where'[p] = "disabled" /\ mask'[u] = Signos /\ current' = current
      /\ Keeps(u, "disabled", Signos) /\ UNCHANGED tables
      /\ UNCHANGED <<sent, expired, context, frame, fresh>>
  BY <1>1 DEF DisableTo, Keeps, Sets
<1>3. Blocked(p)' /\ Own(p)'
  BY <1>1, <1>2 DEF Blocked, Own, MaskOf, Current, Handling
<1>4. MapOK' /\ StartOK' /\ FirstOK' /\ PlaceOK' /\ BlockedOK' /\ OwnOK'
  BY <1>2, <1>3, KeepsFrame
<1>5. SignalOK'
  BY <1>1, <1>2, SignalFrame
<1>. QED BY <1>4, <1>5 DEF Core

(* enable.                                                                 *)
LEMMA EnableCore ==
  ASSUME Inv, NEW u \in Puns, EnableTo(u)
  PROVE  Core'
<1> DEFINE p == current[u]
<1>1. Core /\ p \in Procs /\ PlaceOf(p) = u
  BY DEF Inv, TypeOK, Core, PlaceOK
<1>2. /\ where'[p] = "own" /\ mask'[u] = sigmask[u] /\ current' = current
      /\ Keeps(u, "own", sigmask[u]) /\ UNCHANGED tables /\ sigmask' = sigmask
      /\ fresh' = fresh \ {p} /\ UNCHANGED <<sent, expired, context, frame>>
  BY <1>1 DEF EnableTo, Keeps, Sets, tables
<1>3. Blocked(p)' /\ Own(p)'
  BY <1>1, <1>2 DEF Blocked, Own, MaskOf, Current, Handling
<1>4. MapOK' /\ StartOK' /\ FirstOK' /\ PlaceOK' /\ BlockedOK' /\ OwnOK'
  BY <1>2, <1>3, KeepsFrame
<1>5. SignalOK'
  BY <1>1, <1>2, SignalFrame
<1>. QED BY <1>4, <1>5 DEF Core

(* handle_signal.                                                          *)
LEMMA HandleCore ==
  ASSUME Inv, NEW u \in Puns, NEW s \in Signos, NEW w, HandleTo(u, s, w)
  PROVE  Core'
<1> DEFINE p == current[u]
<1>1. Core /\ p \in Procs /\ PlaceOf(p) = u /\ Own(p)
  BY DEF Inv, TypeOK, Core, PlaceOK, OwnOK
<1>2. /\ where[p] = "own" /\ where'[p] = w /\ w \in Handling /\ mask'[u] = Signos
      /\ current' = current /\ Keeps(u, w, Signos) /\ UNCHANGED tables /\ sigmask' = sigmask
  BY <1>1 DEF HandleTo, Keeps, Sets, tables
<1>3. /\ context'[p] = mask[u] /\ frame'[p] = mask[u] /\ fresh' = fresh
      /\ \A q \in Procs \ {p} : context'[q] = context[q] /\ frame'[q] = frame[q]
  BY <1>1 DEF HandleTo, Sets
<1>4. p \notin fresh => mask[u] = sigmask[u]
  BY <1>1, <1>2 DEF Own, MaskOf, Current
<1>5. Blocked(p)' /\ Own(p)'
  BY <1>1, <1>2, <1>3, <1>4 DEF Blocked, Own, MaskOf, Current, Handling
<1>6. MapOK' /\ StartOK' /\ FirstOK' /\ PlaceOK' /\ BlockedOK' /\ OwnOK'
  <2>1. w # "none"
    BY <1>2 DEF Handling
  <2>. QED BY <1>2, <1>3, <1>5, <2>1, KeepsFrame
<1>7. SignalOK'
  BY <1>1, <1>2, SignalFrame DEF HandleTo
<1>. QED BY <1>6, <1>7 DEF Core

(* The return from a handler.                                              *)
LEMMA EndCore ==
  ASSUME Inv, NEW u \in Puns, EndTo(u)
  PROVE  Core'
<1> DEFINE p == current[u]
<1>1. Core /\ p \in Procs /\ PlaceOf(p) = u /\ Own(p)
  BY DEF Inv, TypeOK, Core, PlaceOK, OwnOK
<1>2. /\ where[p] \in Handling \cup {"switched"} /\ where'[p] = "own" /\ mask'[u] = frame[p]
      /\ current' = current /\ Keeps(u, "own", frame[p]) /\ UNCHANGED tables /\ sigmask' = sigmask
  BY <1>1 DEF EndTo, Keeps, Sets, tables
<1>3. /\ UNCHANGED <<sent, expired, fresh>>
      /\ \A q \in Procs \ {p} : context'[q] = context[q] /\ frame'[q] = frame[q]
  BY <1>1 DEF EndTo, Sets
<1>4. Blocked(p)' /\ Own(p)'
  BY <1>1, <1>2, <1>3 DEF Blocked, Own, MaskOf, Current, Handling
<1>5. MapOK' /\ StartOK' /\ FirstOK' /\ PlaceOK' /\ BlockedOK' /\ OwnOK'
  BY <1>2, <1>3, <1>4, KeepsFrame
<1>6. SignalOK'
  BY <1>1, <1>2, <1>3, SignalFrame
<1>. QED BY <1>5, <1>6 DEF Core

(* A switch: the thread gets the mask of the process that gets the         *)
(* processor, and the other one keeps its mask in its context.             *)
LEMMA SwitchCore ==
  ASSUME Inv, NEW u \in Puns, NEW q \in Procs, NEW w, NEW m, SwitchTo(u, q, w, m)
  PROVE  Core'
<1>1. PICK p \in Procs : p = current[u]
  BY DEF Inv, TypeOK
<1>2. /\ Core /\ PlaceOK /\ PlaceOf(p) = u /\ Current(p)
      /\ Blocked(p) /\ Own(p) /\ Blocked(q) /\ Own(q)
  BY <1>1 DEF Inv, Core, PlaceOK, BlockedOK, OwnOK, Current
<1>3. /\ stage[u] = "run" /\ PlaceOf(q) = u /\ where[q] # "none" /\ q # p
      /\ UNCHANGED <<tables, start, sent, expired>> /\ sigmask' = sigmask /\ stage' = stage
  BY <1>1 DEF SwitchTo, tables, start
<1>4. /\ current'[u] = q /\ mask'[u] = context[q]
      /\ \A v \in Puns \ {u} : current'[v] = current[v] /\ mask'[v] = mask[v]
  BY DEF SwitchTo, Sets
<1>5. /\ where'[p] = w /\ context'[p] = m
      /\ \A r \in Procs \ {p} :
           /\ where'[r] = where[r] /\ frame'[r] = frame[r] /\ (r \in fresh' <=> r \in fresh)
           /\ r # q => context'[r] = context[r]
      /\ where[q] = "switched" => context'[q] = context[q]
  BY <1>1 DEF SwitchTo, Sets
<1>6. MapOK' /\ StartOK' /\ FirstOK' /\ Waiting' = {}
  <2>1. \A r \in Procs \ Apps : PlaceOf(r) # u => where'[r] = where[r] /\ context'[r] = context[r]
    BY <1>2, <1>3, <1>5
  <2>. QED BY <1>2, <1>3, <1>4, <2>1, RunFrame
<1>7. where[q] \notin Handling /\ ~ Current(q)
  BY <1>1, <1>2, <1>3 DEF PlaceOK, Current
<1>8. w \notin Handling /\ (w # "none" => (p \in fresh' <=> p \in fresh))
  BY <1>1 DEF SwitchTo, Leaves, Handling
<1>9. PlaceOK'
  <2>1. ASSUME NEW v \in Puns
        PROVE  PlaceOf(current'[v]) = v /\ (stage'[v] = "run" => where'[current'[v]] # "none")
    <3>1. CASE v = u
      BY <3>1, <1>3, <1>4, <1>5
    <3>2. CASE v # u
      <4>1. current'[v] = current[v] /\ PlaceOf(current[v]) = v /\ current[v] \in Procs \ {p}
        BY <3>2, <1>2, <1>4 DEF PlaceOK, Inv, TypeOK
      <4>. QED BY <4>1, <1>2, <1>3, <1>5 DEF PlaceOK
    <3>. QED BY <3>1, <3>2
  <2>2. ASSUME NEW r \in Procs, where'[r] \in Handling
        PROVE  current'[PlaceOf(r)] = r /\ stage'[PlaceOf(r)] = "run"
    <3>1. r # p /\ where[r] \in Handling
      BY <2>2, <1>5, <1>8
    <3>2. current[PlaceOf(r)] = r /\ stage[PlaceOf(r)] = "run" /\ PlaceOf(r) \in Puns
      BY <3>1, <1>2, Places DEF PlaceOK, Current
    <3>3. PlaceOf(r) # u
      BY <3>1, <3>2, <1>1
    <3>. QED BY <3>2, <3>3, <1>3, <1>4
  <2>. QED BY <1>6, <2>1, <2>2 DEF PlaceOK, Current
<1>10. Blocked(p)' /\ Own(p)'
  <2>1. ~ Current(p)'
    BY <1>2, <1>3, <1>4 DEF Current
  <2>2. MaskOf(p) = mask[u] /\ MaskOf(p)' = m
    BY <1>2, <1>5, <2>1 DEF MaskOf
  <2>3. CASE where[p] = "disabled" /\ w = "disabled" /\ m = mask[u]
    BY <2>2, <2>3, <1>2, <1>5 DEF Blocked, Own, Handling
  <2>4. CASE w = "none"
    BY <2>4, <1>5 DEF Blocked, Own, Handling
  <2>5. CASE where[p] = "interproc" /\ w = "switched" /\ m = mask[u] /\ frame' = frame
    BY <2>2, <2>5, <1>2, <1>3, <1>5, <1>8 DEF Blocked, Own, Handling
  <2>6. CASE /\ where[p] = "switched" /\ w = "switched" /\ m \in {mask[u], context[p]}
             /\ frame' = frame
    BY <2>2, <2>6, <1>2, <1>3, <1>5, <1>8 DEF Blocked, Own, Handling
  <2>7. CASE where[p] \in {"timeout", "interproc"} /\ w = "own" /\ m = context[p]
    BY <2>2, <2>7, <1>2, <1>3, <1>5, <1>8 DEF Blocked, Own, Handling
  <2>. QED BY <1>1, <2>3, <2>4, <2>5, <2>6, <2>7 DEF SwitchTo, Leaves
<1>11. Blocked(q)' /\ Own(q)'
  <2>1. Current(q)'
    BY <1>3, <1>4 DEF Current
  <2>2. MaskOf(q) = context[q] /\ MaskOf(q)' = context[q]
    BY <1>3, <1>4, <1>7, <2>1 DEF MaskOf
  <2>3. /\ where'[q] = where[q] /\ frame'[q] = frame[q] /\ (q \in fresh' <=> q \in fresh)
        /\ where[q] = "switched" => context'[q] = context[q]
    BY <1>3, <1>5
  <2>. QED BY <1>2, <1>3, <1>7, <2>2, <2>3 DEF Blocked, Own, Handling
<1>12. ASSUME NEW r \in Procs, r # p, r # q
       PROVE  Blocked(r)' /\ Own(r)'
  BY <1>1, <1>2, <1>3, <1>4, <1>5, <1>12, OtherKept
<1>13. BlockedOK' /\ OwnOK'
  BY <1>10, <1>11, <1>12 DEF BlockedOK, OwnOK
<1>14. SignalOK'
  BY <1>2, <1>3, SignalFrame
<1>. QED BY <1>6, <1>9, <1>13, <1>14 DEF Core

(* A process is built with the mask of the thread.                         *)
LEMMA BuildCore ==
  ASSUME Inv, NEW u \in Puns, NEW q \in Procs, BuildTo(u, q)
  PROVE  Core'
<1>1. /\ Core /\ PlaceOK /\ FirstOK /\ current[u] \in Procs /\ PlaceOf(current[u]) = u
      /\ Own(current[u]) /\ PlaceOf(q) \in Puns
  BY Places DEF Inv, TypeOK, Core, PlaceOK, OwnOK
<1>2. /\ stage[u] = "run" /\ where[current[u]] = "own" /\ q \in Apps /\ where[q] = "none"
      /\ UNCHANGED <<tables, start, mask, sent, expired, current, frame>> /\ sigmask' = sigmask
      /\ stage' = stage
  BY DEF BuildTo, tables, start, threads
<1>3. /\ where'[q] = "own" /\ context'[q] = mask[u]
      /\ \A p \in Procs \ {q} :
           where'[p] = where[p] /\ context'[p] = context[p] /\ (p \in fresh' <=> p \in fresh)
      /\ q \notin fresh' => PlaceOf(q) = u /\ current[u] \notin fresh
  BY DEF BuildTo, Sets
<1>4. MapOK' /\ StartOK' /\ FirstOK' /\ Waiting' = {}
  BY <1>1, <1>2, <1>3, RunFrame
<1>5. \A v \in Puns : current[v] # q
  <2>1. ASSUME NEW v \in Puns, stage[v] # "run" PROVE current[v] # q
    BY <2>1, <1>1, <1>2, Places DEF FirstOK
  <2>2. ASSUME NEW v \in Puns, stage[v] = "run" PROVE current[v] # q
    BY <2>2, <1>1, <1>2 DEF PlaceOK
  <2>. QED BY <2>1, <2>2
<1>6. PlaceOK'
  <2>1. ASSUME NEW v \in Puns
        PROVE  PlaceOf(current'[v]) = v /\ (stage'[v] = "run" => where'[current'[v]] # "none")
    <3>1. current[v] \in Procs \ {q}
      BY <1>5 DEF Inv, TypeOK
    <3>. QED BY <3>1, <1>1, <1>2, <1>3 DEF PlaceOK
  <2>2. ASSUME NEW r \in Procs, where'[r] \in Handling
        PROVE  current'[PlaceOf(r)] = r /\ stage'[PlaceOf(r)] = "run"
    <3>1. r # q
      BY <2>2, <1>3 DEF Handling
    <3>. QED BY <2>2, <3>1, <1>1, <1>2, <1>3 DEF PlaceOK, Current
  <2>. QED BY <1>4, <2>1, <2>2 DEF PlaceOK, Current
<1>7. Blocked(q)' /\ Own(q)'
  <2>1. ~ Current(q)' /\ MaskOf(q)' = mask[u]
    BY <1>1, <1>2, <1>3, <1>5 DEF MaskOf, Current
  <2>2. q \notin fresh' => mask[u] = sigmask[u]
    BY <1>1, <1>2, <1>3 DEF Own, MaskOf, Current
  <2>. QED BY <1>2, <1>3, <2>1, <2>2 DEF Blocked, Own, Handling
<1>8. ASSUME NEW p \in Procs, p # q
      PROVE  Blocked(p)' /\ Own(p)'
  <2>1. Blocked(p) /\ Own(p)
    BY <1>1 DEF Core, BlockedOK, OwnOK
  <2>. QED BY <2>1, <1>2, <1>3, <1>8 DEF Blocked, Own, MaskOf, Current
<1>9. BlockedOK' /\ OwnOK'
  BY <1>7, <1>8 DEF BlockedOK, OwnOK
<1>10. SignalOK'
  BY <1>1, <1>2, SignalFrame
<1>. QED BY <1>4, <1>6, <1>9, <1>10 DEF Core

(* Nothing changes but the signals that are pending, and the clock.        *)
LEMMA PendingFrame ==
  ASSUME Core, UNCHANGED <<tables, start, mask, procs>>, SignalOK'
  PROVE  Core'
<1>1. MapOK'
  BY MapFrame DEF Core, start
<1>2. StartOK' /\ FirstOK' /\ PlaceOK'
  BY DEF Core, StartOK, FirstOK, PlaceOK, Waiting, Current, start, procs
<1>3. BlockedOK' /\ OwnOK'
  BY DEF Core, BlockedOK, OwnOK, Blocked, Own, MaskOf, Current, tables, procs
<1>. QED BY <1>1, <1>2, <1>3 DEF Core

(* A signal becomes pending.                                               *)
LEMMA PendingCore ==
  ASSUME Core,
         \/ TickTo
         \/ \E u \in Puns : ExpireTo(u)
         \/ \E u, v \in Puns, i \in Direct : SendTo(u, v, i)
  PROVE  Core'
<1>1. CASE TickTo
  <2>1. SignalOK'
    BY <1>1 DEF Core, SignalOK, TickTo, tables
  <2>. QED BY <1>1, <2>1, PendingFrame DEF TickTo
<1>2. ASSUME NEW u \in Puns, ExpireTo(u) PROVE Core'
  <2>1. SignalOK'
    BY <1>2 DEF Core, SignalOK, ExpireTo, tables
  <2>. QED BY <1>2, <2>1, PendingFrame DEF ExpireTo
<1>3. ASSUME NEW u \in Puns, NEW v \in Puns, NEW i \in Direct, SendTo(u, v, i) PROVE Core'
  <2>1. SignalOK'
    BY <1>3 DEF Core, SignalOK, SendTo, Sets, tables
  <2>. QED BY <1>3, <2>1, PendingFrame DEF SendTo
<1>. QED BY <1>1, <1>2, <1>3

(* The clock is read.                                                      *)
LEMMA ReadCore ==
  ASSUME Core, NEW u \in Puns, ReadTo(u)
  PROVE  Core'
<1>1. SignalOK'
  BY SignalFrame DEF ReadTo, threads
<1>. QED BY <1>1, PendingFrame DEF ReadTo, threads

(* The invariant holds when initialize has called hardware_init.           *)
LEMMA InitInv == Init => Inv
<1>. SUFFICES ASSUME Init PROVE Inv
  OBVIOUS
<1>1. NPUN \in Nat /\ NPUN > 0 /\ 0 \in Puns /\ Main \in Procs
      /\ \A u \in Puns : Idle(u) \in Procs /\ Idle(u) # Main
      /\ PlaceOf(Main) = 0 /\ \A v \in Puns : PlaceOf(Idle(v)) = v
  BY HardwareAssumption, Places
<1>2. TypeOK
  <2>1. /\ stage \in [Puns -> Stages] /\ defined \in [Puns -> Nat] /\ next_signo \in Nat \ {0}
        /\ barrier \in Int /\ lag \in Int /\ fresh \in SUBSET Procs /\ expired \in SUBSET Signos
    BY <1>1 DEF Init, Stages
  <2>2. /\ interrupt \in [Signos -> Puns \X (Intrs \cup {"none"})]
        /\ signal_no \in [Puns -> [Intrs -> Signos \cup {None}]]
    BY <1>1 DEF Init
  <2>3. /\ sigmask \in [Puns -> SUBSET Signos] /\ mask \in [Puns -> SUBSET Signos]
        /\ sent \in [Puns -> SUBSET Signos]
        /\ context \in [Procs -> SUBSET Signos] /\ frame \in [Procs -> SUBSET Signos]
    BY DEF Init
  <2>4. current \in [Puns -> Procs] /\ where \in [Procs -> Wheres] /\ reading \in [Procs -> Reading]
    BY <1>1, Readings DEF Init, Wheres
  <2>. QED BY <2>1, <2>2, <2>3, <2>4 DEF TypeOK
<1>3. MapOK
  <2>1. \A v \in Puns : Given(v) = {}
    BY DEF Init, Given
  <2>2. \A s \in Signos : ~ (s < next_signo) /\ interrupt[s] = <<0, "none">>
    BY <1>1 DEF Init, Signos
  <2>. QED BY <1>1, <2>1, <2>2 DEF Init, MapOK
<1>4. StartOK
  <2>1. Waiting = Puns
    BY DEF Init, Waiting
  <2>2. Cardinality(Puns) = NPUN
    BY <1>1, FS_Interval DEF Puns
  <2>3. \A u \in Puns : 0 <= Len(Handlers(u))
    BY HandlersAre
  <2>. QED BY <2>1, <2>2, <2>3 DEF Init, StartOK
<1>5. FirstOK /\ PlaceOK
  BY <1>1 DEF Init, FirstOK, PlaceOK, Current, Handling
<1>6. BlockedOK /\ OwnOK
  BY <1>1 DEF Init, BlockedOK, OwnOK, Blocked, Own, MaskOf, Current, Handling
<1>7. SignalOK
  BY DEF Init, SignalOK
<1>. QED BY <1>2, <1>3, <1>4, <1>5, <1>6, <1>7 DEF Inv, Core

(* Every step keeps it.                                                    *)
LEMMA InvStep == Inv /\ [Next]_vars => Inv'
<1>. SUFFICES ASSUME Inv, [Next]_vars PROVE Inv'
  OBVIOUS
<1>1. TypeOK /\ Core
  BY DEF Inv
<1>2. CASE Tick
  BY <1>1, <1>2, TickEffect, PendingCore DEF Inv
<1>3. ASSUME NEW u \in Puns, define_handler(u) PROVE Inv'
  BY <1>3, DefineEffect, DefineCore DEF Inv
<1>4. ASSUME NEW u \in Puns, Block(u) PROVE Inv'
  BY <1>1, <1>4, BlockEffect, BlockCore DEF Inv
<1>5. ASSUME NEW u \in Puns, Activate(u) PROVE Inv'
  BY <1>1, <1>5, ActivateEffect, ActivateCore DEF Inv
<1>6. ASSUME NEW u \in Puns, Arrive(u) PROVE Inv'
  BY <1>1, <1>6, ArriveEffect, ArriveCore DEF Inv
<1>7. ASSUME NEW u \in Puns, Depart(u) PROVE Inv'
  BY <1>1, <1>7, DepartEffect, DepartCore DEF Inv
<1>8. ASSUME NEW u \in Puns, disable(u) PROVE Inv'
  BY <1>1, <1>8, DisableEffect, DisableCore DEF Inv
<1>9. ASSUME NEW u \in Puns, enable(u) PROVE Inv'
  BY <1>1, <1>9, EnableEffect, EnableCore DEF Inv
<1>10. ASSUME NEW u \in Puns, Expire(u) PROVE Inv'
  BY <1>1, <1>10, ExpireEffect, PendingCore DEF Inv
<1>11. ASSUME NEW u \in Puns, Return(u) \/ handle_elapsed_time_interrupt(u) PROVE Inv'
  BY <1>1, <1>11, ReturnEffect, ElapsedEffect, EndCore DEF Inv
<1>12. ASSUME NEW u \in Puns, GetCurrentTime(u) \/ read_timer(u) \/ Reload(u) PROVE Inv'
  BY <1>1, <1>12, ReadEffect, ReadCore DEF Inv
<1>13. ASSUME NEW u \in Puns, NEW q \in Procs,
              switch_context(u, q) \/ restore_context(u, q) \/ switch_interrupt_context(u, q)
       PROVE  Inv'
  BY <1>1, <1>13, SwitchContextEffect, RestoreContextEffect, SwitchInterruptContextEffect,
     SwitchCore DEF Inv
<1>14. ASSUME NEW u \in Puns, NEW q \in Procs, build_context(u, q) PROVE Inv'
  BY <1>1, <1>14, BuildEffect, BuildCore DEF Inv
<1>15. ASSUME NEW u \in Puns,
              \/ \E v \in Puns : send_interprocessor_interrupt(u, v)
              \/ \E i \in Users : send_interrupt(u, i)
       PROVE  Inv'
  <2>1. PICK v \in Puns, i \in Direct : TypeOK' /\ SendTo(u, v, i)
    BY <1>1, <1>15, SendEffect DEF Users, Direct
  <2>. QED BY <1>1, <2>1, PendingCore DEF Inv
<1>16. ASSUME NEW u \in Puns, NEW s \in Signos, handle_signal(u, s) PROVE Inv'
  BY <1>16, HandleEffect, HandleCore DEF Inv
<1>17. CASE UNCHANGED vars
  <2>1. UNCHANGED <<tables, start, threads, procs, clock>>
    BY <1>17 DEF vars
  <2>2. TypeOK'
    BY <2>1, <1>1 DEF TypeOK, tables, start, threads, procs, clock
  <2>3. SignalOK'
    BY <2>1, <1>1, SignalFrame DEF threads
  <2>. QED BY <2>1, <2>2, <2>3, <1>1, PendingFrame DEF Inv, threads
<1>. QED BY <1>2, <1>3, <1>4, <1>5, <1>6, <1>7, <1>8, <1>9, <1>10, <1>11, <1>12, <1>13,
            <1>14, <1>15, <1>16, <1>17 DEF Next

(* All of the above holds of every behaviour.                              *)
THEOREM HardwareInvariant == Spec => []Inv
BY InitInv, InvStep, PTL DEF Spec

(* The barrier of synchronize_processors does what its comment says        *)
(* (hardware.c:328-330): nobody runs before everybody has defined its      *)
(* interrupt handlers, whatever the number of processors.                  *)
THEOREM HardwareComplete == Spec => []Complete
<1>1. Inv => Complete
  <2>. SUFFICES ASSUME Inv, NEW u \in Puns, NEW v \in Puns, stage[u] = "run"
                PROVE  /\ stage[v] \in {"spin", "run"}
                       /\ \A k \in 1 .. Len(Handlers(v)) :
                            LET s == signal_no[v][Handlers(v)[k]]
                            IN  s # None /\ interrupt[s] = <<v, Handlers(v)[k]>>
    BY DEF Complete
  <2>1. MapOK /\ StartOK /\ 0 \notin Signos
    BY DEF Inv, Core, Signos
  <2>2. 1 \in 1 .. Len(Handlers(v))
    BY HandlersAre
  <2>. QED BY <2>1, <2>2, FullMaps DEF None
<1>. QED BY <1>1, HardwareInvariant, PTL

(* A process that executes its own code has exactly the signals of its     *)
(* processor unblocked, however it lost and regained the processor         *)
(* (sched.c:588-592, switch_interrupt_context).                            *)
THEOREM HardwareSettled == Spec => []Settled
<1>1. Inv => Settled
  <2>. SUFFICES ASSUME Inv, NEW u \in Puns, In(u, "own"), current[u] \notin fresh
                PROVE  mask[u] = sigmask[u]
    BY DEF Settled
  <2>1. current[u] \in Procs /\ PlaceOf(current[u]) = u /\ Own(current[u])
    BY DEF Inv, TypeOK, Core, PlaceOK, OwnOK
  <2>. QED BY <2>1 DEF In, Own, MaskOf, Current
<1>. QED BY <1>1, HardwareInvariant, PTL

-----------------------------------------------------------------------------
(* The clock, as long as no two ticks pass with its signal blocked.        *)

(* A tick that is not in currentTime has its signal pending, or its        *)
(* handler is running, once; and whoever has read the timer in such a      *)
(* tick will find currentTime changed when it has been counted.            *)
ClockOK ==
  /\ lag \in {0, 1}
  /\ Elapsed \in expired => lag = 1 /\ \A p \in Procs : where[p] # "elapsed"
  /\ \A p, q \in Procs : where[p] = "elapsed" /\ where[q] = "elapsed" => p = q
  /\ \A p \in Procs : where[p] = "elapsed" => lag = 1
  /\ lag = 1 => Elapsed \in expired \/ \E p \in Procs : where[p] = "elapsed"
  /\ \A p \in Procs :
       reading[p].at = "load" /\ ~ reading[p].changed /\ ~ reading[p].good => lag = 1

(* A step that has nothing to do with the clock.                           *)
LEMMA ClockFrame ==
  ASSUME ClockOK, lag' = lag, reading' = reading, Elapsed' = Elapsed,
         Elapsed \in expired' <=> Elapsed \in expired,
         \A p \in Procs : where'[p] = "elapsed" <=> where[p] = "elapsed"
  PROVE  ClockOK'
BY DEF ClockOK

(* The signal of the clock is the one whose interrupt is ELAPSED.          *)
LEMMA ElapsedSignal ==
  ASSUME Inv, NEW s \in Signos
  PROVE  s = Elapsed <=> interrupt[s][2] = "ELAPSED"
<1>1. MapOK /\ 0 \in Puns /\ "ELAPSED" \in Intrs /\ s # None
  BY Places DEF Inv, Core, Intrs, Users, None, Signos
<1>2. ASSUME s = Elapsed PROVE interrupt[s][2] = "ELAPSED"
  BY <1>1, <1>2 DEF MapOK, Elapsed
<1>3. ASSUME interrupt[s][2] = "ELAPSED" PROVE s = Elapsed
  <2>1. interrupt[s] \in AllIntrs /\ signal_no[interrupt[s][1]][interrupt[s][2]] = s
    BY <1>1, <1>3 DEF MapOK
  <2>2. interrupt[s][1] = 0
    BY <2>1, <1>3 DEF AllIntrs
  <2>. QED BY <2>1, <2>2, <1>3 DEF Elapsed
<1>. QED BY <1>2, <1>3

(* Where the clock's interrupt gets its signal, there has been no tick.    *)
LEMMA DefineClock ==
  ASSUME Inv, ClockOK, NEW u \in Puns, NEW i \in Intrs \ Given(u), next_signo \in Signos,
         DefineTo(u, i)
  PROVE  ClockOK'
<1>1. MapOK /\ PlaceOK /\ SignalOK /\ expired \subseteq Signos /\ 0 \in Puns /\ "ELAPSED" \in Intrs
      /\ next_signo \in Nat
  BY Places DEF Inv, TypeOK, Core, Intrs, Users
<1>2. UNCHANGED <<expired, where, lag, reading>>
  BY DEF DefineTo, threads, procs, clock
<1>3. CASE u # 0 \/ i # "ELAPSED"
  BY <1>1, <1>2, <1>3, ClockFrame DEF DefineTo, Elapsed
<1>4. CASE u = 0 /\ i = "ELAPSED"
  <2>1. Elapsed = None /\ Elapsed \notin expired
    BY <1>1, <1>4 DEF MapOK, Elapsed, None, Signos
  <2>2. \A p \in Procs : where[p] # "elapsed"
    BY <1>1 DEF PlaceOK, DefineTo, Waiting
  <2>3. next_signo \notin expired
    <3>1. interrupt[next_signo] = <<0, "none">>
      BY <1>1 DEF MapOK
    <3>. QED BY <3>1, <1>1 DEF SignalOK
  <2>4. Elapsed' = next_signo
    BY <1>1, <1>4 DEF DefineTo, Elapsed
  <2>. QED BY <1>2, <2>1, <2>2, <2>3, <2>4 DEF ClockOK
<1>. QED BY <1>3, <1>4

(* The signal of the clock is taken once.                                  *)
LEMMA HandleClock ==
  ASSUME Inv, ClockOK, NEW u \in Puns, NEW s \in Signos, NEW w, HandleTo(u, s, w)
  PROVE  ClockOK'
<1>1. current[u] \in Procs /\ where[current[u]] = "own"
  BY DEF Inv, TypeOK, HandleTo
<1>2. /\ where'[current[u]] = w /\ \A p \in Procs \ {current[u]} : where'[p] = where[p]
      /\ UNCHANGED <<lag, reading>> /\ Elapsed' = Elapsed
  BY <1>1 DEF HandleTo, Keeps, Sets, clock, tables, Elapsed
<1>3. (s = Elapsed <=> interrupt[s][2] = "ELAPSED") /\ (w = "elapsed" <=> s = Elapsed)
  BY ElapsedSignal DEF HandleTo
<1>4. CASE s = Elapsed
  <2>1. Elapsed \in expired /\ Elapsed \notin expired'
    BY <1>3, <1>4 DEF HandleTo, Direct
  <2>. QED BY <1>1, <1>2, <1>3, <1>4, <2>1 DEF ClockOK
<1>5. CASE s # Elapsed
  <2>1. Elapsed \in expired' <=> Elapsed \in expired
    BY <1>5 DEF HandleTo
  <2>. QED BY <1>1, <1>2, <1>3, <1>5, <2>1, ClockFrame
<1>. QED BY <1>4, <1>5

(* Every step keeps ClockOK.                                               *)
LEMMA ClockStep ==
  ASSUME MaxLag = 1, Inv, ClockOK, [Next]_vars
  PROVE  ClockOK'
<1>1. TypeOK /\ \A u \in Puns : current[u] \in Procs
  BY DEF Inv, TypeOK
<1>2. CASE Tick
  <2>1. TickTo
    BY <1>2, TickEffect
  <2>2. lag = 0 /\ lag' = 1 /\ expired' = expired \cup {Elapsed} /\ Elapsed' = Elapsed
        /\ UNCHANGED <<where, reading>>
    BY <2>1 DEF TickTo, ClockOK, tables, procs, Elapsed
  <2>. QED BY <2>2 DEF ClockOK
<1>3. ASSUME NEW u \in Puns, define_handler(u) PROVE ClockOK'
  BY <1>3, DefineEffect, DefineClock
<1>4. ASSUME NEW u \in Puns, Block(u) \/ Arrive(u) \/ Depart(u) PROVE ClockOK'
  BY <1>4, ClockFrame DEF Block, Arrive, Depart, tables, threads, procs, clock, Elapsed
<1>5. ASSUME NEW u \in Puns, Activate(u) PROVE ClockOK'
  <2>1. ActivateTo(u)
    BY <1>1, <1>5, ActivateEffect
  <2>. QED BY <2>1, ClockFrame DEF ActivateTo, Sets, tables, clock, Elapsed
<1>6. ASSUME NEW u \in Puns, disable(u) PROVE ClockOK'
  <2>1. DisableTo(u)
    BY <1>1, <1>6, DisableEffect
  <2>. QED BY <2>1, ClockFrame DEF DisableTo, Keeps, Sets, tables, clock, Elapsed
<1>7. ASSUME NEW u \in Puns, enable(u) PROVE ClockOK'
  <2>1. EnableTo(u)
    BY <1>1, <1>7, EnableEffect
  <2>. QED BY <2>1, ClockFrame DEF EnableTo, Keeps, Sets, tables, clock, Elapsed
<1>8. ASSUME NEW u \in Puns, Expire(u) PROVE ClockOK'
  <2>1. ExpireTo(u)
    BY <1>8, ExpireEffect
  <2>2. Elapsed \in expired' <=> Elapsed \in expired
    <3>1. ASSUME Elapsed = signal_no[u]["TIMEOUT"] PROVE FALSE
      <4>1. Elapsed \in Signos
        BY <2>1, <3>1 DEF ExpireTo
      <4>. QED BY <4>1, <2>1, <3>1, ElapsedSignal DEF ExpireTo
    <3>. QED BY <2>1, <3>1 DEF ExpireTo
  <2>. QED BY <2>1, <2>2, ClockFrame DEF ExpireTo, tables, procs, clock, Elapsed
<1>9. ASSUME NEW u \in Puns, Return(u) PROVE ClockOK'
  <2>1. EndTo(u) /\ UNCHANGED clock /\ where[current[u]] # "elapsed"
    BY <1>1, <1>9, ReturnEffect
  <2>. QED BY <2>1, ClockFrame DEF EndTo, Keeps, Sets, tables, clock, Elapsed
<1>10. ASSUME NEW u \in Puns, handle_elapsed_time_interrupt(u) PROVE ClockOK'
  <2>1. EndTo(u) /\ ElapsedTo(u)
    BY <1>1, <1>10, ElapsedEffect
  <2>2. /\ where[current[u]] = "elapsed" /\ where'[current[u]] = "own"
        /\ \A p \in Procs \ {current[u]} : where'[p] = where[p]
        /\ lag' = lag - 1 /\ Elapsed' = Elapsed /\ expired' = expired
    BY <1>1, <2>1 DEF EndTo, ElapsedTo, Keeps, Sets, tables, Elapsed
  <2>3. lag = 1 /\ Elapsed \notin expired /\ \A p \in Procs \ {current[u]} : where[p] # "elapsed"
    BY <1>1, <2>2 DEF ClockOK
  <2>. QED BY <2>1, <2>2, <2>3 DEF ClockOK, ElapsedTo
<1>11. ASSUME NEW u \in Puns, GetCurrentTime(u) \/ read_timer(u) \/ Reload(u) PROVE ClockOK'
  <2>1. ReadTo(u)
    BY <1>1, <1>11, ReadEffect
  <2>2. UNCHANGED <<lag, where, expired>> /\ Elapsed' = Elapsed
    BY <2>1 DEF ReadTo, tables, threads, procs, Elapsed
  <2>. QED BY <2>1, <2>2 DEF ClockOK, ReadTo
<1>12. ASSUME NEW u \in Puns, NEW q \in Procs,
              switch_context(u, q) \/ restore_context(u, q) \/ switch_interrupt_context(u, q)
       PROVE  ClockOK'
  <2>1. PICK w, m : SwitchTo(u, q, w, m)
    BY <1>1, <1>12, SwitchContextEffect, RestoreContextEffect, SwitchInterruptContextEffect
  <2>2. where[current[u]] # "elapsed" /\ w # "elapsed"
    BY <2>1 DEF SwitchTo, Leaves
  <2>. QED BY <2>1, <2>2, ClockFrame DEF SwitchTo, Sets, tables, clock, Elapsed
<1>13. ASSUME NEW u \in Puns, NEW q \in Procs, build_context(u, q) PROVE ClockOK'
  <2>1. BuildTo(u, q)
    BY <1>1, <1>13, BuildEffect
  <2>. QED BY <2>1, ClockFrame DEF BuildTo, Sets, tables, threads, clock, Elapsed
<1>14. ASSUME NEW u \in Puns,
              \/ \E v \in Puns : send_interprocessor_interrupt(u, v)
              \/ \E i \in Users : send_interrupt(u, i)
       PROVE  ClockOK'
  BY <1>14, ClockFrame
     DEF send_interprocessor_interrupt, send_interrupt, tables, procs, clock, Elapsed
<1>15. ASSUME NEW u \in Puns, NEW s \in Signos, handle_signal(u, s) PROVE ClockOK'
  BY <1>15, HandleEffect, HandleClock
<1>16. CASE UNCHANGED vars
  BY <1>16, ClockFrame DEF vars, tables, threads, procs, clock, Elapsed
<1>. QED BY <1>2, <1>3, <1>4, <1>5, <1>6, <1>7, <1>8, <1>9, <1>10, <1>11, <1>12, <1>13,
            <1>14, <1>15, <1>16 DEF Next

(* "same currentTime twice in a row ensures t is good" (timer.c:80), on    *)
(* the processor of the clock with its interrupt enabled, if the handler   *)
(* of elapsed time runs in every tick.                                     *)
THEOREM HardwareTimeGood ==
  ASSUME MaxLag = 1
  PROVE  Spec => []TimeGood
<1>1. Init => ClockOK
  <2>. SUFFICES ASSUME Init PROVE ClockOK
    OBVIOUS
  <2>1. \A p \in Procs : reading[p].at = "out" /\ where[p] # "elapsed"
    BY Readings DEF Init
  <2>. QED BY <2>1 DEF Init, ClockOK
<1>2. Inv /\ ClockOK /\ [Next]_vars => ClockOK'
  BY ClockStep
<1>3. Inv /\ ClockOK => TimeGood
  <2>. SUFFICES ASSUME Inv, ClockOK, InClock(0, "load"), Same(reading[current[0]]),
                       Elapsed \notin mask[0], ~ (\E v \in Puns : In(v, "elapsed"))
                PROVE  reading[current[0]].good
    BY DEF TimeGood
  <2>1. current[0] \in Procs /\ reading[current[0]].at = "load" /\ ~ reading[current[0]].changed
        /\ Elapsed \notin expired
    BY Places DEF Inv, TypeOK, InClock, Same
  <2>2. \A p \in Procs : where[p] # "elapsed"
    <3>1. ASSUME NEW p \in Procs, where[p] = "elapsed" PROVE FALSE
      <4>1. PlaceOf(p) \in Puns /\ current[PlaceOf(p)] = p /\ stage[PlaceOf(p)] = "run"
        BY <3>1, Places DEF Inv, Core, PlaceOK, Current, Handling
      <4>. QED BY <3>1, <4>1 DEF In
    <3>. QED BY <3>1
  <2>. QED BY <2>1, <2>2 DEF ClockOK
<1>. QED BY <1>1, <1>2, <1>3, HardwareInvariant, PTL DEF Spec
=============================================================================
