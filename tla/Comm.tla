-------------------------------- MODULE Comm --------------------------------
(***************************************************************************)
(* Channels (comm.c) and alternation (alt.c), between processes that run   *)
(* at any speed relative to each other.                                    *)
(*                                                                         *)
(* What a process does between claim_mutex and release_mutex of a channel  *)
(* is one step: nobody else looks at the channel, and at the process's own *)
(* sched_state only once the channel names it.  Everything after the       *)
(* release is a step of its own.  The scheduler is reduced to what Sched   *)
(* shows of it: a process whose exchange in relinquish succeeds is asleep  *)
(* until somebody schedules it.                                            *)
(***************************************************************************)
EXTENDS Integers, Sequences, FiniteSets, Functions

CONSTANTS
  Procs,
  Channels,
  Writer, Reader,   \* each channel connects exactly two processes
  Guards,           \* Guards[p]: p's guards, channels or SKIP; << >> if none
  Fair,             \* the processes that use fairSelect, others priSelect
  Polled,           \* the channels that are read with try_in
  Values,           \* what is sent
  NULL, SKIP

ASSUME CommAssumption ==
  /\ Writer \in [Channels -> Procs] /\ Reader \in [Channels -> Procs]
  /\ \A c \in Channels : Writer[c] # Reader[c]
  /\ Guards \in [Procs -> Seq(Channels \cup {SKIP})]
  /\ \A p \in Procs : \A c \in Range(Guards[p]) \ {SKIP} : Reader[c] = p
  /\ Fair \subseteq Procs /\ Polled \subseteq Channels
  /\ NULL \notin Procs \cup Channels \cup Values /\ SKIP \notin Channels

VARIABLES
  waiting,       \* waiting[c]: the field of the channel
  ptr,           \* ptr[c]: the union of src and dest: whose buffer, or NULL
  sched_state,   \* the fields of the process record
  alt_state,
  buf,           \* buf[p]: the word that p sends from and reads into
  pc,            \* where p is
  ch,            \* the channel of the in, out or try_in that p is in
  was,           \* wasWaiting, the process p has found in a channel
  k,             \* how far p is in its guards, counted from the first tried
  sel,           \* selected, a position in Guards[p], 0 for the code's -1
  favorite       \* Alternation.favorite, counted from 0

vars == <<waiting, ptr, sched_state, alt_state, buf, pc, ch, was, k, sel, favorite>>
chans == <<waiting, ptr>>
alts == <<alt_state, k, sel, favorite>>

PCs == {"run", "out", "in", "try_in", "wake", "free", "free2", "relinquish",
        "asleep", "return", "enable", "altShouldWait", "altAsleep", "disable",
        "altFinish"}

TypeOK ==
  /\ waiting \in [Channels -> Procs \cup {NULL}]
  /\ ptr \in [Channels -> Procs \cup {NULL}]
  /\ sched_state \in [Procs -> {"READY", "PREPARING_TO_WAIT", "WAITING"}]
  /\ alt_state \in [Procs -> {"NONE", "ENABLING", "WAITING", "READY"}]
  /\ buf \in [Procs -> Values]
  /\ pc \in [Procs -> PCs]
  /\ ch \in [Procs -> Channels \cup {NULL}]
  /\ was \in [Procs -> Procs \cup {NULL}]
  /\ k \in [Procs -> Nat] /\ sel \in [Procs -> Nat] /\ favorite \in [Procs -> Nat]
  /\ \A p \in Procs :
       /\ k[p] \in 0..Len(Guards[p]) /\ sel[p] \in 0..Len(Guards[p])
       /\ favorite[p] \in 0..Len(Guards[p])
       /\ Guards[p] # << >> => favorite[p] < Len(Guards[p])

\* init_channel, build_process and init_alt.
Init ==
  /\ waiting = [c \in Channels |-> NULL]
  /\ ptr = [c \in Channels |-> NULL]
  /\ sched_state = [p \in Procs |-> "WAITING"]
  /\ alt_state = [p \in Procs |-> "NONE"]
  /\ buf \in {[p \in Procs |-> v] : v \in Values}
  /\ pc = [p \in Procs |-> "run"]
  /\ ch = [p \in Procs |-> NULL]
  /\ was = [p \in Procs |-> NULL]
  /\ k = [p \in Procs |-> 0]
  /\ sel = [p \in Procs |-> 0]
  /\ favorite = [p \in Procs |-> 0]

Goto(p, l) == pc' = [pc EXCEPT ![p] = l]
SetChan(c, w, b) ==
  /\ waiting' = [waiting EXCEPT ![c] = w]
  /\ ptr' = [ptr EXCEPT ![c] = b]
memcpy(to, from) == buf' = [buf EXCEPT ![to] = buf[from]]
PREPARE_TO_WAIT(p) ==
  sched_state' = [sched_state EXCEPT ![p] = "PREPARING_TO_WAIT"]

-----------------------------------------------------------------------------
(* The application: what it sends, from which channels it reads and how.   *)

CallOut(p, c) ==
  /\ pc[p] = "run" /\ Writer[c] = p
  /\ Goto(p, "out")
  /\ ch' = [ch EXCEPT ![p] = c]
  /\ \E v \in Values : buf' = [buf EXCEPT ![p] = v]
  /\ UNCHANGED <<chans, sched_state, was, alts>>

\* A channel that is a guard is read after it has been selected.
CallIn(p, c) ==
  /\ pc[p] = "run" /\ Reader[c] = p /\ c \notin Range(Guards[p])
  /\ Goto(p, IF c \in Polled THEN "try_in" ELSE "in")
  /\ ch' = [ch EXCEPT ![p] = c]
  /\ UNCHANGED <<chans, sched_state, buf, was, alts>>

Return(p) ==
  /\ pc[p] = "return"
  /\ Goto(p, "run")
  /\ ch' = [ch EXCEPT ![p] = NULL]
  /\ UNCHANGED <<chans, sched_state, buf, was, alts>>

-----------------------------------------------------------------------------
(* in, out and try_in.                                                     *)

\* A plausible mistake, for the mutants: the channel keeps the name.
Exchange_kept(p, c, to, from) ==
  /\ memcpy(to, from)
  /\ was' = [was EXCEPT ![p] = waiting[c]]
  /\ Goto(p, "wake")
  /\ UNCHANGED <<chans, sched_state>>

\* The other party is there: copy the datum, and make it ready.
Exchange(p, c, to, from) ==
  /\ memcpy(to, from)
  /\ was' = [was EXCEPT ![p] = waiting[c]]
  /\ SetChan(c, NULL, NULL)
  /\ Goto(p, "wake")
  /\ UNCHANGED sched_state

\* Nobody is there: leave word and wait.
Await(p, c) ==
  /\ SetChan(c, p, p)
  /\ PREPARE_TO_WAIT(p)
  /\ Goto(p, "relinquish")
  /\ UNCHANGED <<buf, was>>

In(p) ==
  LET c == ch[p]
  IN  /\ pc[p] = "in"
      /\ \/ waiting[c] # NULL /\ Exchange(p, c, p, ptr[c])
         \/ waiting[c] = NULL /\ Await(p, c)
      /\ UNCHANGED <<ch, alts>>

\* A plausible mistake, for the mutants: out does not look whether the
\* reader that is waiting alternates.
Alting_never(c) == FALSE
\* The reader that is waiting is in an alternation.
Alting(c) == ptr[c] = NULL

Out(p) ==
  LET c == ch[p]
  IN  /\ pc[p] = "out"
      /\ \/ /\ waiting[c] # NULL /\ ~ Alting(c)
            /\ Exchange(p, c, ptr[c], p)
         \/ /\ waiting[c] # NULL /\ Alting(c)
            /\ was' = [was EXCEPT ![p] = waiting[c]]
            /\ SetChan(c, p, p)
            /\ PREPARE_TO_WAIT(p)
            /\ Goto(p, "free")
            /\ UNCHANGED buf
         \/ waiting[c] = NULL /\ Await(p, c)
      /\ UNCHANGED <<ch, alts>>

\* A plausible mistake, for the mutants: the datum is left in the channel.
TryIn_peek(p) ==
  LET c == ch[p]
  IN  /\ pc[p] = "try_in"
      /\ waiting[c] # NULL
      /\ memcpy(p, ptr[c])
      /\ Goto(p, "return")
      /\ UNCHANGED <<chans, ch, sched_state, was, alts>>

\* try_in takes the datum and does not make the writer ready.
TryIn(p) ==
  LET c == ch[p]
  IN  /\ pc[p] = "try_in"
      /\ \/ /\ waiting[c] # NULL
            /\ memcpy(p, ptr[c])
            /\ SetChan(c, NULL, NULL)
            /\ Goto(p, "return")
            /\ UNCHANGED ch
         \/ /\ waiting[c] = NULL
            /\ Goto(p, "run")
            /\ ch' = [ch EXCEPT ![p] = NULL]
            /\ UNCHANGED <<chans, buf>>
      /\ UNCHANGED <<sched_state, was, alts>>

\* schedule(q): q resumes where it waits.
Resumed(q) == IF pc[q] = "altAsleep" THEN "disable" ELSE "return"

\* A plausible mistake, for the mutants: a process that is only preparing
\* to wait is not told that it is ready.
Wake_late(p) ==
  /\ pc[p] = "wake"
  /\ IF sched_state[was[p]] = "WAITING"
     THEN /\ sched_state' = [sched_state EXCEPT ![was[p]] = "READY"]
          /\ pc' = [pc EXCEPT ![p] = "return", ![was[p]] = Resumed(was[p])]
     ELSE Goto(p, "return") /\ UNCHANGED sched_state
  /\ was' = [was EXCEPT ![p] = NULL]
  /\ UNCHANGED <<chans, buf, ch, alts>>

\* The atomic exchange on the other process's state, and schedule.
Wake(p) ==
  /\ pc[p] = "wake"
  /\ sched_state' = [sched_state EXCEPT ![was[p]] = "READY"]
  /\ IF sched_state[was[p]] = "WAITING"
     THEN pc' = [pc EXCEPT ![p] = "return", ![was[p]] = Resumed(was[p])]
     ELSE Goto(p, "return")
  /\ was' = [was EXCEPT ![p] = NULL]
  /\ UNCHANGED <<chans, buf, ch, alts>>

\* relinquish: wait, unless already made ready.
Relinquish(p) ==
  /\ pc[p] = "relinquish"
  /\ IF sched_state[p] = "PREPARING_TO_WAIT"
     THEN /\ sched_state' = [sched_state EXCEPT ![p] = "WAITING"]
          /\ Goto(p, "asleep")
     ELSE Goto(p, "return") /\ UNCHANGED sched_state
  /\ UNCHANGED <<chans, buf, ch, was, alts>>

-----------------------------------------------------------------------------
(* freeProcessMaybe, which out calls for an alternating reader.            *)

\* The first compare-and-exchange, from Enabling.
FreeEnabling(p) ==
  LET q == was[p]
  IN  /\ pc[p] = "free"
      /\ alt_state' = IF alt_state[q] = "ENABLING"
                      THEN [alt_state EXCEPT ![q] = "READY"] ELSE alt_state
      /\ IF alt_state[q] = "WAITING"
         THEN Goto(p, "free2") /\ UNCHANGED was
         ELSE Goto(p, "relinquish") /\ was' = [was EXCEPT ![p] = NULL]
      /\ UNCHANGED <<chans, sched_state, buf, ch, k, sel, favorite>>

\* The second, from Waiting, and schedule.
FreeWaiting(p) ==
  LET q == was[p]
  IN  /\ pc[p] = "free2"
      /\ IF alt_state[q] = "WAITING"
         THEN /\ alt_state' = [alt_state EXCEPT ![q] = "READY"]
              /\ pc' = [pc EXCEPT ![p] = "relinquish", ![q] = Resumed(q)]
         ELSE Goto(p, "relinquish") /\ UNCHANGED alt_state
      /\ was' = [was EXCEPT ![p] = NULL]
      /\ UNCHANGED <<chans, sched_state, buf, ch, k, sel, favorite>>

-----------------------------------------------------------------------------
(* priSelect and fairSelect.                                               *)

\* The position in Guards[p] that is tried after i others.
Position(p, i) ==
  IF p \in Fair THEN ((favorite[p] + i) % Len(Guards[p])) + 1 ELSE i + 1
Guard(p) == Guards[p][Position(p, k[p])]

Select(p) ==
  /\ pc[p] = "run" /\ Guards[p] # << >>
  /\ alt_state' = [alt_state EXCEPT ![p] = "ENABLING"]
  /\ k' = [k EXCEPT ![p] = 0]
  /\ sel' = [sel EXCEPT ![p] = 0]
  /\ Goto(p, "enable")
  /\ UNCHANGED <<chans, sched_state, buf, ch, was, favorite>>

\* A plausible mistake, for the mutants: the process takes its own name for
\* that of a writer.
WriterReady_any(p, g) == g # SKIP /\ waiting[g] # NULL
\* enable_channel finds a writer.
WriterReady(p, g) == g # SKIP /\ waiting[g] \notin {NULL, p}
GuardReady(p) == Guard(p) = SKIP \/ WriterReady(p, Guard(p))

\* A plausible mistake, for the mutants: the step back that belongs after
\* the loop is also taken when a guard is ready.
EnableReady_back(p) ==
  /\ pc[p] = "enable" /\ GuardReady(p)
  /\ Goto(p, "disable")
  /\ k' = [k EXCEPT ![p] = IF @ > 0 THEN @ - 1 ELSE 0]
  /\ UNCHANGED <<chans, sched_state, buf, ch, was, alt_state, sel, favorite>>

\* One turn of the enabling loop, which ends at a guard that is ready.
EnableReady(p) ==
  /\ pc[p] = "enable" /\ GuardReady(p)
  /\ Goto(p, "disable")
  /\ UNCHANGED <<chans, sched_state, buf, ch, was, alts>>

EnableGuard(p) ==
  /\ pc[p] = "enable" /\ ~ GuardReady(p)
  /\ IF waiting[Guard(p)] = NULL THEN SetChan(Guard(p), p, NULL) ELSE UNCHANGED chans
  /\ IF k[p] + 1 < Len(Guards[p])
     THEN k' = [k EXCEPT ![p] = @ + 1] /\ UNCHANGED pc
     ELSE Goto(p, "altShouldWait") /\ UNCHANGED k
  /\ UNCHANGED <<sched_state, alt_state, buf, ch, was, sel, favorite>>

\* A plausible mistake, for the mutants: a store in place of the exchange.
AltShouldWait_store(p) ==
  /\ pc[p] = "altShouldWait"
  /\ alt_state' = [alt_state EXCEPT ![p] = "WAITING"]
  /\ Goto(p, "altAsleep")
  /\ UNCHANGED <<chans, sched_state, buf, ch, was, k, sel, favorite>>

\* altShouldWait and relinquish_unconditional.
AltShouldWait(p) ==
  /\ pc[p] = "altShouldWait"
  /\ IF alt_state[p] = "ENABLING"
     THEN alt_state' = [alt_state EXCEPT ![p] = "WAITING"] /\ Goto(p, "altAsleep")
     ELSE Goto(p, "disable") /\ UNCHANGED alt_state
  /\ UNCHANGED <<chans, sched_state, buf, ch, was, k, sel, favorite>>

\* A plausible mistake, for the mutants: a channel nobody has written to
\* keeps the name of the alternating process.
disable_channel_kept(p, c) == UNCHANGED chans
\* disable_channel without a writer; the pointer stays as it is.
disable_channel(p, c) ==
  waiting' = [waiting EXCEPT ![c] = NULL] /\ UNCHANGED ptr

\* One turn of the disabling loop, back to the first guard tried.
DisableGuard(p) ==
  /\ pc[p] = "disable"
  /\ IF GuardReady(p)
     THEN sel' = [sel EXCEPT ![p] = Position(p, k[p])] /\ UNCHANGED chans
     ELSE disable_channel(p, Guard(p)) /\ UNCHANGED sel
  /\ IF k[p] > 0
     THEN k' = [k EXCEPT ![p] = @ - 1] /\ UNCHANGED pc
     ELSE Goto(p, "altFinish") /\ UNCHANGED k
  /\ UNCHANGED <<sched_state, alt_state, buf, ch, was, favorite>>

\* A plausible mistake, for the mutants: the favorite stays the same.
NextFavorite_same(p) == favorite[p]
NextFavorite(p) == sel[p] % Len(Guards[p])

\* altFinish, and the in that by convention follows if a channel is selected.
AltFinish(p) ==
  /\ pc[p] = "altFinish"
  /\ alt_state' = [alt_state EXCEPT ![p] = "NONE"]
  /\ favorite' = [favorite EXCEPT ![p] = NextFavorite(p)]
  /\ IF sel[p] # 0 /\ Guards[p][sel[p]] # SKIP
     THEN Goto(p, "in") /\ ch' = [ch EXCEPT ![p] = Guards[p][sel[p]]]
     ELSE Goto(p, "run") /\ UNCHANGED ch
  /\ UNCHANGED <<chans, sched_state, buf, was, k, sel>>

-----------------------------------------------------------------------------
Call(p) ==
  \/ \E c \in Channels : CallOut(p, c) \/ CallIn(p, c)
  \/ Select(p)

\* What p does once it has called.
Step(p) ==
  \/ In(p) \/ Out(p) \/ TryIn(p) \/ Wake(p) \/ Relinquish(p) \/ Return(p)
  \/ FreeEnabling(p) \/ FreeWaiting(p)
  \/ EnableReady(p) \/ EnableGuard(p) \/ AltShouldWait(p)
  \/ DisableGuard(p) \/ AltFinish(p)

Next == \E p \in Procs : Call(p) \/ Step(p)

Spec == Init /\ [][Next]_vars

\* A process that has called goes on until it sleeps (see Sched), and one
\* that alternates does so for ever.
LiveSpec == Spec /\ \A p \in Procs : WF_vars(Step(p)) /\ WF_vars(Select(p))

-----------------------------------------------------------------------------
(* Properties.                                                             *)

\* How far the writer and the reader of c are, as Rendezvous sees it.
Status(p, c) ==
  CASE ch[p] # c -> "idle"
    [] ch[p] = c /\ pc[p] \in {"out", "in", "try_in"} -> "waiting"
    [] ch[p] = c /\ pc[p] \in {"free", "free2", "relinquish", "asleep"} ->
         IF waiting[c] = p THEN "waiting" ELSE "done"
    [] OTHER -> "done"
Offer(c) == Status(Writer[c], c)
Demand(c) == Status(Reader[c], c)

(* "When the sending process issues an out operation and the receiving     *)
(* process issues an in operation, data transfer occurs" (README.md:52):   *)
(* channels implement Rendezvous, whoever comes first and whether or not   *)
(* the reader came through an alternation.                                 *)
Meeting == INSTANCE Rendezvous WITH
  offer  <- [c \in Channels |-> Offer(c)],
  demand <- [c \in Channels |-> Demand(c)],
  data   <- [c \in Channels |-> IF Offer(c) = "idle" THEN NULL ELSE buf[Writer[c]]],
  got    <- [c \in Channels |-> IF Demand(c) = "done" THEN buf[Reader[c]] ELSE NULL]
Synchronous == Meeting!Spec

(* The pointer in a channel is into the buffer of a process that is still  *)
(* waiting there (the copies of comm.c:44 and 119 read or write it), and a *)
(* channel names nobody who has left it, nor an alternation that is over   *)
(* (disable_channel, comm.c:200-213).                                      *)
NoStaleName ==
  \A c \in Channels :
    /\ waiting[c] = Writer[c] => ptr[c] = Writer[c] /\ Offer(c) = "waiting"
    /\ waiting[c] = Reader[c] =>
         \/ ptr[c] = Reader[c] /\ Demand(c) = "waiting"
         \/ ptr[c] = NULL /\ c \in Range(Guards[Reader[c]]) /\ alt_state[Reader[c]] # "NONE"

(* A process that sleeps has somebody to wake it: the channel names it, or *)
(* the process that took its name is on the way to wake it (comm.c:51-59,  *)
(* 126-134; alt.c:256-290).                                                *)
Wakeable ==
  \A p \in Procs :
    LET coming == \E x \in Procs : was[x] = p
    IN  /\ pc[p] = "asleep" => waiting[ch[p]] = p \/ coming
        /\ pc[p] = "altAsleep" => coming \/ \A c \in Range(Guards[p]) : waiting[c] = p

(* "Each selection function waits until a guard becomes ready and then     *)
(* selects a ready guard" (README.md:80): a selection never ends without   *)
(* a guard.                                                                *)
Selects == \A p \in Procs : pc[p] = "altFinish" => sel[p] # 0

\* Who frees a process that looks for a guard is still in its channel: the
\* process has not taken its datum and begun another selection.  If one of
\* the guards is a SKIP it does not matter.
Timely ==
  \A x \in Procs :
    pc[x] \in {"free", "free2"} /\ pc[was[x]] \in {"enable", "altShouldWait", "altAsleep"} =>
      waiting[ch[x]] = x \/ SKIP \in Range(Guards[was[x]])

(* What is true of that: a freeProcessMaybe that comes late (comm.c:145,   *)
(* after the mutex has been released) is the only way for a selection to   *)
(* end without a guard.  Neither a wake from the sleep between the loops,  *)
(* nor writers that come while they run (alt.c:256-290), make one do so.   *)
SelectsInTime == []Timely => []Selects

(* The in that follows a selection does not wait: the writer is there      *)
(* (README.md:78, 80).                                                     *)
SelectedReady ==
  \A p \in Procs :
    pc[p] = "in" /\ ch[p] \in Range(Guards[p]) => waiting[ch[p]] = Writer[ch[p]]

(* "when this process resumes, the io is done" (comm.c:69, 147, 159): two  *)
(* processes that meet on a channel both go on.                            *)
Completes ==
  \A c \in Channels :
    /\ Offer(c) = "waiting" /\ Demand(c) = "waiting" ~> Offer(c) = "done"
    /\ Offer(c) = "done" ~> Offer(c) # "done"
    /\ Demand(c) = "done" ~> Demand(c) # "done"

(* A writer whose datum has been taken goes on.                            *)
WriterResumes == \A c \in Channels : Offer(c) = "done" ~> Offer(c) # "done"

(* "fairSelect chooses the first one it encounters when searching          *)
(* (cyclically) from one past the index selected the last time"            *)
(* (README.md:80): no writer waits for ever for a process that keeps       *)
(* selecting.                                                              *)
Served ==
  \A c \in Channels :
    Reader[c] \in Fair /\ Offer(c) = "waiting" ~> Offer(c) = "done"
=============================================================================
