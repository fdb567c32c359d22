----------------------------- MODULE CommProofs -----------------------------
(***************************************************************************)
(* What is proved of Comm for any processes, channels, guards and values:  *)
(* no channel names a process that has left it, a selected channel has its *)
(* writer, a sleeping process can be woken, channels implement Rendezvous, *)
(* and a selection ends with a guard unless a writer is late.              *)
(***************************************************************************)
EXTENDS Comm, TLAPS

-----------------------------------------------------------------------------
(* The inductive invariant Inv.                                            *)

Alternating == {"enable", "altShouldWait", "altAsleep", "disable", "altFinish"}

\* The labels at which p is in in or out and its name may be in the channel.
Pausing == {"free", "free2", "relinquish", "asleep"}

\* A process is in a routine of a channel of its own, and on the right side.
ChanOK ==
  \A p \in Procs :
    /\ ch[p] = NULL <=> pc[p] \in Alternating \cup {"run"}
    /\ ch[p] # NULL => ch[p] \in Channels /\ p \in {Writer[ch[p]], Reader[ch[p]]}
    /\ pc[p] \in {"out", "free", "free2"} => Writer[ch[p]] = p
    /\ pc[p] \in {"in", "try_in"} => Reader[ch[p]] = p
    /\ pc[p] = "try_in" => ch[p] \in Polled /\ ch[p] \notin Range(Guards[p])

\* x is about to make p ready, with whom it has met.
Wakes(x, p) == pc[x] = "wake" /\ was[x] = p

\* A process that another is about to wake waits on the same channel, which
\* no longer names it; one that is about to be freed is the reader.
WasOK ==
  \A x \in Procs :
    /\ was[x] = NULL <=> pc[x] \notin {"wake", "free", "free2"}
    /\ was[x] # NULL => was[x] \in Procs
    /\ pc[x] \in {"free", "free2"} => was[x] = Reader[ch[x]]
    /\ pc[x] = "wake" =>
         /\ was[x] # x /\ ch[was[x]] = ch[x] /\ waiting[ch[x]] # was[x]
         /\ pc[was[x]] \in Pausing /\ sched_state[was[x]] # "READY"

\* Nobody is made ready whose name is still in the channel.
SchedOK ==
  \A p \in Procs :
    /\ pc[p] = "asleep" <=> pc[p] \in Pausing /\ sched_state[p] = "WAITING"
    /\ pc[p] \in Pausing /\ waiting[ch[p]] = p => sched_state[p] # "READY"

\* p has left its name in c as in a guard, or may have.
Published(p, c) ==
  /\ pc[p] \in Alternating \ {"altFinish"}
  /\ \E i \in 0 .. k[p] :
       (pc[p] = "enable" => i < k[p]) /\ Guards[p][Position(p, i)] = c

\* Whom a channel names, and what its pointer is then.
NameOK ==
  \A c \in Channels :
    /\ waiting[c] \in {NULL, Writer[c], Reader[c]}
    /\ waiting[c] = Writer[c] =>
         ptr[c] = Writer[c] /\ ch[Writer[c]] = c /\ pc[Writer[c]] \in Pausing
    /\ waiting[c] = Reader[c] =>
         \/ /\ ptr[c] = Reader[c] /\ ch[Reader[c]] = c
            /\ pc[Reader[c]] \in {"relinquish", "asleep"}
         \/ ptr[c] = NULL /\ Published(Reader[c], c)

\* Where an alternation is and its alt_state.
AltOK ==
  \A p \in Procs :
    /\ alt_state[p] = "NONE" <=> pc[p] \notin Alternating
    /\ alt_state[p] = "WAITING" <=> pc[p] = "altAsleep"
    /\ pc[p] \in Alternating => Guards[p] # << >> /\ k[p] < Len(Guards[p])
    /\ pc[p] \in {"altShouldWait", "altAsleep"} => k[p] = Len(Guards[p]) - 1

\* c has been selected by its reader, which has not yet read it.
Selected(c) ==
  LET r == Reader[c]
  IN  \/ pc[r] \in {"disable", "altFinish"} /\ sel[r] # 0 /\ Guards[r][sel[r]] = c
      \/ pc[r] = "in" /\ ch[r] = c /\ c \in Range(Guards[r])

\* A channel that has been selected has its writer, until it is read.
SelOK ==
  /\ \A p \in Procs : pc[p] \in {"enable", "altShouldWait", "altAsleep"} => sel[p] = 0
  /\ \A c \in Channels : Selected(c) => waiting[c] = Writer[c]

Core == ChanOK /\ WasOK /\ SchedOK /\ NameOK /\ AltOK /\ SelOK
Inv == TypeOK /\ Core

-----------------------------------------------------------------------------
(* Guards and the order in which they are tried.                           *)

(* The remainder of a division stays below the divisor, and a number that  *)
(* is at most one turn above is brought back to its place.                 *)
LEMMA Turn ==
  ASSUME NEW n \in Nat, n > 0, NEW j \in Nat
  PROVE  /\ j % n \in 0 .. n - 1
         /\ j < n => j % n = j /\ (j + n) % n = j
  OBVIOUS

(* Each position tried is one of the guards, and a guard that is no SKIP   *)
(* is a channel that the process reads.                                    *)
LEMMA GuardFacts ==
  ASSUME TypeOK, NEW p \in Procs, Guards[p] # << >>
  PROVE  /\ Len(Guards[p]) \in Nat /\ Len(Guards[p]) > 0
         /\ \A i \in 0 .. Len(Guards[p]) - 1 :
              /\ Position(p, i) \in 1 .. Len(Guards[p])
         /\ \A j \in 1 .. Len(Guards[p]) :
              /\ Guards[p][j] \in Range(Guards[p])
              /\ Guards[p][j] # SKIP =>
                   Guards[p][j] \in Channels /\ Reader[Guards[p][j]] = p
<1>1. Guards[p] \in Seq(Channels \cup {SKIP})
  BY CommAssumption
<1>2. Len(Guards[p]) \in Nat /\ Len(Guards[p]) > 0
  BY <1>1
<1>3. ASSUME NEW i \in 0 .. Len(Guards[p]) - 1
      PROVE  Position(p, i) \in 1 .. Len(Guards[p])
  <2>1. favorite[p] \in Nat
    BY DEF TypeOK
  <2>2. (favorite[p] + i) % Len(Guards[p]) \in 0 .. Len(Guards[p]) - 1
    BY <1>2, <2>1, Turn
  <2>. QED BY <1>2, <2>2 DEF Position
<1>4. ASSUME NEW j \in 1 .. Len(Guards[p])
      PROVE  /\ Guards[p][j] \in Range(Guards[p])
             /\ Guards[p][j] # SKIP =>
                  Guards[p][j] \in Channels /\ Reader[Guards[p][j]] = p
  <2>1. Guards[p][j] \in Range(Guards[p]) /\ Guards[p][j] \in Channels \cup {SKIP}
    BY <1>1 DEF Range
  <2>. QED BY <2>1, CommAssumption
<1>. QED BY <1>2, <1>3, <1>4

(* All guards are tried before a process sleeps in an alternation.         *)
LEMMA AllTried ==
  ASSUME TypeOK, NEW p \in Procs, NEW c \in Range(Guards[p])
  PROVE  \E i \in 0 .. Len(Guards[p]) - 1 : Guards[p][Position(p, i)] = c
<1>1. Guards[p] \in Seq(Channels \cup {SKIP})
  BY CommAssumption
<1>2. PICK j \in 1 .. Len(Guards[p]) : Guards[p][j] = c
  BY <1>1 DEF Range
<1> DEFINE n == Len(Guards[p])
<1>3. n \in Nat /\ n > 0 /\ Guards[p] # << >>
  BY <1>1, <1>2
<1>4. favorite[p] \in Nat /\ favorite[p] < n
  BY <1>3 DEF TypeOK
<1>5. j - 1 \in Nat /\ j - 1 < n
  BY <1>2, <1>3
<1> HIDE DEF n
<1>6. CASE p \in Fair
  <2>1. CASE favorite[p] <= j - 1
    <3>1. (j - 1) % n = j - 1
      BY <1>3, <1>5, Turn
    <3>2. (j - 1) - favorite[p] \in 0 .. n - 1
      BY <1>2, <1>3, <1>4, <2>1 DEF n
    <3>3. favorite[p] + ((j - 1) - favorite[p]) = j - 1
      BY <1>2, <1>3, <1>4
    <3>4. Position(p, (j - 1) - favorite[p]) = j
      BY <1>2, <1>3, <1>6, <3>1, <3>3 DEF Position, n
    <3>. QED BY <1>2, <3>2, <3>4 DEF n
  <2>2. CASE favorite[p] > j - 1
    <3>1. ((j - 1) + n) % n = j - 1
      BY <1>3, <1>5, Turn
    <3>2. ((j - 1) + n) - favorite[p] \in 0 .. n - 1
      BY <1>2, <1>3, <1>4, <2>2 DEF n
    <3>3. favorite[p] + (((j - 1) + n) - favorite[p]) = (j - 1) + n
      BY <1>2, <1>3, <1>4
    <3>4. Position(p, ((j - 1) + n) - favorite[p]) = j
      BY <1>2, <1>3, <1>6, <3>1, <3>3 DEF Position, n
    <3>. QED BY <1>2, <3>2, <3>4 DEF n
  <2>. QED BY <1>2, <1>3, <1>4, <2>1, <2>2
<1>7. CASE p \notin Fair
  <2>1. j - 1 \in 0 .. n - 1 /\ Position(p, j - 1) = j
    BY <1>2, <1>3, <1>7 DEF Position, n
  <2>. QED BY <1>2, <2>1 DEF n
<1>. QED BY <1>6, <1>7

-----------------------------------------------------------------------------
(* What the steps change, position by position.                            *)

\* Position x of f, a function on S, becomes v and the others stay.
Sets(f, S, x, v) == \A y \in S : f'[y] = IF y = x THEN v ELSE f[y]

\* p meets x on c (Exchange).
Meets(p, x, c) ==
  /\ ch[p] = c /\ {p, x} = {Writer[c], Reader[c]}
  /\ pc[p] = IF p = Reader[c] THEN "in" ELSE "out"
  /\ waiting[c] = x /\ ptr[c] = x
  /\ ch[x] = c /\ pc[x] \in Pausing /\ sched_state[x] # "READY"
  /\ Sets(waiting, Channels, c, NULL) /\ Sets(ptr, Channels, c, NULL)
  /\ Sets(buf, Procs, Reader[c], buf[Writer[c]])
  /\ Sets(was, Procs, p, x) /\ Sets(pc, Procs, p, "wake")
  /\ UNCHANGED <<sched_state, ch, alt_state, k, sel, favorite>>

\* p is the first on c (Await).
Awaits(p, c) ==
  /\ ch[p] = c /\ p \in {Writer[c], Reader[c]} /\ waiting[c] = NULL
  /\ pc[p] = IF p = Reader[c] THEN "in" ELSE "out"
  /\ Sets(waiting, Channels, c, p) /\ Sets(ptr, Channels, c, p)
  /\ Sets(sched_state, Procs, p, "PREPARING_TO_WAIT")
  /\ Sets(pc, Procs, p, "relinquish")
  /\ UNCHANGED <<buf, was, ch, alt_state, k, sel, favorite>>

\* The writer p finds the name of an alternating reader in c.
Frees(p, c) ==
  /\ ch[p] = c /\ p = Writer[c] /\ pc[p] = "out"
  /\ waiting[c] = Reader[c] /\ Published(Reader[c], c)
  /\ Sets(waiting, Channels, c, p) /\ Sets(ptr, Channels, c, p)
  /\ Sets(sched_state, Procs, p, "PREPARING_TO_WAIT")
  /\ Sets(was, Procs, p, Reader[c]) /\ Sets(pc, Procs, p, "free")
  /\ UNCHANGED <<buf, ch, alt_state, k, sel, favorite>>

(* A channel has two ends, and NULL is none of them.                       *)
LEMMA EndsOfChannel ==
  /\ \A p \in Procs : p # NULL
  /\ \A c \in Channels :
       /\ c # NULL /\ Writer[c] # Reader[c]
       /\ Writer[c] \in Procs /\ Reader[c] \in Procs
       /\ Writer[c] # NULL /\ Reader[c] # NULL
BY CommAssumption

(* A channel that p reads, outside of an alternation, names its writer or  *)
(* nobody.                                                                 *)
LEMMA InEffect ==
  ASSUME Inv, NEW p \in Procs, In(p)
  PROVE  \E c \in Channels : Meets(p, Writer[c], c) \/ Awaits(p, c)
<1> DEFINE c == ch[p]
<1>1. c \in Channels /\ c # NULL /\ p = Reader[c] /\ p \in Procs /\ Writer[c] \in Procs
      /\ Writer[c] # p /\ Writer[c] # NULL /\ p # NULL
  <2>1. pc[p] = "in" /\ ChanOK
    BY DEF Inv, Core, In
  <2>2. c \in Channels /\ p = Reader[c]
    BY <2>1 DEF ChanOK, Alternating
  <2>. QED BY <2>2, EndsOfChannel
<1>2. waiting[c] \in {NULL, Writer[c]}
  BY <1>1 DEF Inv, Core, NameOK, In, Published, Alternating
<1>3. TypeOK /\ NameOK /\ SchedOK
  BY DEF Inv, Core
<1>4. CASE waiting[c] # NULL
  <2>1. /\ waiting[c] = Writer[c] /\ ptr[c] = Writer[c]
        /\ ch[Writer[c]] = c /\ pc[Writer[c]] \in Pausing /\ sched_state[Writer[c]] # "READY"
    BY <1>1, <1>2, <1>3, <1>4 DEF NameOK, SchedOK
  <2>2. pc[p] = "in" /\ Exchange(p, c, p, ptr[c]) /\ UNCHANGED <<ch, alts>>
    BY <1>4 DEF In
  <2>3. Meets(p, Writer[c], c)
    BY <1>1, <1>3, <2>1, <2>2 DEF Meets, Sets, TypeOK, Exchange, SetChan, memcpy, Goto, alts
  <2>. QED BY <1>1, <2>3
<1>5. CASE waiting[c] = NULL
  <2>1. pc[p] = "in" /\ Await(p, c) /\ UNCHANGED <<ch, alts>>
    BY <1>5 DEF In
  <2>2. Awaits(p, c)
    BY <1>1, <1>3, <1>5, <2>1 DEF Awaits, Sets, TypeOK, Await, SetChan, PREPARE_TO_WAIT, Goto, alts
  <2>. QED BY <1>1, <2>2
<1>. QED BY <1>4, <1>5

(* A channel that p writes names its reader or nobody; the pointer tells   *)
(* whether the reader alternates.                                          *)
LEMMA OutEffect ==
  ASSUME Inv, NEW p \in Procs, Out(p)
  PROVE  \E c \in Channels : Meets(p, Reader[c], c) \/ Frees(p, c) \/ Awaits(p, c)
<1> DEFINE c == ch[p]
<1>1. c \in Channels /\ c # NULL /\ p = Writer[c] /\ p \in Procs /\ Reader[c] \in Procs
      /\ Reader[c] # p /\ Reader[c] # NULL /\ p # NULL
  <2>1. pc[p] = "out" /\ ChanOK
    BY DEF Inv, Core, Out
  <2>2. c \in Channels /\ p = Writer[c]
    BY <2>1 DEF ChanOK, Alternating
  <2>. QED BY <2>2, EndsOfChannel
<1>2. waiting[c] \in {NULL, Reader[c]}
  BY <1>1 DEF Inv, Core, NameOK, Out, Pausing
<1>3. TypeOK /\ NameOK /\ SchedOK
  BY DEF Inv, Core
<1>4. pc[p] = "out" /\ UNCHANGED <<ch, alts>>
  BY DEF Out
<1>5. CASE waiting[c] # NULL /\ ptr[c] # NULL
  <2>1. /\ waiting[c] = Reader[c] /\ ptr[c] = Reader[c]
        /\ ch[Reader[c]] = c /\ pc[Reader[c]] \in Pausing /\ sched_state[Reader[c]] # "READY"
    BY <1>1, <1>2, <1>3, <1>5 DEF NameOK, SchedOK, Pausing
  <2>2. Exchange(p, c, ptr[c], p)
    BY <1>5 DEF Out, Alting
  <2>3. Meets(p, Reader[c], c)
    BY <1>1, <1>3, <1>4, <2>1, <2>2 DEF Meets, Sets, TypeOK, Exchange, SetChan, memcpy, Goto, alts
  <2>. QED BY <1>1, <2>3
<1>6. CASE waiting[c] # NULL /\ ptr[c] = NULL
  <2>1. waiting[c] = Reader[c] /\ Published(Reader[c], c)
    BY <1>1, <1>2, <1>3, <1>6 DEF NameOK
  <2>2. /\ was' = [was EXCEPT ![p] = waiting[c]]
        /\ SetChan(c, p, p) /\ PREPARE_TO_WAIT(p) /\ Goto(p, "free") /\ UNCHANGED buf
    BY <1>6 DEF Out, Alting
  <2>3. Frees(p, c)
    BY <1>1, <1>3, <1>4, <2>1, <2>2 DEF Frees, Sets, TypeOK, SetChan, PREPARE_TO_WAIT, Goto, alts
  <2>. QED BY <1>1, <2>3
<1>7. CASE waiting[c] = NULL
  <2>1. Await(p, c)
    BY <1>7 DEF Out
  <2>2. Awaits(p, c)
    BY <1>1, <1>3, <1>4, <1>7, <2>1
       DEF Awaits, Sets, TypeOK, Await, SetChan, PREPARE_TO_WAIT, Goto, alts
  <2>. QED BY <1>1, <2>2
<1>. QED BY <1>5, <1>6, <1>7

\* The effects of the actions, named after them.
CallOutTo(p, c) ==
  /\ pc[p] = "run" /\ p = Writer[c]
  /\ Sets(pc, Procs, p, "out") /\ Sets(ch, Procs, p, c)
  /\ \E v \in Values : Sets(buf, Procs, p, v)
  /\ UNCHANGED <<waiting, ptr, sched_state, was, alt_state, k, sel, favorite>>

(* The beginning of out.                                                   *)
LEMMA CallOutEffect ==
  ASSUME TypeOK, NEW p \in Procs, NEW c \in Channels, CallOut(p, c)
  PROVE  CallOutTo(p, c)
BY DEF TypeOK, CallOut, Goto, chans, alts, Sets, CallOutTo

CallInTo(p, c) ==
  /\ pc[p] = "run" /\ p = Reader[c] /\ c \notin Range(Guards[p])
  /\ \/ c \in Polled /\ Sets(pc, Procs, p, "try_in")
     \/ Sets(pc, Procs, p, "in")
  /\ Sets(ch, Procs, p, c)
  /\ UNCHANGED <<waiting, ptr, sched_state, buf, was, alt_state, k, sel, favorite>>

(* The beginning of in or try_in.                                          *)
LEMMA CallInEffect ==
  ASSUME TypeOK, NEW p \in Procs, NEW c \in Channels, CallIn(p, c)
  PROVE  CallInTo(p, c)
BY DEF TypeOK, CallIn, Goto, chans, alts, Sets, CallInTo

ReturnTo(p) ==
  /\ pc[p] = "return"
  /\ Sets(pc, Procs, p, "run") /\ Sets(ch, Procs, p, NULL)
  /\ UNCHANGED <<waiting, ptr, sched_state, buf, was, alt_state, k, sel, favorite>>

(* The end of any of them.                                                 *)
LEMMA ReturnEffect ==
  ASSUME TypeOK, NEW p \in Procs, Return(p)
  PROVE  ReturnTo(p)
BY DEF TypeOK, Return, Goto, chans, alts, Sets, ReturnTo

\* p takes the datum of the writer of c and does not wake it (try_in).
Takes(p, c) ==
  /\ ch[p] = c /\ p = Reader[c] /\ c \in Polled /\ pc[p] = "try_in"
  /\ waiting[c] = Writer[c]
  /\ ch[Writer[c]] = c /\ pc[Writer[c]] \in Pausing
  /\ Sets(waiting, Channels, c, NULL) /\ Sets(ptr, Channels, c, NULL)
  /\ Sets(buf, Procs, p, buf[Writer[c]])
  /\ Sets(pc, Procs, p, "return")
  /\ UNCHANGED <<sched_state, was, ch, alt_state, k, sel, favorite>>

\* p finds nobody in c (try_in).
GivesUp(p, c) ==
  /\ ch[p] = c /\ p = Reader[c] /\ pc[p] = "try_in"
  /\ Sets(pc, Procs, p, "run") /\ Sets(ch, Procs, p, NULL)
  /\ UNCHANGED <<waiting, ptr, sched_state, buf, was, alt_state, k, sel, favorite>>

(* try_in finds the writer, or nobody.                                     *)
LEMMA TryInEffect ==
  ASSUME Inv, NEW p \in Procs, TryIn(p)
  PROVE  \E c \in Channels : Takes(p, c) \/ GivesUp(p, c)
<1> DEFINE c == ch[p]
<1>1. pc[p] = "try_in" /\ TypeOK /\ ChanOK /\ NameOK
  BY DEF Inv, Core, TryIn
<1>2. c \in Channels /\ p = Reader[c] /\ c \in Polled
  BY <1>1 DEF ChanOK, Alternating
<1>3. waiting[c] \in {NULL, Writer[c]}
  BY <1>1, <1>2 DEF NameOK, Published, Alternating
<1>4. CASE waiting[c] # NULL
  <2>1. /\ waiting[c] = Writer[c] /\ ptr[c] = Writer[c]
        /\ ch[Writer[c]] = c /\ pc[Writer[c]] \in Pausing
    BY <1>1, <1>2, <1>3, <1>4 DEF NameOK
  <2>2. Takes(p, c)
    BY <1>1, <1>2, <1>4, <2>1 DEF TypeOK, TryIn, SetChan, memcpy, Goto, alts, Takes, Sets
  <2>. QED BY <1>2, <2>2
<1>5. CASE waiting[c] = NULL
  <2>1. GivesUp(p, c)
    BY <1>1, <1>2, <1>5 DEF TypeOK, TryIn, Goto, chans, alts, GivesUp, Sets
  <2>. QED BY <1>2, <2>1
<1>. QED BY <1>4, <1>5

WakeTo(p) ==
  /\ pc[p] = "wake" /\ was[p] \in Procs /\ was[p] # p
  /\ Sets(sched_state, Procs, was[p], "READY")
  /\ Sets(was, Procs, p, NULL)
  /\ \A q \in Procs :
       pc'[q] = IF q = p \/ (q = was[p] /\ pc[q] = "asleep") THEN "return" ELSE pc[q]
  /\ UNCHANGED <<waiting, ptr, buf, ch, alt_state, k, sel, favorite>>

(* The process that is woken waits in in or out, and not in an             *)
(* alternation.                                                            *)
LEMMA WakeEffect ==
  ASSUME Inv, NEW p \in Procs, Wake(p)
  PROVE  WakeTo(p)
<1>1. pc[p] = "wake" /\ TypeOK /\ WasOK /\ SchedOK
  BY DEF Inv, Core, Wake
<1>2. was[p] \in Procs /\ was[p] # p /\ pc[was[p]] \in Pausing
  BY <1>1 DEF WasOK
<1>3. sched_state[was[p]] = "WAITING" <=> pc[was[p]] = "asleep"
  BY <1>1, <1>2 DEF SchedOK
<1>4. pc[was[p]] # "altAsleep"
  BY <1>2 DEF Pausing
<1>5. Sets(sched_state, Procs, was[p], "READY") /\ Sets(was, Procs, p, NULL)
  BY <1>1, <1>2 DEF TypeOK, Wake, Sets
<1>6. ASSUME NEW q \in Procs
      PROVE  pc'[q] = IF q = p \/ (q = was[p] /\ pc[q] = "asleep") THEN "return" ELSE pc[q]
  BY <1>1, <1>2, <1>3, <1>4 DEF TypeOK, Wake, Resumed, Goto
<1>. QED BY <1>1, <1>2, <1>5, <1>6 DEF Wake, chans, alts, WakeTo

RelinquishTo(p) ==
  /\ pc[p] = "relinquish"
  /\ \/ /\ sched_state[p] = "PREPARING_TO_WAIT"
        /\ Sets(sched_state, Procs, p, "WAITING") /\ Sets(pc, Procs, p, "asleep")
     \/ /\ sched_state[p] = "READY"
        /\ Sets(pc, Procs, p, "return") /\ UNCHANGED sched_state
  /\ UNCHANGED <<waiting, ptr, buf, ch, was, alt_state, k, sel, favorite>>

(* A process in relinquish is preparing to wait or has been made ready.    *)
LEMMA RelinquishEffect ==
  ASSUME Inv, NEW p \in Procs, Relinquish(p)
  PROVE  RelinquishTo(p)
<1>1. pc[p] = "relinquish" /\ TypeOK /\ SchedOK
  BY DEF Inv, Core, Relinquish
<1>2. sched_state[p] # "WAITING"
  BY <1>1 DEF SchedOK, Pausing
<1>3. sched_state[p] \in {"PREPARING_TO_WAIT", "READY"}
  BY <1>1, <1>2 DEF TypeOK
<1>. QED BY <1>1, <1>3 DEF TypeOK, Relinquish, Goto, chans, alts, Sets, RelinquishTo

FreeEnablingTo(p) ==
  /\ pc[p] = "free" /\ was[p] \in Procs /\ was[p] # p
  /\ \/ /\ alt_state[was[p]] = "ENABLING"
        /\ Sets(alt_state, Procs, was[p], "READY")
        /\ Sets(pc, Procs, p, "relinquish") /\ Sets(was, Procs, p, NULL)
     \/ /\ alt_state[was[p]] \in {"NONE", "READY"}
        /\ Sets(pc, Procs, p, "relinquish") /\ Sets(was, Procs, p, NULL)
        /\ UNCHANGED alt_state
     \/ /\ alt_state[was[p]] = "WAITING"
        /\ Sets(pc, Procs, p, "free2") /\ UNCHANGED <<was, alt_state>>
  /\ UNCHANGED <<waiting, ptr, sched_state, buf, ch, k, sel, favorite>>

(* The first exchange of freeProcessMaybe, by the state of the             *)
(* alternation.                                                            *)
LEMMA FreeEnablingEffect ==
  ASSUME Inv, NEW p \in Procs, FreeEnabling(p)
  PROVE  FreeEnablingTo(p)
<1>1. pc[p] = "free" /\ TypeOK /\ WasOK /\ ChanOK
  BY DEF Inv, Core, FreeEnabling
<1>2. was[p] \in Procs /\ was[p] # p
  BY <1>1, EndsOfChannel DEF WasOK, ChanOK, Alternating
<1>3. alt_state[was[p]] \in {"NONE", "ENABLING", "WAITING", "READY"}
  BY <1>1, <1>2 DEF TypeOK
<1>. QED BY <1>1, <1>2, <1>3 DEF TypeOK, FreeEnabling, Goto, chans, Sets, FreeEnablingTo

FreeWaitingTo(p) ==
  /\ pc[p] = "free2" /\ was[p] \in Procs /\ was[p] # p
  /\ \/ /\ pc[was[p]] = "altAsleep"
        /\ Sets(alt_state, Procs, was[p], "READY")
        /\ \A q \in Procs :
             pc'[q] = IF q = p THEN "relinquish"
                      ELSE IF q = was[p] THEN "disable" ELSE pc[q]
     \/ /\ pc[was[p]] # "altAsleep"
        /\ Sets(pc, Procs, p, "relinquish") /\ UNCHANGED alt_state
  /\ Sets(was, Procs, p, NULL)
  /\ UNCHANGED <<waiting, ptr, sched_state, buf, ch, k, sel, favorite>>

(* The second, which wakes a reader that is asleep in its alternation.     *)
LEMMA FreeWaitingEffect ==
  ASSUME Inv, NEW p \in Procs, FreeWaiting(p)
  PROVE  FreeWaitingTo(p)
<1>1. pc[p] = "free2" /\ TypeOK /\ WasOK /\ ChanOK /\ AltOK
  BY DEF Inv, Core, FreeWaiting
<1>2. was[p] \in Procs /\ was[p] # p
  BY <1>1, EndsOfChannel DEF WasOK, ChanOK, Alternating
<1>3. alt_state[was[p]] = "WAITING" <=> pc[was[p]] = "altAsleep"
  BY <1>1, <1>2 DEF AltOK
<1>. QED BY <1>1, <1>2, <1>3 DEF TypeOK, FreeWaiting, Resumed, Goto, chans, Sets, FreeWaitingTo

SelectTo(p) ==
  /\ pc[p] = "run" /\ Guards[p] # << >>
  /\ Sets(pc, Procs, p, "enable") /\ Sets(alt_state, Procs, p, "ENABLING")
  /\ Sets(k, Procs, p, 0) /\ Sets(sel, Procs, p, 0)
  /\ UNCHANGED <<waiting, ptr, sched_state, buf, ch, was, favorite>>

(* The beginning of a selection.                                           *)
LEMMA SelectEffect ==
  ASSUME TypeOK, NEW p \in Procs, Select(p)
  PROVE  SelectTo(p)
BY DEF TypeOK, Select, Goto, chans, Sets, SelectTo

EnableReadyTo(p) ==
  /\ pc[p] = "enable" /\ Sets(pc, Procs, p, "disable")
  /\ UNCHANGED <<waiting, ptr, sched_state, buf, ch, was, alt_state, k, sel, favorite>>

(* The enabling loop ends at a guard that is ready.                        *)
LEMMA EnableReadyEffect ==
  ASSUME TypeOK, NEW p \in Procs, EnableReady(p)
  PROVE  EnableReadyTo(p)
BY DEF TypeOK, EnableReady, Goto, chans, alts, Sets, EnableReadyTo

(* The guard that p is at, in either loop.                                 *)
LEMMA GuardTried ==
  ASSUME Inv, NEW p \in Procs, pc[p] \in {"enable", "disable"}
  PROVE  /\ Position(p, k[p]) \in 1 .. Len(Guards[p])
         /\ k[p] \in Nat /\ Len(Guards[p]) \in Nat /\ k[p] < Len(Guards[p])
         /\ Guard(p) # SKIP => Guard(p) \in Channels /\ Reader[Guard(p)] = p
<1>1. TypeOK /\ Guards[p] # << >> /\ k[p] < Len(Guards[p])
  BY DEF Inv, Core, AltOK, Alternating
<1>2. k[p] \in Nat
  BY <1>1 DEF TypeOK
<1>3. k[p] \in 0 .. Len(Guards[p]) - 1
  BY <1>1, <1>2, GuardFacts
<1>. QED BY <1>1, <1>2, <1>3, GuardFacts DEF Guard

\* p leaves its name in the channel g, or finds that it is there already.
EnableGuardTo(p, g) ==
  /\ pc[p] = "enable" /\ g = Guard(p) /\ g \in Channels /\ Reader[g] = p
  /\ waiting[g] \in {NULL, p}
  /\ Sets(waiting, Channels, g, p)
  /\ \/ waiting[g] = NULL /\ Sets(ptr, Channels, g, NULL)
     \/ waiting[g] = p /\ UNCHANGED ptr
  /\ \/ /\ k[p] + 1 < Len(Guards[p])
        /\ Sets(k, Procs, p, k[p] + 1) /\ UNCHANGED pc
     \/ /\ k[p] = Len(Guards[p]) - 1
        /\ Sets(pc, Procs, p, "altShouldWait") /\ UNCHANGED k
  /\ UNCHANGED <<sched_state, alt_state, buf, ch, was, sel, favorite>>

(* A guard that is not ready is a channel without a writer.                *)
LEMMA EnableGuardEffect ==
  ASSUME Inv, NEW p \in Procs, EnableGuard(p)
  PROVE  EnableGuardTo(p, Guard(p))
<1> DEFINE g == Guard(p)
<1>1. pc[p] = "enable" /\ ~ GuardReady(p) /\ TypeOK
  BY DEF Inv, Core, EnableGuard
<1>2. /\ g \in Channels /\ Reader[g] = p /\ waiting[g] \in {NULL, p}
      /\ k[p] \in Nat /\ Len(Guards[p]) \in Nat /\ k[p] < Len(Guards[p])
  BY <1>1, GuardTried DEF GuardReady, WriterReady
<1>3. p # NULL
  BY EndsOfChannel
<1>4. /\ Sets(waiting, Channels, g, p)
      /\ \/ waiting[g] = NULL /\ Sets(ptr, Channels, g, NULL)
         \/ waiting[g] = p /\ UNCHANGED ptr
  BY <1>1, <1>2, <1>3 DEF TypeOK, EnableGuard, SetChan, chans, Sets
<1>5. \/ /\ k[p] + 1 < Len(Guards[p])
         /\ Sets(k, Procs, p, k[p] + 1) /\ UNCHANGED pc
      \/ /\ k[p] = Len(Guards[p]) - 1
         /\ Sets(pc, Procs, p, "altShouldWait") /\ UNCHANGED k
  BY <1>1, <1>2 DEF TypeOK, EnableGuard, Goto, Sets
<1>. QED BY <1>1, <1>2, <1>4, <1>5 DEF EnableGuard, EnableGuardTo

AltShouldWaitTo(p) ==
  /\ pc[p] = "altShouldWait"
  /\ \/ /\ alt_state[p] = "ENABLING"
        /\ Sets(alt_state, Procs, p, "WAITING") /\ Sets(pc, Procs, p, "altAsleep")
     \/ Sets(pc, Procs, p, "disable") /\ UNCHANGED alt_state
  /\ UNCHANGED <<waiting, ptr, sched_state, buf, ch, was, k, sel, favorite>>

(* The alternation sleeps, or has been freed.                              *)
LEMMA AltShouldWaitEffect ==
  ASSUME TypeOK, NEW p \in Procs, AltShouldWait(p)
  PROVE  AltShouldWaitTo(p)
BY DEF TypeOK, AltShouldWait, Goto, chans, Sets, AltShouldWaitTo

\* p selects its guard, or takes back its name from it.
DisableGuardTo(p) ==
  /\ pc[p] = "disable"
  /\ \/ /\ Sets(sel, Procs, p, Position(p, k[p])) /\ UNCHANGED waiting
        /\ Guard(p) # SKIP =>
             /\ Guard(p) \in Channels /\ Reader[Guard(p)] = p
             /\ waiting[Guard(p)] \notin {NULL, p}
     \/ /\ Guard(p) \in Channels /\ Reader[Guard(p)] = p
        /\ waiting[Guard(p)] \in {NULL, p}
        /\ Sets(waiting, Channels, Guard(p), NULL) /\ UNCHANGED sel
  /\ \/ k[p] > 0 /\ Sets(k, Procs, p, k[p] - 1) /\ UNCHANGED pc
     \/ k[p] = 0 /\ Sets(pc, Procs, p, "altFinish") /\ UNCHANGED k
  /\ UNCHANGED <<ptr, sched_state, alt_state, buf, ch, was, favorite>>

(* A turn of the disabling loop.                                           *)
LEMMA DisableGuardEffect ==
  ASSUME Inv, NEW p \in Procs, DisableGuard(p)
  PROVE  DisableGuardTo(p)
<1>1. pc[p] = "disable" /\ TypeOK
  BY DEF Inv, Core, DisableGuard
<1>2. /\ Guard(p) # SKIP => Guard(p) \in Channels /\ Reader[Guard(p)] = p
      /\ k[p] \in Nat
  BY <1>1, GuardTried
<1>3. /\ \/ /\ Sets(sel, Procs, p, Position(p, k[p])) /\ UNCHANGED waiting
            /\ Guard(p) # SKIP =>
                 /\ Guard(p) \in Channels /\ Reader[Guard(p)] = p
                 /\ waiting[Guard(p)] \notin {NULL, p}
         \/ /\ Guard(p) \in Channels /\ Reader[Guard(p)] = p
            /\ waiting[Guard(p)] \in {NULL, p}
            /\ Sets(waiting, Channels, Guard(p), NULL) /\ UNCHANGED sel
      /\ UNCHANGED ptr
  BY <1>1, <1>2 DEF TypeOK, DisableGuard, GuardReady, WriterReady, disable_channel, chans, Sets
<1>4. \/ k[p] > 0 /\ Sets(k, Procs, p, k[p] - 1) /\ UNCHANGED pc
      \/ k[p] = 0 /\ Sets(pc, Procs, p, "altFinish") /\ UNCHANGED k
  BY <1>1, <1>2 DEF TypeOK, DisableGuard, Goto, Sets
<1>. QED BY <1>1, <1>3, <1>4 DEF DisableGuard, DisableGuardTo

AltFinishTo(p) ==
  /\ pc[p] = "altFinish"
  /\ Sets(alt_state, Procs, p, "NONE")
  /\ Sets(favorite, Procs, p, NextFavorite(p))
  /\ \/ \E c \in Channels :
          /\ Reader[c] = p /\ c \in Range(Guards[p]) /\ Selected(c)
          /\ Sets(pc, Procs, p, "in") /\ Sets(ch, Procs, p, c)
     \/ Sets(pc, Procs, p, "run") /\ UNCHANGED ch
  /\ UNCHANGED <<waiting, ptr, sched_state, buf, was, k, sel>>

(* The end of a selection: what is read next is the channel selected.      *)
LEMMA AltFinishEffect ==
  ASSUME Inv, NEW p \in Procs, AltFinish(p)
  PROVE  AltFinishTo(p)
<1>1. pc[p] = "altFinish" /\ TypeOK
  BY DEF Inv, Core, AltFinish
<1>2. Guards[p] # << >> /\ sel[p] \in 0 .. Len(Guards[p])
  BY <1>1 DEF Inv, Core, TypeOK, AltOK, Alternating
<1>3. Sets(alt_state, Procs, p, "NONE") /\ Sets(favorite, Procs, p, NextFavorite(p))
  BY <1>1 DEF TypeOK, AltFinish, Sets
<1>4. CASE sel[p] # 0 /\ Guards[p][sel[p]] # SKIP
  <2> DEFINE c == Guards[p][sel[p]]
  <2>1. sel[p] \in 1 .. Len(Guards[p])
    BY <1>1, <1>2, <1>4, GuardFacts
  <2>2. c \in Channels /\ Reader[c] = p /\ c \in Range(Guards[p])
    BY <1>1, <1>2, <1>4, <2>1, GuardFacts
  <2>3. Selected(c)
    BY <1>1, <1>4, <2>2 DEF Selected
  <2>4. Sets(pc, Procs, p, "in") /\ Sets(ch, Procs, p, c)
    BY <1>1, <1>4 DEF TypeOK, AltFinish, Goto, Sets
  <2>. QED BY <1>1, <1>3, <2>2, <2>3, <2>4 DEF AltFinish, AltFinishTo, chans
<1>5. CASE ~ (sel[p] # 0 /\ Guards[p][sel[p]] # SKIP)
  <2>1. Sets(pc, Procs, p, "run") /\ UNCHANGED ch
    BY <1>1, <1>5 DEF TypeOK, AltFinish, Goto, Sets
  <2>. QED BY <1>1, <1>3, <2>1 DEF AltFinish, AltFinishTo, chans
<1>. QED BY <1>4, <1>5

-----------------------------------------------------------------------------
(* Every step keeps the invariant.                                         *)

(* Publication depends on where the process is only.                       *)
LEMMA PublishedFrame ==
  ASSUME NEW q \in Procs, pc'[q] = pc[q], k'[q] = k[q], favorite'[q] = favorite[q],
         NEW c \in Channels
  PROVE  Published(q, c)' <=> Published(q, c)
BY DEF Published, Position

(* The beginning of out.                                                   *)
LEMMA CallOutCore ==
  ASSUME Inv, NEW p \in Procs, NEW c \in Channels, CallOutTo(p, c)
  PROVE  Core'
<1>1. ChanOK /\ WasOK /\ SchedOK /\ NameOK /\ AltOK /\ SelOK
  BY DEF Inv, Core
<1>2. ChanOK'
  BY <1>1, EndsOfChannel DEF CallOutTo, Sets, ChanOK, Alternating
<1>3. WasOK'
  BY <1>1, EndsOfChannel DEF CallOutTo, Sets, WasOK, ChanOK, Pausing, Alternating
<1>4. SchedOK'
  BY <1>1, EndsOfChannel DEF CallOutTo, Sets, SchedOK, WasOK, ChanOK, Pausing, Alternating
<1>5. NameOK'
  <2>1. ASSUME NEW q \in Procs, NEW d \in Channels, Published(q, d)
        PROVE  Published(q, d)'
    BY <2>1, PublishedFrame DEF CallOutTo, Sets, Published, Alternating
  <2>. QED BY <1>1, <2>1, EndsOfChannel
              DEF CallOutTo, Sets, NameOK, SchedOK, WasOK, ChanOK, Pausing, Alternating
<1>6. AltOK'
  BY <1>1, EndsOfChannel DEF CallOutTo, Sets, AltOK, ChanOK, WasOK, Alternating
<1>7. SelOK'
  BY <1>1, EndsOfChannel
     DEF CallOutTo, Sets, SelOK, Selected, ChanOK, NameOK, SchedOK, Pausing, Alternating
<1>. QED BY <1>2, <1>3, <1>4, <1>5, <1>6, <1>7 DEF Core

(* The beginning of in or try_in.                                          *)
LEMMA CallInCore ==
  ASSUME Inv, NEW p \in Procs, NEW c \in Channels, CallInTo(p, c)
  PROVE  Core'
<1>1. ChanOK /\ WasOK /\ SchedOK /\ NameOK /\ AltOK /\ SelOK
  BY DEF Inv, Core
<1>2. ChanOK'
  BY <1>1, EndsOfChannel DEF CallInTo, Sets, ChanOK, Alternating
<1>3. WasOK'
  BY <1>1, EndsOfChannel DEF CallInTo, Sets, WasOK, ChanOK, Pausing, Alternating
<1>4. SchedOK'
  BY <1>1, EndsOfChannel DEF CallInTo, Sets, SchedOK, WasOK, ChanOK, Pausing, Alternating
<1>5. NameOK'
  <2>1. ASSUME NEW q \in Procs, NEW d \in Channels, Published(q, d)
        PROVE  Published(q, d)'
    BY <2>1, PublishedFrame DEF CallInTo, Sets, Published, Alternating
  <2>. QED BY <1>1, <2>1, EndsOfChannel
              DEF CallInTo, Sets, NameOK, SchedOK, WasOK, ChanOK, Pausing, Alternating
<1>6. AltOK'
  BY <1>1, EndsOfChannel DEF CallInTo, Sets, AltOK, ChanOK, WasOK, Alternating
<1>7. SelOK'
  BY <1>1, EndsOfChannel
     DEF CallInTo, Sets, SelOK, Selected, ChanOK, NameOK, SchedOK, Pausing, Alternating
<1>. QED BY <1>2, <1>3, <1>4, <1>5, <1>6, <1>7 DEF Core

(* The return: no channel names the process any more.                      *)
LEMMA ReturnCore ==
  ASSUME Inv, NEW p \in Procs, ReturnTo(p)
  PROVE  Core'
<1>1. ChanOK /\ WasOK /\ SchedOK /\ NameOK /\ AltOK /\ SelOK
  BY DEF Inv, Core
<1>2. ChanOK'
  BY <1>1, EndsOfChannel DEF ReturnTo, Sets, ChanOK, Alternating
<1>3. WasOK'
  BY <1>1, EndsOfChannel DEF ReturnTo, Sets, WasOK, ChanOK, Pausing, Alternating
<1>4. SchedOK'
  BY <1>1, EndsOfChannel DEF ReturnTo, Sets, SchedOK, WasOK, ChanOK, Pausing, Alternating
<1>5. NameOK'
  <2>1. ASSUME NEW q \in Procs, NEW d \in Channels, Published(q, d)
        PROVE  Published(q, d)'
    BY <2>1, PublishedFrame DEF ReturnTo, Sets, Published, Alternating
  <2>. QED BY <1>1, <2>1, EndsOfChannel
              DEF ReturnTo, Sets, NameOK, SchedOK, WasOK, ChanOK, Pausing, Alternating
<1>6. AltOK'
  BY <1>1, EndsOfChannel DEF ReturnTo, Sets, AltOK, ChanOK, WasOK, Alternating
<1>7. SelOK'
  BY <1>1, EndsOfChannel
     DEF ReturnTo, Sets, SelOK, Selected, ChanOK, NameOK, SchedOK, Pausing, Alternating
<1>. QED BY <1>2, <1>3, <1>4, <1>5, <1>6, <1>7 DEF Core

(* A meeting: the one that waited is left to the other, which will wake    *)
(* it.                                                                     *)
LEMMA MeetsCore ==
  ASSUME Inv, NEW p \in Procs, NEW x \in Procs, NEW c \in Channels, Meets(p, x, c)
  PROVE  Core'
<1>1. ChanOK /\ WasOK /\ SchedOK /\ NameOK /\ AltOK /\ SelOK
  BY DEF Inv, Core
<1>2. ChanOK'
  BY <1>1, EndsOfChannel DEF Meets, Sets, ChanOK, Alternating
<1>3. WasOK'
  BY <1>1, EndsOfChannel DEF Meets, Sets, WasOK, ChanOK, Pausing, Alternating
<1>4. SchedOK'
  BY <1>1, EndsOfChannel DEF Meets, Sets, SchedOK, WasOK, ChanOK, Pausing, Alternating
<1>5. NameOK'
  <2>1. ASSUME NEW q \in Procs, NEW d \in Channels, Published(q, d)
        PROVE  Published(q, d)'
    BY <2>1, PublishedFrame DEF Meets, Sets, Published, Alternating
  <2>. QED BY <1>1, <2>1, EndsOfChannel
              DEF Meets, Sets, NameOK, SchedOK, WasOK, ChanOK, Pausing, Alternating
<1>6. AltOK'
  BY <1>1, EndsOfChannel DEF Meets, Sets, AltOK, ChanOK, WasOK, Alternating
<1>7. SelOK'
  BY <1>1, EndsOfChannel
     DEF Meets, Sets, SelOK, Selected, ChanOK, NameOK, SchedOK, Pausing, Alternating
<1>. QED BY <1>2, <1>3, <1>4, <1>5, <1>6, <1>7 DEF Core

(* The first to come leaves its name.                                      *)
LEMMA AwaitsCore ==
  ASSUME Inv, NEW p \in Procs, NEW c \in Channels, Awaits(p, c)
  PROVE  Core'
<1>1. ChanOK /\ WasOK /\ SchedOK /\ NameOK /\ AltOK /\ SelOK
  BY DEF Inv, Core
<1>2. ChanOK'
  BY <1>1, EndsOfChannel DEF Awaits, Sets, ChanOK, Alternating
<1>3. WasOK'
  BY <1>1, EndsOfChannel DEF Awaits, Sets, WasOK, ChanOK, Pausing, Alternating
<1>4. SchedOK'
  BY <1>1, EndsOfChannel DEF Awaits, Sets, SchedOK, WasOK, ChanOK, Pausing, Alternating
<1>5. NameOK'
  <2>1. ASSUME NEW q \in Procs, NEW d \in Channels, Published(q, d)
        PROVE  Published(q, d)'
    BY <2>1, PublishedFrame DEF Awaits, Sets, Published, Alternating
  <2>. QED BY <1>1, <2>1, EndsOfChannel
              DEF Awaits, Sets, NameOK, SchedOK, WasOK, ChanOK, Pausing, Alternating
<1>6. AltOK'
  BY <1>1, EndsOfChannel DEF Awaits, Sets, AltOK, ChanOK, WasOK, Alternating
<1>7. SelOK'
  BY <1>1, EndsOfChannel
     DEF Awaits, Sets, SelOK, Selected, ChanOK, NameOK, SchedOK, Pausing, Alternating
<1>. QED BY <1>2, <1>3, <1>4, <1>5, <1>6, <1>7 DEF Core

(* The writer replaces the name of the alternating reader by its own.      *)
LEMMA FreesCore ==
  ASSUME Inv, NEW p \in Procs, NEW c \in Channels, Frees(p, c)
  PROVE  Core'
<1>1. ChanOK /\ WasOK /\ SchedOK /\ NameOK /\ AltOK /\ SelOK
  BY DEF Inv, Core
<1>2. ChanOK'
  BY <1>1, EndsOfChannel DEF Frees, Sets, ChanOK, Alternating
<1>3. WasOK'
  BY <1>1, EndsOfChannel DEF Frees, Sets, WasOK, ChanOK, Pausing, Alternating
<1>4. SchedOK'
  BY <1>1, EndsOfChannel DEF Frees, Sets, SchedOK, WasOK, ChanOK, Pausing, Alternating
<1>5. NameOK'
  <2>1. ASSUME NEW q \in Procs, NEW d \in Channels, Published(q, d)
        PROVE  Published(q, d)'
    BY <2>1, PublishedFrame DEF Frees, Sets, Published, Alternating
  <2>. QED BY <1>1, <2>1, EndsOfChannel
              DEF Frees, Sets, NameOK, SchedOK, WasOK, ChanOK, Pausing, Alternating
<1>6. AltOK'
  BY <1>1, EndsOfChannel DEF Frees, Sets, AltOK, ChanOK, WasOK, Alternating
<1>7. SelOK'
  BY <1>1, EndsOfChannel
     DEF Frees, Sets, SelOK, Selected, ChanOK, NameOK, SchedOK, Pausing, Alternating
<1>. QED BY <1>2, <1>3, <1>4, <1>5, <1>6, <1>7 DEF Core

(* try_in with a writer.                                                   *)
LEMMA TakesCore ==
  ASSUME Inv, NEW p \in Procs, NEW c \in Channels, Takes(p, c)
  PROVE  Core'
<1>1. ChanOK /\ WasOK /\ SchedOK /\ NameOK /\ AltOK /\ SelOK
  BY DEF Inv, Core
<1>2. ChanOK'
  BY <1>1, EndsOfChannel DEF Takes, Sets, ChanOK, Alternating
<1>3. WasOK'
  BY <1>1, EndsOfChannel DEF Takes, Sets, WasOK, ChanOK, Pausing, Alternating
<1>4. SchedOK'
  BY <1>1, EndsOfChannel DEF Takes, Sets, SchedOK, WasOK, ChanOK, Pausing, Alternating
<1>5. NameOK'
  <2>1. ASSUME NEW q \in Procs, NEW d \in Channels, Published(q, d)
        PROVE  Published(q, d)'
    BY <2>1, PublishedFrame DEF Takes, Sets, Published, Alternating
  <2>. QED BY <1>1, <2>1, EndsOfChannel
              DEF Takes, Sets, NameOK, SchedOK, WasOK, ChanOK, Pausing, Alternating
<1>6. AltOK'
  BY <1>1, EndsOfChannel DEF Takes, Sets, AltOK, ChanOK, WasOK, Alternating
<1>7. SelOK'
  BY <1>1, EndsOfChannel
     DEF Takes, Sets, SelOK, Selected, ChanOK, NameOK, SchedOK, Pausing, Alternating
<1>. QED BY <1>2, <1>3, <1>4, <1>5, <1>6, <1>7 DEF Core

(* try_in without.                                                         *)
LEMMA GivesUpCore ==
  ASSUME Inv, NEW p \in Procs, NEW c \in Channels, GivesUp(p, c)
  PROVE  Core'
<1>1. ChanOK /\ WasOK /\ SchedOK /\ NameOK /\ AltOK /\ SelOK
  BY DEF Inv, Core
<1>2. ChanOK'
  BY <1>1, EndsOfChannel DEF GivesUp, Sets, ChanOK, Alternating
<1>3. WasOK'
  BY <1>1, EndsOfChannel DEF GivesUp, Sets, WasOK, ChanOK, Pausing, Alternating
<1>4. SchedOK'
  BY <1>1, EndsOfChannel DEF GivesUp, Sets, SchedOK, WasOK, ChanOK, Pausing, Alternating
<1>5. NameOK'
  <2>1. ASSUME NEW q \in Procs, NEW d \in Channels, Published(q, d)
        PROVE  Published(q, d)'
    BY <2>1, PublishedFrame DEF GivesUp, Sets, Published, Alternating
  <2>. QED BY <1>1, <2>1, EndsOfChannel
              DEF GivesUp, Sets, NameOK, SchedOK, WasOK, ChanOK, Pausing, Alternating
<1>6. AltOK'
  BY <1>1, EndsOfChannel DEF GivesUp, Sets, AltOK, ChanOK, WasOK, Alternating
<1>7. SelOK'
  BY <1>1, EndsOfChannel
     DEF GivesUp, Sets, SelOK, Selected, ChanOK, NameOK, SchedOK, Pausing, Alternating
<1>. QED BY <1>2, <1>3, <1>4, <1>5, <1>6, <1>7 DEF Core

(* Only one process is about to wake another, and the channel does not     *)
(* name the latter.                                                        *)
LEMMA WakeCore ==
  ASSUME Inv, NEW p \in Procs, WakeTo(p)
  PROVE  Core'
<1>1. ChanOK /\ WasOK /\ SchedOK /\ NameOK /\ AltOK /\ SelOK
  BY DEF Inv, Core
<1>2. ChanOK'
  BY <1>1, EndsOfChannel DEF WakeTo, Sets, ChanOK, Alternating
<1>3. WasOK'
  BY <1>1, EndsOfChannel DEF WakeTo, Sets, WasOK, ChanOK, Pausing, Alternating
<1>4. SchedOK'
  BY <1>1, EndsOfChannel DEF WakeTo, Sets, SchedOK, WasOK, ChanOK, Pausing, Alternating
<1>5. NameOK'
  <2>1. ASSUME NEW q \in Procs, NEW d \in Channels, Published(q, d)
        PROVE  Published(q, d)'
    BY <2>1, PublishedFrame DEF WakeTo, Sets, Published, Alternating
  <2>. QED BY <1>1, <2>1, EndsOfChannel
              DEF WakeTo, Sets, NameOK, SchedOK, WasOK, ChanOK, Pausing, Alternating
<1>6. AltOK'
  BY <1>1, EndsOfChannel DEF WakeTo, Sets, AltOK, ChanOK, WasOK, Alternating
<1>7. SelOK'
  BY <1>1, EndsOfChannel
     DEF WakeTo, Sets, SelOK, Selected, ChanOK, NameOK, SchedOK, Pausing, Alternating
<1>. QED BY <1>2, <1>3, <1>4, <1>5, <1>6, <1>7 DEF Core

(* Whoever has been made ready is not named any more.                      *)
LEMMA RelinquishCore ==
  ASSUME Inv, NEW p \in Procs, RelinquishTo(p)
  PROVE  Core'
<1>1. ChanOK /\ WasOK /\ SchedOK /\ NameOK /\ AltOK /\ SelOK
  BY DEF Inv, Core
<1>2. ChanOK'
  BY <1>1, EndsOfChannel DEF RelinquishTo, Sets, ChanOK, Alternating
<1>3. WasOK'
  BY <1>1, EndsOfChannel DEF RelinquishTo, Sets, WasOK, ChanOK, Pausing, Alternating
<1>4. SchedOK'
  BY <1>1, EndsOfChannel DEF RelinquishTo, Sets, SchedOK, WasOK, ChanOK, Pausing, Alternating
<1>5. NameOK'
  <2>1. ASSUME NEW q \in Procs, NEW d \in Channels, Published(q, d)
        PROVE  Published(q, d)'
    BY <2>1, PublishedFrame DEF RelinquishTo, Sets, Published, Alternating
  <2>. QED BY <1>1, <2>1, EndsOfChannel
              DEF RelinquishTo, Sets, NameOK, SchedOK, WasOK, ChanOK, Pausing, Alternating
<1>6. AltOK'
  BY <1>1, EndsOfChannel DEF RelinquishTo, Sets, AltOK, ChanOK, WasOK, Alternating
<1>7. SelOK'
  BY <1>1, EndsOfChannel
     DEF RelinquishTo, Sets, SelOK, Selected, ChanOK, NameOK, SchedOK, Pausing, Alternating
<1>. QED BY <1>2, <1>3, <1>4, <1>5, <1>6, <1>7 DEF Core

(* The first exchange of freeProcessMaybe, also on an alternation that is  *)
(* a later one.                                                            *)
LEMMA FreeEnablingCore ==
  ASSUME Inv, NEW p \in Procs, FreeEnablingTo(p)
  PROVE  Core'
<1>1. ChanOK /\ WasOK /\ SchedOK /\ NameOK /\ AltOK /\ SelOK
  BY DEF Inv, Core
<1>2. ChanOK'
  BY <1>1, EndsOfChannel DEF FreeEnablingTo, Sets, ChanOK, Alternating
<1>3. WasOK'
  BY <1>1, EndsOfChannel DEF FreeEnablingTo, Sets, WasOK, ChanOK, Pausing, Alternating
<1>4. SchedOK'
  BY <1>1, EndsOfChannel DEF FreeEnablingTo, Sets, SchedOK, WasOK, ChanOK, Pausing, Alternating
<1>5. NameOK'
  <2>1. ASSUME NEW q \in Procs, NEW d \in Channels, Published(q, d)
        PROVE  Published(q, d)'
    BY <2>1, PublishedFrame DEF FreeEnablingTo, Sets, Published, Alternating
  <2>. QED BY <1>1, <2>1, EndsOfChannel
              DEF FreeEnablingTo, Sets, NameOK, SchedOK, WasOK, ChanOK, Pausing, Alternating
<1>6. AltOK'
  BY <1>1, EndsOfChannel DEF FreeEnablingTo, Sets, AltOK, ChanOK, WasOK, Alternating
<1>7. SelOK'
  BY <1>1, EndsOfChannel
     DEF FreeEnablingTo, Sets, SelOK, Selected, ChanOK, NameOK, SchedOK, Pausing,
         Alternating
<1>. QED BY <1>2, <1>3, <1>4, <1>5, <1>6, <1>7 DEF Core

(* The second, likewise: what was published stays so.                      *)
LEMMA FreeWaitingCore ==
  ASSUME Inv, NEW p \in Procs, FreeWaitingTo(p)
  PROVE  Core'
<1>1. ChanOK /\ WasOK /\ SchedOK /\ NameOK /\ AltOK /\ SelOK
  BY DEF Inv, Core
<1>2. ChanOK'
  BY <1>1, EndsOfChannel DEF FreeWaitingTo, Sets, ChanOK, Alternating
<1>3. WasOK'
  BY <1>1, EndsOfChannel DEF FreeWaitingTo, Sets, WasOK, ChanOK, Pausing, Alternating
<1>4. SchedOK'
  BY <1>1, EndsOfChannel DEF FreeWaitingTo, Sets, SchedOK, WasOK, ChanOK, Pausing, Alternating
<1>5. NameOK'
  <2>1. ASSUME NEW q \in Procs, NEW d \in Channels, Published(q, d)
        PROVE  Published(q, d)'
    <3>1. CASE pc'[q] = pc[q]
      BY <2>1, <3>1, PublishedFrame DEF FreeWaitingTo
    <3>2. CASE pc'[q] # pc[q]
      <4>1. /\ pc'[q] \in Alternating \ {"altFinish", "enable"}
            /\ k'[q] = k[q] /\ favorite'[q] = favorite[q]
        BY <2>1, <3>2 DEF FreeWaitingTo, Sets, Published, Alternating
      <4>. QED BY <2>1, <4>1 DEF Published, Position
    <3>. QED BY <3>1, <3>2
  <2>. QED BY <1>1, <2>1, EndsOfChannel
              DEF FreeWaitingTo, Sets, NameOK, SchedOK, WasOK, ChanOK, Pausing, Alternating
<1>6. AltOK'
  BY <1>1, EndsOfChannel DEF FreeWaitingTo, Sets, AltOK, ChanOK, WasOK, Alternating
<1>7. SelOK'
  BY <1>1, EndsOfChannel
     DEF FreeWaitingTo, Sets, SelOK, Selected, ChanOK, NameOK, SchedOK, Pausing, Alternating
<1>. QED BY <1>2, <1>3, <1>4, <1>5, <1>6, <1>7 DEF Core

(* The beginning of a selection: nothing is published.                     *)
LEMMA SelectCore ==
  ASSUME Inv, NEW p \in Procs, SelectTo(p)
  PROVE  Core'
<1>1. ChanOK /\ WasOK /\ SchedOK /\ NameOK /\ AltOK /\ SelOK
  BY DEF Inv, Core
<1>2. ChanOK'
  BY <1>1, EndsOfChannel DEF SelectTo, Sets, ChanOK, Alternating
<1>3. WasOK'
  BY <1>1, EndsOfChannel DEF SelectTo, Sets, WasOK, ChanOK, Pausing, Alternating
<1>4. SchedOK'
  BY <1>1, EndsOfChannel DEF SelectTo, Sets, SchedOK, WasOK, ChanOK, Pausing, Alternating
<1>5. NameOK'
  <2>1. ASSUME NEW q \in Procs, NEW d \in Channels, Published(q, d)
        PROVE  Published(q, d)'
    BY <2>1, PublishedFrame DEF SelectTo, Sets, Published, Alternating
  <2>. QED BY <1>1, <2>1, EndsOfChannel
              DEF SelectTo, Sets, NameOK, SchedOK, WasOK, ChanOK, Pausing, Alternating
<1>6. AltOK'
  BY <1>1, EndsOfChannel DEF SelectTo, Sets, AltOK, ChanOK, WasOK, Alternating
<1>7. SelOK'
  BY <1>1, EndsOfChannel
     DEF SelectTo, Sets, SelOK, Selected, ChanOK, NameOK, SchedOK, Pausing, Alternating
<1>. QED BY <1>2, <1>3, <1>4, <1>5, <1>6, <1>7 DEF Core

(* From enabling to disabling with the same guards published.              *)
LEMMA EnableReadyCore ==
  ASSUME Inv, NEW p \in Procs, EnableReadyTo(p)
  PROVE  Core'
<1>1. ChanOK /\ WasOK /\ SchedOK /\ NameOK /\ AltOK /\ SelOK
  BY DEF Inv, Core
<1>2. ChanOK'
  BY <1>1, EndsOfChannel DEF EnableReadyTo, Sets, ChanOK, Alternating
<1>3. WasOK'
  BY <1>1, EndsOfChannel DEF EnableReadyTo, Sets, WasOK, ChanOK, Pausing, Alternating
<1>4. SchedOK'
  BY <1>1, EndsOfChannel DEF EnableReadyTo, Sets, SchedOK, WasOK, ChanOK, Pausing, Alternating
<1>5. NameOK'
  <2>1. ASSUME NEW q \in Procs, NEW d \in Channels, Published(q, d)
        PROVE  Published(q, d)'
    <3>1. CASE pc'[q] = pc[q]
      BY <2>1, <3>1, PublishedFrame DEF EnableReadyTo
    <3>2. CASE pc'[q] # pc[q]
      <4>1. /\ pc'[q] \in Alternating \ {"altFinish", "enable"}
            /\ k'[q] = k[q] /\ favorite'[q] = favorite[q]
        BY <2>1, <3>2 DEF EnableReadyTo, Sets, Published, Alternating
      <4>. QED BY <2>1, <4>1 DEF Published, Position
    <3>. QED BY <3>1, <3>2
  <2>. QED BY <1>1, <2>1, EndsOfChannel
              DEF EnableReadyTo, Sets, NameOK, SchedOK, WasOK, ChanOK, Pausing, Alternating
<1>6. AltOK'
  BY <1>1, EndsOfChannel DEF EnableReadyTo, Sets, AltOK, ChanOK, WasOK, Alternating
<1>7. SelOK'
  BY <1>1, EndsOfChannel
     DEF EnableReadyTo, Sets, SelOK, Selected, ChanOK, NameOK, SchedOK, Pausing, Alternating
<1>. QED BY <1>2, <1>3, <1>4, <1>5, <1>6, <1>7 DEF Core

(* The same from the end of the enabling loop.                             *)
LEMMA AltShouldWaitCore ==
  ASSUME Inv, NEW p \in Procs, AltShouldWaitTo(p)
  PROVE  Core'
<1>1. ChanOK /\ WasOK /\ SchedOK /\ NameOK /\ AltOK /\ SelOK
  BY DEF Inv, Core
<1>2. ChanOK'
  BY <1>1, EndsOfChannel DEF AltShouldWaitTo, Sets, ChanOK, Alternating
<1>3. WasOK'
  BY <1>1, EndsOfChannel DEF AltShouldWaitTo, Sets, WasOK, ChanOK, Pausing, Alternating
<1>4. SchedOK'
  BY <1>1, EndsOfChannel DEF AltShouldWaitTo, Sets, SchedOK, WasOK, ChanOK, Pausing, Alternating
<1>5. NameOK'
  <2>1. ASSUME NEW q \in Procs, NEW d \in Channels, Published(q, d)
        PROVE  Published(q, d)'
    <3>1. CASE pc'[q] = pc[q]
      BY <2>1, <3>1, PublishedFrame DEF AltShouldWaitTo
    <3>2. CASE pc'[q] # pc[q]
      <4>1. /\ pc'[q] \in Alternating \ {"altFinish", "enable"}
            /\ k'[q] = k[q] /\ favorite'[q] = favorite[q]
        BY <2>1, <3>2 DEF AltShouldWaitTo, Sets, Published, Alternating
      <4>. QED BY <2>1, <4>1 DEF Published, Position
    <3>. QED BY <3>1, <3>2
  <2>. QED BY <1>1, <2>1, EndsOfChannel
              DEF AltShouldWaitTo, Sets, NameOK, SchedOK, WasOK, ChanOK, Pausing,
                  Alternating
<1>6. AltOK'
  BY <1>1, EndsOfChannel DEF AltShouldWaitTo, Sets, AltOK, ChanOK, WasOK, Alternating
<1>7. SelOK'
  BY <1>1, EndsOfChannel
     DEF AltShouldWaitTo, Sets, SelOK, Selected, ChanOK, NameOK, SchedOK, Pausing,
         Alternating
<1>. QED BY <1>2, <1>3, <1>4, <1>5, <1>6, <1>7 DEF Core

(* No guard is published at the end, and the selected channel still has    *)
(* its writer.                                                             *)
LEMMA AltFinishCore ==
  ASSUME Inv, NEW p \in Procs, AltFinishTo(p)
  PROVE  Core'
<1>1. ChanOK /\ WasOK /\ SchedOK /\ NameOK /\ AltOK /\ SelOK
  BY DEF Inv, Core
<1>2. ChanOK'
  BY <1>1, EndsOfChannel DEF AltFinishTo, Sets, ChanOK, Alternating
<1>3. WasOK'
  BY <1>1, EndsOfChannel DEF AltFinishTo, Sets, WasOK, ChanOK, Pausing, Alternating
<1>4. SchedOK'
  BY <1>1, EndsOfChannel DEF AltFinishTo, Sets, SchedOK, WasOK, ChanOK, Pausing, Alternating
<1>5. NameOK'
  <2>1. ASSUME NEW q \in Procs, NEW d \in Channels, Published(q, d)
        PROVE  Published(q, d)'
    BY <2>1, PublishedFrame DEF AltFinishTo, Sets, Published, Alternating
  <2>. QED BY <1>1, <2>1, EndsOfChannel
              DEF AltFinishTo, Sets, NameOK, SchedOK, WasOK, ChanOK, Pausing, Alternating
<1>6. AltOK'
  BY <1>1, EndsOfChannel DEF AltFinishTo, Sets, AltOK, ChanOK, WasOK, Alternating
<1>7. SelOK'
  BY <1>1, EndsOfChannel
     DEF AltFinishTo, Sets, SelOK, Selected, ChanOK, NameOK, SchedOK, Pausing, Alternating
<1>. QED BY <1>2, <1>3, <1>4, <1>5, <1>6, <1>7 DEF Core

(* The guard that is published is among those tried from now on.           *)
LEMMA EnableGuardCore ==
  ASSUME Inv, NEW p \in Procs, NEW g, EnableGuardTo(p, g)
  PROVE  Core'
<1>1. ChanOK /\ WasOK /\ SchedOK /\ NameOK /\ AltOK /\ SelOK
  BY DEF Inv, Core
<1>2. k[p] \in Nat /\ Len(Guards[p]) \in Nat /\ k[p] < Len(Guards[p])
  BY GuardTried DEF EnableGuardTo
<1>3. ChanOK'
  BY <1>1, EndsOfChannel DEF EnableGuardTo, Sets, ChanOK, Alternating
<1>4. WasOK'
  BY <1>1, EndsOfChannel DEF EnableGuardTo, Sets, WasOK, ChanOK, Pausing, Alternating
<1>5. SchedOK'
  BY <1>1, EndsOfChannel DEF EnableGuardTo, Sets, SchedOK, ChanOK, Pausing, Alternating
<1>6. NameOK'
  <2>1. ASSUME NEW q \in Procs, NEW d \in Channels, Published(q, d)
        PROVE  Published(q, d)'
    <3>1. CASE q # p
      BY <2>1, <3>1, PublishedFrame DEF EnableGuardTo, Sets
    <3>2. CASE q = p
      <4>1. PICK i \in 0 .. k[p] : i < k[p] /\ Guards[p][Position(p, i)] = d
        BY <2>1, <3>2 DEF EnableGuardTo, Published
      <4>2. i \in 0 .. k'[p] /\ (pc'[p] = "enable" => i < k'[p]) /\ Position(p, i)' = Position(p, i)
        BY <1>2, <4>1 DEF EnableGuardTo, Sets, Position
      <4>3. pc'[p] \in Alternating \ {"altFinish"}
        BY DEF EnableGuardTo, Sets, Alternating
      <4>. QED BY <3>2, <4>1, <4>2, <4>3 DEF Published
    <3>. QED BY <3>1, <3>2
  <2>2. Published(p, g)'
    <3>1. /\ k[p] \in 0 .. k'[p] /\ (pc'[p] = "enable" => k[p] < k'[p])
          /\ favorite' = favorite
      BY <1>2 DEF EnableGuardTo, Sets
    <3>2. pc'[p] \in Alternating \ {"altFinish"}
      BY DEF EnableGuardTo, Sets, Alternating
    <3>3. Guards[p][Position(p, k[p])] = g
      BY DEF EnableGuardTo, Guard
    <3>. QED BY <3>1, <3>2, <3>3 DEF Published, Position
  <2>. QED BY <1>1, <2>1, <2>2, EndsOfChannel
       DEF EnableGuardTo, Sets, NameOK, ChanOK, Pausing, Alternating
<1>7. AltOK'
  BY <1>1, <1>2 DEF EnableGuardTo, Sets, AltOK, Alternating
<1>8. SelOK'
  BY <1>1, EndsOfChannel DEF EnableGuardTo, Sets, SelOK, Selected, ChanOK
<1>. QED BY <1>3, <1>4, <1>5, <1>6, <1>7, <1>8 DEF Core

(* The name is taken back from the guard that is left; if there is a       *)
(* writer, the guard is selected.                                          *)
LEMMA DisableGuardCore ==
  ASSUME Inv, NEW p \in Procs, DisableGuardTo(p)
  PROVE  Core'
<1>1. ChanOK /\ WasOK /\ SchedOK /\ NameOK /\ AltOK /\ SelOK
  BY DEF Inv, Core
<1>2. /\ k[p] \in Nat /\ Len(Guards[p]) \in Nat /\ k[p] < Len(Guards[p])
      /\ Position(p, k[p]) \in 1 .. Len(Guards[p])
  BY GuardTried DEF DisableGuardTo
<1>3. ChanOK'
  BY <1>1, EndsOfChannel DEF DisableGuardTo, Sets, ChanOK, Alternating
<1>4. WasOK'
  BY <1>1, EndsOfChannel DEF DisableGuardTo, Sets, WasOK, ChanOK, Pausing, Alternating
<1>5. SchedOK'
  BY <1>1, EndsOfChannel DEF DisableGuardTo, Sets, SchedOK, ChanOK, Pausing, Alternating
<1>6. NameOK'
  <2>1. ASSUME NEW q \in Procs, NEW d \in Channels, Published(q, d), waiting'[d] = q
        PROVE  Published(q, d)'
    <3>1. CASE q # p
      BY <2>1, <3>1, PublishedFrame DEF DisableGuardTo, Sets
    <3>2. CASE q = p
      <4>1. PICK i \in 0 .. k[p] : Guards[p][Position(p, i)] = d
        BY <2>1, <3>2 DEF DisableGuardTo, Published
      <4>2. d # Guard(p)
        BY <2>1, <3>2, EndsOfChannel, CommAssumption DEF DisableGuardTo, Sets
      <4>3. i # k[p]
        BY <4>1, <4>2 DEF Guard
      <4>4. i \in 0 .. k'[p] /\ pc'[p] = "disable" /\ favorite' = favorite
        BY <1>2, <4>1, <4>3 DEF DisableGuardTo, Sets
      <4>. QED BY <3>2, <4>1, <4>4 DEF Published, Position, Alternating
    <3>. QED BY <3>1, <3>2
  <2>. QED BY <1>1, <2>1, EndsOfChannel
       DEF DisableGuardTo, Sets, NameOK, ChanOK, Pausing, Alternating
<1>7. AltOK'
  BY <1>1, <1>2 DEF DisableGuardTo, Sets, AltOK, Alternating
<1>8. SelOK'
  <2>1. ASSUME NEW d \in Channels, Selected(d)' PROVE waiting'[d] = Writer[d]
    <3>1. CASE Selected(d)
      BY <1>1, <3>1, EndsOfChannel DEF DisableGuardTo, Sets, SelOK
    <3>2. CASE ~ Selected(d)
      <4>1. Reader[d] = p /\ sel'[p] # 0 /\ sel'[p] = Position(p, k[p]) /\ Guards[p][sel'[p]] = d
            /\ waiting' = waiting /\ sel' # sel
        BY <2>1, <3>2, EndsOfChannel DEF DisableGuardTo, Sets, Selected
      <4>2. d = Guard(p) /\ d # SKIP /\ waiting[d] \notin {NULL, p}
        BY <4>1, CommAssumption DEF DisableGuardTo, Guard
      <4>. QED BY <1>1, <4>1, <4>2 DEF NameOK
    <3>. QED BY <3>1, <3>2
  <2>. QED BY <1>1, <2>1 DEF DisableGuardTo, Sets, SelOK
<1>. QED BY <1>3, <1>4, <1>5, <1>6, <1>7, <1>8 DEF Core

(* Types: only the copied word and the positions need more than the        *)
(* assignments themselves.                                                 *)
LEMMA TypeStep ==
  ASSUME Inv, NEW p \in Procs, Call(p) \/ Step(p)
  PROVE  TypeOK'
<1> USE DEF Inv
<1>1. ASSUME NEW c \in Channels, CallOut(p, c) PROVE TypeOK'
  BY <1>1 DEF TypeOK, PCs, CallOut, Goto, chans, alts
<1>2. ASSUME NEW c \in Channels, CallIn(p, c) PROVE TypeOK'
  BY <1>2 DEF TypeOK, PCs, CallIn, Goto, chans, alts
<1>3. CASE Return(p)
  BY <1>3 DEF TypeOK, PCs, Return, Goto, chans, alts
<1>4. CASE In(p)
  <2>1. PICK c \in Channels : Meets(p, Writer[c], c) \/ Awaits(p, c)
    BY <1>4, InEffect
  <2>2. ch[p] = c /\ waiting[c] \in Procs \cup {NULL} /\ (waiting[c] # NULL => ptr[c] \in Procs)
    BY <2>1, EndsOfChannel DEF Meets, Awaits
  <2>3. TypeOK
    BY DEF Inv
  <2>4. waiting' \in [Channels -> Procs \cup {NULL}] /\ ptr' \in [Channels -> Procs \cup {NULL}]
    <3>1. \E v \in Procs \cup {NULL} : SetChan(c, v, v)
      BY <1>4, <2>2 DEF In, Exchange, Await
    <3>. QED BY <2>3, <3>1 DEF TypeOK, SetChan
  <2>5. sched_state' \in [Procs -> {"READY", "PREPARING_TO_WAIT", "WAITING"}]
    BY <1>4, <2>2, <2>3 DEF TypeOK, In, Exchange, Await, SetChan, memcpy, PREPARE_TO_WAIT, Goto
  <2>6. buf' \in [Procs -> Values]
    BY <1>4, <2>2, <2>3 DEF TypeOK, In, Exchange, Await, SetChan, memcpy, PREPARE_TO_WAIT, Goto
  <2>7. pc' \in [Procs -> PCs] /\ was' \in [Procs -> Procs \cup {NULL}]
    BY <1>4, <2>2, <2>3 DEF TypeOK, PCs, In, Exchange, Await, SetChan, memcpy, PREPARE_TO_WAIT, Goto
  <2>8. UNCHANGED <<ch, alts>>
    BY <1>4, <2>2 DEF In
  <2>. QED BY <2>3, <2>4, <2>5, <2>6, <2>7, <2>8 DEF TypeOK, alts
<1>5. CASE Out(p)
  <2>1. PICK c \in Channels : Meets(p, Reader[c], c) \/ Frees(p, c) \/ Awaits(p, c)
    BY <1>5, OutEffect
  <2>2. ch[p] = c /\ waiting[c] \in Procs \cup {NULL}
    BY <2>1, EndsOfChannel DEF Meets, Frees, Awaits
  <2>3. TypeOK
    BY DEF Inv
  <2>4. waiting' \in [Channels -> Procs \cup {NULL}] /\ ptr' \in [Channels -> Procs \cup {NULL}]
    <3>1. \E v \in Procs \cup {NULL} : SetChan(c, v, v)
      BY <1>5, <2>2 DEF Out, Exchange, Await
    <3>. QED BY <2>3, <3>1 DEF TypeOK, SetChan
  <2>5. sched_state' \in [Procs -> {"READY", "PREPARING_TO_WAIT", "WAITING"}]
    BY <1>5, <2>2, <2>3
       DEF TypeOK, Out, Alting, Exchange, Await, SetChan, memcpy, PREPARE_TO_WAIT, Goto
  <2>6. buf' \in [Procs -> Values]
    BY <1>5, <2>2, <2>3
       DEF TypeOK, Out, Alting, Exchange, Await, SetChan, memcpy, PREPARE_TO_WAIT, Goto
  <2>7. pc' \in [Procs -> PCs] /\ was' \in [Procs -> Procs \cup {NULL}]
    BY <1>5, <2>2, <2>3
       DEF TypeOK, PCs, Out, Alting, Exchange, Await, SetChan, memcpy, PREPARE_TO_WAIT, Goto
  <2>8. UNCHANGED <<ch, alts>>
    BY <1>5, <2>2 DEF Out
  <2>. QED BY <2>3, <2>4, <2>5, <2>6, <2>7, <2>8 DEF TypeOK, alts
<1>6. CASE TryIn(p)
  <2>1. PICK c \in Channels : Takes(p, c) \/ GivesUp(p, c)
    BY <1>6, TryInEffect
  <2>2. ch[p] = c
    BY <2>1 DEF Takes, GivesUp
  <2>3. waiting[c] # NULL => ptr[c] \in Procs
    <3>1. waiting[c] # NULL => waiting[c] = Writer[c]
      BY <2>1, <2>2, <1>6 DEF Takes, GivesUp, Core, NameOK, TryIn, Published, Alternating
    <3>. QED BY <3>1, EndsOfChannel DEF Core, NameOK
  <2>4. TypeOK
    BY DEF Inv
  <2>5. waiting' \in [Channels -> Procs \cup {NULL}] /\ ptr' \in [Channels -> Procs \cup {NULL}]
    BY <1>6, <2>2, <2>4 DEF TypeOK, TryIn, SetChan, chans
  <2>6. buf' \in [Procs -> Values]
    BY <1>6, <2>2, <2>3, <2>4 DEF TypeOK, TryIn, memcpy
  <2>7. pc' \in [Procs -> PCs] /\ ch' \in [Procs -> Channels \cup {NULL}]
    BY <1>6, <2>4 DEF TypeOK, PCs, TryIn, Goto
  <2>. QED BY <1>6, <2>4, <2>5, <2>6, <2>7 DEF TypeOK, TryIn, alts
<1>7. CASE Wake(p)
  <2>1. was[p] \in Procs
    BY <1>7, WakeEffect DEF WakeTo
  <2>. QED BY <1>7, <2>1 DEF TypeOK, PCs, Wake, Resumed, Goto, chans, alts
<1>8. CASE Relinquish(p)
  BY <1>8 DEF TypeOK, PCs, Relinquish, Goto, chans, alts
<1>9. CASE FreeEnabling(p)
  BY <1>9 DEF TypeOK, PCs, FreeEnabling, Goto, chans
<1>10. CASE FreeWaiting(p)
  BY <1>10 DEF TypeOK, PCs, FreeWaiting, Resumed, Goto, chans
<1>11. CASE Select(p)
  BY <1>11 DEF TypeOK, PCs, Select, Goto, chans
<1>12. CASE EnableReady(p)
  BY <1>12 DEF TypeOK, PCs, EnableReady, Goto, chans, alts
<1>13. CASE EnableGuard(p)
  <2>1. Guard(p) \in Channels
    BY <1>13, EnableGuardEffect DEF EnableGuardTo
  <2>2. TypeOK /\ k[p] \in Nat /\ Len(Guards[p]) \in Nat
    BY <1>13, GuardTried DEF EnableGuard
  <2>3. waiting' \in [Channels -> Procs \cup {NULL}] /\ ptr' \in [Channels -> Procs \cup {NULL}]
    BY <1>13, <2>1, <2>2 DEF TypeOK, EnableGuard, SetChan, chans
  <2>4. pc' \in [Procs -> PCs]
    BY <1>13, <2>2 DEF TypeOK, PCs, EnableGuard, Goto
  <2>5. k' \in [Procs -> Nat] /\ \A q \in Procs : k'[q] \in 0 .. Len(Guards[q])
    <3>1. k' = k \/ (k' = [k EXCEPT ![p] = k[p] + 1] /\ k[p] + 1 < Len(Guards[p]))
      BY <1>13 DEF EnableGuard
    <3>2. k \in [Procs -> Nat] /\ \A q \in Procs : k[q] \in 0 .. Len(Guards[q])
      BY <2>2 DEF TypeOK
    <3>. QED BY <2>2, <3>1, <3>2
  <2>. QED BY <1>13, <2>2, <2>3, <2>4, <2>5 DEF TypeOK, EnableGuard
<1>14. CASE AltShouldWait(p)
  BY <1>14 DEF TypeOK, PCs, AltShouldWait, Goto, chans
<1>15. CASE DisableGuard(p)
  <2>1. /\ k[p] \in Nat /\ Len(Guards[p]) \in Nat /\ k[p] < Len(Guards[p])
        /\ Position(p, k[p]) \in 1 .. Len(Guards[p])
    BY <1>15, GuardTried DEF DisableGuard
  <2>2. waiting' \in [Channels -> Procs \cup {NULL}] /\ UNCHANGED ptr
    BY <1>15 DEF TypeOK, DisableGuard, disable_channel, chans
  <2>3. pc' \in [Procs -> PCs]
    <3>1. pc' = pc \/ pc' = [pc EXCEPT ![p] = "altFinish"]
      BY <1>15 DEF DisableGuard, Goto
    <3>2. pc \in [Procs -> PCs] /\ "altFinish" \in PCs
      BY DEF TypeOK, PCs
    <3>. QED BY <3>1, <3>2
  <2>4. k' \in [Procs -> Nat] /\ \A q \in Procs : k'[q] \in 0 .. Len(Guards[q])
    <3>1. k' = k \/ (k' = [k EXCEPT ![p] = k[p] - 1] /\ k[p] > 0)
      BY <1>15 DEF DisableGuard
    <3>2. k \in [Procs -> Nat] /\ \A q \in Procs : k[q] \in 0 .. Len(Guards[q])
      BY DEF TypeOK
    <3>. QED BY <2>1, <3>1, <3>2
  <2>5. sel' \in [Procs -> Nat] /\ \A q \in Procs : sel'[q] \in 0 .. Len(Guards[q])
    <3>1. sel' = sel \/ sel' = [sel EXCEPT ![p] = Position(p, k[p])]
      BY <1>15 DEF DisableGuard
    <3>2. sel \in [Procs -> Nat] /\ \A q \in Procs : sel[q] \in 0 .. Len(Guards[q])
      BY DEF TypeOK
    <3>. QED BY <2>1, <3>1, <3>2
  <2>. QED BY <1>15, <2>2, <2>3, <2>4, <2>5 DEF TypeOK, DisableGuard
<1>16. CASE AltFinish(p)
  <2>1. Guards[p] # << >> /\ sel[p] \in Nat /\ TypeOK
    BY <1>16 DEF AltFinish, Core, AltOK, Alternating, TypeOK
  <2>2. Len(Guards[p]) \in Nat /\ Len(Guards[p]) > 0
    BY <2>1, GuardFacts
  <2>3. NextFavorite(p) \in 0 .. Len(Guards[p]) - 1
    BY <2>1, <2>2, Turn DEF NextFavorite
  <2>4. sel[p] # 0 /\ Guards[p][sel[p]] # SKIP => Guards[p][sel[p]] \in Channels
    BY <2>1, <2>2, GuardFacts DEF TypeOK
  <2>5. alt_state' \in [Procs -> {"NONE", "ENABLING", "WAITING", "READY"}]
    BY <1>16, <2>1 DEF TypeOK, AltFinish
  <2>6. pc' \in [Procs -> PCs] /\ ch' \in [Procs -> Channels \cup {NULL}]
    BY <1>16, <2>1, <2>4 DEF TypeOK, PCs, AltFinish, Goto
  <2>7. /\ favorite' \in [Procs -> Nat]
        /\ \A q \in Procs : favorite'[q] = IF q = p THEN NextFavorite(p) ELSE favorite[q]
    BY <1>16, <2>1, <2>2, <2>3 DEF TypeOK, AltFinish
  <2>8. \A q \in Procs : /\ favorite'[q] \in 0 .. Len(Guards[q])
                         /\ Guards[q] # << >> => favorite'[q] < Len(Guards[q])
    <3>1. \A q \in Procs : /\ favorite[q] \in 0 .. Len(Guards[q])
                           /\ Guards[q] # << >> => favorite[q] < Len(Guards[q])
      BY <2>1 DEF TypeOK
    <3>. QED BY <2>2, <2>3, <2>7, <3>1
  <2>. QED BY <1>16, <2>1, <2>5, <2>6, <2>7, <2>8 DEF TypeOK, AltFinish, chans
<1>. QED BY <1>1, <1>2, <1>3, <1>4, <1>5, <1>6, <1>7, <1>8, <1>9, <1>10, <1>11,
            <1>12, <1>13, <1>14, <1>15, <1>16 DEF Call, Step

(* Every action keeps the rest of the invariant.                           *)
LEMMA CoreStep ==
  ASSUME Inv, NEW p \in Procs, Call(p) \/ Step(p)
  PROVE  Core'
<1>0. TypeOK
  BY DEF Inv
<1>1. ASSUME NEW c \in Channels, CallOut(p, c) PROVE Core'
  BY <1>0, <1>1, CallOutEffect, CallOutCore
<1>2. ASSUME NEW c \in Channels, CallIn(p, c) PROVE Core'
  BY <1>0, <1>2, CallInEffect, CallInCore
<1>3. CASE Return(p)
  BY <1>0, <1>3, ReturnEffect, ReturnCore
<1>4. CASE In(p)
  BY <1>4, InEffect, MeetsCore, AwaitsCore, EndsOfChannel
<1>5. CASE Out(p)
  BY <1>5, OutEffect, MeetsCore, FreesCore, AwaitsCore, EndsOfChannel
<1>6. CASE TryIn(p)
  BY <1>6, TryInEffect, TakesCore, GivesUpCore
<1>7. CASE Wake(p)
  BY <1>7, WakeEffect, WakeCore
<1>8. CASE Relinquish(p)
  BY <1>8, RelinquishEffect, RelinquishCore
<1>9. CASE FreeEnabling(p)
  BY <1>9, FreeEnablingEffect, FreeEnablingCore
<1>10. CASE FreeWaiting(p)
  BY <1>10, FreeWaitingEffect, FreeWaitingCore
<1>11. CASE Select(p)
  BY <1>0, <1>11, SelectEffect, SelectCore
<1>12. CASE EnableReady(p)
  BY <1>0, <1>12, EnableReadyEffect, EnableReadyCore
<1>13. CASE EnableGuard(p)
  BY <1>13, EnableGuardEffect, EnableGuardCore
<1>14. CASE AltShouldWait(p)
  BY <1>0, <1>14, AltShouldWaitEffect, AltShouldWaitCore
<1>15. CASE DisableGuard(p)
  BY <1>15, DisableGuardEffect, DisableGuardCore
<1>16. CASE AltFinish(p)
  BY <1>16, AltFinishEffect, AltFinishCore
<1>. QED BY <1>1, <1>2, <1>3, <1>4, <1>5, <1>6, <1>7, <1>8, <1>9, <1>10, <1>11,
            <1>12, <1>13, <1>14, <1>15, <1>16 DEF Call, Step

(* A step that changes nothing.                                            *)
LEMMA InvStutter ==
  ASSUME Inv, UNCHANGED vars
  PROVE  Inv'
<1>1. TypeOK'
  BY DEF Inv, TypeOK, vars
<1>2. ChanOK' /\ WasOK' /\ SchedOK' /\ AltOK'
  BY DEF Inv, Core, ChanOK, WasOK, SchedOK, AltOK, vars
<1>3. NameOK' /\ SelOK'
  BY DEF Inv, Core, NameOK, Published, Position, SelOK, Selected, vars
<1>. QED BY <1>1, <1>2, <1>3 DEF Inv, Core

(* The invariant holds when all processes run.                             *)
LEMMA InvInit == Init => Inv
<1> SUFFICES ASSUME Init PROVE Inv
  OBVIOUS
<1>1. \A p \in Procs : Len(Guards[p]) \in Nat /\ (Guards[p] # << >> => Len(Guards[p]) > 0)
  BY CommAssumption
<1>2. TypeOK
  BY <1>1 DEF Init, TypeOK, PCs
<1>3. ChanOK /\ WasOK /\ SchedOK /\ AltOK
  BY EndsOfChannel DEF Init, ChanOK, WasOK, SchedOK, AltOK, Pausing, Alternating
<1>4. NameOK /\ SelOK
  BY EndsOfChannel DEF Init, NameOK, SelOK, Selected
<1>. QED BY <1>2, <1>3, <1>4 DEF Inv, Core

(* The invariant holds in every reachable state.                           *)
THEOREM CommInvariant == Spec => []Inv
<1>1. Inv /\ [Next]_vars => Inv'
  BY TypeStep, CoreStep, InvStutter DEF Next, Inv
<1>. QED BY InvInit, <1>1, PTL DEF Spec

(* The pointer in a channel is into the buffer of a process that is still  *)
(* waiting there, and a channel names nobody who has left it.              *)
THEOREM CommNoStaleName == Spec => []NoStaleName
<1>1. Inv => NoStaleName
  <2> SUFFICES ASSUME Inv, NEW c \in Channels PROVE NoStaleName!(c)
    BY DEF NoStaleName
  <2>1. TypeOK /\ NameOK /\ AltOK
    BY DEF Inv, Core
  <2>2. CASE waiting[c] = Writer[c]
    BY <2>1, <2>2, EndsOfChannel DEF NameOK, Offer, Status, Pausing
  <2>3. CASE waiting[c] = Reader[c] /\ ptr[c] # NULL
    BY <2>1, <2>3, EndsOfChannel DEF NameOK, Demand, Status
  <2>4. CASE waiting[c] = Reader[c] /\ ptr[c] = NULL
    <3> DEFINE r == Reader[c]
    <3>1. r \in Procs /\ Published(r, c)
      BY <2>1, <2>4, EndsOfChannel DEF NameOK
    <3>2. PICK i \in 0 .. k[r] : Guards[r][Position(r, i)] = c
      BY <3>1 DEF Published
    <3>3. alt_state[r] # "NONE" /\ Guards[r] # << >> /\ k[r] < Len(Guards[r]) /\ k[r] \in Nat
      BY <2>1, <3>1 DEF Published, AltOK, Alternating, TypeOK
    <3>4. i \in 0 .. Len(Guards[r]) - 1
      BY <2>1, <3>1, <3>2, <3>3, GuardFacts
    <3>5. c \in Range(Guards[r])
      BY <2>1, <3>1, <3>2, <3>3, <3>4, GuardFacts
    <3>. QED BY <2>4, <3>3, <3>5, EndsOfChannel
  <2>. QED BY <2>2, <2>3, <2>4, EndsOfChannel
<1>. QED BY CommInvariant, <1>1, PTL

(* The in that follows a selection finds the writer there.                 *)
THEOREM CommSelectedReady == Spec => []SelectedReady
<1>1. Inv => SelectedReady
  <2> SUFFICES ASSUME Inv, NEW p \in Procs, pc[p] = "in", ch[p] \in Range(Guards[p])
               PROVE  waiting[ch[p]] = Writer[ch[p]]
    BY DEF SelectedReady
  <2>1. ch[p] \in Channels /\ Reader[ch[p]] = p
    BY DEF Inv, Core, ChanOK, Alternating
  <2>. QED BY <2>1 DEF Inv, Core, SelOK, Selected
<1>. QED BY CommInvariant, <1>1, PTL

-----------------------------------------------------------------------------
(* Channels implement Rendezvous.                                          *)

\* What Rendezvous sees of c beside Offer and Demand.
DataOf(c) == IF Offer(c) = "idle" THEN NULL ELSE buf[Writer[c]]
GotOf(c) == IF Demand(c) = "done" THEN buf[Reader[c]] ELSE NULL

\* A step that Rendezvous does not see at c.
Same(c) ==
  /\ Offer(c)' = Offer(c) /\ Demand(c)' = Demand(c)
  /\ DataOf(c)' = DataOf(c) /\ GotOf(c)' = GotOf(c)

StatusOf(at, label, name, p, c) ==
  IF at # c THEN "idle"
  ELSE IF label \in {"out", "in", "try_in"} THEN "waiting"
  ELSE IF label \in Pausing /\ name = p THEN "waiting" ELSE "done"

(* The status of a process, without CASE.                                  *)
LEMMA StatusIs ==
  ASSUME NEW p \in Procs, NEW c \in Channels
  PROVE  /\ Status(p, c) = StatusOf(ch[p], pc[p], waiting[c], p, c)
         /\ Status(p, c)' = StatusOf(ch'[p], pc'[p], waiting'[c], p, c)
BY DEF Status, StatusOf, Pausing

(* The refinement mapping sees a channel at a time.                        *)
LEMMA Stutters ==
  ASSUME \A c \in Channels : Same(c)
  PROVE  UNCHANGED Meeting!vars
BY DEF Same, DataOf, GotOf, Meeting!vars

(* One lemma for each action of Rendezvous, with its effect on c.          *)
LEMMA StartsOut ==
  ASSUME NEW c \in Channels, \A d \in Channels \ {c} : Same(d),
         Offer(c) = "idle", Offer(c)' = "waiting", DataOf(c)' \in Values,
         Demand(c)' = Demand(c), GotOf(c)' = GotOf(c)
  PROVE  Meeting!Next
<1>1. Meeting!StartOut(c)
  BY DEF Same, DataOf, GotOf, Meeting!StartOut
<1>. QED BY <1>1 DEF Meeting!Next

(* The same for StartIn.                                                   *)
LEMMA StartsIn ==
  ASSUME NEW c \in Channels, \A d \in Channels \ {c} : Same(d),
         Demand(c) = "idle", Demand(c)' = "waiting", GotOf(c)' = GotOf(c),
         Offer(c)' = Offer(c), DataOf(c)' = DataOf(c)
  PROVE  Meeting!Next
<1>1. Meeting!StartIn(c)
  BY DEF Same, DataOf, GotOf, Meeting!StartIn
<1>. QED BY <1>1 DEF Meeting!Next

(* The same for Meet.                                                      *)
LEMMA MeetsAt ==
  ASSUME NEW c \in Channels, \A d \in Channels \ {c} : Same(d),
         Offer(c) = "waiting", Offer(c)' = "done",
         Demand(c) = "waiting", Demand(c)' = "done",
         GotOf(c)' = DataOf(c), DataOf(c)' = DataOf(c)
  PROVE  Meeting!Next
<1>1. Meeting!Meet(c)
  BY DEF Same, DataOf, GotOf, Meeting!Meet
<1>. QED BY <1>1 DEF Meeting!Next

(* The same for EndOut.                                                    *)
LEMMA EndsOut ==
  ASSUME NEW c \in Channels, \A d \in Channels \ {c} : Same(d),
         Offer(c) = "done", Offer(c)' = "idle",
         Demand(c)' = Demand(c), GotOf(c)' = GotOf(c)
  PROVE  Meeting!Next
<1>1. Meeting!EndOut(c)
  BY DEF Same, DataOf, GotOf, Meeting!EndOut
<1>. QED BY <1>1 DEF Meeting!Next

(* The same for EndIn.                                                     *)
LEMMA EndsIn ==
  ASSUME NEW c \in Channels, \A d \in Channels \ {c} : Same(d),
         Demand(c) = "done", Demand(c)' = "idle",
         Offer(c)' = Offer(c), DataOf(c)' = DataOf(c)
  PROVE  Meeting!Next
<1>1. Meeting!EndIn(c)
  BY DEF Same, DataOf, GotOf, Meeting!EndIn
<1>. QED BY <1>1 DEF Meeting!Next

(* The same for Withdraw.                                                  *)
LEMMA Withdraws ==
  ASSUME NEW c \in Channels, \A d \in Channels \ {c} : Same(d),
         Demand(c) = "waiting", Demand(c)' = "idle",
         Offer(c)' = Offer(c), DataOf(c)' = DataOf(c)
  PROVE  Meeting!Next
<1>1. Meeting!Withdraw(c)
  BY DEF Same, DataOf, GotOf, Meeting!Withdraw
<1>. QED BY <1>1 DEF Meeting!Next

(* The beginning of out is StartOut.                                       *)
LEMMA CallOutMeeting ==
  ASSUME Inv, NEW p \in Procs, NEW c \in Channels, CallOutTo(p, c)
  PROVE  Meeting!Next
<1>1. ChanOK /\ WasOK /\ SchedOK /\ NameOK
  BY DEF Inv, Core
<1>2. ASSUME NEW q \in Procs, NEW d \in Channels, d # c
      PROVE  Status(q, d)' = Status(q, d)
  BY <1>1, <1>2, StatusIs, EndsOfChannel
     DEF StatusOf, CallOutTo, Sets, ChanOK, WasOK, SchedOK, NameOK, Pausing, Alternating
<1>3. \A d \in Channels \ {c} : Same(d)
  <2>1. ASSUME NEW q \in Procs, NEW d \in Channels, d # c, Status(q, d) # "idle"
        PROVE  buf'[q] = buf[q]
    BY <1>1, <2>1, StatusIs, EndsOfChannel DEF StatusOf, CallOutTo, Sets, ChanOK, Alternating
  <2>. QED BY <1>2, <2>1, EndsOfChannel DEF Same, Offer, Demand, DataOf, GotOf
<1>4. /\ Offer(c) = "idle" /\ Offer(c)' = "waiting" /\ DataOf(c)' \in Values
      /\ Demand(c)' = Demand(c) /\ GotOf(c)' = GotOf(c)
  BY <1>1, StatusIs, EndsOfChannel
     DEF StatusOf, CallOutTo, Sets, Offer, Demand, DataOf, GotOf, ChanOK, WasOK, SchedOK,
         NameOK, Pausing, Alternating
<1>. QED BY <1>3, <1>4, StartsOut

(* The beginning of in or try_in is StartIn.                               *)
LEMMA CallInMeeting ==
  ASSUME Inv, NEW p \in Procs, NEW c \in Channels, CallInTo(p, c)
  PROVE  Meeting!Next
<1>1. ChanOK /\ WasOK /\ SchedOK /\ NameOK
  BY DEF Inv, Core
<1>2. ASSUME NEW q \in Procs, NEW d \in Channels, d # c
      PROVE  Status(q, d)' = Status(q, d)
  BY <1>1, <1>2, StatusIs, EndsOfChannel
     DEF StatusOf, CallInTo, Sets, ChanOK, WasOK, SchedOK, NameOK, Pausing, Alternating
<1>3. \A d \in Channels \ {c} : Same(d)
  <2>1. ASSUME NEW q \in Procs, NEW d \in Channels, d # c, Status(q, d) # "idle"
        PROVE  buf'[q] = buf[q]
    BY <1>1, <2>1, StatusIs, EndsOfChannel DEF StatusOf, CallInTo, Sets, ChanOK, Alternating
  <2>. QED BY <1>2, <2>1, EndsOfChannel DEF Same, Offer, Demand, DataOf, GotOf
<1>4. /\ Demand(c) = "idle" /\ Demand(c)' = "waiting" /\ GotOf(c)' = GotOf(c)
      /\ Offer(c)' = Offer(c) /\ DataOf(c)' = DataOf(c)
  BY <1>1, StatusIs, EndsOfChannel
     DEF StatusOf, CallInTo, Sets, Offer, Demand, DataOf, GotOf, ChanOK, WasOK, SchedOK,
         NameOK, Pausing, Alternating
<1>. QED BY <1>3, <1>4, StartsIn

(* The return is EndOut or EndIn.                                          *)
LEMMA ReturnMeeting ==
  ASSUME Inv, NEW p \in Procs, NEW c \in Channels, ReturnTo(p), ch[p] = c
  PROVE  Meeting!Next
<1>1. ChanOK /\ WasOK /\ SchedOK /\ NameOK
  BY DEF Inv, Core
<1>2. ASSUME NEW q \in Procs, NEW d \in Channels, d # c
      PROVE  Status(q, d)' = Status(q, d)
  BY <1>1, <1>2, StatusIs, EndsOfChannel
     DEF StatusOf, ReturnTo, Sets, ChanOK, WasOK, SchedOK, NameOK, Pausing, Alternating
<1>3. \A d \in Channels \ {c} : Same(d)
  <2>1. ASSUME NEW q \in Procs, NEW d \in Channels, d # c, Status(q, d) # "idle"
        PROVE  buf'[q] = buf[q]
    BY <1>1, <2>1, StatusIs, EndsOfChannel DEF StatusOf, ReturnTo, Sets, ChanOK, Alternating
  <2>. QED BY <1>2, <2>1, EndsOfChannel DEF Same, Offer, Demand, DataOf, GotOf
<1>4. \/ /\ Offer(c) = "done" /\ Offer(c)' = "idle"
         /\ Demand(c)' = Demand(c) /\ GotOf(c)' = GotOf(c)
      \/ /\ Demand(c) = "done" /\ Demand(c)' = "idle"
         /\ Offer(c)' = Offer(c) /\ DataOf(c)' = DataOf(c)
  BY <1>1, StatusIs, EndsOfChannel
     DEF StatusOf, ReturnTo, Sets, Offer, Demand, DataOf, GotOf, ChanOK, WasOK, SchedOK,
         NameOK, Pausing, Alternating
<1>. QED BY <1>3, <1>4, EndsOut, EndsIn

(* A meeting is Meet, whichever side came first.                           *)
LEMMA MeetsMeeting ==
  ASSUME Inv, NEW p \in Procs, NEW x \in Procs, NEW c \in Channels, Meets(p, x, c)
  PROVE  Meeting!Next
<1>1. ChanOK /\ WasOK /\ SchedOK /\ NameOK
  BY DEF Inv, Core
<1>2. ASSUME NEW q \in Procs, NEW d \in Channels, d # c
      PROVE  Status(q, d)' = Status(q, d)
  BY <1>1, <1>2, StatusIs, EndsOfChannel
     DEF StatusOf, Meets, Sets, ChanOK, WasOK, SchedOK, NameOK, Pausing, Alternating
<1>3. \A d \in Channels \ {c} : Same(d)
  <2>1. ASSUME NEW q \in Procs, NEW d \in Channels, d # c, Status(q, d) # "idle"
        PROVE  buf'[q] = buf[q]
    BY <1>1, <2>1, StatusIs, EndsOfChannel DEF StatusOf, Meets, Sets, ChanOK, Alternating
  <2>. QED BY <1>2, <2>1, EndsOfChannel DEF Same, Offer, Demand, DataOf, GotOf
<1>4. /\ Offer(c) = "waiting" /\ Offer(c)' = "done"
      /\ Demand(c) = "waiting" /\ Demand(c)' = "done"
      /\ GotOf(c)' = DataOf(c) /\ DataOf(c)' = DataOf(c)
  BY <1>1, StatusIs, EndsOfChannel
     DEF StatusOf, Meets, Sets, Offer, Demand, DataOf, GotOf, ChanOK, WasOK, SchedOK,
         NameOK, Pausing, Alternating
<1>. QED BY <1>3, <1>4, MeetsAt

(* The first to come goes on waiting.                                      *)
LEMMA AwaitsMeeting ==
  ASSUME Inv, NEW p \in Procs, NEW c \in Channels, Awaits(p, c)
  PROVE  UNCHANGED Meeting!vars
<1>1. ChanOK /\ WasOK /\ SchedOK /\ NameOK
  BY DEF Inv, Core
<1>2. ASSUME NEW q \in Procs, NEW d \in Channels
      PROVE  Status(q, d)' = Status(q, d)
  BY <1>1, StatusIs, EndsOfChannel
     DEF StatusOf, Awaits, Sets, ChanOK, WasOK, SchedOK, NameOK, Pausing, Alternating
<1>3. \A d \in Channels : Same(d)
  BY <1>2, EndsOfChannel DEF Same, Offer, Demand, DataOf, GotOf, Awaits
<1>. QED BY <1>3, Stutters

(* The writer that finds an alternating reader goes on waiting.            *)
LEMMA FreesMeeting ==
  ASSUME Inv, NEW p \in Procs, NEW c \in Channels, Frees(p, c)
  PROVE  UNCHANGED Meeting!vars
<1>1. ChanOK /\ WasOK /\ SchedOK /\ NameOK
  BY DEF Inv, Core
<1>2. ASSUME NEW q \in Procs, NEW d \in Channels
      PROVE  Status(q, d)' = Status(q, d)
  BY <1>1, StatusIs, EndsOfChannel
     DEF StatusOf, Frees, Sets, ChanOK, WasOK, SchedOK, NameOK, Pausing, Alternating,
         Published
<1>3. \A d \in Channels : Same(d)
  BY <1>2, EndsOfChannel DEF Same, Offer, Demand, DataOf, GotOf, Frees
<1>. QED BY <1>3, Stutters

(* try_in with a writer is Meet.                                           *)
LEMMA TakesMeeting ==
  ASSUME Inv, NEW p \in Procs, NEW c \in Channels, Takes(p, c)
  PROVE  Meeting!Next
<1>1. ChanOK /\ WasOK /\ SchedOK /\ NameOK
  BY DEF Inv, Core
<1>2. ASSUME NEW q \in Procs, NEW d \in Channels, d # c
      PROVE  Status(q, d)' = Status(q, d)
  BY <1>1, <1>2, StatusIs, EndsOfChannel
     DEF StatusOf, Takes, Sets, ChanOK, WasOK, SchedOK, NameOK, Pausing, Alternating
<1>3. \A d \in Channels \ {c} : Same(d)
  <2>1. ASSUME NEW q \in Procs, NEW d \in Channels, d # c, Status(q, d) # "idle"
        PROVE  buf'[q] = buf[q]
    BY <1>1, <2>1, StatusIs, EndsOfChannel DEF StatusOf, Takes, Sets, ChanOK, Alternating
  <2>. QED BY <1>2, <2>1, EndsOfChannel DEF Same, Offer, Demand, DataOf, GotOf
<1>4. /\ Offer(c) = "waiting" /\ Offer(c)' = "done"
      /\ Demand(c) = "waiting" /\ Demand(c)' = "done"
      /\ GotOf(c)' = DataOf(c) /\ DataOf(c)' = DataOf(c)
  BY <1>1, StatusIs, EndsOfChannel
     DEF StatusOf, Takes, Sets, Offer, Demand, DataOf, GotOf, ChanOK, WasOK, SchedOK,
         NameOK, Pausing, Alternating
<1>. QED BY <1>3, <1>4, MeetsAt

(* try_in without is Withdraw.                                             *)
LEMMA GivesUpMeeting ==
  ASSUME Inv, NEW p \in Procs, NEW c \in Channels, GivesUp(p, c)
  PROVE  Meeting!Next
<1>1. ChanOK /\ WasOK /\ SchedOK /\ NameOK
  BY DEF Inv, Core
<1>2. ASSUME NEW q \in Procs, NEW d \in Channels, d # c
      PROVE  Status(q, d)' = Status(q, d)
  BY <1>1, <1>2, StatusIs, EndsOfChannel
     DEF StatusOf, GivesUp, Sets, ChanOK, WasOK, SchedOK, NameOK, Pausing, Alternating
<1>3. \A d \in Channels \ {c} : Same(d)
  <2>1. ASSUME NEW q \in Procs, NEW d \in Channels, d # c, Status(q, d) # "idle"
        PROVE  buf'[q] = buf[q]
    BY <1>1, <2>1, StatusIs, EndsOfChannel DEF StatusOf, GivesUp, Sets, ChanOK, Alternating
  <2>. QED BY <1>2, <2>1, EndsOfChannel DEF Same, Offer, Demand, DataOf, GotOf
<1>4. /\ Demand(c) = "waiting" /\ Demand(c)' = "idle"
      /\ Offer(c)' = Offer(c) /\ DataOf(c)' = DataOf(c)
  BY <1>1, StatusIs, EndsOfChannel
     DEF StatusOf, GivesUp, Sets, Offer, Demand, DataOf, GotOf, ChanOK, WasOK, SchedOK,
         NameOK, Pausing, Alternating
<1>. QED BY <1>3, <1>4, Withdraws

(* The wake-up is not seen: the communication is done.                     *)
LEMMA WakeMeeting ==
  ASSUME Inv, NEW p \in Procs, WakeTo(p)
  PROVE  UNCHANGED Meeting!vars
<1>1. ChanOK /\ WasOK /\ SchedOK /\ NameOK
  BY DEF Inv, Core
<1>2. ASSUME NEW q \in Procs, NEW d \in Channels
      PROVE  Status(q, d)' = Status(q, d)
  BY <1>1, StatusIs, EndsOfChannel
     DEF StatusOf, WakeTo, Sets, ChanOK, WasOK, SchedOK, NameOK, Pausing, Alternating
<1>3. \A d \in Channels : Same(d)
  BY <1>2, EndsOfChannel DEF Same, Offer, Demand, DataOf, GotOf, WakeTo
<1>. QED BY <1>3, Stutters

(* relinquish is not seen: whoever is ready is not named any more.         *)
LEMMA RelinquishMeeting ==
  ASSUME Inv, NEW p \in Procs, RelinquishTo(p)
  PROVE  UNCHANGED Meeting!vars
<1>1. ChanOK /\ WasOK /\ SchedOK /\ NameOK
  BY DEF Inv, Core
<1>2. ASSUME NEW q \in Procs, NEW d \in Channels
      PROVE  Status(q, d)' = Status(q, d)
  BY <1>1, StatusIs, EndsOfChannel
     DEF StatusOf, RelinquishTo, Sets, ChanOK, WasOK, SchedOK, NameOK, Pausing, Alternating
<1>3. \A d \in Channels : Same(d)
  BY <1>2, EndsOfChannel DEF Same, Offer, Demand, DataOf, GotOf, RelinquishTo
<1>. QED BY <1>3, Stutters

(* The first exchange of freeProcessMaybe is not seen.                     *)
LEMMA FreeEnablingMeeting ==
  ASSUME Inv, NEW p \in Procs, FreeEnablingTo(p)
  PROVE  UNCHANGED Meeting!vars
<1>1. ChanOK /\ WasOK /\ SchedOK /\ NameOK
  BY DEF Inv, Core
<1>2. ASSUME NEW q \in Procs, NEW d \in Channels
      PROVE  Status(q, d)' = Status(q, d)
  BY <1>1, StatusIs, EndsOfChannel
     DEF StatusOf, FreeEnablingTo, Sets, ChanOK, WasOK, SchedOK, NameOK, Pausing,
         Alternating
<1>3. \A d \in Channels : Same(d)
  BY <1>2, EndsOfChannel DEF Same, Offer, Demand, DataOf, GotOf, FreeEnablingTo
<1>. QED BY <1>3, Stutters

(* The second is not seen.                                                 *)
LEMMA FreeWaitingMeeting ==
  ASSUME Inv, NEW p \in Procs, FreeWaitingTo(p)
  PROVE  UNCHANGED Meeting!vars
<1>1. ChanOK /\ WasOK /\ SchedOK /\ NameOK
  BY DEF Inv, Core
<1>2. ASSUME NEW q \in Procs, NEW d \in Channels
      PROVE  Status(q, d)' = Status(q, d)
  BY <1>1, StatusIs, EndsOfChannel
     DEF StatusOf, FreeWaitingTo, Sets, ChanOK, WasOK, SchedOK, NameOK, Pausing, Alternating
<1>3. \A d \in Channels : Same(d)
  BY <1>2, EndsOfChannel DEF Same, Offer, Demand, DataOf, GotOf, FreeWaitingTo
<1>. QED BY <1>3, Stutters

(* The beginning of a selection is not seen.                               *)
LEMMA SelectMeeting ==
  ASSUME Inv, NEW p \in Procs, SelectTo(p)
  PROVE  UNCHANGED Meeting!vars
<1>1. ChanOK /\ WasOK /\ SchedOK /\ NameOK
  BY DEF Inv, Core
<1>2. ASSUME NEW q \in Procs, NEW d \in Channels
      PROVE  Status(q, d)' = Status(q, d)
  BY <1>1, StatusIs, EndsOfChannel
     DEF StatusOf, SelectTo, Sets, ChanOK, WasOK, SchedOK, NameOK, Pausing, Alternating
<1>3. \A d \in Channels : Same(d)
  BY <1>2, EndsOfChannel DEF Same, Offer, Demand, DataOf, GotOf, SelectTo
<1>. QED BY <1>3, Stutters

(* The end of the enabling loop is not seen.                               *)
LEMMA EnableReadyMeeting ==
  ASSUME Inv, NEW p \in Procs, EnableReadyTo(p)
  PROVE  UNCHANGED Meeting!vars
<1>1. ChanOK /\ WasOK /\ SchedOK /\ NameOK
  BY DEF Inv, Core
<1>2. ASSUME NEW q \in Procs, NEW d \in Channels
      PROVE  Status(q, d)' = Status(q, d)
  BY <1>1, StatusIs, EndsOfChannel
     DEF StatusOf, EnableReadyTo, Sets, ChanOK, WasOK, SchedOK, NameOK, Pausing, Alternating
<1>3. \A d \in Channels : Same(d)
  BY <1>2, EndsOfChannel DEF Same, Offer, Demand, DataOf, GotOf, EnableReadyTo
<1>. QED BY <1>3, Stutters

(* A turn of the enabling loop is not seen.                                *)
LEMMA EnableGuardMeeting ==
  ASSUME Inv, NEW p \in Procs, NEW g, EnableGuardTo(p, g)
  PROVE  UNCHANGED Meeting!vars
<1>1. ChanOK /\ WasOK /\ SchedOK /\ NameOK
  BY DEF Inv, Core
<1>2. ASSUME NEW q \in Procs, NEW d \in Channels
      PROVE  Status(q, d)' = Status(q, d)
  BY <1>1, StatusIs, EndsOfChannel
     DEF StatusOf, EnableGuardTo, Sets, ChanOK, WasOK, SchedOK, NameOK, Pausing, Alternating
<1>3. \A d \in Channels : Same(d)
  BY <1>2, EndsOfChannel DEF Same, Offer, Demand, DataOf, GotOf, EnableGuardTo
<1>. QED BY <1>3, Stutters

(* altShouldWait is not seen.                                              *)
LEMMA AltShouldWaitMeeting ==
  ASSUME Inv, NEW p \in Procs, AltShouldWaitTo(p)
  PROVE  UNCHANGED Meeting!vars
<1>1. ChanOK /\ WasOK /\ SchedOK /\ NameOK
  BY DEF Inv, Core
<1>2. ASSUME NEW q \in Procs, NEW d \in Channels
      PROVE  Status(q, d)' = Status(q, d)
  BY <1>1, StatusIs, EndsOfChannel
     DEF StatusOf, AltShouldWaitTo, Sets, ChanOK, WasOK, SchedOK, NameOK, Pausing,
         Alternating
<1>3. \A d \in Channels : Same(d)
  BY <1>2, EndsOfChannel DEF Same, Offer, Demand, DataOf, GotOf, AltShouldWaitTo
<1>. QED BY <1>3, Stutters

(* A turn of the disabling loop is not seen.                               *)
LEMMA DisableGuardMeeting ==
  ASSUME Inv, NEW p \in Procs, DisableGuardTo(p)
  PROVE  UNCHANGED Meeting!vars
<1>1. ChanOK /\ WasOK /\ SchedOK /\ NameOK
  BY DEF Inv, Core
<1>2. ASSUME NEW q \in Procs, NEW d \in Channels
      PROVE  Status(q, d)' = Status(q, d)
  BY <1>1, StatusIs, EndsOfChannel
     DEF StatusOf, DisableGuardTo, Sets, ChanOK, WasOK, SchedOK, NameOK, Pausing,
         Alternating
<1>3. \A d \in Channels : Same(d)
  BY <1>2, EndsOfChannel DEF Same, Offer, Demand, DataOf, GotOf, DisableGuardTo
<1>. QED BY <1>3, Stutters

(* The end of a selection is StartIn if a channel is selected.             *)
LEMMA AltFinishMeeting ==
  ASSUME Inv, NEW p \in Procs, AltFinishTo(p)
  PROVE  Meeting!Next \/ UNCHANGED Meeting!vars
<1>1. ChanOK
  BY DEF Inv, Core
<1>2. CASE UNCHANGED ch
  <2>1. ASSUME NEW q \in Procs, NEW d \in Channels
        PROVE  Status(q, d)' = Status(q, d)
    BY <1>1, <1>2, StatusIs, EndsOfChannel DEF StatusOf, AltFinishTo, Sets, ChanOK, Alternating
  <2>2. \A d \in Channels : Same(d)
    BY <2>1, EndsOfChannel DEF Same, Offer, Demand, DataOf, GotOf, AltFinishTo
  <2>. QED BY <2>2, Stutters
<1>3. ASSUME NEW c \in Channels, Reader[c] = p, Sets(pc, Procs, p, "in"), Sets(ch, Procs, p, c)
      PROVE  Meeting!Next
  <2>1. ASSUME NEW q \in Procs, NEW d \in Channels, q # p \/ d # c
        PROVE  Status(q, d)' = Status(q, d)
    BY <1>1, <1>3, <2>1, StatusIs, EndsOfChannel
       DEF StatusOf, AltFinishTo, Sets, ChanOK, Alternating
  <2>2. \A d \in Channels \ {c} : Same(d)
    BY <2>1, EndsOfChannel DEF Same, Offer, Demand, DataOf, GotOf, AltFinishTo
  <2>3. Offer(c)' = Offer(c) /\ DataOf(c)' = DataOf(c)
    BY <1>3, <2>1, EndsOfChannel DEF Offer, DataOf, AltFinishTo
  <2>4. Demand(c) = "idle" /\ Demand(c)' = "waiting"
    BY <1>1, <1>3, StatusIs, EndsOfChannel
       DEF StatusOf, Demand, AltFinishTo, Sets, ChanOK, Alternating
  <2>. QED BY <2>2, <2>3, <2>4, StartsIn DEF GotOf
<1>. QED BY <1>2, <1>3 DEF AltFinishTo

(* Every action is a step of Rendezvous or one that it does not see.       *)
LEMMA MeetingStep ==
  ASSUME Inv, NEW p \in Procs, Call(p) \/ Step(p)
  PROVE  Meeting!Next \/ UNCHANGED Meeting!vars
<1>0. TypeOK
  BY DEF Inv
<1>1. ASSUME NEW c \in Channels, CallOut(p, c) PROVE Meeting!Next
  BY <1>0, <1>1, CallOutEffect, CallOutMeeting
<1>2. ASSUME NEW c \in Channels, CallIn(p, c) PROVE Meeting!Next
  BY <1>0, <1>2, CallInEffect, CallInMeeting
<1>3. CASE Return(p)
  <2>1. ReturnTo(p)
    BY <1>0, <1>3, ReturnEffect
  <2>2. ch[p] \in Channels
    BY <2>1 DEF ReturnTo, Inv, Core, ChanOK, Alternating
  <2>. QED BY <2>1, <2>2, ReturnMeeting
<1>4. CASE In(p)
  BY <1>4, InEffect, MeetsMeeting, AwaitsMeeting, EndsOfChannel
<1>5. CASE Out(p)
  BY <1>5, OutEffect, MeetsMeeting, FreesMeeting, AwaitsMeeting, EndsOfChannel
<1>6. CASE TryIn(p)
  BY <1>6, TryInEffect, TakesMeeting, GivesUpMeeting
<1>7. CASE Wake(p)
  BY <1>7, WakeEffect, WakeMeeting
<1>8. CASE Relinquish(p)
  BY <1>8, RelinquishEffect, RelinquishMeeting
<1>9. CASE FreeEnabling(p)
  BY <1>9, FreeEnablingEffect, FreeEnablingMeeting
<1>10. CASE FreeWaiting(p)
  BY <1>10, FreeWaitingEffect, FreeWaitingMeeting
<1>11. CASE Select(p)
  BY <1>0, <1>11, SelectEffect, SelectMeeting
<1>12. CASE EnableReady(p)
  BY <1>0, <1>12, EnableReadyEffect, EnableReadyMeeting
<1>13. CASE EnableGuard(p)
  BY <1>13, EnableGuardEffect, EnableGuardMeeting
<1>14. CASE AltShouldWait(p)
  BY <1>0, <1>14, AltShouldWaitEffect, AltShouldWaitMeeting
<1>15. CASE DisableGuard(p)
  BY <1>15, DisableGuardEffect, DisableGuardMeeting
<1>16. CASE AltFinish(p)
  BY <1>16, AltFinishEffect, AltFinishMeeting
<1>. QED BY <1>1, <1>2, <1>3, <1>4, <1>5, <1>6, <1>7, <1>8, <1>9, <1>10, <1>11,
            <1>12, <1>13, <1>14, <1>15, <1>16 DEF Call, Step

(* Channels implement Rendezvous: a datum goes from the writer to the      *)
(* reader in one step in which both are in their routines, and neither     *)
(* returns before, whoever comes first and however the reader reads.       *)
THEOREM CommSynchronous == Spec => Synchronous
<1>1. Init => Meeting!Init
  <2> SUFFICES ASSUME Init PROVE Meeting!Init
    OBVIOUS
  <2>1. \A p \in Procs, c \in Channels : Status(p, c) = "idle"
    BY StatusIs, EndsOfChannel DEF StatusOf, Init
  <2>. QED BY <2>1, EndsOfChannel DEF Offer, Demand, Meeting!Init
<1>2. Inv /\ [Next]_vars => [Meeting!Next]_(Meeting!vars)
  <2>1. ASSUME Inv, Next PROVE Meeting!Next \/ UNCHANGED Meeting!vars
    BY <2>1, MeetingStep DEF Next
  <2>2. ASSUME UNCHANGED vars PROVE UNCHANGED Meeting!vars
    BY <2>2 DEF vars, Offer, Demand, Status, Meeting!vars
  <2>. QED BY <2>1, <2>2
<1>. QED BY CommInvariant, <1>1, <1>2, PTL DEF Spec, Synchronous, Meeting!Spec

-----------------------------------------------------------------------------
(* Nobody sleeps for ever by mistake.                                      *)

\* Whoever waits and is no longer named will be woken, unless its channel is
\* polled.
Woken ==
  \A p \in Procs :
    pc[p] \in Pausing /\ waiting[ch[p]] # p /\ sched_state[p] # "READY" =>
      ch[p] \in Polled \/ \E x \in Procs : Wakes(x, p)

\* p is on the way to sleep in an alternation, or asleep, and nobody has
\* freed it.
Searching(p) ==
  pc[p] \in {"enable", "altShouldWait", "altAsleep"} /\ alt_state[p] # "READY"

\* The channel c still has the name of p, or a writer that will free p.
Watched(p, c) ==
  LET w == Writer[c]
  IN  \/ waiting[c] = p
      \/ /\ was[w] = p /\ ch[w] = c
         /\ pc[w] \in {"free", "free2"} /\ (pc[w] = "free2" => pc[p] = "altAsleep")

\* All guards that have been tried are watched.
Watch(p) ==
  Searching(p) =>
    \A i \in 0 .. k[p] :
      (pc[p] = "enable" => i < k[p]) =>
        LET g == Guards[p][Position(p, i)]
        IN  g \in Channels /\ Reader[g] = p /\ Watched(p, g)

WakeInv == Woken /\ \A p \in Procs : Watch(p)

(* A process that does not move is watched as long as its channels are.    *)
LEMMA WatchFrame ==
  ASSUME NEW q \in Procs, Watch(q),
         Searching(q)' => /\ Searching(q) /\ pc'[q] = pc[q]
                          /\ k'[q] = k[q] /\ favorite'[q] = favorite[q],
         Searching(q)' => \A g \in Channels : Reader[g] = q /\ Watched(q, g) => Watched(q, g)'
  PROVE  Watch(q)'
BY DEF Watch, Position

(* The beginning of out: nobody else is concerned.                         *)
LEMMA CallOutWake ==
  ASSUME Inv, WakeInv, NEW p \in Procs, NEW c \in Channels, CallOutTo(p, c)
  PROVE  WakeInv'
<1>1. ChanOK /\ WasOK /\ SchedOK /\ NameOK /\ AltOK /\ Woken
  BY DEF Inv, Core, WakeInv
<1>2. Woken'
  BY <1>1, EndsOfChannel
     DEF CallOutTo, Sets, Woken, Wakes, ChanOK, WasOK, SchedOK, Pausing, Alternating
<1>3. ASSUME NEW q \in Procs PROVE Watch(q)'
  <2>1. ASSUME Searching(q)'
        PROVE  Searching(q) /\ pc'[q] = pc[q] /\ k'[q] = k[q] /\ favorite'[q] = favorite[q]
    BY <1>1, <2>1 DEF CallOutTo, Sets, Searching, AltOK, Alternating
  <2>2. ASSUME Searching(q)', NEW g \in Channels, Reader[g] = q, Watched(q, g)
        PROVE  Watched(q, g)'
    BY <1>1, <2>1, <2>2, EndsOfChannel
    DEF CallOutTo, Sets, Searching, Watched, ChanOK, WasOK, AltOK, Pausing, Alternating
  <2>. QED BY <2>1, <2>2, WatchFrame DEF WakeInv
<1>. QED BY <1>2, <1>3 DEF WakeInv

(* The beginning of in or try_in: likewise.                                *)
LEMMA CallInWake ==
  ASSUME Inv, WakeInv, NEW p \in Procs, NEW c \in Channels, CallInTo(p, c)
  PROVE  WakeInv'
<1>1. ChanOK /\ WasOK /\ SchedOK /\ NameOK /\ AltOK /\ Woken
  BY DEF Inv, Core, WakeInv
<1>2. Woken'
  BY <1>1, EndsOfChannel
     DEF CallInTo, Sets, Woken, Wakes, ChanOK, WasOK, SchedOK, Pausing, Alternating
<1>3. ASSUME NEW q \in Procs PROVE Watch(q)'
  <2>1. ASSUME Searching(q)'
        PROVE  Searching(q) /\ pc'[q] = pc[q] /\ k'[q] = k[q] /\ favorite'[q] = favorite[q]
    BY <1>1, <2>1 DEF CallInTo, Sets, Searching, AltOK, Alternating
  <2>2. ASSUME Searching(q)', NEW g \in Channels, Reader[g] = q, Watched(q, g)
        PROVE  Watched(q, g)'
    BY <1>1, <2>1, <2>2, EndsOfChannel
    DEF CallInTo, Sets, Searching, Watched, ChanOK, WasOK, AltOK, Pausing, Alternating
  <2>. QED BY <2>1, <2>2, WatchFrame DEF WakeInv
<1>. QED BY <1>2, <1>3 DEF WakeInv

(* The return: likewise.                                                   *)
LEMMA ReturnWake ==
  ASSUME Inv, WakeInv, NEW p \in Procs, ReturnTo(p)
  PROVE  WakeInv'
<1>1. ChanOK /\ WasOK /\ SchedOK /\ NameOK /\ AltOK /\ Woken
  BY DEF Inv, Core, WakeInv
<1>2. Woken'
  BY <1>1, EndsOfChannel
     DEF ReturnTo, Sets, Woken, Wakes, ChanOK, WasOK, SchedOK, Pausing, Alternating
<1>3. ASSUME NEW q \in Procs PROVE Watch(q)'
  <2>1. ASSUME Searching(q)'
        PROVE  Searching(q) /\ pc'[q] = pc[q] /\ k'[q] = k[q] /\ favorite'[q] = favorite[q]
    BY <1>1, <2>1 DEF ReturnTo, Sets, Searching, AltOK, Alternating
  <2>2. ASSUME Searching(q)', NEW g \in Channels, Reader[g] = q, Watched(q, g)
        PROVE  Watched(q, g)'
    BY <1>1, <2>1, <2>2, EndsOfChannel
    DEF ReturnTo, Sets, Searching, Watched, ChanOK, WasOK, AltOK, Pausing, Alternating
  <2>. QED BY <2>1, <2>2, WatchFrame DEF WakeInv
<1>. QED BY <1>2, <1>3 DEF WakeInv

(* A meeting: the one that waited and is no longer named has its waker.    *)
LEMMA MeetsWake ==
  ASSUME Inv, WakeInv, NEW p \in Procs, NEW x \in Procs, NEW c \in Channels, Meets(p, x, c)
  PROVE  WakeInv'
<1>1. ChanOK /\ WasOK /\ SchedOK /\ NameOK /\ AltOK /\ Woken
  BY DEF Inv, Core, WakeInv
<1>2. Woken'
  BY <1>1, EndsOfChannel DEF Meets, Sets, Woken, Wakes, ChanOK, WasOK, SchedOK, Pausing, Alternating
<1>3. ASSUME NEW q \in Procs PROVE Watch(q)'
  <2>1. ASSUME Searching(q)'
        PROVE  Searching(q) /\ pc'[q] = pc[q] /\ k'[q] = k[q] /\ favorite'[q] = favorite[q]
    BY <1>1, <2>1 DEF Meets, Sets, Searching, AltOK, Alternating
  <2>2. ASSUME Searching(q)', NEW g \in Channels, Reader[g] = q, Watched(q, g)
        PROVE  Watched(q, g)'
    BY <1>1, <2>1, <2>2, EndsOfChannel
    DEF Meets, Sets, Searching, Watched, ChanOK, WasOK, AltOK, Pausing, Alternating
  <2>. QED BY <2>1, <2>2, WatchFrame DEF WakeInv
<1>. QED BY <1>2, <1>3 DEF WakeInv

(* The first to come: the channel names it.                                *)
LEMMA AwaitsWake ==
  ASSUME Inv, WakeInv, NEW p \in Procs, NEW c \in Channels, Awaits(p, c)
  PROVE  WakeInv'
<1>1. ChanOK /\ WasOK /\ SchedOK /\ NameOK /\ AltOK /\ Woken
  BY DEF Inv, Core, WakeInv
<1>2. Woken'
  BY <1>1, EndsOfChannel
     DEF Awaits, Sets, Woken, Wakes, ChanOK, WasOK, SchedOK, Pausing, Alternating
<1>3. ASSUME NEW q \in Procs PROVE Watch(q)'
  <2>1. ASSUME Searching(q)'
        PROVE  Searching(q) /\ pc'[q] = pc[q] /\ k'[q] = k[q] /\ favorite'[q] = favorite[q]
    BY <1>1, <2>1 DEF Awaits, Sets, Searching, AltOK, Alternating
  <2>2. ASSUME Searching(q)', NEW g \in Channels, Reader[g] = q, Watched(q, g)
        PROVE  Watched(q, g)'
    BY <1>1, <2>1, <2>2, EndsOfChannel
    DEF Awaits, Sets, Searching, Watched, ChanOK, WasOK, AltOK, Pausing, Alternating
  <2>. QED BY <2>1, <2>2, WatchFrame DEF WakeInv
<1>. QED BY <1>2, <1>3 DEF WakeInv

(* The writer that finds an alternating reader: it replaces the name of    *)
(* the reader and is on the way to free it.                                *)
LEMMA FreesWake ==
  ASSUME Inv, WakeInv, NEW p \in Procs, NEW c \in Channels, Frees(p, c)
  PROVE  WakeInv'
<1>1. ChanOK /\ WasOK /\ SchedOK /\ NameOK /\ AltOK /\ Woken
  BY DEF Inv, Core, WakeInv
<1>2. Woken'
  <2>1. pc[Reader[c]] \in Alternating
    BY DEF Frees, Published
  <2>. QED BY <1>1, <2>1, EndsOfChannel
              DEF Frees, Sets, Woken, Wakes, ChanOK, WasOK, SchedOK, Pausing, Alternating
<1>3. ASSUME NEW q \in Procs PROVE Watch(q)'
  <2>1. ASSUME Searching(q)'
        PROVE  Searching(q) /\ pc'[q] = pc[q] /\ k'[q] = k[q] /\ favorite'[q] = favorite[q]
    BY <1>1, <2>1 DEF Frees, Sets, Searching, AltOK, Alternating
  <2>2. ASSUME Searching(q)', NEW g \in Channels, Reader[g] = q, Watched(q, g)
        PROVE  Watched(q, g)'
    BY <1>1, <2>1, <2>2, EndsOfChannel
    DEF Frees, Sets, Searching, Watched, ChanOK, WasOK, AltOK, Pausing, Alternating
  <2>. QED BY <2>1, <2>2, WatchFrame DEF WakeInv
<1>. QED BY <1>2, <1>3 DEF WakeInv

(* try_in with a writer: the writer is left alone, and its channel is      *)
(* polled.                                                                 *)
LEMMA TakesWake ==
  ASSUME Inv, WakeInv, NEW p \in Procs, NEW c \in Channels, Takes(p, c)
  PROVE  WakeInv'
<1>1. ChanOK /\ WasOK /\ SchedOK /\ NameOK /\ AltOK /\ Woken
  BY DEF Inv, Core, WakeInv
<1>2. Woken'
  BY <1>1, EndsOfChannel DEF Takes, Sets, Woken, Wakes, ChanOK, WasOK, SchedOK, Pausing, Alternating
<1>3. ASSUME NEW q \in Procs PROVE Watch(q)'
  <2>1. ASSUME Searching(q)'
        PROVE  Searching(q) /\ pc'[q] = pc[q] /\ k'[q] = k[q] /\ favorite'[q] = favorite[q]
    BY <1>1, <2>1 DEF Takes, Sets, Searching, AltOK, Alternating
  <2>2. ASSUME Searching(q)', NEW g \in Channels, Reader[g] = q, Watched(q, g)
        PROVE  Watched(q, g)'
    BY <1>1, <2>1, <2>2, EndsOfChannel
    DEF Takes, Sets, Searching, Watched, ChanOK, WasOK, AltOK, Pausing, Alternating
  <2>. QED BY <2>1, <2>2, WatchFrame DEF WakeInv
<1>. QED BY <1>2, <1>3 DEF WakeInv

(* try_in without: nothing changes for others.                             *)
LEMMA GivesUpWake ==
  ASSUME Inv, WakeInv, NEW p \in Procs, NEW c \in Channels, GivesUp(p, c)
  PROVE  WakeInv'
<1>1. ChanOK /\ WasOK /\ SchedOK /\ NameOK /\ AltOK /\ Woken
  BY DEF Inv, Core, WakeInv
<1>2. Woken'
  BY <1>1, EndsOfChannel
     DEF GivesUp, Sets, Woken, Wakes, ChanOK, WasOK, SchedOK, Pausing, Alternating
<1>3. ASSUME NEW q \in Procs PROVE Watch(q)'
  <2>1. ASSUME Searching(q)'
        PROVE  Searching(q) /\ pc'[q] = pc[q] /\ k'[q] = k[q] /\ favorite'[q] = favorite[q]
    BY <1>1, <2>1 DEF GivesUp, Sets, Searching, AltOK, Alternating
  <2>2. ASSUME Searching(q)', NEW g \in Channels, Reader[g] = q, Watched(q, g)
        PROVE  Watched(q, g)'
    BY <1>1, <2>1, <2>2, EndsOfChannel
    DEF GivesUp, Sets, Searching, Watched, ChanOK, WasOK, AltOK, Pausing, Alternating
  <2>. QED BY <2>1, <2>2, WatchFrame DEF WakeInv
<1>. QED BY <1>2, <1>3 DEF WakeInv

(* The wake-up: who is woken is ready.                                     *)
LEMMA WakeWake ==
  ASSUME Inv, WakeInv, NEW p \in Procs, WakeTo(p)
  PROVE  WakeInv'
<1>1. ChanOK /\ WasOK /\ SchedOK /\ NameOK /\ AltOK /\ Woken
  BY DEF Inv, Core, WakeInv
<1>2. Woken'
  BY <1>1, EndsOfChannel
     DEF WakeTo, Sets, Woken, Wakes, ChanOK, WasOK, SchedOK, Pausing, Alternating
<1>3. ASSUME NEW q \in Procs PROVE Watch(q)'
  <2>1. ASSUME Searching(q)'
        PROVE  Searching(q) /\ pc'[q] = pc[q] /\ k'[q] = k[q] /\ favorite'[q] = favorite[q]
    BY <1>1, <2>1 DEF WakeTo, Sets, Searching, AltOK, Alternating
  <2>2. ASSUME Searching(q)', NEW g \in Channels, Reader[g] = q, Watched(q, g)
        PROVE  Watched(q, g)'
    BY <1>1, <2>1, <2>2, EndsOfChannel
    DEF WakeTo, Sets, Searching, Watched, ChanOK, WasOK, AltOK, Pausing, Alternating
  <2>. QED BY <2>1, <2>2, WatchFrame DEF WakeInv
<1>. QED BY <1>2, <1>3 DEF WakeInv

(* relinquish: who sleeps now was watched before.                          *)
LEMMA RelinquishWake ==
  ASSUME Inv, WakeInv, NEW p \in Procs, RelinquishTo(p)
  PROVE  WakeInv'
<1>1. ChanOK /\ WasOK /\ SchedOK /\ NameOK /\ AltOK /\ Woken
  BY DEF Inv, Core, WakeInv
<1>2. Woken'
  BY <1>1, EndsOfChannel
     DEF RelinquishTo, Sets, Woken, Wakes, ChanOK, WasOK, SchedOK, Pausing, Alternating
<1>3. ASSUME NEW q \in Procs PROVE Watch(q)'
  <2>1. ASSUME Searching(q)'
        PROVE  Searching(q) /\ pc'[q] = pc[q] /\ k'[q] = k[q] /\ favorite'[q] = favorite[q]
    BY <1>1, <2>1 DEF RelinquishTo, Sets, Searching, AltOK, Alternating
  <2>2. ASSUME Searching(q)', NEW g \in Channels, Reader[g] = q, Watched(q, g)
        PROVE  Watched(q, g)'
    BY <1>1, <2>1, <2>2, EndsOfChannel
    DEF RelinquishTo, Sets, Searching, Watched, ChanOK, WasOK, AltOK, Pausing, Alternating
  <2>. QED BY <2>1, <2>2, WatchFrame DEF WakeInv
<1>. QED BY <1>2, <1>3 DEF WakeInv

(* The first exchange of freeProcessMaybe: the reader becomes ready, or is *)
(* asleep and will be met by the second exchange.                          *)
LEMMA FreeEnablingWake ==
  ASSUME Inv, WakeInv, NEW p \in Procs, FreeEnablingTo(p)
  PROVE  WakeInv'
<1>1. ChanOK /\ WasOK /\ SchedOK /\ NameOK /\ AltOK /\ Woken
  BY DEF Inv, Core, WakeInv
<1>2. Woken'
  BY <1>1, EndsOfChannel
     DEF FreeEnablingTo, Sets, Woken, Wakes, ChanOK, WasOK, SchedOK, Pausing, Alternating
<1>3. ASSUME NEW q \in Procs PROVE Watch(q)'
  <2>1. ASSUME Searching(q)'
        PROVE  Searching(q) /\ pc'[q] = pc[q] /\ k'[q] = k[q] /\ favorite'[q] = favorite[q]
    BY <1>1, <2>1 DEF FreeEnablingTo, Sets, Searching, AltOK, Alternating
  <2>2. ASSUME Searching(q)', NEW g \in Channels, Reader[g] = q, Watched(q, g)
        PROVE  Watched(q, g)'
    BY <1>1, <2>1, <2>2, EndsOfChannel
    DEF FreeEnablingTo, Sets, Searching, Watched, ChanOK, WasOK, AltOK, Pausing, Alternating
  <2>. QED BY <2>1, <2>2, WatchFrame DEF WakeInv
<1>. QED BY <1>2, <1>3 DEF WakeInv

(* The second: it wakes the reader; a later alternation that still enables *)
(* has its name in the channel.                                            *)
LEMMA FreeWaitingWake ==
  ASSUME Inv, WakeInv, NEW p \in Procs, FreeWaitingTo(p)
  PROVE  WakeInv'
<1>1. ChanOK /\ WasOK /\ SchedOK /\ NameOK /\ AltOK /\ Woken
  BY DEF Inv, Core, WakeInv
<1>2. Woken'
  BY <1>1, EndsOfChannel
     DEF FreeWaitingTo, Sets, Woken, Wakes, ChanOK, WasOK, SchedOK, Pausing, Alternating
<1>3. ASSUME NEW q \in Procs PROVE Watch(q)'
  <2>1. ASSUME Searching(q)'
        PROVE  Searching(q) /\ pc'[q] = pc[q] /\ k'[q] = k[q] /\ favorite'[q] = favorite[q]
    BY <1>1, <2>1 DEF FreeWaitingTo, Sets, Searching, AltOK, Alternating
  <2>2. ASSUME Searching(q)', NEW g \in Channels, Reader[g] = q, Watched(q, g)
        PROVE  Watched(q, g)'
    BY <1>1, <2>1, <2>2, EndsOfChannel
    DEF FreeWaitingTo, Sets, Searching, Watched, ChanOK, WasOK, AltOK, Pausing, Alternating
  <2>. QED BY <2>1, <2>2, WatchFrame DEF WakeInv
<1>. QED BY <1>2, <1>3 DEF WakeInv

(* The beginning of a selection: no guard has been tried.                  *)
LEMMA SelectWake ==
  ASSUME Inv, WakeInv, NEW p \in Procs, SelectTo(p)
  PROVE  WakeInv'
<1>1. ChanOK /\ WasOK /\ SchedOK /\ NameOK /\ AltOK /\ Woken
  BY DEF Inv, Core, WakeInv
<1>2. Woken'
  BY <1>1, EndsOfChannel
     DEF SelectTo, Sets, Woken, Wakes, ChanOK, WasOK, SchedOK, Pausing, Alternating
<1>3. ASSUME NEW q \in Procs PROVE Watch(q)'
  <2>1. CASE q = p
    BY <2>1 DEF SelectTo, Sets, Watch
  <2>2. CASE q # p
    <3>1. ASSUME Searching(q)'
          PROVE  Searching(q) /\ pc'[q] = pc[q] /\ k'[q] = k[q] /\ favorite'[q] = favorite[q]
      BY <2>2, <3>1 DEF SelectTo, Sets, Searching
    <3>2. ASSUME Searching(q)', NEW d \in Channels, Reader[d] = q, Watched(q, d)
          PROVE  Watched(q, d)'
      BY <1>1, <2>2, <3>1, <3>2, EndsOfChannel
      DEF SelectTo, Sets, Searching, Watched, ChanOK, WasOK, AltOK, Pausing, Alternating
    <3>. QED BY <3>1, <3>2, WatchFrame DEF WakeInv
  <2>. QED BY <2>1, <2>2
<1>. QED BY <1>2, <1>3 DEF WakeInv

(* The end of the enabling loop: the process will not sleep.               *)
LEMMA EnableReadyWake ==
  ASSUME Inv, WakeInv, NEW p \in Procs, EnableReadyTo(p)
  PROVE  WakeInv'
<1>1. ChanOK /\ WasOK /\ SchedOK /\ NameOK /\ AltOK /\ Woken
  BY DEF Inv, Core, WakeInv
<1>2. Woken'
  BY <1>1, EndsOfChannel
     DEF EnableReadyTo, Sets, Woken, Wakes, ChanOK, WasOK, SchedOK, Pausing, Alternating
<1>3. ASSUME NEW q \in Procs PROVE Watch(q)'
  <2>1. CASE q = p
    BY <2>1 DEF EnableReadyTo, Sets, Watch, Searching
  <2>2. CASE q # p
    <3>1. ASSUME Searching(q)'
          PROVE  Searching(q) /\ pc'[q] = pc[q] /\ k'[q] = k[q] /\ favorite'[q] = favorite[q]
      BY <2>2, <3>1 DEF EnableReadyTo, Sets, Searching
    <3>2. ASSUME Searching(q)', NEW d \in Channels, Reader[d] = q, Watched(q, d)
          PROVE  Watched(q, d)'
      BY <1>1, <2>2, <3>1, <3>2, EndsOfChannel
      DEF EnableReadyTo, Sets, Searching, Watched, ChanOK, WasOK, AltOK, Pausing, Alternating
    <3>. QED BY <3>1, <3>2, WatchFrame DEF WakeInv
  <2>. QED BY <2>1, <2>2
<1>. QED BY <1>2, <1>3 DEF WakeInv

(* A turn of the enabling loop: the guard has the name of the process.     *)
LEMMA EnableGuardWake ==
  ASSUME Inv, WakeInv, NEW p \in Procs, NEW g, EnableGuardTo(p, g)
  PROVE  WakeInv'
<1>1. ChanOK /\ WasOK /\ SchedOK /\ NameOK /\ AltOK /\ Woken
  BY DEF Inv, Core, WakeInv
<1>2. Woken'
  BY <1>1, EndsOfChannel
     DEF EnableGuardTo, Sets, Woken, Wakes, ChanOK, WasOK, SchedOK, Pausing, Alternating
<1>3. ASSUME NEW q \in Procs PROVE Watch(q)'
  <2>1. CASE q = p
    <3>1. k[p] \in Nat /\ Len(Guards[p]) \in Nat /\ k[p] < Len(Guards[p])
      BY GuardTried DEF EnableGuardTo
    <3>2. SUFFICES ASSUME Searching(p)', NEW i \in 0 .. k'[p], pc'[p] = "enable" => i < k'[p],
                          NEW h, h = Guards[p][Position(p, i)]
                   PROVE  h \in Channels /\ Reader[h] = p /\ Watched(p, h)'
      BY <2>1 DEF Watch, EnableGuardTo, Position
    <3>3. i \in 0 .. k[p] /\ alt_state[p] # "READY"
      BY <3>1, <3>2 DEF EnableGuardTo, Sets, Searching
    <3>4. CASE i = k[p]
      BY <3>2, <3>4 DEF EnableGuardTo, Sets, Guard, Watched
    <3>5. CASE i # k[p]
      <4>1. h \in Channels /\ Reader[h] = p /\ Watched(p, h)
        BY <3>1, <3>2, <3>3, <3>5 DEF EnableGuardTo, WakeInv, Watch, Searching
      <4>2. waiting[h] = p \/ pc[Writer[h]] = "free"
        BY <4>1 DEF EnableGuardTo, Watched
      <4>. QED BY <4>1, <4>2, EndsOfChannel DEF EnableGuardTo, Sets, Watched
    <3>. QED BY <3>4, <3>5
  <2>2. CASE q # p
    <3>1. ASSUME Searching(q)'
          PROVE  Searching(q) /\ pc'[q] = pc[q] /\ k'[q] = k[q] /\ favorite'[q] = favorite[q]
      BY <2>2, <3>1 DEF EnableGuardTo, Sets, Searching
    <3>2. ASSUME Searching(q)', NEW d \in Channels, Reader[d] = q, Watched(q, d)
          PROVE  Watched(q, d)'
      BY <1>1, <2>2, <3>1, <3>2, EndsOfChannel
      DEF EnableGuardTo, Sets, Searching, Watched, ChanOK, WasOK, AltOK, Pausing, Alternating
    <3>. QED BY <3>1, <3>2, WatchFrame DEF WakeInv
  <2>. QED BY <2>1, <2>2
<1>. QED BY <1>2, <1>3 DEF WakeInv

(* altShouldWait: the process falls asleep only if nobody has freed it.    *)
LEMMA AltShouldWaitWake ==
  ASSUME Inv, WakeInv, NEW p \in Procs, AltShouldWaitTo(p)
  PROVE  WakeInv'
<1>1. ChanOK /\ WasOK /\ SchedOK /\ NameOK /\ AltOK /\ Woken
  BY DEF Inv, Core, WakeInv
<1>2. Woken'
  BY <1>1, EndsOfChannel
     DEF AltShouldWaitTo, Sets, Woken, Wakes, ChanOK, WasOK, SchedOK, Pausing, Alternating
<1>3. ASSUME NEW q \in Procs PROVE Watch(q)'
  <2>1. CASE q = p
    <3>1. SUFFICES ASSUME Searching(p)', NEW i \in 0 .. k'[p],
                          NEW h, h = Guards[p][Position(p, i)]
                   PROVE  h \in Channels /\ Reader[h] = p /\ Watched(p, h)'
      BY <2>1 DEF Watch, AltShouldWaitTo, Position
    <3>2. h \in Channels /\ Reader[h] = p /\ Watched(p, h)
      BY <3>1 DEF AltShouldWaitTo, Sets, WakeInv, Watch, Searching
    <3>. QED BY <3>1, <3>2, EndsOfChannel DEF AltShouldWaitTo, Sets, Searching, Watched
  <2>2. CASE q # p
    <3>1. ASSUME Searching(q)'
          PROVE  Searching(q) /\ pc'[q] = pc[q] /\ k'[q] = k[q] /\ favorite'[q] = favorite[q]
      BY <2>2, <3>1 DEF AltShouldWaitTo, Sets, Searching
    <3>2. ASSUME Searching(q)', NEW d \in Channels, Reader[d] = q, Watched(q, d)
          PROVE  Watched(q, d)'
      BY <1>1, <2>2, <3>1, <3>2, EndsOfChannel
      DEF AltShouldWaitTo, Sets, Searching, Watched, ChanOK, WasOK, AltOK, Pausing, Alternating
    <3>. QED BY <3>1, <3>2, WatchFrame DEF WakeInv
  <2>. QED BY <2>1, <2>2
<1>. QED BY <1>2, <1>3 DEF WakeInv

(* A turn of the disabling loop: a process that disables is not asleep.    *)
LEMMA DisableGuardWake ==
  ASSUME Inv, WakeInv, NEW p \in Procs, DisableGuardTo(p)
  PROVE  WakeInv'
<1>1. ChanOK /\ WasOK /\ SchedOK /\ NameOK /\ AltOK /\ Woken
  BY DEF Inv, Core, WakeInv
<1>2. Woken'
  BY <1>1, EndsOfChannel
     DEF DisableGuardTo, Sets, Woken, Wakes, ChanOK, WasOK, SchedOK, Pausing, Alternating
<1>3. ASSUME NEW q \in Procs PROVE Watch(q)'
  <2>1. CASE q = p
    BY <2>1 DEF DisableGuardTo, Sets, Watch, Searching
  <2>2. CASE q # p
    <3>1. ASSUME Searching(q)'
          PROVE  Searching(q) /\ pc'[q] = pc[q] /\ k'[q] = k[q] /\ favorite'[q] = favorite[q]
      BY <2>2, <3>1 DEF DisableGuardTo, Sets, Searching
    <3>2. ASSUME Searching(q)', NEW d \in Channels, Reader[d] = q, Watched(q, d)
          PROVE  Watched(q, d)'
      BY <1>1, <2>2, <3>1, <3>2, EndsOfChannel
      DEF DisableGuardTo, Sets, Searching, Watched, ChanOK, WasOK, AltOK, Pausing, Alternating
    <3>. QED BY <3>1, <3>2, WatchFrame DEF WakeInv
  <2>. QED BY <2>1, <2>2
<1>. QED BY <1>2, <1>3 DEF WakeInv

(* The end of a selection: the alternation is over.                        *)
LEMMA AltFinishWake ==
  ASSUME Inv, WakeInv, NEW p \in Procs, AltFinishTo(p)
  PROVE  WakeInv'
<1>1. ChanOK /\ WasOK /\ SchedOK /\ NameOK /\ AltOK /\ Woken
  BY DEF Inv, Core, WakeInv
<1>2. Woken'
  BY <1>1, EndsOfChannel
     DEF AltFinishTo, Sets, Woken, Wakes, ChanOK, WasOK, SchedOK, Pausing, Alternating
<1>3. ASSUME NEW q \in Procs PROVE Watch(q)'
  <2>1. CASE q = p
    BY <2>1 DEF AltFinishTo, Sets, Watch, Searching
  <2>2. CASE q # p
    <3>1. ASSUME Searching(q)'
          PROVE  Searching(q) /\ pc'[q] = pc[q] /\ k'[q] = k[q] /\ favorite'[q] = favorite[q]
      BY <2>2, <3>1 DEF AltFinishTo, Sets, Searching
    <3>2. ASSUME Searching(q)', NEW d \in Channels, Reader[d] = q, Watched(q, d)
          PROVE  Watched(q, d)'
      BY <1>1, <2>2, <3>1, <3>2, EndsOfChannel
      DEF AltFinishTo, Sets, Searching, Watched, ChanOK, WasOK, AltOK, Pausing, Alternating
    <3>. QED BY <3>1, <3>2, WatchFrame DEF WakeInv
  <2>. QED BY <2>1, <2>2
<1>. QED BY <1>2, <1>3 DEF WakeInv

(* A step that changes nothing.                                            *)
LEMMA WakeStutter ==
  ASSUME WakeInv, UNCHANGED vars
  PROVE  WakeInv'
<1>1. Woken'
  BY DEF WakeInv, Woken, Wakes, vars
<1>2. ASSUME NEW q \in Procs PROVE Watch(q)'
  <2>1. Watch(q) /\ pc' = pc /\ k' = k /\ favorite' = favorite
    BY DEF WakeInv, vars
  <2>2. Searching(q)' => Searching(q)
    BY DEF Searching, vars
  <2>3. \A g \in Channels : Watched(q, g) => Watched(q, g)'
    BY DEF Watched, vars
  <2>. QED BY <2>1, <2>2, <2>3, WatchFrame
<1>. QED BY <1>1, <1>2 DEF WakeInv

(* Every action keeps WakeInv.                                             *)
LEMMA WakeStep ==
  ASSUME Inv, WakeInv, NEW p \in Procs, Call(p) \/ Step(p)
  PROVE  WakeInv'
<1>0. TypeOK
  BY DEF Inv
<1>1. ASSUME NEW c \in Channels, CallOut(p, c) PROVE WakeInv'
  BY <1>0, <1>1, CallOutEffect, CallOutWake
<1>2. ASSUME NEW c \in Channels, CallIn(p, c) PROVE WakeInv'
  BY <1>0, <1>2, CallInEffect, CallInWake
<1>3. CASE Return(p)
  BY <1>0, <1>3, ReturnEffect, ReturnWake
<1>4. CASE In(p)
  BY <1>4, InEffect, MeetsWake, AwaitsWake, EndsOfChannel
<1>5. CASE Out(p)
  BY <1>5, OutEffect, MeetsWake, FreesWake, AwaitsWake, EndsOfChannel
<1>6. CASE TryIn(p)
  BY <1>6, TryInEffect, TakesWake, GivesUpWake
<1>7. CASE Wake(p)
  BY <1>7, WakeEffect, WakeWake
<1>8. CASE Relinquish(p)
  BY <1>8, RelinquishEffect, RelinquishWake
<1>9. CASE FreeEnabling(p)
  BY <1>9, FreeEnablingEffect, FreeEnablingWake
<1>10. CASE FreeWaiting(p)
  BY <1>10, FreeWaitingEffect, FreeWaitingWake
<1>11. CASE Select(p)
  BY <1>0, <1>11, SelectEffect, SelectWake
<1>12. CASE EnableReady(p)
  BY <1>0, <1>12, EnableReadyEffect, EnableReadyWake
<1>13. CASE EnableGuard(p)
  BY <1>13, EnableGuardEffect, EnableGuardWake
<1>14. CASE AltShouldWait(p)
  BY <1>0, <1>14, AltShouldWaitEffect, AltShouldWaitWake
<1>15. CASE DisableGuard(p)
  BY <1>15, DisableGuardEffect, DisableGuardWake
<1>16. CASE AltFinish(p)
  BY <1>16, AltFinishEffect, AltFinishWake
<1>. QED BY <1>1, <1>2, <1>3, <1>4, <1>5, <1>6, <1>7, <1>8, <1>9, <1>10, <1>11,
            <1>12, <1>13, <1>14, <1>15, <1>16 DEF Call, Step

(* If no channel is polled, a process that sleeps has somebody to wake it: *)
(* the channel names it, or the process that took its name is on the way.  *)
(* A polled channel is no exception by accident: try_in does not wake the  *)
(* writer whose datum it takes.                                            *)
THEOREM CommWakeable ==
  ASSUME Polled = {}
  PROVE  Spec => []Wakeable
<1>1. Init => WakeInv
  BY DEF Init, WakeInv, Woken, Pausing, Watch, Searching
<1>2. Inv /\ WakeInv /\ [Next]_vars => WakeInv'
  BY WakeStep, WakeStutter DEF Next
<1>3. Inv /\ WakeInv => Wakeable
  <2> SUFFICES ASSUME Inv, WakeInv, NEW p \in Procs PROVE Wakeable!(p)
    BY DEF Wakeable
  <2>1. CASE pc[p] = "asleep"
    <3>1. waiting[ch[p]] # p => \E x \in Procs : Wakes(x, p)
      BY <2>1 DEF Inv, Core, SchedOK, WakeInv, Woken, Pausing
    <3>. QED BY <2>1, <3>1 DEF Wakes
  <2>2. CASE pc[p] = "altAsleep"
    <3>1. Searching(p) /\ TypeOK /\ k[p] = Len(Guards[p]) - 1
      BY <2>2 DEF Inv, Core, AltOK, Searching
    <3>2. SUFFICES ASSUME ~ (\E x \in Procs : was[x] = p), NEW c \in Range(Guards[p])
                   PROVE  waiting[c] = p
      BY <2>2
    <3>3. PICK i \in 0 .. Len(Guards[p]) - 1 : Guards[p][Position(p, i)] = c
      BY <3>1, AllTried
    <3>4. c \in Channels /\ Watched(p, c)
      BY <2>2, <3>1, <3>3 DEF WakeInv, Watch
    <3>. QED BY <3>2, <3>4, EndsOfChannel DEF Watched
  <2>. QED BY <2>1, <2>2
<1>. QED BY CommInvariant, <1>1, <1>2, <1>3, PTL DEF Spec

-----------------------------------------------------------------------------
(* A selection ends with a guard, unless a writer is late.                 *)

\* The guard that p tries after i others is ready.
ReadyAt(p, i) ==
  LET g == Guards[p][Position(p, i)] IN g = SKIP \/ WriterReady(p, g)

\* One of p's guards is ready.
SomeReady(p) == \E i \in 0 .. Len(Guards[p]) - 1 : ReadyAt(p, i)

\* Who frees a process has written to one of its guards.
Aimed ==
  \A x \in Procs : pc[x] \in {"free", "free2"} => ch[x] \in Range(Guards[was[x]])

\* p has been freed for a guard that is ready, and disabling goes down to
\* one unless it has selected already.
Choosing(p) ==
  /\ pc[p] \in {"enable", "altShouldWait"} /\ alt_state[p] = "READY" => SomeReady(p)
  /\ pc[p] = "disable" => sel[p] # 0 \/ \E i \in 0 .. k[p] : ReadyAt(p, i)
  /\ pc[p] = "altFinish" => sel[p] # 0

ChoiceInv == Aimed /\ \A p \in Procs : Choosing(p)

(* The name of a writer stays in a channel while its reader alternates.    *)
LEMMA WriterStays ==
  ASSUME Inv, NEW p \in Procs, Call(p) \/ Step(p),
         NEW c \in Channels, pc[Reader[c]] \in Alternating, waiting[c] = Writer[c]
  PROVE  waiting'[c] = Writer[c]
<1>0. TypeOK /\ Writer[c] # NULL /\ Writer[c] # Reader[c]
  BY EndsOfChannel DEF Inv
<1>1. CASE In(p)
  <2>1. PICK d \in Channels : d = ch[p] /\ p = Reader[d] /\ (Meets(p, Writer[d], d) \/ Awaits(p, d))
    BY <1>1, InEffect DEF In, Meets, Awaits
  <2>2. pc[p] = "in"
    BY <1>1 DEF In
  <2>. QED BY <1>0, <2>1, <2>2 DEF Meets, Awaits, Sets, Alternating
<1>2. CASE Out(p)
  <2>1. PICK d \in Channels : Meets(p, Reader[d], d) \/ Frees(p, d) \/ Awaits(p, d)
    BY <1>2, OutEffect
  <2>2. waiting[d] # Writer[d] \/ d # c
    BY <1>0, <2>1, EndsOfChannel DEF Meets, Frees, Awaits
  <2>3. Frees(p, d) => p = Writer[d]
    BY DEF Frees
  <2>. QED BY <1>0, <2>1, <2>2, <2>3 DEF Meets, Frees, Awaits, Sets
<1>3. CASE TryIn(p)
  BY <1>0, <1>3, TryInEffect DEF Takes, GivesUp, Sets, Alternating
<1>4. CASE EnableGuard(p)
  BY <1>0, <1>4, EnableGuardEffect DEF EnableGuardTo, Sets
<1>5. CASE DisableGuard(p)
  BY <1>0, <1>5, DisableGuardEffect, EndsOfChannel DEF DisableGuardTo, Sets
<1>6. ASSUME \/ \E d \in Channels : CallOut(p, d) \/ CallIn(p, d)
             \/ Select(p) \/ Wake(p) \/ Relinquish(p) \/ Return(p) \/ FreeEnabling(p)
             \/ FreeWaiting(p) \/ EnableReady(p) \/ AltShouldWait(p) \/ AltFinish(p)
      PROVE  waiting' = waiting
  BY <1>6 DEF CallOut, CallIn, Select, Wake, Relinquish, Return, FreeEnabling, FreeWaiting,
              EnableReady, AltShouldWait, AltFinish, chans
<1>. QED BY <1>1, <1>2, <1>3, <1>4, <1>5, <1>6 DEF Call, Step

(* What p does leaves q where it is in its alternation, unless p wakes it, *)
(* or frees it.                                                            *)
LEMMA OthersElsewhere ==
  ASSUME Inv, NEW p \in Procs, NEW q \in Procs, q # p, Call(p) \/ Step(p)
  PROVE  /\ k'[q] = k[q] /\ sel'[q] = sel[q] /\ favorite'[q] = favorite[q]
         /\ \/ pc'[q] = pc[q] /\ alt_state'[q] = alt_state[q]
            \/ pc'[q] = "return"
            \/ /\ pc[p] = "free" /\ was[p] = q
               /\ alt_state[q] = "ENABLING" /\ pc'[q] = pc[q]
            \/ /\ pc[p] = "free2" /\ was[p] = q
               /\ pc[q] = "altAsleep" /\ pc'[q] = "disable"
<1>0. TypeOK
  BY DEF Inv
<1>1. ASSUME NEW c \in Channels, CallOut(p, c) \/ CallIn(p, c)
      PROVE  pc'[q] = pc[q] /\ UNCHANGED <<k, sel, favorite, alt_state>>
  BY <1>0, <1>1, CallOutEffect, CallInEffect DEF CallOutTo, CallInTo, Sets
<1>2. CASE In(p) \/ Out(p)
  BY <1>2, InEffect, OutEffect DEF Meets, Frees, Awaits, Sets
<1>3. CASE TryIn(p)
  BY <1>3, TryInEffect DEF Takes, GivesUp, Sets
<1>4. CASE Wake(p)
  BY <1>4, WakeEffect DEF WakeTo
<1>5. CASE Relinquish(p) \/ Return(p) \/ FreeEnabling(p)
  BY <1>0, <1>5, RelinquishEffect, ReturnEffect, FreeEnablingEffect
  DEF RelinquishTo, ReturnTo, FreeEnablingTo, Sets
<1>6. CASE FreeWaiting(p)
  BY <1>6, FreeWaitingEffect DEF FreeWaitingTo, Sets
<1>7. CASE Select(p) \/ EnableReady(p) \/ AltShouldWait(p)
  BY <1>0, <1>7, SelectEffect, EnableReadyEffect, AltShouldWaitEffect
  DEF SelectTo, EnableReadyTo, AltShouldWaitTo, Sets
<1>8. CASE EnableGuard(p)
  BY <1>8, EnableGuardEffect DEF EnableGuardTo, Sets
<1>9. CASE DisableGuard(p) \/ AltFinish(p)
  BY <1>9, DisableGuardEffect, AltFinishEffect DEF DisableGuardTo, AltFinishTo, Sets
<1>. QED BY <1>1, <1>2, <1>3, <1>4, <1>5, <1>6, <1>7, <1>8, <1>9 DEF Call, Step

(* A guard that is ready while its process alternates stays ready.         *)
LEMMA ReadyStays ==
  ASSUME Inv, NEW p \in Procs, Call(p) \/ Step(p), NEW q \in Procs,
         pc[q] \in Alternating, favorite'[q] = favorite[q],
         NEW i \in 0 .. Len(Guards[q]) - 1, ReadyAt(q, i)
  PROVE  ReadyAt(q, i)'
<1> DEFINE g == Guards[q][Position(q, i)]
<1>1. g' = g
  BY DEF Position
<1>2. CASE g = SKIP
  BY <1>1, <1>2 DEF ReadyAt
<1>3. CASE g # SKIP
  <2>1. TypeOK /\ NameOK /\ Guards[q] # << >>
    BY DEF Inv, Core, AltOK
  <2>2. g \in Channels /\ Reader[g] = q /\ waiting[g] \notin {NULL, q}
    BY <1>3, <2>1, GuardFacts DEF ReadyAt, WriterReady
  <2>3. waiting[g] = Writer[g]
    BY <2>1, <2>2 DEF NameOK
  <2>4. waiting'[g] = Writer[g]
    BY <2>2, <2>3, WriterStays
  <2>. QED BY <1>1, <1>3, <2>2, <2>3, <2>4 DEF ReadyAt, WriterReady
<1>. QED BY <1>2, <1>3

(* Who is freed in time has a guard that is ready.                         *)
LEMMA FreedInTime ==
  ASSUME Inv, Aimed, Timely, NEW x \in Procs, pc[x] \in {"free", "free2"},
         pc[was[x]] \in {"enable", "altShouldWait", "altAsleep"}
  PROVE  SomeReady(was[x])
<1> DEFINE q == was[x]
<1>1. /\ TypeOK /\ q \in Procs /\ q = Reader[ch[x]] /\ x = Writer[ch[x]]
      /\ ch[x] \in Range(Guards[q]) /\ x # NULL /\ x # q
  <2>1. TypeOK /\ WasOK /\ ChanOK
    BY DEF Inv, Core
  <2>2. ch[x] \in Channels /\ x = Writer[ch[x]] /\ q = Reader[ch[x]]
    BY <2>1 DEF WasOK, ChanOK, Alternating
  <2>. QED BY <2>1, <2>2, EndsOfChannel DEF Aimed
<1>2. CASE SKIP \in Range(Guards[q])
  <2>1. PICK i \in 0 .. Len(Guards[q]) - 1 : Guards[q][Position(q, i)] = SKIP
    BY <1>1, <1>2, AllTried
  <2>. QED BY <2>1 DEF SomeReady, ReadyAt
<1>3. CASE waiting[ch[x]] = x
  <2>1. PICK i \in 0 .. Len(Guards[q]) - 1 : Guards[q][Position(q, i)] = ch[x]
    BY <1>1, AllTried
  <2>. QED BY <1>1, <1>3, <2>1 DEF SomeReady, ReadyAt, WriterReady
<1>. QED BY <1>2, <1>3 DEF Timely

(* Another process disturbs no choice, and frees none in vain.             *)
LEMMA OthersChoice ==
  ASSUME Inv, Aimed, Timely, NEW p \in Procs, NEW q \in Procs, q # p, Choosing(q),
         Call(p) \/ Step(p)
  PROVE  Choosing(q)'
<1>0. k'[q] = k[q] /\ sel'[q] = sel[q] /\ favorite'[q] = favorite[q]
  BY OthersElsewhere
<1>1. /\ TypeOK /\ AltOK
  BY DEF Inv, Core
<1>2. pc[q] \in Alternating /\ SomeReady(q) => SomeReady(q)'
  BY <1>0, ReadyStays DEF SomeReady
<1>3. CASE pc'[q] = pc[q] /\ alt_state'[q] = alt_state[q]
  <2>1. pc[q] = "disable" /\ (\E i \in 0 .. k[q] : ReadyAt(q, i)) =>
          \E i \in 0 .. k[q] : ReadyAt(q, i)'
    <3>1. SUFFICES ASSUME pc[q] = "disable", NEW i \in 0 .. k[q], ReadyAt(q, i)
                   PROVE  ReadyAt(q, i)'
      OBVIOUS
    <3>2. k[q] \in Nat /\ Len(Guards[q]) \in Nat /\ k[q] < Len(Guards[q])
      BY <3>1, GuardTried
    <3>. QED BY <1>0, <3>1, <3>2, ReadyStays DEF Alternating
  <2>. QED BY <1>0, <1>2, <1>3, <2>1 DEF Choosing, Alternating
<1>4. CASE pc'[q] = "return"
  BY <1>4 DEF Choosing
<1>5. CASE pc[p] = "free" /\ was[p] = q /\ alt_state[q] = "ENABLING" /\ pc'[q] = pc[q]
  <2>1. pc[q] \in {"enable", "altShouldWait"} => SomeReady(q)'
    BY <1>2, <1>5, FreedInTime DEF Alternating
  <2>2. CASE pc[q] = "disable"
    <3>1. SUFFICES ASSUME NEW i \in 0 .. k[q], ReadyAt(q, i)
                   PROVE  ReadyAt(q, i)'
      BY <1>0, <1>5, <2>2 DEF Choosing
    <3>2. k[q] \in Nat /\ Len(Guards[q]) \in Nat /\ k[q] < Len(Guards[q])
      BY <2>2, GuardTried
    <3>. QED BY <1>0, <2>2, <3>1, <3>2, ReadyStays DEF Alternating
  <2>. QED BY <1>0, <1>5, <2>1, <2>2 DEF Choosing
<1>6. CASE pc[p] = "free2" /\ was[p] = q /\ pc[q] = "altAsleep" /\ pc'[q] = "disable"
  <2>1. SomeReady(q)'
    BY <1>2, <1>6, FreedInTime DEF Alternating
  <2>2. k'[q] = Len(Guards[q]) - 1
    BY <1>0, <1>1, <1>6 DEF AltOK
  <2>. QED BY <1>6, <2>1, <2>2 DEF Choosing, SomeReady
<1>. QED BY <1>3, <1>4, <1>5, <1>6, OthersElsewhere

(* p itself: it does not fall asleep when it has been freed, and disabling *)
(* goes down to the guard that is ready.                                   *)
LEMMA OwnChoice ==
  ASSUME Inv, NEW p \in Procs, Choosing(p), Call(p) \/ Step(p)
  PROVE  Choosing(p)'
<1>0. TypeOK /\ AltOK
  BY DEF Inv, Core
<1>1. ASSUME pc'[p] \notin Alternating PROVE Choosing(p)'
  BY <1>1 DEF Choosing, Alternating
<1>2. ASSUME NEW c \in Channels, CallOut(p, c) \/ CallIn(p, c)
      PROVE  Choosing(p)'
  BY <1>0, <1>1, <1>2, CallOutEffect, CallInEffect DEF CallOutTo, CallInTo, Sets, Alternating
<1>3. CASE In(p) \/ Out(p)
  BY <1>1, <1>3, InEffect, OutEffect DEF Meets, Frees, Awaits, Sets, Alternating
<1>4. CASE TryIn(p)
  BY <1>1, <1>4, TryInEffect DEF Takes, GivesUp, Sets, Alternating
<1>5. CASE Wake(p)
  BY <1>1, <1>5, WakeEffect DEF WakeTo, Alternating
<1>6. CASE Relinquish(p) \/ Return(p) \/ FreeEnabling(p)
  BY <1>0, <1>1, <1>6, RelinquishEffect, ReturnEffect, FreeEnablingEffect
  DEF RelinquishTo, ReturnTo, FreeEnablingTo, Sets, Alternating
<1>7. CASE FreeWaiting(p)
  BY <1>1, <1>7, FreeWaitingEffect DEF FreeWaitingTo, Sets, Alternating
<1>8. CASE Select(p)
  BY <1>0, <1>8, SelectEffect DEF SelectTo, Sets, Choosing
<1>9. CASE EnableReady(p)
  <2>1. EnableReadyTo(p) /\ GuardReady(p)
    BY <1>0, <1>9, EnableReadyEffect DEF EnableReady
  <2>2. /\ pc'[p] = "disable"
        /\ waiting' = waiting /\ k' = k /\ favorite' = favorite
    BY <2>1 DEF EnableReadyTo, Sets
  <2>3. k[p] \in 0 .. k[p]
    <3>1. k[p] \in Nat
      BY <2>1, GuardTried DEF EnableReadyTo
    <3>. QED BY <3>1
  <2>4. ReadyAt(p, k[p])
    BY <2>1 DEF GuardReady, Guard, ReadyAt
  <2>5. \A i : ReadyAt(p, i) => ReadyAt(p, i)'
    BY <2>2 DEF ReadyAt, WriterReady, Position
  <2>. QED BY <2>2, <2>3, <2>4, <2>5 DEF Choosing
<1>10. CASE EnableGuard(p)
  <2>1. EnableGuardTo(p, Guard(p)) /\ pc[p] = "enable"
    BY <1>10, EnableGuardEffect DEF EnableGuard
  <2>2. SomeReady(p) => SomeReady(p)'
    BY <2>1, ReadyStays DEF SomeReady, EnableGuardTo, Alternating
  <2>3. pc'[p] \in {"enable", "altShouldWait"} /\ alt_state' = alt_state
    BY <2>1 DEF EnableGuardTo, Sets
  <2>. QED BY <2>1, <2>2, <2>3 DEF Choosing
<1>11. CASE AltShouldWait(p)
  <2>1. AltShouldWaitTo(p) /\ pc[p] = "altShouldWait"
    BY <1>0, <1>11, AltShouldWaitEffect DEF AltShouldWait
  <2>2. CASE pc'[p] = "altAsleep"
    BY <2>2 DEF Choosing
  <2>3. CASE pc'[p] # "altAsleep"
    <3>1. pc'[p] = "disable" /\ k' = k /\ favorite' = favorite
      BY <2>1, <2>3 DEF AltShouldWaitTo, Sets
    <3>2. alt_state[p] = "READY"
      <4>1. alt_state[p] \notin {"NONE", "ENABLING", "WAITING"}
        BY <1>0, <1>11, <2>1, <2>3 DEF AltShouldWait, AltOK, Alternating, Goto, TypeOK
      <4>. QED BY <1>0, <4>1 DEF TypeOK
    <3>3. SomeReady(p)'
      BY <2>1, <3>1, <3>2, ReadyStays DEF SomeReady, Choosing, Alternating
    <3>4. k'[p] = Len(Guards[p]) - 1
      BY <1>0, <2>1, <3>1 DEF AltOK
    <3>. QED BY <3>1, <3>3, <3>4 DEF Choosing, SomeReady
  <2>. QED BY <2>2, <2>3
<1>12. CASE DisableGuard(p)
  <2>1. DisableGuardTo(p) /\ pc[p] = "disable"
    BY <1>12, DisableGuardEffect DEF DisableGuard
  <2>2. /\ Position(p, k[p]) \in 1 .. Len(Guards[p]) /\ Len(Guards[p]) \in Nat
        /\ k[p] \in Nat /\ k[p] < Len(Guards[p])
    BY <2>1, GuardTried
  <2>3. CASE GuardReady(p)
    <3>1. sel'[p] = Position(p, k[p])
      BY <1>0, <1>12, <2>3 DEF DisableGuard, TypeOK
    <3>2. sel'[p] # 0
      BY <2>2, <3>1
    <3>. QED BY <2>1, <3>2 DEF DisableGuardTo, Sets, Choosing
  <2>4. CASE sel[p] # 0
    <3>1. sel'[p] # 0
      BY <1>0, <1>12, <2>1, <2>2, <2>4 DEF DisableGuard, DisableGuardTo, Sets
    <3>. QED BY <2>1, <3>1 DEF DisableGuardTo, Sets, Choosing
  <2>5. CASE ~ GuardReady(p) /\ sel[p] = 0
    <3>1. PICK i \in 0 .. k[p] : ReadyAt(p, i)
      BY <2>1, <2>5 DEF Choosing
    <3>2. i # k[p]
      BY <2>5, <3>1 DEF ReadyAt, GuardReady, Guard
    <3>3. k'[p] = k[p] - 1 /\ pc'[p] = "disable"
      BY <2>1, <2>2, <3>1, <3>2 DEF DisableGuardTo, Sets
    <3>4. ReadyAt(p, i)'
      BY <2>1, <2>2, <3>1, ReadyStays DEF DisableGuardTo, Alternating
    <3>5. i \in 0 .. k'[p]
      BY <2>2, <3>1, <3>2, <3>3
    <3>. QED BY <3>3, <3>4, <3>5 DEF Choosing
  <2>. QED BY <2>3, <2>4, <2>5
<1>13. CASE AltFinish(p)
  BY <1>1, <1>13, AltFinishEffect DEF AltFinishTo, Sets, Alternating
<1>. QED BY <1>2, <1>3, <1>4, <1>5, <1>6, <1>7, <1>8, <1>9, <1>10, <1>11, <1>12, <1>13
         DEF Call, Step

(* The channel through which a process is freed is one that it had left    *)
(* its name in as a guard.                                                 *)
LEMMA AimedStep ==
  ASSUME Inv, Aimed, NEW p \in Procs, Call(p) \/ Step(p)
  PROVE  Aimed'
<1>0. TypeOK
  BY DEF Inv
<1>1. SUFFICES ASSUME NEW x \in Procs, pc'[x] \in {"free", "free2"}
               PROVE  ch'[x] \in Range(Guards[was'[x]])
  BY DEF Aimed
<1>2. \/ pc[x] \in {"free", "free2"} /\ ch'[x] = ch[x] /\ was'[x] = was[x]
      \/ Frees(x, ch[x])
  <2>1. ASSUME NEW c \in Channels, CallOut(p, c) \/ CallIn(p, c)
        PROVE  pc[x] \in {"free", "free2"} /\ ch'[x] = ch[x] /\ was'[x] = was[x]
    BY <1>0, <1>1, <2>1, CallOutEffect, CallInEffect DEF CallOutTo, CallInTo, Sets
  <2>2. CASE In(p) \/ Out(p)
    BY <1>1, <2>2, InEffect, OutEffect DEF Meets, Frees, Awaits, Sets
  <2>3. CASE TryIn(p)
    BY <1>1, <2>3, TryInEffect DEF Takes, GivesUp, Sets
  <2>4. CASE Wake(p)
    BY <1>1, <2>4, WakeEffect DEF WakeTo, Sets
  <2>5. CASE Relinquish(p) \/ Return(p)
    BY <1>0, <1>1, <2>5, RelinquishEffect, ReturnEffect DEF RelinquishTo, ReturnTo, Sets
  <2>6. CASE FreeEnabling(p)
    BY <1>1, <2>6, FreeEnablingEffect DEF FreeEnablingTo, Sets
  <2>7. CASE FreeWaiting(p)
    BY <1>1, <2>7, FreeWaitingEffect DEF FreeWaitingTo, Sets
  <2>8. CASE Select(p) \/ EnableReady(p) \/ AltShouldWait(p)
    BY <1>0, <1>1, <2>8, SelectEffect, EnableReadyEffect, AltShouldWaitEffect
    DEF SelectTo, EnableReadyTo, AltShouldWaitTo, Sets
  <2>9. CASE EnableGuard(p)
    BY <1>1, <2>9, EnableGuardEffect DEF EnableGuardTo, Sets
  <2>10. CASE DisableGuard(p) \/ AltFinish(p)
    BY <1>1, <2>10, DisableGuardEffect, AltFinishEffect DEF DisableGuardTo, AltFinishTo, Sets
  <2>. QED BY <2>1, <2>2, <2>3, <2>4, <2>5, <2>6, <2>7, <2>8, <2>9, <2>10 DEF Call, Step
<1>3. CASE Frees(x, ch[x])
  <2> DEFINE r == Reader[ch[x]]
  <2>1. ch[x] \in Channels /\ ch' = ch /\ was'[x] = r /\ Published(r, ch[x])
    <3>1. ch[x] \in Channels
      BY <1>3 DEF Frees, Inv, Core, ChanOK, Alternating
    <3>. QED BY <1>3, <3>1 DEF Frees, Sets
  <2>2. r \in Procs /\ Guards[r] # << >> /\ k[r] \in Nat /\ k[r] < Len(Guards[r])
    BY <2>1, EndsOfChannel DEF Inv, Core, AltOK, TypeOK, Published
  <2>3. PICK i \in 0 .. k[r] : Guards[r][Position(r, i)] = ch[x]
    BY <2>1 DEF Published
  <2>4. Position(r, i) \in 1 .. Len(Guards[r])
    BY <1>0, <2>2, <2>3, GuardFacts
  <2>. QED BY <1>0, <2>1, <2>2, <2>3, <2>4, GuardFacts
<1>. QED BY <1>1, <1>2, <1>3 DEF Aimed

(* A late writer is the only reason for a selection to end without a       *)
(* guard: as long as whoever calls freeProcessMaybe for an alternation is  *)
(* still in its channel, whatever else the processes do, it ends with one. *)
THEOREM CommSelects == Spec => SelectsInTime
<1>1. Init => ChoiceInv
  BY DEF Init, ChoiceInv, Aimed, Choosing
<1>2. Inv /\ ChoiceInv /\ Timely /\ [Next]_vars => ChoiceInv'
  <2>1. ASSUME ChoiceInv, UNCHANGED vars PROVE ChoiceInv'
    BY <2>1 DEF vars, ChoiceInv, Aimed, Choosing, SomeReady, ReadyAt, Position, WriterReady
  <2>2. ASSUME Inv, ChoiceInv, Timely, Next PROVE ChoiceInv'
    BY <2>2, OwnChoice, OthersChoice, AimedStep DEF Next, ChoiceInv
  <2>. QED BY <2>1, <2>2
<1>3. ChoiceInv => Selects
  BY DEF ChoiceInv, Choosing, Selects
<1>. QED BY CommInvariant, <1>1, <1>2, <1>3, PTL DEF Spec, SelectsInTime

(* In particular, where every process that alternates can skip, no         *)
(* selection ends without a guard.                                         *)
THEOREM CommSkipSelects ==
  ASSUME \A p \in Procs : Guards[p] # << >> => SKIP \in Range(Guards[p])
  PROVE  Spec => []Selects
<1>1. Inv => Timely
  <2> SUFFICES ASSUME Inv, NEW x \in Procs, pc[x] \in {"free", "free2"},
                      pc[was[x]] \in {"enable", "altShouldWait", "altAsleep"}
               PROVE  SKIP \in Range(Guards[was[x]])
    BY DEF Timely
  <2>1. was[x] \in Procs
    BY DEF Inv, Core, WasOK
  <2>. QED BY <2>1 DEF Inv, Core, AltOK, Alternating
<1>. QED BY CommInvariant, CommSelects, <1>1, PTL DEF SelectsInTime
=============================================================================
