------------------------------- MODULE Memory -------------------------------
(***************************************************************************)
(* The allocator of memory.c and the mutex that guards it (mutex.c), used  *)
(* by processes of one processor that interrupts preempt.                  *)
(*                                                                         *)
(* claim_mutex tries its exchange a few times and then yields; the holder  *)
(* may have lost the processor anywhere between the exchange and the store *)
(* that releases the mutex.  What the holder does is two steps: it looks   *)
(* at the list and the tail (Look), and it takes or links the block        *)
(* (Unlink, Cut, Link).  An address is a number, a size index its position *)
(* in procmemlen.                                                          *)
(***************************************************************************)
EXTENDS Interrupt

CONSTANTS
  procmemlen,  \* the sequence of block lengths, increasing
  Total,       \* length of the region (memory_init)
  Trials,      \* TRIALS_BEFORE_YIELD
  Wants,       \* Wants[p]: the sizes, in bytes, that p allocates
  MaxHeld      \* bound: blocks a process keeps

Indices == DOMAIN procmemlen

ASSUME MemoryAssumption ==
  /\ procmemlen \in Seq(Nat \ {0})
  /\ \A i, j \in Indices : i < j => procmemlen[i] < procmemlen[j]
  /\ \A p \in Procs : \A size \in Wants[p] :
       \E i \in Indices : procmemlen[i] >= size
  /\ NULL \notin Nat
  /\ Total \in Nat /\ Trials \in Nat \ {0} /\ MaxHeld \in Nat

VARIABLES
  claimed,      \* mutex_mem.claimed
  procmemlist,  \* procmemlist[i]: the released blocks of size i, last first
  tail,         \* where the rest of the region begins
  taillen,      \* the variable of that name
  op,           \* what a process is doing in the allocator
  trials,       \* exchanges tried in this round of claim_mutex
  request,      \* the block it allocates or releases; its addr is set by Look
  held          \* the blocks a process has

memVars == <<claimed, procmemlist, tail, taillen, op, trials, request, held>>
sysVars == <<allVars, memVars>>

MemoryInit ==
  /\ InterruptInit
  /\ claimed = FALSE
  /\ procmemlist = [i \in Indices |-> << >>]
  /\ tail = 0 /\ taillen = Total
  /\ op = [p \in Procs |-> "none"]
  /\ trials = [p \in Procs |-> 0]
  /\ request = [p \in Procs |-> NULL]
  /\ held = [p \in Procs |-> {}]

\* p runs its own code, inside the allocator.
Does(p, o) == Runs(p) /\ op[p] = o

-----------------------------------------------------------------------------
(* The mutex.                                                              *)

\* A plausible mistake, for the mutants: the last trial counts as a success.
Gets_last(p) == ~ claimed \/ trials[p] = Trials - 1

\* The exchange returned false: the mutex is p's.
Gets(p) == ~ claimed

\* The inner loop has ended without success.
GivesUp(p) == trials[p] = Trials - 1

\* A plausible mistake, for the mutants: claim_mutex spins and never yields.
GiveWay_never(p) == UNCHANGED vars

\* The yield of claim_mutex.
GiveWay(p) == Yield(p)

\* claim_mutex: one exchange, and the yield after the last one that fails.
Exchange(p) ==
  /\ Does(p, "claim")
  /\ claimed' = TRUE
  /\ \/ /\ Gets(p)
        /\ op' = [op EXCEPT ![p] = IF request[p].addr = NULL THEN "allocate" ELSE "link"]
        /\ trials' = [trials EXCEPT ![p] = 0]
        /\ UNCHANGED allVars
     \/ /\ ~ Gets(p)
        /\ ~ GivesUp(p)
        /\ trials' = [trials EXCEPT ![p] = @ + 1]
        /\ UNCHANGED <<allVars, op>>
     \/ /\ ~ Gets(p)
        /\ GivesUp(p)
        /\ trials' = [trials EXCEPT ![p] = 0]
        /\ GiveWay(p)
        /\ UNCHANGED <<userVars, op>>
  /\ UNCHANGED <<procmemlist, tail, taillen, request, held>>

\* release_mutex, and the return to the caller, who has the block or not.
Unlock(p) ==
  /\ Does(p, "unlock")
  /\ claimed' = FALSE
  /\ op' = [op EXCEPT ![p] = "none"]
  /\ request' = [request EXCEPT ![p] = NULL]
  /\ UNCHANGED <<allVars, procmemlist, tail, taillen, trials, held>>

-----------------------------------------------------------------------------
(* allocate_mem and release_mem.                                           *)

\* find_mem_index: the smallest length that is large enough (if none is,
\* plotz ends the program).
find_mem_index(size) ==
  CHOOSE i \in Indices :
    /\ procmemlen[i] >= size
    /\ \A j \in Indices : procmemlen[j] >= size => i <= j

\* allocate_mem is called for so many bytes.
allocate_mem(p, size) ==
  /\ Does(p, "none") /\ pc[p] = "run"
  /\ Cardinality(held[p]) < MaxHeld
  /\ request' = [request EXCEPT ![p] = [index |-> find_mem_index(size), addr |-> NULL]]
  /\ op' = [op EXCEPT ![p] = "claim"]
  /\ UNCHANGED <<allVars, claimed, procmemlist, tail, taillen, trials, held>>

\* The head of the list, or the tail if the list is empty.  If the tail is
\* not long enough, plotz ends the program.
Look(p) ==
  LET i == request[p].index
      list == procmemlist[i]
  IN  /\ Does(p, "allocate")
      /\ list # << >> \/ taillen >= procmemlen[i]
      /\ request' = [request EXCEPT ![p].addr = IF list # << >> THEN Head(list) ELSE tail]
      /\ op' = [op EXCEPT ![p] = IF list # << >> THEN "unlink" ELSE "cut"]
      /\ UNCHANGED <<allVars, claimed, procmemlist, tail, taillen, trials, held>>

Gain(p) == held' = [held EXCEPT ![p] = @ \cup {request[p]}]

\* A block of the list is taken out.
Unlink(p) ==
  /\ Does(p, "unlink")
  /\ procmemlist' = [procmemlist EXCEPT ![request[p].index] = Tail(@)]
  /\ Gain(p)
  /\ op' = [op EXCEPT ![p] = "unlock"]
  /\ UNCHANGED <<allVars, claimed, tail, taillen, trials, request>>

\* A block is cut off the tail, whose length stays what it was.
Cut(p) ==
  /\ Does(p, "cut")
  /\ tail' = tail + procmemlen[request[p].index]
  /\ Gain(p)
  /\ op' = [op EXCEPT ![p] = "unlock"]
  /\ UNCHANGED <<allVars, claimed, procmemlist, taillen, trials, request>>

\* release_mem is called.
release_mem(p, block) ==
  /\ Does(p, "none") /\ pc[p] = "run"
  /\ request' = [request EXCEPT ![p] = block]
  /\ op' = [op EXCEPT ![p] = "claim"]
  /\ UNCHANGED <<allVars, claimed, procmemlist, tail, taillen, trials, held>>

\* The block becomes the head of its list.
Link(p) ==
  LET block == request[p]
  IN  /\ Does(p, "link")
      /\ procmemlist' = [procmemlist EXCEPT ![block.index] = <<block.addr>> \o @]
      /\ held' = [held EXCEPT ![p] = @ \ {block}]
      /\ op' = [op EXCEPT ![p] = "unlock"]
      /\ UNCHANGED <<allVars, claimed, tail, taillen, trials, request>>

Allocator(p) ==
  \/ Exchange(p) \/ Look(p) \/ Unlink(p) \/ Cut(p) \/ Link(p) \/ Unlock(p)

\* What a process does outside the allocator: it yields, raises interrupts
\* and waits for them.
OutsideApp(p) ==
  /\ op[p] = "none"
  /\ \/ StoreName(p)
     \/ \E n \in Users : Receive(p, n) \/ send_interrupt(p, n)
     \/ (receives[p] = NULL /\ Yield(p)) /\ UNCHANGED userVars
     \/ (Relinquish(p) \/ Disable(p)) /\ UNCHANGED userVars

\* What happens to it in the kernel.
OutsideKernel(p) ==
  \/ \E n \in Users : UserEnter(p, n)
  \/ Transmit(p) \/ Miss(p)
  \/ /\ Switch(p) \/ YieldSwitch(p) \/ Preempt(p) \/ (serves[p] = NULL /\ IntrDone(p))
     /\ UNCHANGED userVars

MemoryNext ==
  \/ \E p \in Procs : \E size \in Wants[p] : allocate_mem(p, size)
  \/ \E p \in Procs : \E block \in held[p] : release_mem(p, block)
  \/ \E p \in Procs : Allocator(p)
  \/ \E p \in Procs : OutsideApp(p) /\ UNCHANGED memVars
  \/ \E p \in All : OutsideKernel(p) /\ UNCHANGED memVars

MemorySpec == MemoryInit /\ [][MemoryNext]_sysVars

-----------------------------------------------------------------------------
(* Fairness, as in Interrupt: routines with interrupts disabled end, a      *)
(* raised signal is taken, and a process that has the processor goes on,    *)
(* interrupts notwithstanding, inside the allocator and outside.  Outside   *)
(* it yields now and then.                                                  *)

Quiet(step) == step /\ UNCHANGED memVars

MemoryFairness ==
  /\ \A p \in All :
       WF_sysVars(Quiet((Routine(p) /\ UNCHANGED userVars) \/ Transmit(p) \/ Miss(p)))
  /\ \A p \in Procs :
       /\ SF_sysVars(Allocator(p))
       /\ SF_sysVars(Quiet(StoreName(p) \/ (Finish(p) /\ UNCHANGED userVars)))
       /\ SF_sysVars(Quiet(op[p] = "none" /\ Yield(p) /\ UNCHANGED userVars))
  /\ \A u \in Puns, n \in Users :
       SF_sysVars(Quiet(\E p \in All : Place[p] = u /\ UserEnter(p, n)))

MemoryLiveSpec == MemorySpec /\ MemoryFairness

-----------------------------------------------------------------------------
(* Properties.                                                             *)

\* The blocks on the lists.
Listed == UNION {{[index |-> i, addr |-> a] : a \in Range(procmemlist[i])} : i \in Indices}

Bytes(block) == block.addr .. block.addr + procmemlen[block.index] - 1

(* "used to ensure mutually exclusive access" (memory.c:41): every byte    *)
(* below the tail belongs to one block, which is on one list, once, or     *)
(* belongs to one process.  Nothing is given out twice and nothing is      *)
(* lost, wherever the holder of the mutex loses the processor.             *)
Partition ==
  /\ \A i \in Indices : IsInjective(procmemlist[i])
  /\ \A p, q \in Procs : p # q => held[p] \cap held[q] = {}
  /\ \A p \in Procs : held[p] \cap Listed = {}
  /\ LET blocks == Listed \cup UNION {held[p] : p \in Procs}
     IN  /\ \A x, y \in blocks : x # y => Bytes(x) \cap Bytes(y) = {}
         /\ UNION {Bytes(x) : x \in blocks} = 0 .. tail - 1

(* "what's left, in one big block" (memory.c:37): no block reaches beyond  *)
(* the region.                                                             *)
InRegion == tail <= Total

(* A process that claims the mutex goes on in the end (mutex.c:28-42): its *)
(* holder gets the processor back from those that spin and yield.          *)
Released == claimed ~> ~ claimed

(* The same when every process wants the mutex or has it, and nobody else  *)
(* is left to keep the holder from the processor (mutex.c:40: yield).      *)
SpinEnds == (claimed /\ \A p \in Procs : op[p] # "none") ~> ~ claimed
=============================================================================
