--------------------------- MODULE ProcessProofs ---------------------------
(***************************************************************************)
(* Proofs about what processes do on top of the scheduler, for any number  *)
(* of them:                                                                *)
(*   Memory     the mutex admits one process to the allocator at a time,   *)
(*              and every byte below the tail has one owner;               *)
(*   Interrupt  a process that receives an interrupt is named for it, and  *)
(*              wakes are neither lost nor doubled;                        *)
(*   ParRun     par returns after its children have ended, one process at  *)
(*              a time is on the termination stack, and no process that    *)
(*              nobody outranks is lost.                                   *)
(***************************************************************************)
EXTENDS Memory, ParRun, SchedProofs, WellFoundedInduction, NaturalsInduction

-----------------------------------------------------------------------------
(* Memory.  The inductive invariant MemInv.                                *)

\* What p does between its exchange and the store that releases the mutex.
Inside == {"allocate", "unlink", "cut", "link", "unlock"}

Blocks == [index : Indices, addr : Nat]
Orders == [index : Indices, addr : {NULL}]

MemType ==
  /\ claimed \in BOOLEAN
  /\ procmemlist \in [Indices -> Seq(Nat)]
  /\ tail \in Nat
  /\ op \in [Procs -> {"none", "claim"} \cup Inside]
  /\ request \in [Procs -> {NULL} \cup Blocks \cup Orders]
  /\ held \in [Procs -> SUBSET Blocks]

\* The mutex is claimed while somebody is inside, and nobody else is.
Exclusive ==
  /\ \A p \in Procs : op[p] \in Inside => claimed
  /\ \A p, q \in Procs : op[p] \in Inside /\ op[q] \in Inside => p = q

\* What p carries from step to step is still true when it goes on: the block
\* to release is its own, the head it saw is the head, the tail is the tail.
Asked(p) ==
  /\ op[p] = "claim" => request[p] \in Orders \cup held[p]
  /\ op[p] = "allocate" => request[p] \in Orders
  /\ op[p] = "link" => request[p] \in held[p]
  /\ op[p] = "unlink" => /\ request[p] \in Blocks
                         /\ procmemlist[request[p].index] # << >>
                         /\ request[p].addr = Head(procmemlist[request[p].index])
  /\ op[p] = "cut" => request[p] \in Blocks /\ request[p].addr = tail

\* Partition, with the blocks named.
Kept == UNION {held[p] : p \in Procs}
Known == Listed \cup Kept

Owned ==
  /\ \A i \in Indices : IsInjective(procmemlist[i])
  /\ \A p, q \in Procs : p # q => held[p] \cap held[q] = {}
  /\ \A p \in Procs : held[p] \cap Listed = {}

Tiled ==
  /\ \A x, y \in Known : x # y => Bytes(x) \cap Bytes(y) = {}
  /\ UNION {Bytes(x) : x \in Known} = 0 .. tail - 1

MemInv == MemType /\ Exclusive /\ (\A p \in Procs : Asked(p)) /\ Owned /\ Tiled

(* The last two parts are the property the run checks.                     *)
LEMMA PartitionIs == Partition <=> Owned /\ Tiled
BY DEF Partition, Owned, Tiled, Known, Kept

-----------------------------------------------------------------------------
(* The operators.                                                          *)

(* Link puts a block at the head of a list.                                *)
LEMMA ConsRange ==
  ASSUME NEW S, NEW s \in Seq(S), NEW x \in S
  PROVE  /\ <<x>> \o s \in Seq(S)
         /\ Range(<<x>> \o s) = {x} \cup Range(s)
         /\ IsInjective(s) /\ x \notin Range(s) => IsInjective(<<x>> \o s)
<1> DEFINE t == <<x>> \o s
<1>1. /\ t \in Seq(S) /\ Len(t) = Len(s) + 1 /\ t[1] = x
      /\ \A i \in 2..Len(t) : t[i] = s[i - 1]
  OBVIOUS
<1>2. DOMAIN s = 1..Len(s) /\ DOMAIN t = 1..Len(t) /\ Len(s) \in Nat
  BY <1>1, Elements
<1> HIDE DEF t
<1>3. \A i \in 1..Len(t) : i = 1 \/ (i \in 2..Len(t) /\ i - 1 \in 1..Len(s))
  BY <1>1, <1>2
<1>4. 1 \in 1..Len(t)
  BY <1>1, <1>2
<1>5. \A i \in 1..Len(s) : i + 1 \in 1..Len(t) /\ t[i + 1] = s[i]
  <2>1. TAKE i \in 1..Len(s)
  <2>2. i + 1 \in 2..Len(t) /\ (i + 1) - 1 = i
    BY <1>1, <1>2
  <2>. QED BY <1>1, <1>2, <2>2
<1>6. Range(t) = {x} \cup Range(s)
  <2>1. ASSUME NEW y \in Range(t) PROVE y = x \/ y \in Range(s)
    BY <1>1, <1>2, <1>3 DEF Range
  <2>2. ASSUME NEW y \in Range(s) PROVE y \in Range(t)
    BY <1>2, <1>5 DEF Range
  <2>3. x \in Range(t)
    BY <1>1, <1>2, <1>4 DEF Range
  <2>. QED BY <2>1, <2>2, <2>3
<1>7. ASSUME IsInjective(s), x \notin Range(s) PROVE IsInjective(t)
  <2>1. \A i, j \in 1..Len(s) : s[i] = s[j] => i = j
    BY <1>2, <1>7 DEF IsInjective
  <2>2. \A i \in 1..Len(s) : s[i] # x
    BY <1>2, <1>7 DEF Range
  <2>3. ASSUME NEW i \in 1..Len(t), NEW j \in 1..Len(t), t[i] = t[j] PROVE i = j
    <3>1. CASE i = 1 /\ j # 1
      BY <1>1, <1>3, <2>2, <2>3, <3>1
    <3>2. CASE j = 1 /\ i # 1
      BY <1>1, <1>3, <2>2, <2>3, <3>2
    <3>3. CASE i # 1 /\ j # 1
      <4>1. i - 1 \in 1..Len(s) /\ j - 1 \in 1..Len(s) /\ s[i - 1] = s[j - 1]
        BY <1>1, <1>3, <2>3, <3>3
      <4>2. i - 1 = j - 1
        BY <2>1, <4>1
      <4>. QED BY <4>2
    <3>. QED BY <3>1, <3>2, <3>3
  <2>. QED BY <1>2, <2>3 DEF IsInjective
<1>. QED BY <1>1, <1>6, <1>7 DEF t

(* find_mem_index finds an index whenever some length is large enough.     *)
LEMMA IndexFound ==
  ASSUME NEW p \in Procs, NEW size \in Wants[p]
  PROVE  find_mem_index(size) \in Indices
<1> DEFINE T == {i \in Indices : procmemlen[i] >= size}
<1>1. T \subseteq Nat /\ T # {}
  BY MemoryAssumption DEF Indices
<1>2. \E i \in T : \A j \in T : ~ (<<j, i>> \in OpToRel(<, Nat))
  BY <1>1, NatLessThanWellFounded, WFMin
<1>3. PICK i \in T : \A j \in T : ~ (<<j, i>> \in OpToRel(<, Nat))
  BY <1>2
<1>4. \A j \in T : i <= j
  <2>1. ASSUME NEW j \in T PROVE ~ (j < i)
    <3> DEFINE pr == <<j, i>>
    <3>1. pr[1] = j /\ pr[2] = i /\ pr \in Nat \X Nat
      BY <1>1
    <3> HIDE DEF pr
    <3>2. pr[1] < pr[2] => pr \in OpToRel(<, Nat)
      BY <3>1, Zenon DEF OpToRel
    <3>3. pr \notin OpToRel(<, Nat)
      BY <1>3, Zenon DEF pr
    <3>4. ~ (pr[1] < pr[2])
      BY <3>2, <3>3, Zenon
    <3>. QED BY <3>1, <3>4
  <2>. QED BY <1>1, <2>1
<1>. QED BY <1>4 DEF find_mem_index

\* A listed block, by its parts.
ByIndex ==
  /\ Listed = {x \in Blocks : x.addr \in Range(procmemlist[x.index])}
  /\ Listed \subseteq Blocks

(* That is what Listed is.                                                 *)
LEMMA ListedIs == MemType => ByIndex
<1>0. HAVE MemType
<1>1. \A i \in Indices : \A a \in Range(procmemlist[i]) : a \in Nat
  BY <1>0, Elements DEF MemType
<1>2. ASSUME NEW x \in Listed
      PROVE  x \in Blocks /\ x.addr \in Range(procmemlist[x.index])
  <2>1. PICK i \in Indices : \E a \in Range(procmemlist[i]) : x = [index |-> i, addr |-> a]
    BY DEF Listed
  <2>. QED BY <1>1, <2>1 DEF Blocks
<1>3. ASSUME NEW x \in Blocks, x.addr \in Range(procmemlist[x.index])
      PROVE  x \in Listed
  <2>1. x = [index |-> x.index, addr |-> x.addr] /\ x.index \in Indices
    BY DEF Blocks
  <2>. QED BY <1>3, <2>1 DEF Listed
<1>. QED BY <1>2, <1>3 DEF ByIndex

-----------------------------------------------------------------------------
(* The steps that leave the blocks where they are.                         *)

(* The parts about blocks see the lists, the tail and the owners only.     *)
LEMMA SameBlocks ==
  ASSUME Owned, Tiled, UNCHANGED <<procmemlist, tail, held>>
  PROVE  Owned' /\ Tiled'
<1>1. Listed' = Listed
  BY DEF Listed
<1>2. Known' = Known
  BY <1>1 DEF Known, Kept
<1>3. \A x : Bytes(x)' = Bytes(x)
  BY DEF Bytes
<1>. QED BY <1>1, <1>2 DEF Owned, Tiled, Bytes

(* A scheduling step, or none, leaves the allocator alone.                 *)
LEMMA Stands ==
  ASSUME MemInv, UNCHANGED memVars
  PROVE  MemInv'
<1>1. Owned' /\ Tiled'
  BY SameBlocks DEF MemInv, memVars
<1>2. MemType' /\ Exclusive'
  BY DEF MemInv, memVars, MemType, Exclusive
<1>3. \A p \in Procs : Asked(p)'
  BY DEF MemInv, memVars, Asked
<1>. QED BY <1>1, <1>2, <1>3 DEF MemInv

(* Neither does the call of allocate_mem or release_mem change a block: it *)
(* leaves a request.                                                       *)
LEMMA CallAsks ==
  ASSUME MemInv, NEW p \in Procs, op[p] = "none",
         NEW r \in Orders \cup held[p],
         request' = [request EXCEPT ![p] = r],
         op' = [op EXCEPT ![p] = "claim"],
         UNCHANGED <<claimed, procmemlist, tail, held>>
  PROVE  MemInv'
<1>1. Owned' /\ Tiled'
  BY SameBlocks DEF MemInv
<1>2. r \in Orders \cup Blocks
  BY DEF MemInv, MemType
<1>3. MemType'
  BY <1>2 DEF MemInv, MemType
<1>4. Exclusive'
  BY DEF MemInv, MemType, Exclusive, Inside
<1>5. ASSUME NEW q \in Procs PROVE Asked(q)'
  <2>1. CASE q = p
    BY <2>1 DEF MemInv, MemType, Asked
  <2>2. CASE q # p
    BY <2>2 DEF MemInv, MemType, Asked
  <2>. QED BY <2>1, <2>2
<1>. QED BY <1>1, <1>3, <1>4, <1>5 DEF MemInv

(* One exchange of claim_mutex: whoever gets the mutex is alone inside.    *)
LEMMA Exchanges ==
  ASSUME MemInv, NEW p \in Procs, Exchange(p)
  PROVE  MemInv'
<1>0. /\ op[p] = "claim" /\ claimed' = TRUE
      /\ UNCHANGED <<procmemlist, tail, taillen, request, held>>
  BY DEF Exchange, Does
<1>1. Owned' /\ Tiled'
  BY <1>0, SameBlocks DEF MemInv
<1>2. CASE ~ claimed /\ op' = [op EXCEPT ![p] = IF request[p].addr = NULL THEN "allocate"
                                                                           ELSE "link"]
  <2>1. MemType'
    BY <1>0, <1>2 DEF MemInv, MemType, Inside
  <2>2. \A q \in Procs : q # p => op'[q] \notin Inside
    BY <1>0, <1>2 DEF MemInv, MemType, Exclusive
  <2>3. Exclusive'
    BY <1>0, <1>2, <2>2 DEF MemInv, Exclusive
  <2>4. ASSUME NEW q \in Procs PROVE Asked(q)'
    <3>1. CASE q # p
      BY <1>0, <1>2, <3>1 DEF MemInv, MemType, Asked
    <3>2. CASE q = p
      <4>1. request[p] \in Orders => request[p].addr = NULL
        BY DEF Orders
      <4>2. request[p] \in held[p] => request[p].addr # NULL
        BY MemoryAssumption DEF MemInv, MemType, Blocks
      <4>3. request[p] \in Orders \cup held[p]
        BY <1>0 DEF MemInv, Asked
      <4>4. op'[p] = IF request[p] \in Orders THEN "allocate" ELSE "link"
        BY <1>2, <4>1, <4>2, <4>3 DEF MemInv, MemType
      <4>. QED BY <1>0, <3>2, <4>3, <4>4 DEF Asked
    <3>. QED BY <3>1, <3>2
  <2>. QED BY <1>1, <2>1, <2>3, <2>4 DEF MemInv
<1>3. CASE claimed /\ op' = op
  <2>1. MemType' /\ Exclusive'
    BY <1>0, <1>3 DEF MemInv, MemType, Exclusive
  <2>2. \A q \in Procs : Asked(q)'
    BY <1>0, <1>3 DEF MemInv, Asked
  <2>. QED BY <1>1, <2>1, <2>2 DEF MemInv
<1>. QED BY <1>2, <1>3 DEF Exchange, Gets

(* allocate_mem looks at the list and the tail.                            *)
LEMMA Looks ==
  ASSUME MemInv, NEW p \in Procs, Look(p)
  PROVE  MemInv'
<1> DEFINE i == request[p].index
           list == procmemlist[i]
           a == IF list # << >> THEN Head(list) ELSE tail
<1>0. /\ op[p] = "allocate"
      /\ request' = [request EXCEPT ![p].addr = a]
      /\ op' = [op EXCEPT ![p] = IF list # << >> THEN "unlink" ELSE "cut"]
      /\ UNCHANGED <<claimed, procmemlist, tail, held>>
  BY DEF Look, Does
<1>1. Owned' /\ Tiled'
  BY <1>0, SameBlocks DEF MemInv
<1>2. request[p] \in Orders /\ i \in Indices
  BY <1>0 DEF MemInv, Asked, Orders
<1>3. list \in Seq(Nat)
  BY <1>2 DEF MemInv, MemType
<1>4. a \in Nat
  BY <1>3, TailRange DEF MemInv, MemType
<1>5. request' = [request EXCEPT ![p] = [index |-> i, addr |-> a]]
  <2>1. request' = [request EXCEPT ![p] = [request[p] EXCEPT !.addr = a]]
    BY <1>0
  <2>2. [request[p] EXCEPT !.addr = a] = [index |-> i, addr |-> a]
    BY <1>2 DEF Orders
  <2>. QED BY <2>1, <2>2
<1>6. [index |-> i, addr |-> a] \in Blocks
  BY <1>2, <1>4 DEF Blocks
<1> HIDE DEF i, list, a
<1>7. MemType'
  BY <1>0, <1>5, <1>6 DEF MemInv, MemType, Inside
<1>8. Exclusive'
  BY <1>0 DEF MemInv, MemType, Exclusive, Inside
<1>9. ASSUME NEW q \in Procs PROVE Asked(q)'
  <2>1. CASE q # p
    BY <1>0, <1>5, <2>1 DEF MemInv, MemType, Asked
  <2>2. CASE q = p
    <3>1. request'[p] = [index |-> i, addr |-> a]
      BY <1>5 DEF MemInv, MemType
    <3>2. op'[p] = IF list # << >> THEN "unlink" ELSE "cut"
      BY <1>0 DEF MemInv, MemType
    <3>3. procmemlist'[i] = list /\ tail' = tail
      BY <1>0 DEF list
    <3>. QED BY <1>6, <2>2, <3>1, <3>2, <3>3 DEF Asked, a
  <2>. QED BY <2>1, <2>2
<1>. QED BY <1>1, <1>7, <1>8, <1>9 DEF MemInv

(* release_mutex.                                                          *)
LEMMA Unlocks ==
  ASSUME MemInv, NEW p \in Procs, Unlock(p)
  PROVE  MemInv'
<1>0. /\ op[p] = "unlock" /\ claimed' = FALSE
      /\ op' = [op EXCEPT ![p] = "none"]
      /\ request' = [request EXCEPT ![p] = NULL]
      /\ UNCHANGED <<procmemlist, tail, held>>
  BY DEF Unlock, Does
<1>1. Owned' /\ Tiled'
  BY <1>0, SameBlocks DEF MemInv
<1>2. MemType'
  BY <1>0 DEF MemInv, MemType
<1>3. Exclusive'
  BY <1>0 DEF MemInv, MemType, Exclusive, Inside
<1>4. ASSUME NEW q \in Procs PROVE Asked(q)'
  <2>1. CASE q # p
    BY <1>0, <2>1 DEF MemInv, MemType, Asked
  <2>2. CASE q = p
    BY <1>0, <2>2 DEF MemInv, MemType, Asked
  <2>. QED BY <2>1, <2>2
<1>. QED BY <1>1, <1>2, <1>3, <1>4 DEF MemInv

-----------------------------------------------------------------------------
(* The steps that move a block.                                            *)

(* The holder moves on to unlock: the others are outside, and what they    *)
(* have asked for is not touched.                                          *)
LEMMA MovesOn ==
  ASSUME MemInv, NEW p \in Procs, op[p] \in Inside,
         op' = [op EXCEPT ![p] = "unlock"],
         UNCHANGED <<claimed, request>>,
         \A q \in Procs \ {p} : held'[q] = held[q]
  PROVE  Exclusive' /\ \A q \in Procs : Asked(q)'
<1>1. \A q \in Procs \ {p} : op[q] \notin Inside
  BY DEF MemInv, Exclusive
<1>2. Exclusive'
  BY <1>1 DEF MemInv, MemType, Exclusive, Inside
<1>3. ASSUME NEW q \in Procs PROVE Asked(q)'
  <2>1. CASE q # p
    BY <1>1, <2>1 DEF MemInv, MemType, Asked, Inside
  <2>2. CASE q = p
    BY <2>2 DEF MemInv, MemType, Asked
  <2>. QED BY <2>1, <2>2
<1>. QED BY <1>2, <1>3

(* The head of a list becomes p's block.                                   *)
LEMMA Unlinks ==
  ASSUME MemInv, NEW p \in Procs, Unlink(p)
  PROVE  MemInv'
<1> DEFINE x == request[p]
           i == x.index
           list == procmemlist[i]
<1>0. /\ op[p] = "unlink"
      /\ procmemlist' = [procmemlist EXCEPT ![i] = Tail(list)]
      /\ held' = [held EXCEPT ![p] = held[p] \cup {x}]
      /\ op' = [op EXCEPT ![p] = "unlock"]
      /\ UNCHANGED <<claimed, tail, request>>
  BY DEF Unlink, Does, Gain
<1>1. /\ x \in Blocks /\ i \in Indices /\ x.addr \in Nat
      /\ list # << >> /\ x.addr = Head(list) /\ list \in Seq(Nat)
  BY <1>0 DEF MemInv, MemType, Asked, Blocks
<1>2. IsInjective(list)
  BY <1>1 DEF MemInv, Owned
<1>3. /\ Tail(list) \in Seq(Nat) /\ IsInjective(Tail(list))
      /\ Range(list) = {x.addr} \cup Range(Tail(list))
      /\ x.addr \notin Range(Tail(list))
  BY <1>1, <1>2, TailRange
<1> HIDE DEF x, i, list
<1>4. MemType'
  BY <1>0, <1>1, <1>3 DEF MemInv, MemType, Inside
<1>5. Exclusive' /\ \A q \in Procs : Asked(q)'
  <2>1. op[p] \in Inside /\ \A q \in Procs \ {p} : held'[q] = held[q]
    BY <1>0 DEF MemInv, MemType, Inside
  <2>. QED BY <1>0, <2>1, MovesOn
<1>6. /\ procmemlist'[i] = Tail(list)
      /\ \A j \in Indices \ {i} : procmemlist'[j] = procmemlist[j]
      /\ held'[p] = held[p] \cup {x}
      /\ \A q \in Procs \ {p} : held'[q] = held[q]
  BY <1>0, <1>1 DEF MemInv, MemType
<1>7. x \in Listed /\ Listed' = Listed \ {x}
  <2>1. /\ Listed = {y \in Blocks : y.addr \in Range(procmemlist[y.index])}
        /\ Listed' = {y \in Blocks : y.addr \in Range(procmemlist'[y.index])}
    <3>1. MemType' => ByIndex'
      BY ListedIs, PTL
    <3>. QED BY <1>4, <3>1, ListedIs DEF MemInv, ByIndex, Blocks, Indices
  <2>2. \A y \in Blocks : y.index \in Indices
    BY DEF Blocks
  <2>3. \A y \in Blocks : y.index = i /\ y.addr = x.addr => y = x
    BY <1>1 DEF Blocks, i
  <2>4. x.index = i /\ procmemlist[i] = list
    BY DEF i, list
  <2>5. ASSUME NEW y \in Blocks
        PROVE  y.addr \in Range(procmemlist'[y.index])
                 <=> y.addr \in Range(procmemlist[y.index]) /\ y # x
    <3>1. CASE y.index = i
      BY <1>3, <1>6, <2>3, <2>4, <3>1
    <3>2. CASE y.index # i
      BY <1>6, <2>2, <2>4, <3>2
    <3>. QED BY <3>1, <3>2
  <2>6. x.addr \in Range(procmemlist[x.index])
    BY <1>3, <2>4
  <2>. QED BY <1>1, <2>1, <2>5, <2>6
<1>8. Owned'
  <2>1. \A j \in Indices : IsInjective(procmemlist'[j])
    BY <1>3, <1>6 DEF MemInv, Owned
  <2>2. \A q \in Procs : x \notin held[q]
    BY <1>7 DEF MemInv, Owned
  <2>3. \A q, r \in Procs : q # r => held'[q] \cap held'[r] = {}
    BY <1>6, <2>2 DEF MemInv, Owned
  <2>4. \A q \in Procs : held'[q] \cap Listed' = {}
    BY <1>6, <1>7 DEF MemInv, Owned
  <2>. QED BY <2>1, <2>3, <2>4 DEF Owned
<1>9. Known' = Known
  <2>1. Kept' = Kept \cup {x}
    BY <1>6 DEF Kept
  <2>. QED BY <1>7, <2>1 DEF Known
<1>10. Tiled'
  BY <1>0, <1>9 DEF MemInv, Tiled, Bytes
<1>. QED BY <1>4, <1>5, <1>8, <1>10 DEF MemInv

(* The first bytes of the tail become p's block.                           *)
LEMMA Cuts ==
  ASSUME MemInv, NEW p \in Procs, Cut(p)
  PROVE  MemInv'
<1> DEFINE x == request[p]
           n == procmemlen[x.index]
<1>0. /\ op[p] = "cut"
      /\ tail' = tail + n
      /\ held' = [held EXCEPT ![p] = held[p] \cup {x}]
      /\ op' = [op EXCEPT ![p] = "unlock"]
      /\ UNCHANGED <<claimed, procmemlist, request>>
  BY DEF Cut, Does, Gain
<1>1. /\ x \in Blocks /\ x.index \in Indices /\ x.addr = tail
      /\ tail \in Nat /\ n \in Nat \ {0}
  BY <1>0, MemoryAssumption DEF MemInv, MemType, Asked, Blocks, Indices
<1>2. Bytes(x) = tail .. tail + n - 1 /\ Bytes(x)' = Bytes(x)
  BY <1>0, <1>1 DEF Bytes
<1> HIDE DEF x, n
<1>4. MemType'
  BY <1>0, <1>1 DEF MemInv, MemType, Inside
<1>5. Exclusive' /\ \A q \in Procs : Asked(q)'
  <2>1. op[p] \in Inside /\ \A q \in Procs \ {p} : held'[q] = held[q]
    BY <1>0 DEF MemInv, MemType, Inside
  <2>. QED BY <1>0, <2>1, MovesOn
<1>6. /\ held'[p] = held[p] \cup {x}
      /\ \A q \in Procs \ {p} : held'[q] = held[q]
      /\ Listed' = Listed
  BY <1>0 DEF MemInv, MemType, Listed
<1>7. \A y \in Known : Bytes(y) \subseteq 0 .. tail - 1
  BY DEF MemInv, Tiled
<1>8. \A y \in Known : Bytes(x) \cap Bytes(y) = {}
  BY <1>1, <1>2, <1>7
<1>9. x \notin Known
  <2>1. tail \in Bytes(x)
    BY <1>1, <1>2
  <2>. QED BY <1>8, <2>1
<1>10. Known' = Known \cup {x}
  <2>1. Kept' = Kept \cup {x}
    BY <1>6 DEF Kept
  <2>. QED BY <1>6, <2>1 DEF Known
<1>11. Owned'
  <2>1. x \notin Listed /\ \A q \in Procs : x \notin held[q]
    BY <1>9 DEF Known, Kept
  <2>2. \A q, r \in Procs : q # r => held'[q] \cap held'[r] = {}
    BY <1>6, <2>1 DEF MemInv, Owned
  <2>3. \A q \in Procs : held'[q] \cap Listed' = {}
    BY <1>6, <2>1 DEF MemInv, Owned
  <2>. QED BY <1>0, <2>2, <2>3 DEF MemInv, Owned
<1>12. Tiled'
  <2>1. \A y, z \in Known' : y # z => Bytes(y) \cap Bytes(z) = {}
    BY <1>8, <1>10 DEF MemInv, Tiled
  <2> DEFINE A == {Bytes(y) : y \in Known}
             B == {Bytes(y) : y \in Known'}
  <2>2. B = A \cup {Bytes(x)}
    BY <1>10
  <2>3. UNION A = 0 .. tail - 1
    BY DEF MemInv, Tiled
  <2>4. (0 .. tail - 1) \cup (tail .. tail + n - 1) = 0 .. tail' - 1
    BY <1>0, <1>1
  <2>5. UNION B = 0 .. tail' - 1
    <3> HIDE DEF A, B
    <3>1. UNION B = (UNION A) \cup Bytes(x)
      BY <2>2, Zenon
    <3>. QED BY <1>2, <2>3, <2>4, <3>1, Zenon
  <2>6. \A y : Bytes(y)' = Bytes(y)
    BY DEF Bytes
  <2>. QED BY <2>1, <2>5, <2>6 DEF Tiled, Bytes
<1>. QED BY <1>4, <1>5, <1>11, <1>12 DEF MemInv

(* p's block becomes the head of its list.                                 *)
LEMMA Links ==
  ASSUME MemInv, NEW p \in Procs, Link(p)
  PROVE  MemInv'
<1> DEFINE x == request[p]
           i == x.index
           list == procmemlist[i]
           new == <<x.addr>> \o list
<1>0. /\ op[p] = "link"
      /\ procmemlist' = [procmemlist EXCEPT ![i] = new]
      /\ held' = [held EXCEPT ![p] = held[p] \ {x}]
      /\ op' = [op EXCEPT ![p] = "unlock"]
      /\ UNCHANGED <<claimed, tail, request>>
  BY DEF Link, Does
<1>1. /\ x \in held[p] /\ x \in Blocks /\ i \in Indices /\ x.addr \in Nat
      /\ list \in Seq(Nat) /\ IsInjective(list)
  BY <1>0 DEF MemInv, MemType, Asked, Blocks, Owned
<1>2. x \notin Listed /\ \A q \in Procs \ {p} : x \notin held[q]
  BY <1>1 DEF MemInv, Owned
<1>3. x.addr \notin Range(list)
  BY <1>1, <1>2, ListedIs DEF MemInv, ByIndex
<1>4. /\ new \in Seq(Nat) /\ IsInjective(new)
      /\ Range(new) = {x.addr} \cup Range(list)
  BY <1>1, <1>3, ConsRange
<1> HIDE DEF x, i, list, new
<1>5. MemType'
  BY <1>0, <1>1, <1>4 DEF MemInv, MemType, Inside
<1>6. Exclusive' /\ \A q \in Procs : Asked(q)'
  <2>1. op[p] \in Inside /\ \A q \in Procs \ {p} : held'[q] = held[q]
    BY <1>0 DEF MemInv, MemType, Inside
  <2>. QED BY <1>0, <2>1, MovesOn
<1>7. /\ procmemlist'[i] = new
      /\ \A j \in Indices \ {i} : procmemlist'[j] = procmemlist[j]
      /\ held'[p] = held[p] \ {x}
      /\ \A q \in Procs \ {p} : held'[q] = held[q]
  BY <1>0, <1>1 DEF MemInv, MemType
<1>8. Listed' = Listed \cup {x}
  <2>1. /\ Listed = {y \in Blocks : y.addr \in Range(procmemlist[y.index])}
        /\ Listed' = {y \in Blocks : y.addr \in Range(procmemlist'[y.index])}
    <3>1. MemType' => ByIndex'
      BY ListedIs, PTL
    <3>. QED BY <1>5, <3>1, ListedIs DEF MemInv, ByIndex, Blocks, Indices
  <2>2. \A y \in Blocks : y.index \in Indices
    BY DEF Blocks
  <2>3. \A y \in Blocks : y.index = i /\ y.addr = x.addr => y = x
    BY <1>1 DEF Blocks, i
  <2>4. x.index = i /\ procmemlist[i] = list
    BY DEF i, list
  <2>5. ASSUME NEW y \in Blocks
        PROVE  y.addr \in Range(procmemlist'[y.index])
                 <=> y.addr \in Range(procmemlist[y.index]) \/ y = x
    <3>1. CASE y.index = i
      BY <1>4, <1>7, <2>3, <2>4, <3>1
    <3>2. CASE y.index # i
      BY <1>7, <2>2, <2>4, <3>2
    <3>. QED BY <3>1, <3>2
  <2>. QED BY <1>1, <2>1, <2>5
<1>9. Owned'
  <2>1. \A j \in Indices : IsInjective(procmemlist'[j])
    BY <1>4, <1>7 DEF MemInv, Owned
  <2>2. \A q, r \in Procs : q # r => held'[q] \cap held'[r] = {}
    BY <1>7 DEF MemInv, Owned
  <2>3. \A q \in Procs : held'[q] \cap Listed' = {}
    BY <1>2, <1>7, <1>8 DEF MemInv, Owned
  <2>. QED BY <2>1, <2>2, <2>3 DEF Owned
<1>10. Known' = Known
  <2>1. Kept \subseteq Kept' \cup {x} /\ Kept' \subseteq Kept
    BY <1>7 DEF Kept
  <2>2. x \in Kept
    BY <1>1 DEF Kept
  <2>. QED BY <1>8, <2>1, <2>2 DEF Known
<1>11. Tiled'
  BY <1>0, <1>10 DEF MemInv, Tiled, Bytes
<1>. QED BY <1>5, <1>6, <1>9, <1>11 DEF MemInv

-----------------------------------------------------------------------------
(* The theorems.                                                           *)

(* Every step preserves the invariant, whichever process has the processor *)
(* and whatever the scheduler does between two steps of the holder.        *)
THEOREM MemoryInvariant == MemorySpec => []MemInv
<1>1. ASSUME MemoryInit PROVE MemInv
  <2>1. MemType /\ Exclusive /\ \A p \in Procs : Asked(p)
    <3>1. /\ claimed = FALSE /\ tail = 0
          /\ procmemlist = [i \in Indices |-> << >>]
          /\ op = [p \in Procs |-> "none"]
          /\ request = [p \in Procs |-> NULL]
          /\ held = [p \in Procs |-> {}]
      BY <1>1 DEF MemoryInit
    <3>2. << >> \in Seq(Nat)
      OBVIOUS
    <3>3. MemType
      BY <3>1, <3>2 DEF MemType
    <3>. QED BY <3>1, <3>3 DEF Exclusive, Asked, Inside
  <2>2. \A i \in Indices : Range(procmemlist[i]) = {} /\ IsInjective(procmemlist[i])
    BY <1>1 DEF MemoryInit, Range, IsInjective
  <2>3. Listed = {}
    BY <2>2 DEF Listed
  <2>4. Known = {}
    BY <1>1, <2>3 DEF MemoryInit, Known, Kept
  <2>5. 0 .. tail - 1 = {}
    BY <1>1 DEF MemoryInit
  <2>6. Owned /\ Tiled
    BY <1>1, <2>2, <2>3, <2>4, <2>5 DEF MemoryInit, Owned, Tiled
  <2>. QED BY <2>1, <2>6 DEF MemInv
<1>2. ASSUME MemInv, [MemoryNext]_sysVars PROVE MemInv'
  <2>1. ASSUME NEW p \in Procs, NEW size \in Wants[p], allocate_mem(p, size) PROVE MemInv'
    <3>1. [index |-> find_mem_index(size), addr |-> NULL] \in Orders
      BY IndexFound DEF Orders
    <3>. QED BY <1>2, <2>1, <3>1, CallAsks DEF allocate_mem, Does
  <2>2. ASSUME NEW p \in Procs, NEW block \in held[p], release_mem(p, block) PROVE MemInv'
    BY <1>2, <2>2, CallAsks DEF release_mem, Does
  <2>3. ASSUME NEW p \in Procs, Allocator(p) PROVE MemInv'
    BY <1>2, <2>3, Exchanges, Looks, Unlinks, Cuts, Links, Unlocks DEF Allocator
  <2>4. CASE UNCHANGED memVars
    BY <1>2, <2>4, Stands
  <2>. QED BY <1>2, <2>1, <2>2, <2>3, <2>4 DEF MemoryNext, sysVars
<1>. QED BY <1>1, <1>2, PTL DEF MemorySpec

(* Every byte below the tail belongs to one block, which is on one list,   *)
(* once, or belongs to one process (memory.c:56-110).                      *)
THEOREM MemoryPartition == MemorySpec => []Partition
<1>1. MemInv => Partition
  BY PartitionIs DEF MemInv
<1>. QED BY <1>1, MemoryInvariant, PTL

-----------------------------------------------------------------------------
(* User interrupts: the names that receive stores and transmit takes.  The *)
(* handler that finds no name does not look at the ready queue, which is   *)
(* no step of Sched, so the invariants above are shown again for it.       *)

\* No two processes of a processor receive the same interrupt.
OneReceiver ==
  \A p, q \in Procs :
    Place[p] = Place[q] /\ Listens[p] \cap Listens[q] # {} => p = q

UserType ==
  /\ interrupts \in [Puns -> [Users -> Procs \cup {NULL}]]
  /\ receives \in [Procs -> Users \cup {NULL}]
  /\ serves \in [All -> Users \cup {NULL}]
  /\ \A p \in Procs : receives[p] # NULL => receives[p] \in Listens[p]

\* A receiver is named for its interrupt from the store on, and nobody else is
\* named.
NamesOK ==
  /\ \A p \in Procs : receives[p] # NULL =>
       pc[p] = "publish" \/ interrupts[Place[p]][receives[p]] = p
  /\ \A u \in Puns, n \in Users :
       LET p == interrupts[u][n]
       IN  p # NULL => /\ receives[p] = n /\ Place[p] = u
                       /\ p \in waiting /\ pc[p] # "publish"

NamesInv == UserType /\ NamesOK

(* What the names have to do with the places of processes: a process that  *)
(* is not waiting where a waker finds it receives nothing, or has not yet  *)
(* stored its name.                                                        *)
LEMMA NotNamed ==
  ASSUME NamesInv, NEW p \in Procs, p \notin waiting \/ pc[p] = "publish",
         Place[p] \in Puns, NULL \notin Procs
  PROVE  /\ \A u \in Puns, n \in Users : interrupts[u][n] # p
         /\ receives[p] # NULL => pc[p] = "publish"
<1>1. \A u \in Puns, n \in Users : interrupts[u][n] # p
  BY DEF NamesInv, NamesOK
<1>2. receives[p] # NULL => receives[p] \in Users
  BY DEF NamesInv, UserType
<1>. QED BY <1>1, <1>2 DEF NamesInv, NamesOK

(* A process that runs its own code and does not wait receives nothing.    *)
LEMMA AtEase ==
  ASSUME BaseInv, WakeInv, NamesInv, NEW p \in Procs, Running(p),
         pc[p] \in {"run", "free", "schedule"}
  PROVE  receives[p] = NULL /\ p \notin waiting
<1>1. Status(p) /\ Place[p] \in Puns /\ NULL \notin Procs
  BY Constants DEF WakeInv
<1>2. p \notin waiting
  BY <1>1 DEF Status, Expected
<1>. QED BY <1>1, <1>2, NotNamed

(* A step of the scheduler that leaves the names alone.                    *)
LEMMA NamesStay ==
  ASSUME NamesInv, UNCHANGED <<interrupts, receives>>,
         serves' \in [All -> Users \cup {NULL}],
         waiting \cap Named \subseteq waiting',
         \A x \in Procs : receives[x] # NULL => (pc'[x] = "publish" <=> pc[x] = "publish")
  PROVE  NamesInv'
<1>1. UserType'
  BY DEF NamesInv, UserType
<1>2. ASSUME NEW u \in Puns, NEW n \in Users, interrupts[u][n] # NULL
      PROVE  LET p == interrupts[u][n]
             IN  receives[p] = n /\ Place[p] = u /\ p \in waiting' /\ pc'[p] # "publish"
  <2> DEFINE p == interrupts[u][n]
  <2>1. /\ p \in Procs /\ receives[p] = n /\ Place[p] = u
        /\ p \in waiting /\ pc[p] # "publish" /\ p \in Named
    BY <1>2 DEF NamesInv, NamesOK, UserType, Named
  <2>2. n # NULL
    BY InterruptAssumption
  <2>. QED BY <2>1, <2>2
<1>3. NamesOK'
  BY <1>2 DEF NamesInv, NamesOK
<1>. QED BY <1>1, <1>3 DEF NamesInv

(* receive, up to the store.                                               *)
LEMMA ReceiveNames ==
  ASSUME BaseInv, WakeInv, NamesInv, NEW p \in Procs, NEW n \in Users, Receive(p, n)
  PROVE  NamesInv'
<1>0. /\ n \in Listens[p] /\ Running(p) /\ pc[p] = "run"
      /\ pc' = [pc EXCEPT ![p] = "publish"] /\ receives' = [receives EXCEPT ![p] = n]
      /\ UNCHANGED <<interrupts, serves, waiting>>
  BY DEF Receive, PrepareToWait, Runs, Running
<1>1. /\ receives[p] = NULL /\ p \notin waiting
      /\ Procs \subseteq All /\ \A x \in Procs : Place[x] \in Puns
      /\ NULL \notin Procs
      /\ pc \in [All -> PCs] /\ receives \in [Procs -> Users \cup {NULL}]
  BY <1>0, AtEase, Constants DEF NamesInv, UserType, BaseInv, TypeOK
<1>2. /\ pc'[p] = "publish" /\ \A x \in Procs : x # p => pc'[x] = pc[x]
      /\ receives'[p] = n /\ \A x \in Procs : x # p => receives'[x] = receives[x]
  BY <1>0, <1>1
<1>3. \A u \in Puns, m \in Users : interrupts[u][m] # p
  BY <1>1, NotNamed
<1>4. UserType'
  BY <1>0, <1>2 DEF NamesInv, UserType
<1>5. NamesOK'
  <2>1. ASSUME NEW x \in Procs, receives'[x] # NULL
        PROVE  pc'[x] = "publish" \/ interrupts'[Place[x]][receives'[x]] = x
    BY <1>0, <1>2, <2>1 DEF NamesInv, NamesOK
  <2>2. ASSUME NEW u \in Puns, NEW m \in Users, interrupts[u][m] # NULL
        PROVE  LET x == interrupts[u][m]
               IN  receives'[x] = m /\ Place[x] = u /\ x \in waiting' /\ pc'[x] # "publish"
    <3>1. interrupts[u][m] \in Procs /\ interrupts[u][m] # p
      BY <1>3, <2>2 DEF NamesInv, UserType
    <3>. QED BY <1>0, <1>2, <2>2, <3>1 DEF NamesInv, NamesOK
  <2>. QED BY <1>0, <2>1, <2>2 DEF NamesOK
<1>. QED BY <1>4, <1>5 DEF NamesInv

(* receive stores its name, over nobody else's.                            *)
LEMMA StoreNames ==
  ASSUME OneReceiver, BaseInv, WakeInv, NamesInv, NEW p \in Procs, StoreName(p)
  PROVE  NamesInv'
<1> DEFINE n == receives[p]
           u == Place[p]
<1>0. /\ n # NULL /\ pc[p] = "publish"
      /\ pc' = [pc EXCEPT ![p] = "relinquish"] /\ waiting' = waiting \cup {p}
      /\ interrupts' = [interrupts EXCEPT ![u][n] = p]
      /\ UNCHANGED <<receives, serves>>
  BY DEF StoreName, Publish
<1>1. /\ n \in Users /\ n \in Listens[p] /\ u \in Puns
      /\ Procs \subseteq All /\ \A x \in Procs : Place[x] \in Puns
      /\ NULL \notin Procs
      /\ pc \in [All -> PCs]
      /\ interrupts \in [Puns -> [Users -> Procs \cup {NULL}]]
  BY <1>0, Constants DEF NamesInv, UserType, BaseInv, TypeOK
<1>2. /\ pc'[p] = "relinquish" /\ \A x \in Procs : x # p => pc'[x] = pc[x]
  BY <1>0, <1>1
<1>3. /\ interrupts'[u][n] = p
      /\ \A w \in Puns, m \in Users : w # u \/ m # n => interrupts'[w][m] = interrupts[w][m]
      /\ interrupts' \in [Puns -> [Users -> Procs \cup {NULL}]]
  BY <1>0, <1>1
<1>4. \A w \in Puns, m \in Users : interrupts[w][m] # p
  BY <1>0, <1>1, NotNamed
<1>5. interrupts[u][n] = NULL
  <2> SUFFICES ASSUME interrupts[u][n] # NULL PROVE FALSE
    OBVIOUS
  <2> DEFINE q == interrupts[u][n]
  <2>1. q \in Procs /\ receives[q] = n /\ Place[q] = u
    BY <1>1 DEF NamesInv, NamesOK, UserType
  <2>2. n \in Listens[q]
    BY <1>0, <2>1 DEF NamesInv, UserType
  <2>3. q = p
    BY <1>1, <2>1, <2>2 DEF OneReceiver
  <2>. QED BY <1>1, <1>4, <2>3
<1>6. UserType'
  BY <1>0, <1>3 DEF NamesInv, UserType
<1>7. NamesOK'
  <2>1. ASSUME NEW x \in Procs, receives[x] # NULL
        PROVE  pc'[x] = "publish" \/ interrupts'[Place[x]][receives[x]] = x
    <3>1. CASE x = p
      BY <1>3, <3>1
    <3>2. CASE x # p
      <4>1. receives[x] \in Users
        BY <2>1 DEF NamesInv, UserType
      <4>2. pc[x] = "publish" \/ interrupts[Place[x]][receives[x]] = x
        BY <2>1 DEF NamesInv, NamesOK
      <4>. QED BY <1>1, <1>2, <1>3, <1>5, <3>2, <4>1, <4>2
    <3>. QED BY <3>1, <3>2
  <2>2. ASSUME NEW w \in Puns, NEW m \in Users, interrupts'[w][m] # NULL
        PROVE  LET x == interrupts'[w][m]
               IN  receives[x] = m /\ Place[x] = w /\ x \in waiting' /\ pc'[x] # "publish"
    <3>1. CASE w = u /\ m = n
      BY <1>0, <1>2, <1>3, <3>1
    <3>2. CASE w # u \/ m # n
      <4>1. /\ interrupts'[w][m] = interrupts[w][m]
            /\ interrupts[w][m] \in Procs /\ interrupts[w][m] # p
        BY <1>1, <1>3, <1>4, <2>2, <3>2
      <4>. QED BY <1>0, <1>2, <2>2, <4>1 DEF NamesInv, NamesOK
    <3>. QED BY <3>1, <3>2
  <2>. QED BY <1>0, <2>1, <2>2 DEF NamesOK
<1>. QED BY <1>6, <1>7 DEF NamesInv

(* transmit takes the name of a receiver.                                  *)
LEMMA TransmitNames ==
  ASSUME BaseInv, WakeInv, NamesInv, NEW p \in All, Transmit(p)
  PROVE  /\ NamesInv'
         /\ \E x \in waiting : IntrWake(p, x)
<1> DEFINE u == Place[p]
           n == serves[p]
           q == interrupts[u][n]
<1>0. /\ n # NULL /\ q # NULL /\ IntrWake(p, q)
      /\ waiting' = waiting \ {q} /\ UNCHANGED pc
      /\ interrupts' = [interrupts EXCEPT ![u][n] = NULL]
      /\ receives' = [receives EXCEPT ![q] = NULL]
      /\ serves' = [serves EXCEPT ![p] = NULL]
  BY DEF Transmit, TakeName, IntrWake
<1>1. /\ n \in Users /\ u \in Puns /\ q \in Procs /\ NULL \notin Procs
      /\ \A x \in Procs : Place[x] \in Puns
      /\ receives[q] = n /\ Place[q] = u /\ q \in waiting
      /\ interrupts \in [Puns -> [Users -> Procs \cup {NULL}]]
      /\ receives \in [Procs -> Users \cup {NULL}]
      /\ serves \in [All -> Users \cup {NULL}]
  <2>1. n \in Users /\ u \in Puns /\ NULL \notin Procs /\ \A x \in Procs : Place[x] \in Puns
    BY <1>0, Constants DEF NamesInv, UserType
  <2>2. /\ interrupts \in [Puns -> [Users -> Procs \cup {NULL}]]
        /\ receives \in [Procs -> Users \cup {NULL}]
        /\ serves \in [All -> Users \cup {NULL}]
    BY DEF NamesInv, UserType
  <2>. QED BY <1>0, <2>1, <2>2 DEF NamesInv, NamesOK
<1> HIDE DEF q
<1>2. /\ interrupts'[u][n] = NULL
      /\ \A w \in Puns, m \in Users : w # u \/ m # n => interrupts'[w][m] = interrupts[w][m]
      /\ interrupts' \in [Puns -> [Users -> Procs \cup {NULL}]]
      /\ receives'[q] = NULL /\ \A x \in Procs : x # q => receives'[x] = receives[x]
      /\ serves' \in [All -> Users \cup {NULL}]
      /\ receives' \in [Procs -> Users \cup {NULL}]
  BY <1>0, <1>1
<1>3. UserType'
  BY <1>2 DEF NamesInv, UserType
<1>4. NamesOK'
  <2>1. ASSUME NEW x \in Procs, receives'[x] # NULL
        PROVE  pc'[x] = "publish" \/ interrupts'[Place[x]][receives'[x]] = x
    <3>1. x # q /\ receives'[x] = receives[x] /\ receives[x] \in Users
      BY <1>1, <1>2, <2>1
    <3>2. pc[x] = "publish" \/ interrupts[Place[x]][receives[x]] = x
      BY <2>1, <3>1 DEF NamesInv, NamesOK
    <3>3. interrupts[u][n] = q
      BY DEF q
    <3>. QED BY <1>0, <1>1, <1>2, <3>1, <3>2, <3>3
  <2>2. ASSUME NEW w \in Puns, NEW m \in Users, interrupts'[w][m] # NULL
        PROVE  LET x == interrupts'[w][m]
               IN  receives'[x] = m /\ Place[x] = w /\ x \in waiting' /\ pc'[x] # "publish"
    <3> DEFINE x == interrupts[w][m]
    <3>1. (w # u \/ m # n) /\ interrupts'[w][m] = x /\ x # NULL
      BY <1>2, <2>2
    <3>2. x \in Procs /\ receives[x] = m /\ Place[x] = w /\ x \in waiting /\ pc[x] # "publish"
      BY <1>1, <3>1 DEF NamesInv, NamesOK
    <3>3. x # q
      BY <1>1, <3>1, <3>2
    <3>. QED BY <1>0, <1>2, <3>1, <3>2, <3>3
  <2>. QED BY <2>1, <2>2 DEF NamesOK
<1>. QED BY <1>0, <1>1, <1>3, <1>4 DEF NamesInv

(* A step that takes one process further in its own code.                  *)
LEMMA NamesGoOn ==
  ASSUME BaseInv, NamesInv, UNCHANGED userVars, waiting \cap Named \subseteq waiting',
         NEW p \in All, NEW l \in PCs, pc' = [pc EXCEPT ![p] = l],
         p \in Procs => \/ receives[p] = NULL
                        \/ pc[p] # "publish" /\ l # "publish"
  PROVE  NamesInv'
<1>1. pc \in [All -> PCs] /\ Procs \subseteq All
  BY Constants DEF BaseInv, TypeOK
<1>2. pc'[p] = l /\ \A x \in All : x # p => pc'[x] = pc[x]
  BY <1>1
<1>3. \A x \in Procs : receives[x] # NULL => (pc'[x] = "publish" <=> pc[x] = "publish")
  BY <1>1, <1>2
<1>. QED BY <1>3, NamesStay DEF userVars, NamesInv, UserType

(* A process goes on with something else.                                  *)
LEMMA AppNames ==
  ASSUME BaseInv, WakeInv, NamesInv, NEW p \in Procs, OtherApp(p), UNCHANGED userVars
  PROVE  NamesInv' /\ AppStep(p)
<1>0. p \in All /\ UNCHANGED <<interrupts, receives, serves>>
  BY Constants DEF userVars
<1>1. CASE PrepareToWait(p)
  <2>1. receives[p] = NULL
    BY <1>1, AtEase DEF PrepareToWait, Runs, Running
  <2>. QED BY <1>0, <1>1, <2>1, NamesGoOn DEF PrepareToWait, AppStep, PCs
<1>2. CASE receives[p] = NULL /\ Publish(p)
  BY <1>0, <1>2, NamesGoOn DEF Publish, AppStep, PCs
<1>3. CASE Yield(p) \/ Disable(p) \/ ScheduleRemote(p)
  <2>1. UNCHANGED <<pc, waiting>>
    BY <1>3 DEF Yield, Disable, ScheduleRemote
  <2>2. NamesInv'
    BY <1>0, <2>1, NamesStay DEF NamesInv, UserType
  <2>. QED BY <1>3, <2>2 DEF AppStep
<1>4. CASE Relinquish(p)
  <2>1. PICK l \in {"run", "disable"} : pc' = [pc EXCEPT ![p] = l]
    BY <1>4 DEF Relinquish
  <2>2. NamesInv'
    BY <1>0, <1>4, <2>1, NamesGoOn DEF Relinquish, PCs
  <2>. QED BY <1>4, <2>2 DEF AppStep
<1>5. CASE \E x \in waiting \ Named : Claim(p, x)
  <2>1. PICK x \in waiting \ Named : Claim(p, x)
    BY <1>5
  <2>2. waiting \cap Named \subseteq waiting'
    BY <2>1 DEF Claim
  <2>3. NamesInv'
    BY <1>0, <2>1, <2>2, NamesGoOn DEF Claim, PCs
  <2>. QED BY <2>1, <2>3 DEF AppStep
<1>6. CASE Free(p)
  <2>1. PICK l \in {"run", "schedule"} : pc' = [pc EXCEPT ![p] = l]
    BY <1>6 DEF Free
  <2>2. NamesInv'
    BY <1>0, <1>6, <2>1, NamesGoOn DEF Free, PCs
  <2>. QED BY <1>6, <2>2 DEF AppStep
<1>7. CASE ScheduleLocal(p)
  BY <1>0, <1>7, NamesGoOn DEF ScheduleLocal, AppStep, PCs
<1>. QED BY <1>1, <1>2, <1>3, <1>4, <1>5, <1>6, <1>7 DEF OtherApp

(* A step in the kernel that is none of transmit.                          *)
LEMMA KernelNames ==
  ASSUME BaseInv, WakeInv, NamesInv, NEW p \in All, OtherKernel(p), UNCHANGED userVars
  PROVE  NamesInv' /\ KernelStep(p)
<1>0. UNCHANGED <<interrupts, receives, serves>> /\ serves \in [All -> Users \cup {NULL}]
  BY DEF userVars, NamesInv, UserType
<1>1. CASE \/ Drain(p) \/ YieldSwitch(p) \/ Preempt(p) \/ IpiEnter(p)
           \/ IpiStep(p) \/ IpiDone(p) \/ IntrEnter(p) \/ IntrDone(p)
  <2>1. UNCHANGED <<pc, waiting>>
    BY <1>1 DEF Drain, YieldSwitch, Preempt, IpiEnter, IpiStep, IpiDone, IntrEnter, IntrDone
  <2>2. NamesInv'
    BY <1>0, <2>1, NamesStay
  <2>. QED BY <1>1, <2>2 DEF KernelStep
<1>2. CASE Switch(p)
  <2>1. p \in Procs => pc[p] # "publish"
    BY <1>2 DEF Switch, RunsIn, WakeInv, Calls
  <2>2. NamesInv'
    BY <1>2, <2>1, NamesGoOn DEF Switch, PCs
  <2>. QED BY <1>2, <2>2 DEF KernelStep
<1>3. CASE IpqAdd(p)
  <2>1. pc[p] = "schedule"
    BY <1>3 DEF IpqAdd, RunsIn, BaseInv, Steady
  <2>2. NamesInv'
    BY <1>3, <2>1, NamesGoOn DEF IpqAdd, PCs
  <2>. QED BY <1>3, <2>2 DEF KernelStep
<1>4. CASE \E x \in waiting \ Named : IntrWake(p, x)
  <2>1. PICK x \in waiting \ Named : IntrWake(p, x)
    BY <1>4
  <2>2. waiting \cap Named \subseteq waiting' /\ UNCHANGED pc
    BY <2>1 DEF IntrWake
  <2>3. NamesInv'
    BY <1>0, <2>2, NamesStay
  <2>. QED BY <2>1, <2>3 DEF KernelStep
<1>. QED BY <1>1, <1>2, <1>3, <1>4 DEF OtherKernel

(* A handler that misses its receiver returns at once.                     *)
LEMMA MissKeeps ==
  ASSUME BaseInv, WakeInv, NamesInv, NEW p \in All, Miss(p)
  PROVE  BaseInv' /\ WakeInv' /\ NamesInv'
<1>0. /\ Running(p) /\ kernel' = [kernel EXCEPT ![p] = "none"]
      /\ serves' = [serves EXCEPT ![p] = NULL]
      /\ UNCHANGED <<current, rdyQues, ipQues, ipi, sched_state, waiting, pc, wakee,
                     interrupts, receives>>
  BY DEF Miss, RunsIn, Running
<1>1. kernel \in [All -> Kernels] /\ "none" \in Kernels
  BY DEF BaseInv, TypeOK, Kernels
<1>2. kernel'[p] = "none" /\ \A x \in All : x # p => kernel'[x] = kernel[x]
  BY <1>0, <1>1
<1>3. BaseInv'
  <2>1. TypeOK'
    BY <1>0, <1>1 DEF BaseInv, TypeOK
  <2>2. Placed'
    BY <1>0 DEF BaseInv, Placed
  <2>3. Steady'
    BY <1>0, <1>2 DEF BaseInv, Steady
  <2>. QED BY <2>1, <2>2, <2>3 DEF BaseInv
<1>4. Calls'
  BY <1>0, <1>1, CallsKeep DEF WakeInv
<1>5. WakeInv'
  BY <1>0, <1>4, KernelOnly DEF WakeInv
<1>6. serves' \in [All -> Users \cup {NULL}]
  BY <1>0 DEF NamesInv, UserType
<1>7. NamesInv'
  BY <1>0, <1>6, NamesStay
<1>. QED BY <1>3, <1>5, <1>7

(* Every step keeps the three invariants.                                  *)
LEMMA InterruptKeeps ==
  Level /\ OneReceiver /\ BaseInv /\ WakeInv /\ NamesInv /\ [InterruptNext]_allVars
    => BaseInv' /\ WakeInv' /\ NamesInv'
<1> SUFFICES ASSUME Level, OneReceiver, BaseInv, WakeInv, NamesInv,
                    [InterruptNext]_allVars
             PROVE  BaseInv' /\ WakeInv' /\ NamesInv'
  OBVIOUS
<1>0. Next \/ UNCHANGED vars => BaseInv' /\ WakeInv'
  BY BaseNext, WakeNext
<1>1. ASSUME NEW p \in Procs, NEW n \in Users, Receive(p, n)
      PROVE  BaseInv' /\ WakeInv' /\ NamesInv'
  <2>1. Next
    BY <1>1 DEF Receive, AppStep, Next
  <2>. QED BY <1>0, <1>1, <2>1, ReceiveNames
<1>2. ASSUME NEW p \in Procs, StoreName(p) PROVE BaseInv' /\ WakeInv' /\ NamesInv'
  <2>1. Next
    BY <1>2 DEF StoreName, AppStep, Next
  <2>. QED BY <1>0, <1>2, <2>1, StoreNames
<1>3. ASSUME NEW p \in All, NEW n \in Users, UserEnter(p, n)
      PROVE  BaseInv' /\ WakeInv' /\ NamesInv'
  <2>1. Next
    BY <1>3 DEF UserEnter, KernelStep, Next
  <2>2. serves' \in [All -> Users \cup {NULL}]
    BY <1>3 DEF UserEnter, NamesInv, UserType
  <2>3. NamesInv'
    BY <1>3, <2>2, NamesStay DEF UserEnter, IntrEnter
  <2>. QED BY <1>0, <2>1, <2>3
<1>4. ASSUME NEW p \in All, Transmit(p) PROVE BaseInv' /\ WakeInv' /\ NamesInv'
  <2>1. NamesInv' /\ \E x \in waiting : IntrWake(p, x)
    BY <1>4, TransmitNames
  <2>2. Next
    BY <2>1 DEF KernelStep, Next
  <2>. QED BY <1>0, <2>1, <2>2
<1>5. ASSUME NEW p \in Procs, OtherApp(p), UNCHANGED userVars
      PROVE  BaseInv' /\ WakeInv' /\ NamesInv'
  <2>1. NamesInv' /\ AppStep(p)
    BY <1>5, AppNames
  <2>. QED BY <1>0, <2>1 DEF Next
<1>6. ASSUME NEW p \in All, OtherKernel(p), UNCHANGED userVars
      PROVE  BaseInv' /\ WakeInv' /\ NamesInv'
  <2>1. NamesInv' /\ KernelStep(p)
    BY <1>6, KernelNames
  <2>. QED BY <1>0, <2>1 DEF Next
<1>7. ASSUME UNCHANGED <<vars, interrupts, receives, serves>>
      PROVE  BaseInv' /\ WakeInv' /\ NamesInv'
  <2>1. NamesInv'
    BY <1>7, NamesStay DEF vars, NamesInv, UserType
  <2>. QED BY <1>0, <1>7, <2>1
<1>8. ASSUME NEW p \in Procs, NEW n \in Users, send_interrupt(p, n)
      PROVE  BaseInv' /\ WakeInv' /\ NamesInv'
  BY <1>7, <1>8 DEF send_interrupt
<1>9. CASE UNCHANGED allVars
  BY <1>7, <1>9 DEF allVars, userVars
<1>. QED
  BY <1>1, <1>2, <1>3, <1>4, <1>5, <1>6, <1>8, <1>9, MissKeeps DEF InterruptNext

(* They hold at the beginning.                                             *)
LEMMA InterruptStart == InterruptInit => BaseInv /\ WakeInv /\ NamesInv
<1> SUFFICES ASSUME InterruptInit PROVE BaseInv /\ WakeInv /\ NamesInv
  OBVIOUS
<1>1. BaseInv /\ WakeInv
  BY BaseInit, WakeInit DEF InterruptInit
<1>2. UserType
  BY DEF InterruptInit, UserType
<1>3. NamesOK
  BY DEF InterruptInit, NamesOK
<1>. QED BY <1>1, <1>2, <1>3 DEF NamesInv

(* A receiver's name stands for its interrupt from the store until         *)
(* transmit takes it, and only while the process waits (interrupt.c:72),   *)
(* where each interrupt of a processor has one receiver and nobody but the *)
(* idle process is preempted.                                              *)
THEOREM InterruptReceiver ==
  Level /\ OneReceiver => (InterruptSpec => []ReceiverKept)
<1> SUFFICES ASSUME Level, OneReceiver PROVE InterruptSpec => []ReceiverKept
  OBVIOUS
<1>1. BaseInv /\ WakeInv /\ NamesInv => ReceiverKept
  <2> SUFFICES ASSUME BaseInv, WakeInv, NamesInv PROVE ReceiverKept
    OBVIOUS
  <2>1. ASSUME NEW u \in Puns, NEW n \in Users, interrupts[u][n] # NULL
        PROVE  LET p == interrupts[u][n]
               IN  /\ receives[p] = n /\ Place[p] = u
                   /\ p \in waiting /\ ~ Ready(p) /\ ~ Claimed(p)
                   /\ sched_state[p] \in {"PREPARING_TO_WAIT", "WAITING"}
    <3> DEFINE p == interrupts[u][n]
    <3>1. p \in Procs /\ receives[p] = n /\ Place[p] = u /\ p \in waiting
      BY <2>1 DEF NamesInv, NamesOK, UserType
    <3>2. Status(p) /\ pc[p] \in PCs
      BY <3>1, Constants DEF WakeInv, BaseInv, TypeOK
    <3>. QED BY <3>1, <3>2 DEF Status, Expected, PCs
  <2>. QED BY <2>1 DEF ReceiverKept, NamesInv, NamesOK
<1>2. InterruptInit => BaseInv /\ WakeInv /\ NamesInv
  BY InterruptStart
<1>3. BaseInv /\ WakeInv /\ NamesInv /\ [InterruptNext]_allVars
        => BaseInv' /\ WakeInv' /\ NamesInv'
  BY InterruptKeeps
<1>. QED BY <1>1, <1>2, <1>3, PTL DEF InterruptSpec

(* Nor does the missed interrupt, whose handler does not look at the ready *)
(* queue, lose or double a wake of the scheduler.                          *)
THEOREM InterruptWakes ==
  Level /\ OneReceiver => (InterruptSpec => [](NeverLost /\ ReadyOnce))
<1> SUFFICES ASSUME Level, OneReceiver PROVE InterruptSpec => [](NeverLost /\ ReadyOnce)
  OBVIOUS
<1>1. BaseInv /\ WakeInv => NeverLost /\ ReadyOnce
  BY WakesKept
<1>2. InterruptInit => BaseInv /\ WakeInv /\ NamesInv
  BY InterruptStart
<1>3. BaseInv /\ WakeInv /\ NamesInv /\ [InterruptNext]_allVars
        => BaseInv' /\ WakeInv' /\ NamesInv'
  BY InterruptKeeps
<1>. QED BY <1>1, <1>2, <1>3, PTL DEF InterruptSpec

-----------------------------------------------------------------------------
(* par and termination.  The inductive invariant ParInv says of the        *)
(* barrier which children it counts, of the parent where it is in its      *)
(* wait, of its wake that there is none before the last child has called   *)
(* par_barr_sync and one afterwards, and of the processes that terminate   *)
(* who holds the mutex of the termination stack.  Processes may have any   *)
(* priorities: preemption can lose a process, but wakes none twice.        *)

\* The children that run, as the barrier counts them.
Bodies == {p \in Children : at[p] = "body"}

\* Every child of this par has called par_barr_sync.
Woken == at[Parent] # "main" /\ children = 0

\* The stages a process goes through; one that has released its record may
\* already have been built anew.
LifeType ==
  /\ at \in [Procs -> Ats]
  /\ at[Parent] \in {"main", "create", "join"}
  /\ \A p \in Children : at[p] \in {"free", "body", "terminate", "release"}
  /\ children \in 0..Len(Roles) /\ made \in 0..Len(Roles) /\ pars \in 0..MaxPars
  /\ term \in [Puns -> Procs \cup {NULL}]
  /\ dying \subseteq Children
  /\ \A p \in dying : at[p] \in {"free", "body"}

\* The barrier counts the children that are not yet built and those that run.
Counted ==
  /\ IsFiniteSet(Bodies)
  /\ at[Parent] = "main" => children = 0 /\ Bodies = {}
  /\ at[Parent] # "main" => children = Len(Roles) - made + Cardinality(Bodies)
  /\ at[Parent] = "join" => made = Len(Roles)

\* Nobody but the last child wakes the parent, whose state shows that it is
\* about to wait until it does.
Asleep ==
  /\ waiting \subseteq Others
  /\ \A p \in All \ Procs : pc[p] = "run"
  /\ kernel[Parent] = "take" => at[Parent] = "join" /\ pc[Parent] = "disable"
  /\ kernel[Parent] = "take1" => at[Parent] = "create" /\ made < Len(Roles)
  /\ at[Parent] = "main" => pc[Parent] = "run"
  /\ at[Parent] = "create" => pc[Parent] \in {"run", "schedule"}
  /\ at[Parent] = "join" => pc[Parent] \in {"relinquish", "disable", "run"}
  /\ at[Parent] = "create" \/ pc[Parent] = "relinquish"
       => sched_state[Parent] = "PREPARING_TO_WAIT"

\* p is about to schedule the parent; the wake is under way.
Waked(p) == wakee[p] = Parent
Pending == Posted(Parent) \/ \E p \in All : Waked(p)

\* The wake of the parent: there is none before the last child has ended, and
\* then one.
Token ==
  /\ OnceIn(rdyQues[Place[Parent]], Parent)
  /\ OnceIn(ipQues[Place[Parent]], Parent)
  /\ \A p \in All : ~ (Posted(Parent) /\ Waked(p))
  /\ \A p, q \in All : Waked(p) /\ Waked(q) => p = q
  /\ ~ Woken => ~ Pending
  /\ Running(Parent) /\ Queued(Parent) => Woken /\ ~ Pending
  /\ at[Parent] = "join" /\ pc[Parent] = "run" =>
       /\ Running(Parent) \/ Queued(Parent) => Woken /\ ~ Pending
       /\ ~ (Running(Parent) /\ Queued(Parent))

\* A process on the termination stack, from terminate to the switch, holds the
\* mutex; one that has released it is alone and keeps the processor.
Leaving(p) == p \in dying \/ at[p] = "release"
Stack ==
  \A p \in Children : Leaving(p) =>
    \/ term[Place[p]] = p
    \/ /\ p \in dying /\ RunsIn(p, "take")
       /\ \A q \in Children : Place[q] = Place[p] /\ Leaving(q) => q = p

-----------------------------------------------------------------------------
(* The kernel below: types, places and the order of the ready queues.      *)

\* The steps of the scheduler that ParNext takes over.
Carried(p) ==
  \/ MayYield(p) /\ Yield(p)
  \/ p \in Others /\ (PrepareToWait(p) \/ Publish(p) \/ Yield(p))
  \/ Scheduling(p)

(* Children, the parent and the others are different processes.            *)
LEMMA Roster ==
  /\ Parent \in Procs /\ Parent \in All /\ Children \subseteq Procs
  /\ Parent \notin Children /\ Parent \notin Others /\ Others \subseteq Procs
  /\ Children \cap Others = {} /\ Procs = Children \cup Others \cup {Parent}
  /\ Len(Roles) \in Nat /\ Len(Roles) > 0
  /\ \A i \in 1..Len(Roles) : Roles[i] \subseteq Children
<1>1. /\ Roles \in Seq(SUBSET (Procs \ {Parent})) /\ Roles # << >> /\ Parent \in Procs
      /\ \A i \in 1..Len(Roles) : Roles[i] \in SUBSET (Procs \ {Parent})
  BY ParAssumption
<1>2. Range(Roles) = {Roles[i] : i \in 1..Len(Roles)}
  BY <1>1 DEF Range
<1>3. Children \subseteq Procs \ {Parent}
  BY <1>1, <1>2 DEF Children
<1>4. \A i \in 1..Len(Roles) : Roles[i] \subseteq Children
  BY <1>2 DEF Children
<1>5. Len(Roles) \in Nat /\ Len(Roles) > 0
  BY <1>1, EmptySeq
<1>. QED BY <1>1, <1>3, <1>4, <1>5, Constants DEF Others

(* A step of the scheduler is a step of Sched.  No process calls from the  *)
(* idle process.                                                           *)
LEMMA CarriedIs ==
  ASSUME NEW p \in All, Carried(p), \A x \in All \ Procs : pc[x] = "run"
  PROVE  Next
<1>1. CASE p \in Procs
  BY <1>1 DEF Carried, Scheduling, Interrupt, Next, AppStep, KernelStep
<1>2. CASE p \notin Procs
  <2>1. pc[p] = "run" /\ p \notin Children /\ p \notin Others
    BY <1>2, Roster
  <2>2. ~ MayYield(p)
    BY <1>2, Roster DEF MayYield
  <2>. QED BY <2>1, <2>2 DEF Carried, Scheduling, Interrupt, Next, KernelStep, Relinquish,
                            Disable, ScheduleLocal, ScheduleRemote
<1>. QED BY <1>1, <1>2

(* build_process, and enqueue for a child of this processor.               *)
LEMMA CreateBase ==
  ASSUME BaseInv, Sorted, LifeType, NEW r \in Children, Create(r)
  PROVE  BaseInv' /\ Sorted'
<1>0. /\ r \in Procs /\ r \in All /\ r # Parent /\ Parent \in All /\ Place[r] \in Puns
      /\ current \in [Puns -> All] /\ kernel \in [All -> Kernels]
      /\ Procs \subseteq All
  BY Roster, Constants DEF BaseInv, TypeOK
<1>1. /\ UNCHANGED <<current, ipQues, ipi, waiting, kernel>>
      /\ sched_state' = [sched_state EXCEPT ![r] = "WAITING"]
      /\ current[Place[Parent]] = Parent /\ kernel[Parent] = "none"
      /\ \/ Enqueue(Place[r], r) /\ UNCHANGED <<pc, wakee>>
         \/ /\ pc' = [pc EXCEPT ![Parent] = "schedule"]
            /\ wakee' = [wakee EXCEPT ![Parent] = r]
            /\ UNCHANGED rdyQues
  BY DEF Create, Build, Lives, Runs
<1>2. /\ rdyQues' \in [Puns -> Seq(All)]
      /\ \A w \in Puns : \A y \in Range(rdyQues'[w]) : Place[y] = w
      /\ \A w \in Puns : rdyQues[w] # << >> => rdyQues'[w] # << >>
      /\ \A w \in Puns : IsSorted(rdyQues'[w])
  <2>1. CASE Enqueue(Place[r], r)
    <3>1. /\ rdyQues'[Place[r]] = enqueue0(rdyQues[Place[r]], r)
          /\ \A w \in Puns : w # Place[r] => rdyQues'[w] = rdyQues[w]
      BY <1>0, <2>1, EnqueueEffect
    <3>2. rdyQues[Place[r]] \in Seq(All) /\ IsSorted(rdyQues[Place[r]])
      BY <1>0 DEF BaseInv, TypeOK, Sorted
    <3>3. IsSorted(rdyQues'[Place[r]])
      BY <1>0, <3>1, <3>2, EnqueueSorted, SchedAssumption
    <3>. QED BY <1>0, <2>1, <3>1, <3>3, EnqueueEffect DEF Sorted
  <2>2. CASE UNCHANGED rdyQues
    BY <2>2 DEF BaseInv, TypeOK, Placed, Sorted
  <2>. QED BY <1>1, <2>1, <2>2
<1>3. TypeOK'
  <2>1. pc' \in [All -> PCs] /\ wakee' \in [All -> Procs \cup {NULL}]
    <3>1. pc \in [All -> PCs] /\ wakee \in [All -> Procs \cup {NULL}] /\ "schedule" \in PCs
      BY DEF BaseInv, TypeOK, PCs
    <3>. QED BY <1>0, <1>1, <3>1
  <2>2. sched_state' \in [All -> SchedStates] /\ kernel' \in [All -> Kernels]
    BY <1>0, <1>1 DEF BaseInv, TypeOK, SchedStates, Kernels
  <2>. QED BY <1>1, <1>2, <2>1, <2>2 DEF BaseInv, TypeOK
<1>4. Placed'
  BY <1>1, <1>2 DEF BaseInv, Placed
<1>5. Steady'
  <2> SUFFICES ASSUME NEW p \in All
               PROVE  /\ kernel'[p] \notin {"none", "ipi", "resumed"} => current[Place[p]] = p
                      /\ kernel'[p] \in {"preempt", "stale"} => rdyQues'[Place[p]] # << >>
                      /\ kernel'[p] = "ipq_add" => pc'[p] = "schedule"
                      /\ pc'[p] \in {"free", "schedule"} => wakee'[p] \in Procs
    BY <1>1 DEF Steady
  <2>1. Place[p] \in Puns /\ kernel'[p] = kernel[p]
    BY <1>0, <1>1, Constants
  <2>2. /\ kernel[p] \notin {"none", "ipi", "resumed"} => current[Place[p]] = p
        /\ kernel[p] \in {"preempt", "stale"} => rdyQues[Place[p]] # << >>
        /\ kernel[p] = "ipq_add" => pc[p] = "schedule"
        /\ pc[p] \in {"free", "schedule"} => wakee[p] \in Procs
    BY DEF BaseInv, Steady
  <2>3. \/ pc'[p] = pc[p] /\ wakee'[p] = wakee[p]
        \/ p = Parent /\ pc'[p] = "schedule" /\ wakee'[p] = r
    BY <1>0, <1>1 DEF BaseInv, TypeOK
  <2>. QED BY <1>0, <1>2, <2>1, <2>2, <2>3
<1>. QED BY <1>2, <1>3, <1>4, <1>5 DEF BaseInv, Sorted

(* Every step keeps the kernel in order.                                   *)
LEMMA ParBase ==
  ASSUME BaseInv, Sorted, LifeType, \A x \in All \ Procs : pc[x] = "run",
         ParNext
  PROVE  BaseInv' /\ Sorted'
<1>0. /\ Parent \in All /\ Children \subseteq All /\ Others \subseteq All
      /\ Children \subseteq Procs /\ Parent \in Procs /\ Procs \subseteq All
  BY Roster, Constants
<1>1. ASSUME NEW p \in All, Carried(p) PROVE BaseInv' /\ Sorted'
  <2>1. Next
    BY <1>1, CarriedIs
  <2>2. BaseInv'
    BY <2>1, BaseNext
  <2>. QED BY <2>1, <2>2, StepIs, StepSorted
<1>2. CASE Par
  <2>1. TypeOK'
    BY <1>0, <1>2 DEF Par, BaseInv, TypeOK, SchedStates
  <2>2. Placed' /\ Sorted'
    BY <1>2 DEF Par, BaseInv, Placed, Sorted
  <2>3. Steady'
    BY <1>2 DEF Par, BaseInv, Steady
  <2>. QED BY <2>1, <2>2, <2>3 DEF BaseInv
<1>3. CASE Join
  <2>1. TypeOK'
    BY <1>0, <1>3 DEF Join, BaseInv, TypeOK, PCs
  <2>2. Placed' /\ Sorted'
    BY <1>3 DEF Join, BaseInv, Placed, Sorted
  <2>3. Steady'
    BY <1>0, <1>3 DEF Join, BaseInv, Steady, TypeOK, Lives, Runs
  <2>. QED BY <2>1, <2>2, <2>3 DEF BaseInv
<1>4. ASSUME UNCHANGED vars PROVE BaseInv' /\ Sorted'
  BY <1>4 DEF vars, BaseInv, TypeOK, Placed, Steady, Sorted
<1>5. ASSUME NEW p \in Children, Sync(p) PROVE BaseInv' /\ Sorted'
  <2>0. p \in All
    BY <1>0
  <2>1. TypeOK'
    <3>1. pc \in [All -> PCs] /\ wakee \in [All -> Procs \cup {NULL}] /\ "schedule" \in PCs
      BY DEF BaseInv, TypeOK, PCs
    <3>2. pc' \in [All -> PCs] /\ wakee' \in [All -> Procs \cup {NULL}]
      BY <1>0, <1>5, <2>0, <3>1 DEF Sync
    <3>. QED BY <1>5, <3>2 DEF Sync, BaseInv, TypeOK
  <2>2. Placed' /\ Sorted'
    BY <1>5 DEF Sync, BaseInv, Placed, Sorted
  <2>3. Steady'
    BY <1>0, <2>0, <1>5 DEF Sync, BaseInv, Steady, TypeOK, Lives, Runs
  <2>. QED BY <2>1, <2>2, <2>3 DEF BaseInv
<1>6. ASSUME NEW p \in Children, FinishTermination(p) PROVE BaseInv' /\ Sorted'
  <2>0. p \in All
    BY <1>0
  <2>1. TypeOK'
    BY <2>0, <1>6 DEF FinishTermination, BaseInv, TypeOK, Kernels
  <2>2. Placed' /\ Sorted'
    BY <1>6 DEF FinishTermination, BaseInv, Placed, Sorted
  <2>3. Steady'
    BY <2>0, <1>6 DEF FinishTermination, BaseInv, Steady, TypeOK, Runs
  <2>. QED BY <2>1, <2>2, <2>3 DEF BaseInv
<1>7. ASSUME NEW p \in Children, Exit(p) PROVE BaseInv' /\ Sorted'
  <2>1. p \in All /\ Next
    BY <1>0, <1>7 DEF Exit, Next, KernelStep
  <2>2. BaseInv'
    BY <2>1, BaseNext
  <2>. QED BY <2>1, <2>2, StepIs, StepSorted
<1>8. ASSUME NEW p \in Children, Terminate(p) \/ Release(p) PROVE UNCHANGED vars
  BY <1>8 DEF Terminate, Release
<1>9. Return => UNCHANGED vars
  BY DEF Return
<1>. QED BY <1>0, <1>1, <1>2, <1>3, <1>4, <1>5, <1>6, <1>7, <1>8, <1>9, CreateBase
         DEF ParNext, Living, Carried

-----------------------------------------------------------------------------
(* The life of the processes and the barrier.                              *)

(* The number of children that run.                                        *)
LEMMA BodiesSize ==
  ASSUME LifeType, Counted
  PROVE  /\ Cardinality(Bodies) \in Nat
         /\ Cardinality(Bodies) = 0 <=> Bodies = {}
         /\ children \in Nat /\ made \in Nat /\ made <= Len(Roles) /\ Len(Roles) \in Nat
BY Roster, FS_CardinalityType, FS_EmptySet DEF Counted, LifeType

(* The stages of life.                                                     *)
LEMMA LifeNext ==
  ASSUME BaseInv, LifeType, Counted, ParNext
  PROVE  LifeType'
<1>0. /\ Parent \in Procs /\ Children \subseteq Procs /\ Parent \notin Children
      /\ at \in [Procs -> Ats] /\ term \in [Puns -> Procs \cup {NULL}]
      /\ Len(Roles) \in Nat /\ MaxPars \in Nat
      /\ \A p \in Children : Place[p] \in Puns
  BY Roster, Constants, ParAssumption DEF LifeType
<1>1. CASE UNCHANGED life
  BY <1>1 DEF life, LifeType
<1>2. CASE Par
  BY <1>0, <1>2 DEF Par, par_barr_init, LifeType, Ats
<1>3. CASE Join
  BY <1>0, <1>3 DEF Join, LifeType, Ats
<1>4. CASE Return
  BY <1>0, <1>4 DEF Return, LifeType, Ats
<1>5. ASSUME NEW r \in Children, Create(r) PROVE LifeType'
  <2>1. /\ at' = [at EXCEPT ![r] = "body"] /\ dying' = dying
        /\ made' = made + 1 /\ made < Len(Roles) /\ UNCHANGED <<children, pars, term>>
    BY <1>5 DEF Create, Build
  <2>. QED BY <1>0, <2>1 DEF LifeType, Ats
<1>6. ASSUME NEW p \in Children, Sync(p) PROVE LifeType'
  <2>1. /\ at' = [at EXCEPT ![p] = "terminate"] /\ p \notin dying /\ p \in Bodies
        /\ children' = children - 1 /\ UNCHANGED <<made, pars, term, dying>>
    BY <1>6 DEF Sync, Lives, Bodies
  <2>2. children > 0
    BY <2>1, BodiesSize DEF Counted
  <2>3. children' \in 0..Len(Roles)
    BY <1>0, <2>1, <2>2 DEF LifeType
  <2>. QED BY <1>0, <2>1, <2>3 DEF LifeType, Ats
<1>7. ASSUME NEW p \in Children, Terminate(p) PROVE LifeType'
  BY <1>0, <1>7 DEF Terminate, Lives, LifeType, Ats
<1>8. ASSUME NEW p \in Children, Release(p) PROVE LifeType'
  BY <1>0, <1>8 DEF Release, Lives, LifeType, Ats
<1>9. ASSUME NEW p \in Children, FinishTermination(p) PROVE LifeType'
  BY <1>0, <1>9 DEF FinishTermination, LifeType
<1>10. ASSUME NEW p \in Children, Exit(p) PROVE LifeType'
  BY <1>0, <1>10 DEF Exit, LifeType
<1>. QED BY <1>1, <1>2, <1>3, <1>4, <1>5, <1>6, <1>7, <1>8, <1>9, <1>10
         DEF ParNext, Living

(* The count of the barrier.  par returns only when it is down to zero.    *)
LEMMA CountNext ==
  ASSUME BaseInv, LifeType, Counted, ParNext, Lives(Parent, "join") => Woken
  PROVE  Counted'
<1>0. /\ Parent \in Procs /\ Children \subseteq Procs /\ Parent \notin Children
      /\ at \in [Procs -> Ats]
  BY Roster DEF LifeType
<1> DEFINE n == Cardinality(Bodies)
<1>1. /\ n \in Nat /\ (n = 0 <=> Bodies = {}) /\ IsFiniteSet(Bodies)
      /\ children \in Nat /\ made \in Nat /\ made <= Len(Roles) /\ Len(Roles) \in Nat
      /\ at[Parent] = "main" => children = 0 /\ n = 0
      /\ at[Parent] # "main" => children = Len(Roles) - made + n
      /\ at[Parent] = "join" => made = Len(Roles)
  BY BodiesSize DEF Counted
<1>2. ASSUME Bodies' = Bodies, at'[Parent] = at[Parent], children' = children, made' = made
      PROVE  Counted'
  BY <1>2 DEF Counted
<1>3. CASE UNCHANGED life
  BY <1>2, <1>3 DEF life, Bodies
<1>4. CASE Par
  <2>1. /\ at[Parent] = "main" /\ at'[Parent] = "create"
        /\ children' = Len(Roles) /\ made' = 0
        /\ \A x \in Children : at'[x] = at[x]
    BY <1>0, <1>4 DEF Par, par_barr_init, Lives
  <2>2. Bodies' = {} /\ Bodies = {}
    BY <1>1, <2>1 DEF Bodies
  <2>3. Cardinality(Bodies') = 0 /\ IsFiniteSet(Bodies')
    BY <2>2, FS_EmptySet
  <2>. QED BY <1>1, <2>1, <2>3 DEF Counted
<1>5. CASE Join
  <2>1. /\ at[Parent] = "create" /\ at'[Parent] = "join" /\ made = Len(Roles)
        /\ children' = children /\ made' = made
        /\ \A x \in Children : at'[x] = at[x]
    BY <1>0, <1>5 DEF Join, Lives
  <2>2. Bodies' = Bodies
    BY <2>1 DEF Bodies
  <2>. QED BY <2>1, <2>2 DEF Counted
<1>6. CASE Return
  <2>1. /\ at[Parent] = "join" /\ at'[Parent] = "main" /\ Woken
        /\ children' = children /\ made' = made
        /\ \A x \in Children : at'[x] = at[x]
    BY <1>0, <1>6 DEF Return, Lives
  <2>2. Bodies' = Bodies
    BY <2>1 DEF Bodies
  <2>3. Bodies = {} /\ children = 0
    BY <1>1, <2>1 DEF Woken
  <2>. QED BY <1>1, <2>1, <2>2, <2>3 DEF Counted
<1>7. ASSUME NEW r \in Children, Create(r) PROVE Counted'
  <2>1. /\ at[Parent] = "create" /\ at[r] = "free" /\ at' = [at EXCEPT ![r] = "body"]
        /\ made' = made + 1 /\ children' = children
    BY <1>7 DEF Create, Build, Lives
  <2>2. at'[Parent] = "create" /\ Bodies' = Bodies \cup {r} /\ r \notin Bodies
    BY <1>0, <2>1 DEF Bodies
  <2>3. Cardinality(Bodies') = n + 1 /\ IsFiniteSet(Bodies')
    BY <1>1, <2>2, FS_AddElement
  <2>4. children' = Len(Roles) - made' + Cardinality(Bodies')
    BY <1>1, <2>1, <2>3
  <2>. QED BY <2>2, <2>3, <2>4 DEF Counted
<1>8. ASSUME NEW p \in Children, Sync(p) PROVE Counted'
  <2>1. /\ at[p] = "body" /\ at' = [at EXCEPT ![p] = "terminate"]
        /\ made' = made /\ children' = children - 1
    BY <1>8 DEF Sync, Lives
  <2>2. at'[Parent] = at[Parent] /\ Bodies' = Bodies \ {p} /\ p \in Bodies
    BY <1>0, <2>1 DEF Bodies
  <2>3. Cardinality(Bodies') = n - 1 /\ IsFiniteSet(Bodies')
    BY <1>1, <2>2, FS_RemoveElement
  <2>4. at[Parent] # "main"
    BY <1>1, <2>2
  <2>5. children' = Len(Roles) - made' + Cardinality(Bodies')
    BY <1>1, <2>1, <2>3, <2>4
  <2>. QED BY <1>1, <2>1, <2>2, <2>3, <2>4, <2>5 DEF Counted
<1>9. ASSUME NEW p \in Children, Terminate(p) \/ Release(p) \/ FinishTermination(p) \/ Exit(p)
      PROVE  Counted'
  <2>1. \/ at[p] \in {"terminate", "release"} /\ at' = [at EXCEPT ![p] = "release"]
        \/ at[p] \in {"terminate", "release"} /\ at' = [at EXCEPT ![p] = "free"]
        \/ at' = at
    BY <1>9 DEF Terminate, Release, FinishTermination, Exit, Lives
  <2>2. children' = children /\ made' = made
    BY <1>9 DEF Terminate, Release, FinishTermination, Exit
  <2>3. Bodies' = Bodies /\ at'[Parent] = at[Parent]
    BY <1>0, <2>1 DEF Bodies
  <2>. QED BY <1>2, <2>2, <2>3
<1>. QED BY <1>3, <1>4, <1>5, <1>6, <1>7, <1>8, <1>9 DEF ParNext, Living

(* Where the parent is in its wait.                                        *)
LEMMA AsleepNext ==
  ASSUME BaseInv, LifeType, Asleep, ParNext
  PROVE  Asleep'
<1>0. /\ Parent \in Procs /\ Parent \in All /\ Children \subseteq Procs
      /\ Parent \notin Children /\ Parent \notin Others
      /\ Children \subseteq All /\ Others \subseteq All /\ Procs \subseteq All
      /\ Children \cap (All \ Procs) = {} /\ Others \cap (All \ Procs) = {}
      /\ at \in [Procs -> Ats] /\ at[Parent] \in {"main", "create", "join"}
      /\ pc \in [All -> PCs] /\ kernel \in [All -> Kernels]
      /\ sched_state \in [All -> SchedStates]
  BY Roster, Constants DEF LifeType, BaseInv, TypeOK
<1>1. ASSUME NEW p \in All, Carried(p), UNCHANGED life PROVE Asleep'
  <2>0. at' = at /\ made' = made
    BY <1>1 DEF life
  <2>1. CASE PrepareToWait(p) /\ p \in Others
    BY <1>0, <2>0, <2>1 DEF PrepareToWait, Asleep
  <2>2. CASE Publish(p) /\ p \in Others
    BY <1>0, <2>0, <2>2 DEF Publish, Asleep
  <2>3. CASE Yield(p) /\ (p = Parent => at[p] = "create" /\ made < Len(Roles))
    BY <1>0, <2>0, <2>3 DEF Yield, Asleep
  <2>4. CASE Relinquish(p)
    BY <1>0, <2>0, <2>4 DEF Relinquish, Runs, Asleep
  <2>5. CASE Disable(p)
    BY <1>0, <2>0, <2>5 DEF Disable, Asleep
  <2>6. CASE ScheduleLocal(p)
    BY <1>0, <2>0, <2>6 DEF ScheduleLocal, Asleep
  <2>7. CASE ScheduleRemote(p)
    BY <1>0, <2>0, <2>7 DEF ScheduleRemote, Asleep
  <2>8. CASE Switch(p)
    BY <1>0, <2>0, <2>8 DEF Switch, RunsIn, Asleep
  <2>9. CASE YieldSwitch(p) \/ IpiEnter(p) \/ IntrEnter(p)
    BY <1>0, <2>0, <2>9 DEF YieldSwitch, IpiEnter, IntrEnter, Asleep
  <2>10. CASE IpqAdd(p)
    <3>1. pc[p] = "schedule"
      BY <2>10 DEF IpqAdd, RunsIn, BaseInv, Steady
    <3>. QED BY <1>0, <2>0, <2>10, <3>1 DEF IpqAdd, Asleep
  <2>11. CASE Preempt(p)
    BY <1>0, <2>0, <2>11 DEF Preempt, Asleep
  <2>12. CASE IpiStep(p)
    <3>1. kernel'[p] \in {kernel[p], "resumed"} /\ \A x \in All : x # p => kernel'[x] = kernel[x]
      BY <1>0, <2>12 DEF IpiStep
    <3>2. UNCHANGED <<sched_state, waiting, pc>>
      BY <2>12 DEF IpiStep
    <3>. QED BY <1>0, <2>0, <3>1, <3>2 DEF Asleep
  <2>13. CASE IpiDone(p) \/ IntrDone(p)
    <3>1. kernel'[p] \notin {"take", "take1"} /\ \A x \in All : x # p => kernel'[x] = kernel[x]
      BY <1>0, <2>13 DEF IpiDone, IntrDone, schedule_from_interrupt
    <3>2. UNCHANGED <<sched_state, waiting, pc>>
      BY <2>13 DEF IpiDone, IntrDone
    <3>. QED BY <1>0, <2>0, <3>1, <3>2 DEF Asleep
  <2>14. ASSUME NEW q \in waiting, IntrWake(p, q) PROVE Asleep'
    <3>1. q # Parent /\ q \in All
      BY <1>0 DEF Asleep
    <3>. QED BY <1>0, <2>0, <2>14, <3>1 DEF IntrWake, Asleep
  <2>15. CASE Drain(p)
    BY <2>0, <2>15 DEF Drain, Asleep
  <2>16. MayYield(p) => (p = Parent => at[p] = "create" /\ made < Len(Roles))
    BY <1>0 DEF MayYield, Lives
  <2>. QED BY <1>0, <1>1, <2>1, <2>2, <2>3, <2>4, <2>5, <2>6, <2>7, <2>8, <2>9, <2>10, <2>11,
              <2>12, <2>13, <2>14, <2>15, <2>16 DEF Carried, Scheduling, Interrupt
<1>2. CASE Par
  BY <1>0, <1>2 DEF Par, Lives, Runs, Asleep
<1>3. CASE Join
  BY <1>0, <1>3 DEF Join, Lives, Runs, Asleep
<1>4. CASE Return
  BY <1>0, <1>4 DEF Return, Lives, Runs, Asleep, vars
<1>5. ASSUME NEW r \in Children, Create(r) PROVE Asleep'
  <2>1. /\ at'[Parent] = "create" /\ at[Parent] = "create"
        /\ sched_state'[Parent] = sched_state[Parent]
        /\ kernel'[Parent] = "none" /\ waiting' = waiting /\ kernel' = kernel
    BY <1>0, <1>5 DEF Create, Build, Lives, Runs
  <2>2. /\ pc'[Parent] = pc[Parent] \/ pc'[Parent] = "schedule"
        /\ \A x \in All : x # Parent => pc'[x] = pc[x]
    BY <1>0, <1>5 DEF Create
  <2>. QED BY <1>0, <2>1, <2>2 DEF Asleep
<1>6. ASSUME NEW p \in Children, Sync(p) PROVE Asleep'
  <2>1. /\ at'[Parent] = at[Parent]
        /\ pc' = pc \/ pc' = [pc EXCEPT ![p] = "schedule"]
        /\ UNCHANGED <<sched_state, waiting, kernel, made>>
    BY <1>0, <1>6 DEF Sync
  <2>. QED BY <1>0, <2>1 DEF Asleep
<1>7. ASSUME NEW p \in Children, Terminate(p) \/ Release(p) PROVE Asleep'
  <2>1. at'[Parent] = at[Parent] /\ UNCHANGED <<sched_state, waiting, kernel, pc, made>>
    BY <1>0, <1>7 DEF Terminate, Release, vars
  <2>. QED BY <1>0, <2>1 DEF Asleep
<1>8. ASSUME NEW p \in Children, FinishTermination(p) \/ Exit(p) PROVE Asleep'
  <2>1. /\ UNCHANGED <<at, sched_state, waiting, made>>
        /\ pc' = pc \/ pc' = [pc EXCEPT ![p] = "run"]
        /\ \E k \in Kernels : kernel' = [kernel EXCEPT ![p] = k]
    BY <1>8 DEF FinishTermination, Exit, Switch, Kernels
  <2>. QED BY <1>0, <2>1 DEF Asleep
<1>. QED BY <1>0, <1>1, <1>2, <1>3, <1>4, <1>5, <1>6, <1>7, <1>8
         DEF ParNext, Living, Carried

-----------------------------------------------------------------------------
(* The termination stack.                                                  *)

(* A process that is past release_mutex keeps the processor until it       *)
(* switches away.                                                          *)
LEMMA LeaverStays ==
  ASSUME BaseInv, NEW p \in All, Carried(p), NEW q \in Children, q \in dying,
         RunsIn(q, "take")
  PROVE  RunsIn(q, "take")'
<1>0. /\ q \in All /\ Place[q] \in Puns /\ Place[p] \in Puns
      /\ current[Place[q]] = q /\ kernel[q] = "take"
      /\ current \in [Puns -> All] /\ kernel \in [All -> Kernels]
  BY Roster, Constants DEF BaseInv, TypeOK, RunsIn
<1>1. current[Place[p]] = p
  BY DEF Carried, Scheduling, Interrupt, MayYield, Lives, Runs, RunsIn, Handles,
         PrepareToWait, Publish, Yield, Relinquish, Disable, ScheduleLocal, ScheduleRemote,
         Switch, Drain, YieldSwitch, IpqAdd, Preempt, IpiEnter, IpiStep, IpiDone, IntrEnter,
         IntrDone, IntrWake
<1>2. CASE p = q
  <2>1. p \in dying
    BY <1>2
  <2>2. Drain(p)
    BY <1>0, <1>2, <2>1 DEF Carried, Scheduling, Interrupt, MayYield, Lives, Runs, RunsIn, Handles,
         PrepareToWait, Publish, Yield, Relinquish, Disable, ScheduleLocal, ScheduleRemote,
         Switch, YieldSwitch, IpqAdd, Preempt, IpiEnter, IpiStep, IpiDone, IntrEnter,
         IntrDone, IntrWake
  <2>. QED BY <1>0, <2>2 DEF Drain, RunsIn
<1>3. CASE p # q
  <2>1. Place[q] # Place[p]
    BY <1>0, <1>1, <1>3
  <2>2. kernel'[q] = kernel[q]
    BY <1>0, <1>3 DEF Carried, Scheduling, Interrupt,
         PrepareToWait, Publish, Yield, Relinquish, Disable, ScheduleLocal, ScheduleRemote,
         Switch, Drain, YieldSwitch, IpqAdd, Preempt, IpiEnter, IpiStep, IpiDone, IntrEnter,
         IntrDone, IntrWake, schedule_from_interrupt
  <2>3. current'[Place[q]] = current[Place[q]]
    BY <1>0, <2>1 DEF Carried, Scheduling, Interrupt, Dispatch, schedule0,
         PrepareToWait, Publish, Yield, Relinquish, Disable, ScheduleLocal, ScheduleRemote,
         Switch, Drain, YieldSwitch, IpqAdd, Preempt, IpiEnter, IpiStep, IpiDone, IntrEnter,
         IntrDone, IntrWake
  <2>. QED BY <1>0, <2>2, <2>3 DEF RunsIn
<1>. QED BY <1>2, <1>3

(* A process that leaves without having switched holds the mutex, unless   *)
(* it is the only one that leaves on its processor.                        *)
LEMMA StackNext ==
  ASSUME BaseInv, LifeType, Stack, ParNext
  PROVE  Stack'
<1>0. /\ Parent \in Procs /\ Children \subseteq Procs /\ Parent \notin Children
      /\ Children \subseteq All /\ NULL \notin Children
      /\ at \in [Procs -> Ats] /\ term \in [Puns -> Procs \cup {NULL}]
      /\ dying \subseteq Children /\ (\A p \in dying : at[p] \in {"free", "body"})
      /\ at[Parent] \in {"main", "create", "join"}
      /\ \A p \in Children : Place[p] \in Puns
      /\ current \in [Puns -> All] /\ kernel \in [All -> Kernels]
  BY Roster, Constants DEF LifeType, BaseInv, TypeOK
<1>1. ASSUME \A q \in Children : Leaving(q)' => Leaving(q),
             \A q \in Children : Leaving(q)' /\ q \in dying => q \in dying',
             \A q \in Children : Leaving(q)' => term'[Place[q]] = term[Place[q]],
             \A q \in Children : Leaving(q)' /\ q \in dying /\ RunsIn(q, "take")
               => RunsIn(q, "take")'
      PROVE  Stack'
  BY <1>1 DEF Stack
<1>2. ASSUME NEW p \in All, Carried(p), UNCHANGED life PROVE Stack'
  <2>1. UNCHANGED <<at, term, dying>>
    BY <1>2 DEF life
  <2>2. \A q \in Children : Leaving(q)' <=> Leaving(q)
    BY <2>1 DEF Leaving
  <2>. QED BY <1>1, <1>2, <2>1, <2>2, LeaverStays
<1>3. ASSUME UNCHANGED <<current, kernel, term, dying>>,
             \A q \in Children : at'[q] = "release" <=> at[q] = "release"
      PROVE  Stack'
  <2>1. \A q \in Children : Leaving(q)' <=> Leaving(q)
    BY <1>3 DEF Leaving
  <2>. QED BY <1>1, <1>3, <2>1 DEF RunsIn
<1>4. CASE Par \/ Join \/ Return
  <2>1. UNCHANGED <<current, kernel, term, dying>>
    BY <1>4 DEF Par, Join, Return, vars
  <2>2. \A q \in Children : at'[q] = at[q]
    BY <1>0, <1>4 DEF Par, Join, Return
  <2>. QED BY <1>3, <2>1, <2>2
<1>5. ASSUME NEW p \in Children, Sync(p) PROVE Stack'
  <2>1. UNCHANGED <<current, kernel, term, dying>>
    BY <1>5 DEF Sync
  <2>2. \A q \in Children : at'[q] = "release" <=> at[q] = "release"
    BY <1>0, <1>5 DEF Sync, Lives
  <2>. QED BY <1>3, <2>1, <2>2
<1>6. ASSUME NEW r \in Children, Create(r) PROVE Stack'
  <2>1. /\ at[r] = "free" /\ at' = [at EXCEPT ![r] = "body"]
        /\ UNCHANGED <<term, current, kernel, dying>>
    BY <1>6 DEF Create, Build
  <2>2. \A q \in Children : Leaving(q)' => Leaving(q) /\ (q \in dying => q \in dying')
    BY <1>0, <2>1 DEF Leaving
  <2>3. ASSUME NEW q \in Children, Leaving(q)', q \in dying, RunsIn(q, "take")
        PROVE  RunsIn(q, "take")'
    <3>1. kernel'[q] = kernel[q]
      BY <1>0, <2>1, <2>2, <2>3
    <3>. QED BY <2>1, <2>3, <3>1 DEF RunsIn
  <2>. QED BY <1>1, <2>1, <2>2, <2>3
<1>7. ASSUME NEW p \in Children, Terminate(p) PROVE Stack'
  <2>1. /\ current[Place[p]] = p /\ kernel[p] = "none" /\ term[Place[p]] = NULL
        /\ term' = [term EXCEPT ![Place[p]] = p] /\ at' = [at EXCEPT ![p] = "release"]
        /\ UNCHANGED <<current, kernel, dying>>
    BY <1>7 DEF Terminate, Lives, Runs, vars
  <2>2. \A q \in Children : q # p => (Leaving(q)' <=> Leaving(q))
    BY <1>0, <2>1 DEF Leaving
  <2>3. \A q \in Children : Leaving(q) => Place[q] # Place[p]
    BY <1>0, <2>1 DEF Stack, RunsIn
  <2>4. /\ term'[Place[p]] = p
        /\ \A q \in Children : Place[q] # Place[p] => term'[Place[q]] = term[Place[q]]
    BY <1>0, <2>1
  <2>5. ASSUME NEW q \in Children, Leaving(q)', q # p
        PROVE  \/ term'[Place[q]] = q
               \/ /\ q \in dying' /\ RunsIn(q, "take")'
                  /\ \A x \in Children : Place[x] = Place[q] /\ Leaving(x)' => x = q
    <3>1. Leaving(q) /\ Place[q] # Place[p]
      BY <2>2, <2>3, <2>5
    <3>2. \A x \in Children : Place[x] = Place[q] => (Leaving(x)' <=> Leaving(x))
      BY <2>2, <3>1
    <3>. QED BY <2>1, <2>4, <3>1, <3>2 DEF Stack, RunsIn
  <2>. QED BY <2>4, <2>5 DEF Stack
<1>8. ASSUME NEW p \in Children, Release(p) PROVE Stack'
  <2>1. /\ at[p] = "release" /\ p \notin dying /\ dying' = dying \cup {p}
        /\ at' = [at EXCEPT ![p] = "free"] /\ UNCHANGED <<current, kernel, term>>
    BY <1>8 DEF Release, Lives, vars
  <2>2. \A q \in Children : Leaving(q)' <=> Leaving(q)
    BY <1>0, <2>1 DEF Leaving
  <2>. QED BY <1>1, <2>1, <2>2 DEF RunsIn
<1>9. ASSUME NEW p \in Children, FinishTermination(p) PROVE Stack'
  <2>1. /\ p \in dying /\ current[Place[p]] = p /\ kernel[p] = "none"
        /\ kernel' = [kernel EXCEPT ![p] = "take"]
        /\ term' = [term EXCEPT ![Place[p]] = NULL] /\ UNCHANGED <<current, at, dying>>
    BY <1>9 DEF FinishTermination, Runs
  <2>2. term[Place[p]] = p
    BY <2>1 DEF Stack, Leaving, RunsIn
  <2>3. \A q \in Children : Leaving(q) /\ q # p => Place[q] # Place[p]
    BY <2>1, <2>2 DEF Stack, RunsIn
  <2>4. \A q \in Children : Leaving(q)' <=> Leaving(q)
    BY <2>1 DEF Leaving
  <2>5. RunsIn(p, "take")'
    BY <1>0, <2>1 DEF RunsIn
  <2>6. ASSUME NEW q \in Children, Leaving(q)', q # p
        PROVE  \/ term'[Place[q]] = q
               \/ /\ q \in dying' /\ RunsIn(q, "take")'
                  /\ \A x \in Children : Place[x] = Place[q] /\ Leaving(x)' => x = q
    <3>1. Leaving(q) /\ Place[q] # Place[p]
      BY <2>3, <2>4, <2>6
    <3>2. term'[Place[q]] = term[Place[q]] /\ kernel'[q] = kernel[q]
      BY <1>0, <2>1, <2>6, <3>1
    <3>. QED BY <2>1, <2>4, <3>1, <3>2 DEF Stack, RunsIn
  <2>. QED BY <2>1, <2>3, <2>4, <2>5, <2>6 DEF Stack
<1>10. ASSUME NEW p \in Children, Exit(p) PROVE Stack'
  <2>1. /\ p \in dying /\ current[Place[p]] = p /\ kernel[p] = "take"
        /\ dying' = dying \ {p} /\ UNCHANGED <<at, term>>
        /\ kernel' = [kernel EXCEPT ![p] = "none"]
        /\ \E x : current' = [current EXCEPT ![Place[p]] = x]
    BY <1>10 DEF Exit, Switch, Dispatch, RunsIn
  <2>2. \A q \in Children : Leaving(q)' <=> Leaving(q) /\ q # p
    BY <1>0, <2>1 DEF Leaving
  <2>3. ASSUME NEW q \in Children, Leaving(q)', q \in dying, RunsIn(q, "take")
        PROVE  RunsIn(q, "take")'
    <3>1. q # p /\ Place[q] # Place[p]
      BY <2>1, <2>2, <2>3 DEF RunsIn
    <3>2. current'[Place[q]] = current[Place[q]] /\ kernel'[q] = kernel[q]
      BY <1>0, <2>1, <3>1
    <3>. QED BY <2>3, <3>2 DEF RunsIn
  <2>. QED BY <1>1, <2>1, <2>2, <2>3
<1>. QED BY <1>0, <1>2, <1>4, <1>5, <1>6, <1>7, <1>8, <1>9, <1>10, Roster, Constants
         DEF ParNext, Living, Carried

(* Then the stack has one user.                                            *)
LEMMA StackOne == Stack => OneTerminating
BY DEF Stack, Leaving, OneTerminating

-----------------------------------------------------------------------------
(* The parent's places on its processor.                                   *)

\* It has no more of them than before.
Fewer ==
  /\ OnceIn(rdyQues[Place[Parent]]', Parent)
  /\ Running(Parent)' \/ Queued(Parent)' => Running(Parent) \/ Queued(Parent)
  /\ Running(Parent)' /\ Queued(Parent)' => Running(Parent) /\ Queued(Parent)

\* A wake may have given it one.
Landed ==
  /\ OnceIn(rdyQues[Place[Parent]]', Parent)
  /\ Running(Parent)' /\ Queued(Parent)' => Running(Parent) \/ Queued(Parent)

(* The queue of a processor, before and after enqueue0.                    *)
LEMMA EnqueueOnce ==
  ASSUME BaseInv, Sorted, OnceIn(rdyQues[Place[Parent]], Parent),
         NEW x \in All, Enqueue(Place[x], x)
  PROVE  /\ OnceIn(rdyQues'[Place[Parent]], Parent)
         /\ x # Parent => (Queued(Parent)' => Queued(Parent))
<1>0. /\ Parent \in All /\ Place[Parent] \in Puns /\ Place[x] \in Puns
      /\ rdyQues[Place[x]] \in Seq(All) /\ IsSorted(rdyQues[Place[x]])
  BY Roster, Constants DEF BaseInv, TypeOK, Sorted
<1>1. /\ rdyQues'[Place[x]] = enqueue0(rdyQues[Place[x]], x)
      /\ \A w \in Puns : w # Place[x] => rdyQues'[w] = rdyQues[w]
  BY <1>0, EnqueueEffect
<1>2. Range(enqueue0(rdyQues[Place[x]], x)) \subseteq Range(rdyQues[Place[x]]) \cup {x}
  BY <1>0, EnqueueRange
<1>3. CASE Place[x] = Place[Parent]
  <2>1. OnceIn(enqueue0(rdyQues[Place[x]], x), Parent)
    BY <1>0, <1>3, OnceEnqueue, SchedAssumption
  <2>. QED BY <1>1, <1>2, <1>3, <2>1 DEF Queued
<1>4. CASE Place[x] # Place[Parent]
  BY <1>0, <1>1, <1>4 DEF Queued
<1>. QED BY <1>3, <1>4

(* schedule0 of another process.                                           *)
LEMMA SchedulesOther ==
  ASSUME BaseInv, Sorted, OnceIn(rdyQues[Place[Parent]], Parent),
         NEW x \in All, x # Parent, schedule0(Place[x], x)
  PROVE  Fewer
<1>0. /\ Parent \in All /\ Place[Parent] \in Puns /\ Place[x] \in Puns
      /\ current \in [Puns -> All] /\ current[Place[x]] \in All
      /\ Place[current[Place[x]]] = Place[x]
  BY Roster, Constants DEF BaseInv, TypeOK, Placed
<1>1. CASE Enqueue(Place[x], x) /\ UNCHANGED current
  BY <1>1, EnqueueOnce DEF Fewer, Running
<1>2. CASE Dispatch(Place[x], x) /\ Enqueue(Place[x], current[Place[x]])
  <2> DEFINE y == current[Place[x]]
  <2>1. y \in All /\ Enqueue(Place[y], y) /\ Place[y] = Place[x]
    BY <1>0, <1>2
  <2>2. /\ OnceIn(rdyQues'[Place[Parent]], Parent)
        /\ y # Parent => (Queued(Parent)' => Queued(Parent))
    BY <2>1, EnqueueOnce
  <2>3. /\ current'[Place[x]] = x
        /\ \A w \in Puns : w # Place[x] => current'[w] = current[w]
    BY <1>0, <1>2 DEF Dispatch
  <2>4. CASE Place[x] = Place[Parent]
    <3>1. ~ Running(Parent)'
      BY <2>3, <2>4 DEF Running
    <3>2. y = Parent <=> Running(Parent)
      BY <2>4 DEF Running
    <3>. QED BY <2>2, <3>1, <3>2 DEF Fewer
  <2>5. CASE Place[x] # Place[Parent]
    <3>1. Running(Parent)' <=> Running(Parent)
      BY <1>0, <2>3, <2>5 DEF Running
    <3>2. y # Parent
      BY <2>1, <2>5
    <3>. QED BY <2>2, <3>1, <3>2 DEF Fewer
  <2>. QED BY <2>4, <2>5
<1>. QED BY <1>1, <1>2 DEF schedule0

(* schedule0 of the parent.                                                *)
LEMMA SchedulesParent ==
  ASSUME BaseInv, Sorted, OnceIn(rdyQues[Place[Parent]], Parent),
         schedule0(Place[Parent], Parent)
  PROVE  Landed
<1>0. /\ Parent \in All /\ Place[Parent] \in Puns /\ Pri[Parent] \in Nat
      /\ current \in [Puns -> All] /\ current[Place[Parent]] \in All
      /\ Place[current[Place[Parent]]] = Place[Parent]
  BY Roster, Constants DEF BaseInv, TypeOK, Placed
<1>1. CASE Enqueue(Place[Parent], Parent) /\ UNCHANGED current
  BY <1>0, <1>1, EnqueueOnce DEF Landed, Running
<1>2. CASE /\ ~ pri_le(Parent, current[Place[Parent]])
           /\ Enqueue(Place[Parent], current[Place[Parent]])
  <2> DEFINE y == current[Place[Parent]]
  <2>1. y \in All /\ Enqueue(Place[y], y) /\ y # Parent
    BY <1>0, <1>2 DEF pri_le
  <2>2. /\ OnceIn(rdyQues'[Place[Parent]], Parent)
        /\ Queued(Parent)' => Queued(Parent)
    BY <2>1, EnqueueOnce
  <2>. QED BY <2>2 DEF Landed
<1>. QED BY <1>1, <1>2 DEF schedule0

(* take, with the switch to the process that was taken.                    *)
LEMMA TakesHead ==
  ASSUME BaseInv, OnceIn(rdyQues[Place[Parent]], Parent), NEW p \in All,
         current[Place[p]] = p, rdyQues[Place[p]] # << >>,
         rdyQues' = [rdyQues EXCEPT ![Place[p]] = Tail(@)],
         Dispatch(Place[p], Head(rdyQues[Place[p]]))
  PROVE  /\ Fewer
         /\ Place[p] = Place[Parent] =>
              /\ Running(Parent)' \/ Queued(Parent)' => Queued(Parent)
              /\ ~ (Running(Parent)' /\ Queued(Parent)')
<1> DEFINE u == Place[Parent]
<1>0. /\ Parent \in All /\ u \in Puns /\ Place[p] \in Puns
      /\ current \in [Puns -> All] /\ rdyQues[Place[p]] \in Seq(All)
  BY Roster, Constants DEF BaseInv, TypeOK
<1>1. /\ rdyQues'[Place[p]] = Tail(rdyQues[Place[p]])
      /\ \A w \in Puns : w # Place[p] => rdyQues'[w] = rdyQues[w]
  BY <1>0, TakeEffect
<1>2. /\ current'[Place[p]] = Head(rdyQues[Place[p]])
      /\ \A w \in Puns : w # Place[p] => current'[w] = current[w]
  BY <1>0 DEF Dispatch
<1>3. CASE Place[p] = u
  <2>1. /\ OnceIn(Tail(rdyQues[u]), Parent)
        /\ Head(rdyQues[u]) = Parent => Parent \notin Range(Tail(rdyQues[u]))
    BY <1>0, <1>3, OnceTail
  <2>2. /\ Range(Tail(rdyQues[u])) \subseteq Range(rdyQues[u])
        /\ Head(rdyQues[u]) \in Range(rdyQues[u])
    BY <1>0, <1>3, TailRange
  <2>. QED BY <1>1, <1>2, <1>3, <2>1, <2>2 DEF Fewer, Running, Queued
<1>4. CASE Place[p] # u
  BY <1>0, <1>1, <1>2, <1>4 DEF Fewer, Running, Queued
<1>. QED BY <1>3, <1>4

(* take and enqueue0, as yield and preemption do it.                       *)
LEMMA RotatesHead ==
  ASSUME BaseInv, Sorted, OnceIn(rdyQues[Place[Parent]], Parent), NEW p \in All,
         current[Place[p]] = p, rdyQues[Place[p]] # << >>,
         rdyQues' = [rdyQues EXCEPT ![Place[p]] = enqueue0(Tail(@), p)],
         Dispatch(Place[p], Head(rdyQues[Place[p]]))
  PROVE  Fewer
<1> DEFINE u == Place[Parent]
           t == Tail(rdyQues[u])
<1>0. /\ Parent \in All /\ u \in Puns /\ Place[p] \in Puns
      /\ current \in [Puns -> All] /\ rdyQues[Place[p]] \in Seq(All)
      /\ IsSorted(rdyQues[Place[p]])
  BY Roster, Constants DEF BaseInv, TypeOK, Sorted
<1>1. /\ rdyQues'[Place[p]] = enqueue0(Tail(rdyQues[Place[p]]), p)
      /\ \A w \in Puns : w # Place[p] => rdyQues'[w] = rdyQues[w]
  BY RotateEffect
<1>2. /\ current'[Place[p]] = Head(rdyQues[Place[p]])
      /\ \A w \in Puns : w # Place[p] => current'[w] = current[w]
  BY <1>0 DEF Dispatch
<1>3. CASE Place[p] = u
  <2>1. /\ OnceIn(t, Parent)
        /\ Head(rdyQues[u]) = Parent => Parent \notin Range(t)
    BY <1>0, <1>3, OnceTail
  <2>2. /\ Range(t) \subseteq Range(rdyQues[u]) /\ t \in Seq(All)
        /\ Head(rdyQues[u]) \in Range(rdyQues[u])
    BY <1>0, <1>3, TailRange
  <2>3. IsSorted(t)
    BY <1>0, <1>3, TailSorted, SchedAssumption
  <2> HIDE DEF t
  <2>4. OnceIn(enqueue0(t, p), Parent) /\ Range(enqueue0(t, p)) \subseteq Range(t) \cup {p}
    BY <2>1, <2>2, <2>3, OnceEnqueue, EnqueueRange, SchedAssumption
  <2>5. rdyQues'[u] = enqueue0(t, p) /\ current[u] = p /\ current'[u] = Head(rdyQues[u])
    BY <1>1, <1>2, <1>3 DEF t
  <2>6. CASE p = Parent
    BY <2>2, <2>4, <2>5, <2>6 DEF Fewer, Running, Queued
  <2>7. CASE p # Parent
    BY <2>1, <2>2, <2>4, <2>5, <2>7 DEF Fewer, Running, Queued
  <2>. QED BY <2>6, <2>7
<1>4. CASE Place[p] # u
  BY <1>0, <1>1, <1>2, <1>4 DEF Fewer, Running, Queued
<1>. QED BY <1>3, <1>4

-----------------------------------------------------------------------------
(* The wake of the parent.                                                 *)

(* A step that neither wakes the parent nor brings a wake to it.           *)
LEMMA TokenKeeps ==
  ASSUME Token, Fewer,
         OnceIn(ipQues'[Place[Parent]], Parent), Posted(Parent)' => Posted(Parent),
         \A p \in All : Waked(p)' => Waked(p),
         Woken' <=> Woken,
         at'[Parent] = "join" /\ pc'[Parent] = "run"
           => at[Parent] = "join" /\ pc[Parent] = "run"
  PROVE  Token'
<1>1. Pending' => Pending
  BY DEF Pending
<1>. QED BY <1>1 DEF Token, Fewer

(* A wake gets to the processor or to its queue.                           *)
LEMMA TokenLands ==
  ASSUME Token, Landed,
         OnceIn(ipQues'[Place[Parent]], Parent), Pending, ~ Pending',
         Woken' <=> Woken,
         at'[Parent] = "join" /\ pc'[Parent] = "run"
           => at[Parent] = "join" /\ pc[Parent] = "run"
  PROVE  Token'
<1>1. Woken /\ ~ (Posted(Parent)' \/ \E p \in All : Waked(p)')
  BY DEF Token, Pending
<1>. QED BY <1>1 DEF Token, Landed

(* schedule0 takes effect, for whichever process.                          *)
LEMMA LocalToken ==
  ASSUME BaseInv, Sorted, Asleep, Token, NEW p \in All, ScheduleLocal(p), UNCHANGED life
  PROVE  Token'
<1>0. /\ Parent \in All /\ p \in All /\ wakee[p] \in Procs /\ wakee[p] \in All
      /\ wakee \in [All -> Procs \cup {NULL}] /\ pc \in [All -> PCs] /\ NULL \notin Procs
      /\ Parent \in Procs
  BY Roster, Constants DEF BaseInv, TypeOK, Steady, ScheduleLocal
<1>1. /\ schedule0(Place[wakee[p]], wakee[p]) /\ pc[p] = "schedule"
      /\ pc' = [pc EXCEPT ![p] = "run"] /\ wakee' = [wakee EXCEPT ![p] = NULL]
      /\ UNCHANGED <<ipQues, at, children>>
  BY DEF ScheduleLocal, life
<1>2. /\ ~ Waked(p)' /\ \A x \in All : x # p => (Waked(x)' <=> Waked(x))
      /\ Posted(Parent)' <=> Posted(Parent)
      /\ OnceIn(ipQues'[Place[Parent]], Parent)
      /\ OnceIn(rdyQues[Place[Parent]], Parent)
      /\ Woken' <=> Woken
  BY <1>0, <1>1 DEF Waked, Posted, Token, Woken
<1>3. at'[Parent] = "join" /\ pc'[Parent] = "run" => at[Parent] = "join" /\ pc[Parent] = "run"
  BY <1>0, <1>1 DEF Asleep
<1>4. CASE wakee[p] # Parent
  <2>1. Fewer
    BY <1>0, <1>1, <1>2, <1>4, SchedulesOther
  <2>. QED BY <1>2, <1>3, <2>1, TokenKeeps
<1>5. CASE wakee[p] = Parent
  <2>1. Landed
    BY <1>1, <1>2, <1>5, SchedulesParent
  <2>2. Waked(p) /\ Pending
    BY <1>5 DEF Waked, Pending
  <2>3. ~ Pending'
    BY <1>2, <2>2 DEF Token, Pending
  <2>. QED BY <1>2, <1>3, <2>1, <2>2, <2>3, TokenLands
<1>. QED BY <1>4, <1>5

(* ipq_add: the wake goes from the waker to the interprocessor queue.      *)
LEMMA PostToken ==
  ASSUME BaseInv, Asleep, Token, NEW p \in All, IpqAdd(p), UNCHANGED life
  PROVE  Token'
<1>0. /\ Parent \in All /\ Place[Parent] \in Puns
      /\ pc[p] = "schedule" /\ wakee[p] \in Procs /\ wakee[p] \in All
      /\ Place[wakee[p]] \in Puns
      /\ wakee \in [All -> Procs \cup {NULL}] /\ pc \in [All -> PCs] /\ NULL \notin Procs
      /\ Parent \in Procs
      /\ ipQues \in [Puns -> Seq(All)] /\ ipQues[Place[Parent]] \in Seq(All)
  BY Roster, Constants DEF BaseInv, TypeOK, Steady, IpqAdd, RunsIn
<1> DEFINE x == wakee[p]
<1>1. /\ ipQues' = [ipQues EXCEPT ![Place[x]] = Append(@, x)]
      /\ pc' = [pc EXCEPT ![p] = "run"] /\ wakee' = [wakee EXCEPT ![p] = NULL]
      /\ UNCHANGED <<current, rdyQues, at, children>>
  BY DEF IpqAdd, life
<1>2. /\ ~ Waked(p)' /\ \A y \in All : y # p => (Waked(y)' <=> Waked(y))
      /\ Woken' <=> Woken
      /\ Running(Parent)' <=> Running(Parent)
      /\ Queued(Parent)' <=> Queued(Parent)
      /\ OnceIn(rdyQues'[Place[Parent]], Parent)
  BY <1>0, <1>1 DEF Waked, Running, Queued, Token, Woken
<1>3. at'[Parent] = "join" /\ pc'[Parent] = "run" => at[Parent] = "join" /\ pc[Parent] = "run"
  BY <1>0, <1>1 DEF Asleep
<1>4. CASE x # Parent
  <2>1. Fewer
    BY <1>2 DEF Fewer
  <2>2. (Posted(Parent)' => Posted(Parent)) /\ OnceIn(ipQues'[Place[Parent]], Parent)
    <3>0. OnceIn(ipQues[Place[Parent]], Parent)
      BY DEF Token
    <3>1. CASE Place[x] = Place[Parent]
      <4>1. ipQues'[Place[Parent]] = Append(ipQues[Place[Parent]], x)
        BY <1>0, <1>1, <3>1
      <4>. QED BY <1>0, <1>4, <3>0, <4>1, OnceAppend, AppendRange DEF Posted
    <3>2. CASE Place[x] # Place[Parent]
      <4>1. ipQues'[Place[Parent]] = ipQues[Place[Parent]]
        BY <1>0, <1>1, <3>2
      <4>. QED BY <3>0, <4>1 DEF Posted
    <3>. QED BY <3>1, <3>2
  <2>. QED BY <1>2, <1>3, <2>1, <2>2, TokenKeeps
<1>5. CASE x = Parent
  <2>1. Waked(p) /\ Pending /\ ~ Posted(Parent) /\ Woken
        /\ \A y \in All : Waked(y) => y = p
    BY <1>5 DEF Waked, Pending, Token
  <2>2. ipQues'[Place[Parent]] = Append(ipQues[Place[Parent]], Parent)
    BY <1>0, <1>1, <1>5
  <2>3. OnceIn(ipQues'[Place[Parent]], Parent)
    BY <1>0, <2>1, <2>2, OnceAppend DEF Token, Posted
  <2>4. \A y \in All : ~ Waked(y)'
    BY <1>2, <2>1
  <2>. QED BY <1>2, <1>3, <2>1, <2>3, <2>4 DEF Token
<1>. QED BY <1>4, <1>5

(* ipq_remove: the wake goes on from the interprocessor queue.             *)
LEMMA FetchOnce ==
  ASSUME BaseInv, Token, NEW p \in All, ipQues[Place[p]] # << >>,
         ipQues' = [ipQues EXCEPT ![Place[p]] = Tail(@)]
  PROVE  /\ OnceIn(ipQues'[Place[Parent]], Parent)
         /\ Posted(Parent)' => Posted(Parent)
         /\ Head(ipQues[Place[p]]) \in All
         /\ Place[Head(ipQues[Place[p]])] = Place[p]
         /\ Head(ipQues[Place[p]]) = Parent => Posted(Parent) /\ ~ Posted(Parent)'
<1> DEFINE u == Place[p]
           x == Head(ipQues[u])
<1>0. /\ Parent \in All /\ Place[Parent] \in Puns /\ u \in Puns
      /\ ipQues[u] \in Seq(All) /\ OnceIn(ipQues[Place[Parent]], Parent)
  BY Roster, Constants DEF BaseInv, TypeOK, Token
<1>1. /\ ipQues'[u] = Tail(ipQues[u]) /\ x \in All /\ Place[x] = u
      /\ \A w \in Puns : w # u => ipQues'[w] = ipQues[w]
  BY <1>0, RemoveEffect
<1>2. Range(ipQues[u]) = {x} \cup Range(Tail(ipQues[u]))
  BY <1>0, TailRange
<1>3. CASE u = Place[Parent]
  <2>1. /\ OnceIn(Tail(ipQues[u]), Parent)
        /\ x = Parent => Parent \notin Range(Tail(ipQues[u]))
    BY <1>0, <1>3, OnceTail
  <2>. QED BY <1>1, <1>2, <1>3, <2>1 DEF Posted
<1>4. CASE u # Place[Parent]
  BY <1>0, <1>1, <1>4 DEF Posted
<1>. QED BY <1>3, <1>4

(* The loops of take and of the handler: enqueue0 or schedule0 of what     *)
(* comes out of the interprocessor queue.                                  *)
LEMMA FetchToken ==
  ASSUME BaseInv, Sorted, Token, NEW p \in All, ipQues[Place[p]] # << >>,
         ipQues' = [ipQues EXCEPT ![Place[p]] = Tail(@)],
         \/ Enqueue(Place[p], Head(ipQues[Place[p]])) /\ UNCHANGED current
         \/ schedule0(Place[p], Head(ipQues[Place[p]])),
         UNCHANGED <<pc, wakee, at, children>>
  PROVE  Token'
<1> DEFINE x == Head(ipQues[Place[p]])
<1>1. /\ OnceIn(ipQues'[Place[Parent]], Parent) /\ (Posted(Parent)' => Posted(Parent))
      /\ x \in All /\ Place[x] = Place[p]
      /\ x = Parent => Posted(Parent) /\ ~ Posted(Parent)'
  BY FetchOnce
<1>2. /\ \A y \in All : Waked(y)' <=> Waked(y)
      /\ Woken' <=> Woken
      /\ OnceIn(rdyQues[Place[Parent]], Parent)
  BY DEF Waked, Woken, Token
<1>3. \/ Enqueue(Place[x], x) /\ UNCHANGED current
      \/ schedule0(Place[x], x)
  BY <1>1
<1> HIDE DEF x
<1>4. CASE x # Parent
  <2>1. CASE Enqueue(Place[x], x) /\ UNCHANGED current
    <3>1. Fewer
      BY <1>1, <1>2, <1>4, <2>1, EnqueueOnce DEF Fewer, Running
    <3>. QED BY <1>1, <1>2, <3>1, TokenKeeps
  <2>2. CASE schedule0(Place[x], x)
    <3>1. Fewer
      BY <1>1, <1>2, <1>4, <2>2, SchedulesOther
    <3>. QED BY <1>1, <1>2, <3>1, TokenKeeps
  <2>. QED BY <1>3, <2>1, <2>2
<1>5. CASE x = Parent
  <2>1. Landed
    <3>1. CASE Enqueue(Place[x], x) /\ UNCHANGED current
      BY <1>1, <1>2, <3>1, EnqueueOnce DEF Landed, Running
    <3>2. CASE schedule0(Place[x], x)
      BY <1>2, <1>5, <3>2, SchedulesParent
    <3>. QED BY <1>3, <3>1, <3>2
  <2>2. Pending /\ ~ Pending'
    BY <1>1, <1>2, <1>5 DEF Pending, Token
  <2>. QED BY <1>1, <1>2, <2>1, <2>2, TokenLands
<1>. QED BY <1>4, <1>5

(* relinquish gives the processor away.  A parent that is found in its     *)
(* own queue has been woken.                                               *)
LEMMA SwitchToken ==
  ASSUME BaseInv, Asleep, Token, NEW p \in All, Switch(p), UNCHANGED <<at, children>>
  PROVE  Token'
<1>0. Parent \in All /\ Place[Parent] \in Puns /\ pc \in [All -> PCs]
  BY Roster, Constants DEF BaseInv, TypeOK
<1>1. /\ current[Place[p]] = p /\ kernel[p] = "take" /\ rdyQues[Place[p]] # << >>
      /\ rdyQues' = [rdyQues EXCEPT ![Place[p]] = Tail(@)]
      /\ Dispatch(Place[p], Head(rdyQues[Place[p]]))
      /\ pc' = [pc EXCEPT ![p] = "run"] /\ UNCHANGED <<ipQues, wakee>>
  BY DEF Switch, RunsIn
<1>2. /\ Fewer
      /\ Place[p] = Place[Parent] =>
           /\ Running(Parent)' \/ Queued(Parent)' => Queued(Parent)
           /\ ~ (Running(Parent)' /\ Queued(Parent)')
  BY <1>1, TakesHead DEF Token
<1>3. /\ \A y \in All : Waked(y)' <=> Waked(y)
      /\ Posted(Parent)' <=> Posted(Parent)
      /\ OnceIn(ipQues'[Place[Parent]], Parent)
      /\ Woken' <=> Woken
      /\ Pending' <=> Pending
  BY <1>1 DEF Waked, Posted, Token, Woken, Pending
<1>4. CASE p # Parent
  <2>1. pc'[Parent] = pc[Parent]
    BY <1>0, <1>1, <1>4
  <2>. QED BY <1>2, <1>3, <2>1, TokenKeeps
<1>5. CASE p = Parent
  <2>1. Running(Parent)
    BY <1>1, <1>5 DEF Running
  <2>2. Running(Parent)' \/ Queued(Parent)' => Woken /\ ~ Pending
    BY <1>2, <1>5, <2>1 DEF Token
  <2>. QED BY <1>2, <1>3, <1>5, <2>2 DEF Token, Fewer
<1>. QED BY <1>4, <1>5

(* The steps of the scheduler.                                             *)
LEMMA CarriedToken ==
  ASSUME BaseInv, Sorted, LifeType, Asleep, Token, NEW p \in All, Carried(p), UNCHANGED life
  PROVE  Token'
<1>0. /\ Parent \in Procs /\ Parent \in All /\ Place[Parent] \in Puns /\ Place[p] \in Puns
      /\ Parent \notin Others /\ Children \subseteq Procs /\ pc \in [All -> PCs]
      /\ rdyQues[Place[p]] \in Seq(All) /\ waiting \subseteq Others /\ Procs \subseteq All
      /\ OnceIn(rdyQues[Place[Parent]], Parent) /\ OnceIn(ipQues[Place[Parent]], Parent)
      /\ UNCHANGED <<at, children>>
  BY Roster, Constants DEF BaseInv, TypeOK, Asleep, Token, life
<1>1. ASSUME Fewer, UNCHANGED <<ipQues, wakee>>,
             at[Parent] = "join" /\ pc'[Parent] = "run" => pc[Parent] = "run"
      PROVE  Token'
  <2>1. /\ \A x \in All : Waked(x)' => Waked(x)
        /\ Posted(Parent)' => Posted(Parent)
        /\ OnceIn(ipQues'[Place[Parent]], Parent)
        /\ Woken' <=> Woken
    BY <1>0, <1>1 DEF Waked, Posted, Woken
  <2>. QED BY <1>0, <1>1, <2>1, TokenKeeps
<1>2. ASSUME UNCHANGED <<current, rdyQues>> PROVE Fewer
  BY <1>0, <1>2 DEF Fewer, Running, Queued
<1>3. CASE p \in Others /\ (PrepareToWait(p) \/ Publish(p))
  <2>1. UNCHANGED <<current, rdyQues, ipQues, wakee>> /\ pc'[Parent] = pc[Parent]
    BY <1>0, <1>3 DEF PrepareToWait, Publish
  <2>. QED BY <1>1, <1>2, <2>1
<1>4. CASE Yield(p) \/ Disable(p) \/ ScheduleRemote(p) \/ IpiEnter(p) \/ IpiDone(p)
           \/ IntrEnter(p) \/ IntrDone(p)
  <2>1. UNCHANGED <<current, rdyQues, ipQues, wakee, pc>>
    BY <1>4 DEF Yield, Disable, ScheduleRemote, IpiEnter, IpiDone, IntrEnter, IntrDone
  <2>. QED BY <1>1, <1>2, <2>1
<1>5. CASE Relinquish(p)
  <2>1. UNCHANGED <<current, rdyQues, ipQues, wakee>>
    BY <1>5 DEF Relinquish
  <2>2. at[Parent] = "join" /\ pc'[Parent] = "run" => pc[Parent] = "run"
    BY <1>0, <1>5 DEF Relinquish, Asleep
  <2>. QED BY <1>1, <1>2, <2>1, <2>2
<1>6. CASE Switch(p)
  BY <1>0, <1>6, SwitchToken
<1>7. CASE Drain(p)
  BY <1>0, <1>7, FetchToken DEF Drain
<1>8. CASE IpiStep(p)
  BY <1>0, <1>8, FetchToken DEF IpiStep
<1>9. CASE YieldSwitch(p)
  <2>1. current[Place[p]] = p /\ UNCHANGED <<ipQues, wakee, pc>>
    BY <1>9 DEF YieldSwitch, RunsIn
  <2>2. CASE Len(rdyQues[Place[p]]) >= 2
    <3>1. rdyQues[Place[p]] # << >>
      BY <1>0, <2>2, Elements
    <3>2. /\ rdyQues' = [rdyQues EXCEPT ![Place[p]] = enqueue0(Tail(@), p)]
          /\ Dispatch(Place[p], Head(rdyQues[Place[p]]))
      BY <1>9, <2>2 DEF YieldSwitch
    <3>3. Fewer
      BY <1>0, <2>1, <3>1, <3>2, RotatesHead
    <3>. QED BY <1>1, <2>1, <3>3
  <2>3. CASE ~ (Len(rdyQues[Place[p]]) >= 2)
    <3>1. UNCHANGED <<current, rdyQues>>
      BY <1>9, <2>3 DEF YieldSwitch
    <3>. QED BY <1>1, <1>2, <2>1, <3>1
  <2>. QED BY <2>2, <2>3
<1>10. CASE Preempt(p)
  <2>1. /\ current[Place[p]] = p /\ rdyQues[Place[p]] # << >>
        /\ rdyQues' = [rdyQues EXCEPT ![Place[p]] = enqueue0(Tail(@), p)]
        /\ Dispatch(Place[p], Head(rdyQues[Place[p]])) /\ UNCHANGED <<ipQues, wakee, pc>>
    BY <1>10 DEF Preempt, RunsIn, BaseInv, Steady
  <2>2. Fewer
    BY <1>0, <2>1, RotatesHead
  <2>. QED BY <1>1, <2>1, <2>2
<1>11. ASSUME NEW q \in waiting, IntrWake(p, q) PROVE Token'
  <2>1. /\ q \in All /\ q # Parent /\ UNCHANGED <<current, ipQues, wakee, pc>>
        /\ Enqueue(Place[q], q) \/ UNCHANGED rdyQues
    BY <1>0, <1>11, Roster DEF IntrWake
  <2>2. Fewer
    <3>1. CASE Enqueue(Place[q], q)
      BY <1>0, <2>1, <3>1, EnqueueOnce DEF Fewer, Running
    <3>. QED BY <1>2, <2>1, <3>1
  <2>. QED BY <1>1, <2>1, <2>2
<1>. QED BY <1>3, <1>4, <1>5, <1>6, <1>7, <1>8, <1>9, <1>10, <1>11, LocalToken, PostToken
         DEF Carried, Scheduling, Interrupt

(* Every step: only the last child calls the wake into being.              *)
LEMMA TokenNext ==
  ASSUME BaseInv, Sorted, LifeType, Counted, Asleep, Token, ParNext
  PROVE  Token'
<1>0. /\ Parent \in Procs /\ Parent \in All /\ Place[Parent] \in Puns
      /\ Children \subseteq Procs /\ Parent \notin Children /\ Procs \subseteq All
      /\ NULL \notin Procs /\ Len(Roles) > 0 /\ Len(Roles) \in Nat
      /\ at \in [Procs -> Ats] /\ pc \in [All -> PCs]
      /\ wakee \in [All -> Procs \cup {NULL}]
      /\ OnceIn(rdyQues[Place[Parent]], Parent) /\ OnceIn(ipQues[Place[Parent]], Parent)
  BY Roster, Constants DEF BaseInv, TypeOK, LifeType, Token
<1>1. ASSUME UNCHANGED <<current, rdyQues>> PROVE Fewer
  BY <1>0, <1>1 DEF Fewer, Running, Queued
<1>2. ASSUME UNCHANGED <<current, rdyQues, ipQues, wakee>>, Woken' <=> Woken,
             at'[Parent] = "join" /\ pc'[Parent] = "run"
               => at[Parent] = "join" /\ pc[Parent] = "run"
      PROVE  Token'
  <2>1. /\ \A x \in All : Waked(x)' => Waked(x)
        /\ Posted(Parent)' => Posted(Parent)
        /\ OnceIn(ipQues'[Place[Parent]], Parent)
    BY <1>0, <1>2 DEF Waked, Posted
  <2>. QED BY <1>1, <1>2, <2>1, TokenKeeps
<1>3. CASE Par
  <2>1. /\ at[Parent] = "main" /\ at'[Parent] = "create" /\ children' = Len(Roles)
        /\ UNCHANGED <<current, rdyQues, ipQues, wakee>>
    BY <1>0, <1>3 DEF Par, par_barr_init, Lives
  <2>2. ~ Woken /\ ~ Woken'
    BY <1>0, <2>1 DEF Woken
  <2>. QED BY <1>2, <2>1, <2>2
<1>4. CASE Join
  <2>1. /\ at[Parent] = "create" /\ at'[Parent] = "join" /\ children' = children
        /\ pc'[Parent] = "relinquish" /\ UNCHANGED <<current, rdyQues, ipQues, wakee>>
    BY <1>0, <1>4 DEF Join, Lives
  <2>2. Woken' <=> Woken
    BY <2>1 DEF Woken
  <2>. QED BY <1>2, <2>1, <2>2
<1>5. CASE Return
  <2>1. /\ at[Parent] = "join" /\ pc[Parent] = "run" /\ Running(Parent)
        /\ at'[Parent] = "main" /\ UNCHANGED <<current, rdyQues, ipQues, wakee>>
    BY <1>0, <1>5 DEF Return, Lives, Runs, Running, vars
  <2>2. ~ Pending /\ ~ Queued(Parent)
    BY <2>1 DEF Token
  <2>3. /\ \A x \in All : ~ Waked(x)'
        /\ ~ Posted(Parent)' /\ ~ Queued(Parent)' /\ ~ Pending'
        /\ OnceIn(ipQues'[Place[Parent]], Parent)
        /\ OnceIn(rdyQues'[Place[Parent]], Parent)
    BY <1>0, <2>1, <2>2 DEF Pending, Waked, Posted, Queued
  <2>. QED BY <2>1, <2>3 DEF Token
<1>6. ASSUME NEW r \in Children, Create(r) PROVE Token'
  <2>0. r \in All /\ r # Parent /\ Place[r] \in Puns
    BY <1>0, Constants
  <2>1. /\ at[Parent] = "create" /\ at' = [at EXCEPT ![r] = "body"] /\ children' = children
        /\ UNCHANGED <<current, ipQues>>
        /\ wakee' = wakee \/ wakee' = [wakee EXCEPT ![Parent] = r]
        /\ Enqueue(Place[r], r) \/ UNCHANGED rdyQues
    BY <1>6 DEF Create, Build, Lives
  <2>2. Fewer
    <3>1. CASE Enqueue(Place[r], r)
      BY <1>0, <2>0, <2>1, <3>1, EnqueueOnce DEF Fewer, Running
    <3>. QED BY <1>1, <2>1, <3>1
  <2>3. at'[Parent] = "create"
    BY <1>0, <2>0, <2>1
  <2>4. /\ \A x \in All : Waked(x)' => Waked(x)
        /\ Posted(Parent)' => Posted(Parent)
        /\ OnceIn(ipQues'[Place[Parent]], Parent)
        /\ Woken' <=> Woken
    BY <1>0, <2>0, <2>1, <2>3 DEF Waked, Posted, Woken
  <2>. QED BY <2>2, <2>3, <2>4, TokenKeeps
<1>7. ASSUME NEW p \in Children, Sync(p) PROVE Token'
  <2>0. p \in All /\ p # Parent
    BY <1>0
  <2>1. /\ at[p] = "body" /\ at' = [at EXCEPT ![p] = "terminate"]
        /\ children' = children - 1
        /\ UNCHANGED <<current, rdyQues, ipQues>>
    BY <1>7 DEF Sync, Lives
  <2>2. at[Parent] # "main" /\ children > 0 /\ children \in Nat
    <3>1. p \in Bodies
      BY <2>1 DEF Bodies
    <3>. QED BY <3>1, BodiesSize DEF Counted
  <2>3. at'[Parent] = at[Parent] /\ pc'[Parent] = pc[Parent]
    BY <1>0, <1>7, <2>0, <2>1 DEF Sync
  <2>4. ~ Woken /\ ~ Pending
    BY <2>2 DEF Woken, Token
  <2>5. CASE ~ LastChild
    <3>1. wakee' = wakee
      BY <1>7, <2>5 DEF Sync
    <3>2. ~ Woken'
      BY <2>1, <2>2, <2>5 DEF Woken, LastChild
    <3>. QED BY <1>2, <2>1, <2>3, <2>4, <3>1, <3>2
  <2>6. CASE LastChild
    <3>1. wakee' = [wakee EXCEPT ![p] = Parent]
      BY <1>7, <2>6 DEF Sync
    <3>2. /\ \A x \in All : Waked(x)' => x = p
          /\ ~ Posted(Parent)'
          /\ Queued(Parent)' <=> Queued(Parent)
          /\ Running(Parent)' <=> Running(Parent)
          /\ OnceIn(ipQues'[Place[Parent]], Parent)
          /\ OnceIn(rdyQues'[Place[Parent]], Parent)
      BY <1>0, <2>0, <2>1, <2>4, <3>1 DEF Pending, Waked, Posted, Queued, Running
    <3>3. Woken'
      BY <2>1, <2>2, <2>3, <2>6 DEF Woken, LastChild
    <3>4. /\ ~ (Running(Parent) /\ Queued(Parent))
          /\ at[Parent] = "join" /\ pc[Parent] = "run" => ~ Running(Parent) /\ ~ Queued(Parent)
      BY <2>4 DEF Token
    <3>. QED BY <2>3, <3>2, <3>3, <3>4 DEF Token
  <2>. QED BY <2>5, <2>6
<1>8. ASSUME NEW p \in Children, Terminate(p) \/ Release(p) \/ FinishTermination(p)
      PROVE  Token'
  <2>1. /\ UNCHANGED <<current, rdyQues, ipQues, wakee, pc, children>>
        /\ at'[Parent] = at[Parent]
    BY <1>0, <1>8 DEF Terminate, Release, FinishTermination, vars
  <2>2. Woken' <=> Woken
    BY <2>1 DEF Woken
  <2>. QED BY <1>2, <2>1, <2>2
<1>9. ASSUME NEW p \in Children, Exit(p) PROVE Token'
  BY <1>0, <1>9, SwitchToken DEF Exit
<1>. QED BY <1>0, <1>3, <1>4, <1>5, <1>6, <1>7, <1>8, <1>9, CarriedToken, Roster
         DEF ParNext, Living, Carried

-----------------------------------------------------------------------------
(* The theorems.                                                           *)

ParInv ==
  /\ BaseInv /\ Sorted
  /\ LifeType /\ Counted /\ Asleep /\ Token /\ Stack

(* The queues as par finds them.                                           *)
LEMMA ParStart == ParInit => ParInv
<1> SUFFICES ASSUME ParInit PROVE ParInv
  OBVIOUS
<1>0. /\ Parent \in Procs /\ Parent \in All /\ Place[Parent] \in Puns
      /\ Children \subseteq Procs /\ Parent \notin Children /\ Procs \subseteq All
      /\ NULL \notin Procs /\ Len(Roles) \in Nat /\ MaxPars \in Nat
  BY Roster, Constants, ParAssumption
<1>1. ASSUME NEW u \in Puns
      PROVE  /\ Living0[u] \in Seq(All) /\ Living0[u] # << >> /\ IsInjective(Living0[u])
             /\ Head(Living0[u]) \in All /\ Place[Head(Living0[u])] = u
             /\ Tail(Living0[u]) \in Seq(All)
             /\ \A x \in Range(Tail(Living0[u])) : Place[x] = u
             /\ IsSorted(Tail(Living0[u]))
             /\ Head(Living0[u]) \notin Range(Tail(Living0[u]))
             /\ IsInjective(Tail(Living0[u]))
  <2>1. /\ Living0[u] \in Seq(All) /\ \A x \in Range(Living0[u]) : Place[x] = u
        /\ IsInjective(Living0[u]) /\ IsSorted(Living0[u])
    BY LivingAssumption DEF IsSorted
  <2>2. Idle[u] \in Range(Living0[u])
    BY LivingAssumption, Constants, <1>0
  <2>3. Living0[u] # << >>
    BY <2>1, <2>2, Elements
  <2>. QED BY <2>1, <2>3, TailRange, TailSorted, SchedAssumption
<1>2. TypeOK
  <2>1. \A u \in Puns : Len(<< >>) <= QCap
    BY Constants
  <2>. QED BY <1>1, <2>1, Constants DEF ParInit, TypeOK, SchedStates, PCs, Kernels
<1>3. Placed
  BY <1>1 DEF ParInit, Placed, Range
<1>4. Steady
  BY DEF ParInit, Steady
<1>5. Sorted
  BY <1>1 DEF ParInit, Sorted
<1>6. LifeType
  BY <1>0 DEF ParInit, LifeType, Ats
<1>7. Counted
  <2>1. Bodies = {} /\ at[Parent] = "main" /\ children = 0
    BY <1>0 DEF ParInit, Bodies
  <2>. QED BY <2>1, FS_EmptySet DEF Counted
<1>8. Asleep
  BY <1>0 DEF ParInit, Asleep
<1>9. Token
  <2> DEFINE u == Place[Parent]
  <2>1. rdyQues[u] = Tail(Living0[u]) /\ current[u] = Head(Living0[u]) /\ ipQues[u] = << >>
    BY <1>0 DEF ParInit
  <2>2. OnceIn(rdyQues[u], Parent)
    <3>1. rdyQues[u] \in Seq(All) /\ IsInjective(rdyQues[u])
      BY <1>0, <1>1, <2>1
    <3>. QED BY <3>1, Elements DEF OnceIn, IsInjective
  <2>3. OnceIn(ipQues[u], Parent) /\ ~ Posted(Parent)
    BY <2>1 DEF OnceIn, Posted, Range
  <2>4. ~ (Running(Parent) /\ Queued(Parent))
    BY <1>0, <1>1, <2>1 DEF Running, Queued
  <2>5. at[Parent] = "main" /\ \A p \in All : ~ Waked(p)
    BY <1>0, Constants DEF ParInit, Waked
  <2>. QED BY <2>2, <2>3, <2>4, <2>5 DEF Token, Woken, Pending
<1>10. Stack
  BY <1>0 DEF ParInit, Stack, Leaving
<1>. QED BY <1>2, <1>3, <1>4, <1>5, <1>6, <1>7, <1>8, <1>9, <1>10 DEF ParInv, BaseInv

(* Every step keeps the invariant.                                         *)
LEMMA ParKeeps == ParInv /\ [ParNext]_parVars => ParInv'
<1> SUFFICES ASSUME ParInv, [ParNext]_parVars PROVE ParInv'
  OBVIOUS
<1> USE DEF ParInv
<1>1. CASE ParNext
  <2>1. BaseInv' /\ Sorted'
    BY <1>1, ParBase DEF Asleep
  <2>2. Lives(Parent, "join") => Woken
    BY DEF Lives, Runs, Token, Running
  <2>. QED BY <1>1, <2>1, <2>2, LifeNext, CountNext, AsleepNext, TokenNext, StackNext
<1>2. CASE UNCHANGED parVars
  <2>1. UNCHANGED vars /\ UNCHANGED life
    BY <1>2 DEF parVars
  <2>2. BaseInv' /\ Sorted'
    BY <2>1 DEF vars, BaseInv, TypeOK, Placed, Steady, Sorted
  <2>3. LifeType' /\ Counted'
    BY <2>1 DEF life, LifeType, Counted, Bodies
  <2>4. Asleep'
    BY <2>1 DEF vars, life, Asleep
  <2>5. Token'
    BY <2>1 DEF vars, life, Token, Woken, Pending, Waked, Running, Queued, Posted
  <2>6. Stack'
    BY <2>1 DEF vars, life, Stack, Leaving, RunsIn
  <2>. QED BY <2>2, <2>3, <2>4, <2>5, <2>6
<1>. QED BY <1>1, <1>2

(* What holds of par and of termination in every reachable state.          *)
THEOREM ParInvariant == ParSpec => []ParInv
BY ParStart, ParKeeps, PTL DEF ParSpec

(* par returns when its children have ended (run.c:73), however the wake   *)
(* of the last child meets the parent's way into relinquish, on one        *)
(* processor or on two, with preemption or without.                        *)
THEOREM ParJoined == ParSpec => []Joined
<1>1. ParInv => Joined
  BY DEF ParInv, Counted, Bodies, Joined
<1>. QED BY <1>1, ParInvariant, PTL

(* "so this process has sole use of the termination stack" (sched.c:621).  *)
THEOREM ParOneTerminating == ParSpec => []OneTerminating
<1>1. ParInv => OneTerminating
  BY StackOne DEF ParInv
<1>. QED BY <1>1, ParInvariant, PTL

(* The types of ParRun.                                                    *)
THEOREM ParType == ParSpec => []LifeTypeOK
<1>1. ParInv => LifeTypeOK
  BY Roster DEF ParInv, BaseInv, LifeType, LifeTypeOK
<1>. QED BY <1>1, ParInvariant, PTL

-----------------------------------------------------------------------------
(* Nobody is lost in par.  Preemption can lose a process (a parent that is *)
(* preempted after its wake is queued twice, and what stands between the   *)
(* two places falls out), so these theorems are about processors on which  *)
(* the parent and the processes beside the children are outranked by       *)
(* nobody.  The children may have any priorities: those that are outranked *)
(* may be preempted and queued twice, and what falls out of a queue then   *)
(* is outranked too.  The invariant follows the processes that are not.    *)

\* Nobody on its processor outranks p.
Unrivalled(p) == \A x \in All : Place[x] = Place[p] => ~ pri_gt(x, p)
Tops == {p \in Procs : Unrivalled(p)}

\* Only children and idle processes are preempted.
Foremost == \A p \in Others \cup {Parent} : Unrivalled(p)

\* Where an unrivalled process is in the kernel.
TopCall(p) ==
  /\ kernel[p] \in {"none", "take", "take1", "ipq_add", "ipi", "intr"}
  /\ kernel[p] # "none" => Running(p)
  /\ kernel[p] = "take" => pc[p] = "disable" \/ p \in dying
  /\ kernel[p] = "take1" => pc[p] \in {"run", "publish"} /\ p \notin dying

\* Who makes whom ready: the parent its children, the last child the parent.
Schedulers ==
  /\ \A p \in All : wakee[p] # NULL <=> pc[p] = "schedule"
  /\ \A p \in All : wakee[p] \in Children => p = Parent
  /\ \A p \in All : wakee[p] = Parent => p \in Children
  /\ \A p \in All : wakee[p] \notin Others

\* Where children, the others and the idle processes are in their code; who is
\* not outranked is not preempted.
Paths ==
  /\ \A p \in Children :
       /\ pc[p] \in {"run", "schedule"}
       /\ pc[p] = "schedule" => at[p] = "terminate"
       /\ kernel[p] = "take" => p \in dying
  /\ \A p \in Others : pc[p] \in {"run", "publish", "relinquish", "disable"}
  /\ \A p \in All \ Procs : kernel[p] # "take1"
  /\ \A p \in All : Unrivalled(p) => kernel[p] \notin {"preempt", "stale"}

\* q is on its way to a queue or in it, once.
OneWay(q) ==
  /\ OnceIn(rdyQues[Place[q]], q) /\ OnceIn(ipQues[Place[q]], q)
  /\ ~ (Queued(q) /\ Posted(q))
  /\ Scheduled(q) => ~ Queued(q) /\ ~ Posted(q)

\* A process beside the children waits for its interrupt, is ready or runs.
OtherStatus(q) ==
  /\ ~ Posted(q)
  /\ Running(q) \/ Queued(q) \/ q \in waiting
  /\ q \in waiting => ~ Queued(q)
  /\ pc[q] = "run" =>
       /\ Running(q) => ~ Queued(q) /\ q \notin waiting
       /\ q \in waiting => sched_state[q] = "WAITING"
  /\ pc[q] = "publish" =>
       /\ Running(q) => ~ Queued(q)
       /\ q \notin waiting /\ sched_state[q] = "PREPARING_TO_WAIT"
  /\ pc[q] = "relinquish" =>
       /\ Running(q) /\ ~ Queued(q)
       /\ q \in waiting <=> sched_state[q] = "PREPARING_TO_WAIT"
  /\ pc[q] = "disable" =>
       /\ Running(q)
       /\ Queued(q) \/ q \in waiting
       /\ q \in waiting => sched_state[q] = "WAITING"

\* The parent gives its processor up in relinquish, and by yielding while it has
\* children left to make; its wake is there from the end of the last child until
\* it has run again.
ParentStatus ==
  /\ at[Parent] # "join" => Running(Parent) \/ Queued(Parent)
  /\ at[Parent] = "create" => Running(Parent) \/ made < Len(Roles)
  /\ pc[Parent] # "run" => Running(Parent)
  /\ Woken => \/ Ready(Parent)
              \/ Running(Parent) /\ at[Parent] = "join" /\ pc[Parent] = "run"

\* A child runs or is ready; one that has released its record runs, and is
\* ready too if the record has been built anew.
ChildStatus(c) ==
  /\ at[c] = "free" /\ c \notin dying => ~ Running(c) /\ ~ Ready(c)
  /\ c \in dying => Running(c) /\ (at[c] = "body" <=> Ready(c))
  /\ at[c] # "free" /\ c \notin dying => (Running(c) <=> ~ Ready(c))

TopStatus(q) ==
  /\ OneWay(q)
  /\ q \in Others => OtherStatus(q)
  /\ q \in Children => ChildStatus(q)
  /\ q = Parent => ParentStatus

KeptInv == Schedulers /\ Paths /\ \A q \in Tops : TopCall(q) /\ TopStatus(q)

-----------------------------------------------------------------------------
(* What the queue operations do to an unrivalled process.                  *)

\* It keeps its place, or goes from the queue to the processor.
KeepsPlace(q) ==
  /\ OnceIn(rdyQues'[Place[q]], q)
  /\ \/ (Running(q)' <=> Running(q)) /\ (Queued(q)' <=> Queued(q))
     \/ Queued(q) /\ ~ Running(q) /\ Running(q)' /\ ~ Queued(q)'

\* It gets a place in the queue or the processor.
GetsPlace(q) ==
  /\ OnceIn(rdyQues'[Place[q]], q)
  /\ \/ Queued(q)' /\ (Running(q)' <=> Running(q))
     \/ ~ Running(q) /\ Running(q)' /\ ~ Queued(q)'

(* Unrivalled processes are processes.                                     *)
LEMMA TopIs ==
  /\ Tops \subseteq Procs /\ Tops \subseteq All
  /\ \A q \in Tops : Place[q] \in Puns /\ Pri[q] \in Nat /\ Unrivalled(q)
BY Constants DEF Tops

(* Who is preempted is not one of them.                                    *)
LEMMA Outdone ==
  ASSUME NEW p \in All, NEW x \in All, Place[x] = Place[p], pri_gt(x, p)
  PROVE  ~ Unrivalled(p)
BY DEF Unrivalled

(* enqueue0 drops none of them: what falls out of the list when a process  *)
(* is inserted twice has its priority.                                     *)
LEMMA InsertTop ==
  ASSUME NEW t \in Seq(All), IsSorted(t), NEW p \in All, Unrivalled(p) => p \notin Range(t),
         NEW q \in Tops, Place[q] = Place[p], OnceIn(t, q)
  PROVE  /\ OnceIn(enqueue0(t, p), q)
         /\ q \in Range(enqueue0(t, p)) <=> q \in Range(t) \/ q = p
<1>0. Pri \in [All -> Nat] /\ q \in All /\ Unrivalled(q) /\ Pri[q] \in Nat /\ Pri[p] \in Nat
  BY TopIs, SchedAssumption
<1>1. OnceIn(enqueue0(t, p), q)
  BY <1>0, OnceEnqueue
<1>2. /\ Range(enqueue0(t, p)) \subseteq Range(t) \cup {p}
      /\ p \in Range(enqueue0(t, p))
      /\ p \notin Range(t) => Range(enqueue0(t, p)) = Range(t) \cup {p}
  BY EnqueueRange
<1>3. CASE p \notin Range(t)
  BY <1>1, <1>2, <1>3
<1>4. CASE p \in Range(t)
  <2>1. PICK z \in All : Place[z] = Place[p] /\ Pri[z] < Pri[p]
    BY <1>4 DEF Unrivalled, pri_gt
  <2>2. Pri[z] \in Nat /\ ~ (Pri[z] < Pri[q])
    BY <1>0, <2>1 DEF Unrivalled, pri_gt
  <2>3. Pri[q] < Pri[p]
    BY <1>0, <2>1, <2>2
  <2>4. q \in Range(t) => q \in Range(enqueue0(t, p))
    BY <1>0, <2>3, EnqueueAbove
  <2>. QED BY <1>1, <1>2, <2>4
<1>. QED BY <1>3, <1>4

(* enqueue0 on the ready queue of a processor.                             *)
LEMMA EnqueueTop ==
  ASSUME BaseInv, Sorted, NEW x \in All, Enqueue(Place[x], x), Unrivalled(x) => ~ Queued(x),
         NEW q \in Tops, OnceIn(rdyQues[Place[q]], q)
  PROVE  /\ OnceIn(rdyQues'[Place[q]], q)
         /\ Queued(q)' <=> Queued(q) \/ q = x
<1>0. /\ Place[q] \in Puns /\ Place[x] \in Puns /\ q \in All
      /\ rdyQues[Place[x]] \in Seq(All) /\ IsSorted(rdyQues[Place[x]])
  BY TopIs, Constants DEF BaseInv, TypeOK, Sorted
<1>1. /\ rdyQues'[Place[x]] = enqueue0(rdyQues[Place[x]], x)
      /\ \A w \in Puns : w # Place[x] => rdyQues'[w] = rdyQues[w]
  BY <1>0, EnqueueEffect
<1>2. CASE Place[x] = Place[q]
  <2>1. Unrivalled(x) => x \notin Range(rdyQues[Place[x]])
    BY DEF Queued
  <2>2. /\ OnceIn(enqueue0(rdyQues[Place[x]], x), q)
        /\ q \in Range(enqueue0(rdyQues[Place[x]], x))
             <=> q \in Range(rdyQues[Place[x]]) \/ q = x
    BY <1>0, <1>2, <2>1, InsertTop
  <2>. QED BY <1>1, <1>2, <2>2 DEF Queued
<1>3. CASE Place[x] # Place[q]
  BY <1>0, <1>1, <1>3 DEF Queued
<1>. QED BY <1>2, <1>3

(* schedule0: nobody unrivalled loses the processor.                       *)
LEMMA ScheduleTop ==
  ASSUME BaseInv, Sorted, NEW x \in All, schedule0(Place[x], x), Unrivalled(x) => ~ Queued(x),
         NEW q \in Tops, OnceIn(rdyQues[Place[q]], q)
  PROVE  /\ q # x => KeepsPlace(q)
         /\ q = x => GetsPlace(q)
         /\ Running(q) => Running(q)'
<1>0. /\ Place[q] \in Puns /\ Place[x] \in Puns /\ q \in All /\ Unrivalled(q)
      /\ current \in [Puns -> All] /\ current[Place[x]] \in All
      /\ Place[current[Place[x]]] = Place[x] /\ Pri[x] \in Nat /\ Pri[current[Place[x]]] \in Nat
  BY TopIs, Constants DEF BaseInv, TypeOK, Placed
<1>1. CASE Enqueue(Place[x], x) /\ UNCHANGED current
  <2>1. OnceIn(rdyQues'[Place[q]], q) /\ (Queued(q)' <=> Queued(q) \/ q = x)
    BY <1>1, EnqueueTop
  <2>. QED BY <1>1, <2>1 DEF KeepsPlace, GetsPlace, Running
<1>2. CASE /\ ~ pri_le(x, current[Place[x]]) /\ Dispatch(Place[x], x)
           /\ Enqueue(Place[x], current[Place[x]])
  <2> DEFINE y == current[Place[x]]
  <2>1. y \in All /\ Place[y] = Place[x] /\ pri_gt(x, y) /\ Enqueue(Place[y], y)
    BY <1>0, <1>2 DEF pri_le, pri_gt
  <2>2. ~ Unrivalled(y)
    BY <2>1, Outdone
  <2>3. /\ current'[Place[x]] = x
        /\ \A w \in Puns : w # Place[x] => current'[w] = current[w]
    BY <1>0, <1>2 DEF Dispatch
  <2> HIDE DEF y
  <2>4. OnceIn(rdyQues'[Place[q]], q) /\ (Queued(q)' <=> Queued(q) \/ q = y)
    BY <2>1, <2>2, EnqueueTop
  <2>5. q # y
    BY <1>0, <2>2
  <2>6. CASE q = x
    <3>1. ~ Running(q) /\ Running(q)' /\ ~ Queued(q)
      BY <1>0, <2>3, <2>5, <2>6 DEF Running, y
    <3>. QED BY <2>4, <2>5, <2>6, <3>1 DEF GetsPlace
  <2>7. CASE q # x
    <3>1. Running(q)' <=> Running(q)
      BY <1>0, <2>3, <2>5, <2>7 DEF Running, y
    <3>. QED BY <2>4, <2>5, <2>7, <3>1 DEF KeepsPlace
  <2>. QED BY <2>6, <2>7
<1>. QED BY <1>1, <1>2 DEF schedule0

(* take, with the switch to the process that was taken.                    *)
LEMMA TakeTop ==
  ASSUME BaseInv, NEW p \in All, current[Place[p]] = p, rdyQues[Place[p]] # << >>,
         rdyQues' = [rdyQues EXCEPT ![Place[p]] = Tail(@)],
         Dispatch(Place[p], Head(rdyQues[Place[p]])),
         NEW q \in Tops, OnceIn(rdyQues[Place[q]], q)
  PROVE  /\ OnceIn(rdyQues'[Place[q]], q)
         /\ q # p => KeepsPlace(q)
         /\ q = p => /\ Queued(q) <=> Running(q)' \/ Queued(q)'
                     /\ ~ (Running(q)' /\ Queued(q)')
<1> DEFINE u == Place[p]
           h == Head(rdyQues[u])
<1>0. /\ Place[q] \in Puns /\ u \in Puns /\ q \in All
      /\ current \in [Puns -> All] /\ rdyQues[u] \in Seq(All)
  BY TopIs, Constants DEF BaseInv, TypeOK
<1>1. /\ rdyQues'[u] = Tail(rdyQues[u])
      /\ \A w \in Puns : w # u => rdyQues'[w] = rdyQues[w]
  BY <1>0, TakeEffect
<1>2. current'[u] = h /\ \A w \in Puns : w # u => current'[w] = current[w]
  BY <1>0 DEF Dispatch
<1>3. CASE Place[q] = u
  <2>1. OnceIn(Tail(rdyQues[u]), q) /\ (h = q => q \notin Range(Tail(rdyQues[u])))
    BY <1>0, <1>3, OnceTail
  <2>2. Range(rdyQues[u]) = {h} \cup Range(Tail(rdyQues[u]))
    BY <1>0, TailRange
  <2>. QED BY <1>1, <1>2, <1>3, <2>1, <2>2 DEF KeepsPlace, Running, Queued
<1>4. CASE Place[q] # u
  BY <1>0, <1>1, <1>2, <1>4 DEF KeepsPlace, Running, Queued
<1>. QED BY <1>3, <1>4

(* take and enqueue0, as yield and preemption do it.                       *)
LEMMA RotateTop ==
  ASSUME BaseInv, Sorted, NEW p \in All, current[Place[p]] = p, rdyQues[Place[p]] # << >>,
         rdyQues' = [rdyQues EXCEPT ![Place[p]] = enqueue0(Tail(@), p)],
         Dispatch(Place[p], Head(rdyQues[Place[p]])), Unrivalled(p) => ~ Queued(p),
         NEW q \in Tops, OnceIn(rdyQues[Place[q]], q)
  PROVE  /\ OnceIn(rdyQues'[Place[q]], q)
         /\ q # p => KeepsPlace(q)
         /\ q = p => Queued(q)' /\ ~ Running(q)'
<1> DEFINE u == Place[p]
           h == Head(rdyQues[u])
           t == Tail(rdyQues[u])
<1>0. /\ Place[q] \in Puns /\ u \in Puns /\ q \in All /\ Unrivalled(q)
      /\ current \in [Puns -> All] /\ rdyQues[u] \in Seq(All) /\ IsSorted(rdyQues[u])
  BY TopIs, Constants DEF BaseInv, TypeOK, Sorted
<1>1. /\ rdyQues'[u] = enqueue0(t, p)
      /\ \A w \in Puns : w # u => rdyQues'[w] = rdyQues[w]
  BY RotateEffect
<1>2. current'[u] = h /\ \A w \in Puns : w # u => current'[w] = current[w]
  BY <1>0 DEF Dispatch
<1>3. CASE Place[q] = u
  <2>1. OnceIn(t, q) /\ (h = q => q \notin Range(t))
    BY <1>0, <1>3, OnceTail
  <2>2. t \in Seq(All) /\ Range(rdyQues[u]) = {h} \cup Range(t)
    BY <1>0, TailRange
  <2>3. IsSorted(t)
    BY <1>0, TailSorted, SchedAssumption
  <2> HIDE DEF t, h
  <2>4. Unrivalled(p) => p \notin Range(t) /\ p # h
    BY <2>2 DEF Queued
  <2>5. /\ OnceIn(enqueue0(t, p), q)
        /\ q \in Range(enqueue0(t, p)) <=> q \in Range(t) \/ q = p
    BY <1>3, <2>1, <2>2, <2>3, <2>4, InsertTop
  <2>6. /\ Running(q) <=> q = p
        /\ Running(q)' <=> q = h
        /\ Queued(q) <=> q = h \/ q \in Range(t)
        /\ Queued(q)' <=> q \in Range(t) \/ q = p
        /\ OnceIn(rdyQues'[Place[q]], q)
    BY <1>1, <1>2, <1>3, <2>2, <2>5 DEF Running, Queued
  <2>. QED BY <1>0, <2>1, <2>4, <2>6 DEF KeepsPlace
<1>4. CASE Place[q] # u
  BY <1>0, <1>1, <1>2, <1>4 DEF KeepsPlace, Running, Queued
<1>. QED BY <1>3, <1>4

-----------------------------------------------------------------------------
(* Who schedules whom.                                                     *)

(* One is on its way from schedule if somebody has it as wakee.            *)
LEMMA ScheduledIs ==
  ASSUME Schedulers, Schedulers', NEW q \in Procs
  PROVE  /\ Scheduled(q) <=> \E p \in All : wakee[p] = q
         /\ Scheduled(q)' <=> \E p \in All : wakee'[p] = q
BY Constants DEF Schedulers, Scheduled

(* Wakes come from Create and from the last par_barr_sync only, and end    *)
(* with schedule.                                                          *)
LEMMA SchedulersNext ==
  ASSUME ParInv, Schedulers, Paths, ParNext
  PROVE  Schedulers'
<1>0. /\ Parent \in Procs /\ Parent \in All /\ Children \subseteq All /\ Others \subseteq All
      /\ Parent \notin Children /\ Parent \notin Others /\ Children \cap Others = {}
      /\ Procs = Children \cup Others \cup {Parent} /\ NULL \notin Procs
      /\ wakee \in [All -> Procs \cup {NULL}] /\ pc \in [All -> PCs]
  BY Roster, Constants DEF ParInv, BaseInv, TypeOK
<1>1. ASSUME NEW p \in All, pc' = [pc EXCEPT ![p] = "run"], wakee' = [wakee EXCEPT ![p] = NULL]
      PROVE  Schedulers'
  BY <1>0, <1>1 DEF Schedulers
<1>2. ASSUME UNCHANGED wakee, \A x \in All : pc'[x] = "schedule" <=> pc[x] = "schedule"
      PROVE  Schedulers'
  BY <1>2 DEF Schedulers
<1>3. ASSUME NEW p \in All, NEW x \in Procs, x \notin Others, x \in Children => p = Parent,
             x = Parent => p \in Children, wakee' = [wakee EXCEPT ![p] = x],
             pc' = [pc EXCEPT ![p] = "schedule"]
      PROVE  Schedulers'
  BY <1>0, <1>3 DEF Schedulers
<1>4. ASSUME NEW p \in All, Switch(p) PROVE Schedulers'
  <2>1. pc' = [pc EXCEPT ![p] = "run"] /\ UNCHANGED wakee /\ kernel[p] = "take"
    BY <1>4 DEF Switch, RunsIn
  <2>2. pc[p] # "schedule"
    <3>1. CASE p \in Children
      BY <2>1, <3>1 DEF Paths, ParInv, LifeType
    <3>2. CASE p \in Others
      BY <3>2 DEF Paths
    <3>3. CASE p = Parent \/ p \notin Procs
      BY <2>1, <3>3 DEF ParInv, Asleep
    <3>. QED BY <1>0, <3>1, <3>2, <3>3
  <2>. QED BY <1>0, <1>2, <2>1, <2>2
<1>5. ASSUME NEW p \in All, Carried(p) PROVE Schedulers'
  <2>1. CASE PrepareToWait(p) \/ Publish(p) \/ Relinquish(p)
    <3>1. /\ UNCHANGED wakee /\ pc[p] # "schedule"
          /\ \E l \in {"publish", "relinquish", "disable", "run"} : pc' = [pc EXCEPT ![p] = l]
      BY <2>1 DEF PrepareToWait, Publish, Relinquish
    <3>. QED BY <1>0, <1>2, <3>1
  <2>2. CASE ScheduleLocal(p) \/ IpqAdd(p)
    BY <1>1, <2>2 DEF ScheduleLocal, IpqAdd
  <2>3. CASE \/ Yield(p) \/ Disable(p) \/ ScheduleRemote(p) \/ IpiEnter(p) \/ IpiDone(p)
             \/ IntrEnter(p) \/ IntrDone(p) \/ Drain(p) \/ YieldSwitch(p) \/ Preempt(p)
             \/ IpiStep(p) \/ \E q \in waiting : IntrWake(p, q)
    <3>1. UNCHANGED <<pc, wakee>>
      BY <2>3 DEF Yield, Disable, ScheduleRemote, IpiEnter, IpiDone, IntrEnter, IntrDone,
                  Drain, YieldSwitch, Preempt, IpiStep, IntrWake
    <3>. QED BY <1>2, <3>1
  <2>. QED BY <1>4, <1>5, <2>1, <2>2, <2>3 DEF Carried, Scheduling, Interrupt
<1>6. CASE Par \/ Return
  <2>1. UNCHANGED <<pc, wakee>>
    BY <1>6 DEF Par, Return, vars
  <2>. QED BY <1>2, <2>1
<1>7. CASE Join
  BY <1>0, <1>2, <1>7 DEF Join, Lives
<1>8. ASSUME NEW r \in Children, Create(r) PROVE Schedulers'
  <2>1. CASE UNCHANGED <<pc, wakee>>
    BY <1>2, <2>1
  <2>2. CASE pc' = [pc EXCEPT ![Parent] = "schedule"] /\ wakee' = [wakee EXCEPT ![Parent] = r]
    <3>1. r \in Procs /\ r \notin Others /\ r # Parent
      BY <1>0
    <3>. QED BY <1>0, <1>3, <2>2, <3>1
  <2>. QED BY <1>8, <2>1, <2>2 DEF Create
<1>9. ASSUME NEW p \in Children, Living(p) PROVE Schedulers'
  <2>0. p \in All
    BY <1>0
  <2>1. CASE Sync(p)
    <3>1. CASE UNCHANGED <<pc, wakee>>
      BY <1>2, <3>1
    <3>2. CASE /\ pc' = [pc EXCEPT ![p] = "schedule"]
               /\ wakee' = [wakee EXCEPT ![p] = Parent]
      BY <1>0, <1>3, <2>0, <3>2
    <3>. QED BY <2>1, <3>1, <3>2 DEF Sync
  <2>2. CASE Terminate(p) \/ Release(p) \/ FinishTermination(p)
    <3>1. UNCHANGED <<pc, wakee>>
      BY <2>2 DEF Terminate, Release, FinishTermination, vars
    <3>. QED BY <1>2, <3>1
  <2>3. CASE Exit(p)
    BY <1>4, <2>0, <2>3 DEF Exit
  <2>. QED BY <1>9, <2>1, <2>2, <2>3 DEF Living
<1>. QED BY <1>0, <1>5, <1>6, <1>7, <1>8, <1>9 DEF ParNext, Carried

(* A handler does not decide to preempt who is not outranked.              *)
LEMMA EndsCalmly ==
  ASSUME BaseInv, NEW p \in All, schedule_from_interrupt(p)
  PROVE  /\ \E k \in {"none", "preempt", "stale"} : kernel' = [kernel EXCEPT ![p] = k]
         /\ Unrivalled(p) => kernel' = [kernel EXCEPT ![p] = "none"]
<1> DEFINE que == rdyQues[Place[p]]
           outdone == que # << >> /\ pri_gt(Head(que), p)
<1>1. Place[p] \in Puns /\ que \in Seq(All)
  BY Constants DEF BaseInv, TypeOK
<1>2. que # << >> => Head(que) \in All /\ Place[Head(que)] = Place[p]
  BY <1>1, TailRange DEF BaseInv, Placed
<1>3. Unrivalled(p) => ~ outdone
  BY <1>2 DEF Unrivalled
<1>4. kernel' = [kernel EXCEPT ![p] =
        IF outdone THEN IF kernel[p] = "resumed" THEN "stale" ELSE "preempt" ELSE "none"]
  BY DEF schedule_from_interrupt
<1> HIDE DEF outdone
<1>. QED BY <1>3, <1>4

(* The processes keep to their code.                                       *)
LEMMA PathsNext ==
  ASSUME ParInv, Schedulers, Paths, ParNext
  PROVE  Paths'
<1>0. /\ Parent \in Procs /\ Parent \in All /\ Children \subseteq All /\ Others \subseteq All
      /\ Parent \notin Children /\ Parent \notin Others /\ Children \cap Others = {}
      /\ Procs = Children \cup Others \cup {Parent} /\ Procs \subseteq All
      /\ kernel \in [All -> Kernels] /\ pc \in [All -> PCs] /\ at \in [Procs -> Ats]
      /\ BaseInv
  BY Roster, Constants DEF ParInv, BaseInv, TypeOK, LifeType
<1>1. ASSUME NEW p \in All, UNCHANGED <<at, dying>>,
             \/ UNCHANGED pc
             \/ p \in Others /\ \E l \in {"publish", "relinquish", "disable"} :
                  pc' = [pc EXCEPT ![p] = l]
             \/ p \notin Children \cup Others /\ pc' = [pc EXCEPT ![p] = "disable"]
             \/ pc' = [pc EXCEPT ![p] = "run"],
             NEW k \in Kernels, UNCHANGED kernel \/ kernel' = [kernel EXCEPT ![p] = k],
             k = "take" => p \notin Children,
             k = "take1" => p \in Procs,
             k \in {"preempt", "stale"} => ~ Unrivalled(p)
      PROVE  Paths'
  <2>1. ASSUME NEW c \in Children
        PROVE  /\ pc'[c] \in {"run", "schedule"}
               /\ pc'[c] = "schedule" => at'[c] = "terminate"
               /\ kernel'[c] = "take" => c \in dying'
    <3>1. /\ pc[c] \in {"run", "schedule"}
          /\ pc[c] = "schedule" => at[c] = "terminate"
          /\ kernel[c] = "take" => c \in dying
      BY DEF Paths
    <3>2. pc'[c] \in {pc[c], "run"} /\ (kernel'[c] = kernel[c] \/ (c = p /\ kernel'[c] = k))
      BY <1>0, <1>1
    <3>. QED BY <1>1, <3>1, <3>2
  <2>2. ASSUME NEW x \in Others
        PROVE  pc'[x] \in {"run", "publish", "relinquish", "disable"}
    BY <1>0, <1>1 DEF Paths
  <2>3. ASSUME NEW x \in All \ Procs PROVE kernel'[x] # "take1"
    BY <1>0, <1>1 DEF Paths
  <2>4. ASSUME NEW x \in All, Unrivalled(x) PROVE kernel'[x] \notin {"preempt", "stale"}
    BY <1>0, <1>1, <2>4 DEF Paths
  <2>5. \A x \in All : Unrivalled(x)' <=> Unrivalled(x)
    BY DEF Unrivalled, pri_gt
  <2>. QED BY <2>1, <2>2, <2>3, <2>4, <2>5 DEF Paths
<1>2. ASSUME NEW p \in All, Carried(p), UNCHANGED <<at, dying>> PROVE Paths'
  <2>0. {"none", "take", "take1", "ipq_add", "ipi", "resumed", "intr", "preempt", "stale"}
          \subseteq Kernels
    BY DEF Kernels
  <2>1. CASE p \in Others /\ (PrepareToWait(p) \/ Publish(p))
    BY <1>1, <1>2, <2>0, <2>1 DEF PrepareToWait, Publish
  <2>2. CASE Relinquish(p)
    <3>1. /\ pc[p] = "relinquish" /\ UNCHANGED kernel
          /\ pc' = [pc EXCEPT ![p] = "disable"] \/ pc' = [pc EXCEPT ![p] = "run"]
      BY <2>2 DEF Relinquish
    <3>2. p \notin Children
      BY <3>1 DEF Paths
    <3>. QED BY <1>1, <1>2, <2>0, <3>1, <3>2
  <2>3. CASE Disable(p)
    <3>1. p \notin Children
      BY <2>3 DEF Paths, Disable
    <3>. QED BY <1>1, <1>2, <2>0, <2>3, <3>1 DEF Disable
  <2>4. CASE Yield(p) /\ p \in Procs
    BY <1>1, <1>2, <2>0, <2>4 DEF Yield
  <2>5. CASE ScheduleLocal(p) \/ IpqAdd(p) \/ Switch(p)
    <3>1. /\ pc' = [pc EXCEPT ![p] = "run"]
          /\ UNCHANGED kernel \/ kernel' = [kernel EXCEPT ![p] = "none"]
      BY <2>5 DEF ScheduleLocal, IpqAdd, Switch
    <3>. QED BY <1>1, <1>2, <2>0, <3>1
  <2>6. CASE ScheduleRemote(p) \/ IpiEnter(p) \/ IntrEnter(p)
    <3>1. UNCHANGED pc /\ \E k \in {"ipq_add", "ipi", "intr"} : kernel' = [kernel EXCEPT ![p] = k]
      BY <2>6 DEF ScheduleRemote, IpiEnter, IntrEnter
    <3>. QED BY <1>1, <1>2, <2>0, <3>1
  <2>7. CASE IpiDone(p) \/ IntrDone(p)
    <3>1. schedule_from_interrupt(p) /\ UNCHANGED pc
      BY <2>7 DEF IpiDone, IntrDone
    <3>2. /\ \E k \in {"none", "preempt", "stale"} : kernel' = [kernel EXCEPT ![p] = k]
          /\ Unrivalled(p) => kernel' = [kernel EXCEPT ![p] = "none"]
      BY <1>0, <3>1, EndsCalmly
    <3>. QED BY <1>1, <1>2, <2>0, <3>1, <3>2
  <2>8. CASE YieldSwitch(p) \/ Preempt(p)
    <3>1. UNCHANGED pc /\ \E k \in {"none", "resumed"} : kernel' = [kernel EXCEPT ![p] = k]
      BY <2>8 DEF YieldSwitch, Preempt
    <3>. QED BY <1>1, <1>2, <2>0, <3>1
  <2>9. CASE Drain(p) \/ \E q \in waiting : IntrWake(p, q)
    <3>1. UNCHANGED <<pc, kernel>>
      BY <2>9 DEF Drain, IntrWake
    <3>. QED BY <1>1, <1>2, <2>0, <3>1
  <2>10. CASE IpiStep(p)
    <3>1. /\ UNCHANGED pc /\ kernel[p] \in {"ipi", "resumed"}
          /\ kernel' = [kernel EXCEPT ![p] = kernel[p]]
             \/ kernel' = [kernel EXCEPT ![p] = "resumed"]
      BY <2>10 DEF IpiStep, Handles, RunsIn
    <3>2. UNCHANGED kernel \/ kernel' = [kernel EXCEPT ![p] = "resumed"]
      BY <1>0, <3>1
    <3>. QED BY <1>1, <1>2, <2>0, <3>1, <3>2
  <2>. QED BY <1>0, <1>2, <2>1, <2>2, <2>3, <2>4, <2>5, <2>6, <2>7, <2>8, <2>9, <2>10
           DEF Carried, MayYield, Scheduling, Interrupt
<1>3. \A x \in All : Unrivalled(x)' <=> Unrivalled(x)
  BY DEF Unrivalled, pri_gt
<1>4. CASE Par \/ Join \/ Return
  <2>1. /\ UNCHANGED <<kernel, dying>> /\ \A c \in Children : at'[c] = at[c]
        /\ \A x \in All : x # Parent => pc'[x] = pc[x]
    BY <1>0, <1>4 DEF Par, Join, Return, vars
  <2>. QED BY <1>0, <1>3, <2>1 DEF Paths
<1>5. ASSUME NEW r \in Children, Create(r) PROVE Paths'
  <2>1. /\ at[r] = "free" /\ at' = [at EXCEPT ![r] = "body"]
        /\ UNCHANGED <<kernel, dying>>
        /\ \A x \in All : x # Parent => pc'[x] = pc[x]
    <3>1. UNCHANGED pc \/ pc' = [pc EXCEPT ![Parent] = "schedule"]
      BY <1>5 DEF Create
    <3>2. at[r] = "free" /\ Build(r)
      BY <1>5 DEF Create
    <3>3. UNCHANGED <<kernel, dying>>
      BY <1>5 DEF Create
    <3>. QED BY <1>0, <3>1, <3>2, <3>3 DEF Build
  <2>2. pc[r] = "run"
    BY <2>1 DEF Paths
  <2>. QED BY <1>0, <1>3, <2>1, <2>2 DEF Paths
<1>6. ASSUME NEW p \in Children, Living(p) PROVE Paths'
  <2>0. p \in All /\ p \notin Others /\ p \in Procs
    BY <1>0
  <2>1. CASE Sync(p)
    <3>1. /\ at' = [at EXCEPT ![p] = "terminate"] /\ UNCHANGED <<kernel, dying>>
          /\ UNCHANGED pc \/ pc' = [pc EXCEPT ![p] = "schedule"]
      BY <2>1 DEF Sync
    <3>. QED BY <1>0, <1>3, <2>0, <3>1 DEF Paths
  <2>2. CASE Terminate(p) \/ Release(p)
    <3>1. /\ pc[p] = "run" /\ UNCHANGED <<kernel, pc>> /\ dying \subseteq dying'
          /\ \A c \in Children : c # p => at'[c] = at[c]
      BY <1>0, <2>2 DEF Terminate, Release, vars, Lives
    <3>. QED BY <1>0, <1>3, <2>0, <3>1 DEF Paths
  <2>3. CASE FinishTermination(p)
    <3>1. /\ p \in dying /\ kernel' = [kernel EXCEPT ![p] = "take"]
          /\ UNCHANGED <<pc, at, dying>>
      BY <2>3 DEF FinishTermination
    <3>. QED BY <1>0, <1>3, <2>0, <3>1 DEF Paths
  <2>4. CASE Exit(p)
    <3>1. /\ pc' = [pc EXCEPT ![p] = "run"] /\ kernel' = [kernel EXCEPT ![p] = "none"]
          /\ UNCHANGED at /\ dying' = dying \ {p}
      BY <2>4 DEF Exit, Switch
    <3>. QED BY <1>0, <1>3, <2>0, <3>1 DEF Paths
  <2>. QED BY <1>6, <2>1, <2>2, <2>3, <2>4 DEF Living
<1>. QED BY <1>0, <1>2, <1>4, <1>5, <1>6 DEF ParNext, Carried, life

-----------------------------------------------------------------------------
(* Steps in which an unrivalled process has no part.                       *)

\* Nothing happens to q but in the queues.
Still(q) ==
  /\ sched_state'[q] = sched_state[q] /\ at'[q] = at[q]
  /\ q \in Others \/ (q = Parent /\ at[q] # "create") => pc'[q] = pc[q]
  /\ q = Parent => Running(q)' \/ (pc'[q] \in {pc[q], "run"} /\ made' = made)
  /\ q \in waiting' <=> q \in waiting
  /\ q \in dying' <=> q \in dying
  /\ q = Parent => (Woken' <=> Woken)
  /\ OnceIn(ipQues'[Place[q]], q)

\* Nor does a wake of q get on.
Calm(q) ==
  /\ Still(q)
  /\ Posted(q)' <=> Posted(q)
  /\ Scheduled(q)' <=> Scheduled(q)

(* While a child is left to make, they have not all ended.                 *)
LEMMA Unmade ==
  ASSUME ParInv, at[Parent] = "create", made < Len(Roles)
  PROVE  ~ Woken
<1>1. children = Len(Roles) - made + Cardinality(Bodies)
  BY DEF ParInv, Counted
<1>2. Len(Roles) \in Nat /\ made \in Nat /\ Cardinality(Bodies) \in Nat
  BY Roster, BodiesSize DEF ParInv, LifeType
<1>3. children # 0
  BY <1>1, <1>2
<1>. QED BY <1>3 DEF Woken

(* It may get the processor in such a step.                                *)
LEMMA CalmStatus ==
  ASSUME ParInv, NEW q \in Tops, TopStatus(q), Calm(q), KeepsPlace(q)
  PROVE  TopStatus(q)'
<1>0. /\ Parent \notin Others /\ Parent \notin Children /\ Children \cap Others = {}
      /\ q \in Others \cup Children \cup {Parent}
      /\ at[Parent] \in {"main", "create", "join"}
  BY Roster, TopIs DEF ParInv, LifeType
<1>1. OneWay(q)'
  BY DEF TopStatus, OneWay, Calm, Still, KeepsPlace
<1>2. CASE q \in Others
  <2>1. OtherStatus(q)'
    BY <1>2 DEF TopStatus, OtherStatus, Calm, Still, KeepsPlace
  <2>. QED BY <1>0, <1>1, <1>2, <2>1 DEF TopStatus
<1>3. CASE q \in Children
  <2>1. ChildStatus(q)'
    BY <1>3 DEF TopStatus, OneWay, ChildStatus, Calm, Still, KeepsPlace, Ready
  <2>. QED BY <1>0, <1>1, <1>3, <2>1 DEF TopStatus
<1>4. CASE q = Parent
  <2>1. ParentStatus /\ Calm(Parent) /\ KeepsPlace(Parent)
    BY <1>4 DEF TopStatus
  <2>2. at'[Parent] = at[Parent] /\ (Woken' <=> Woken) /\ (Woken => at[Parent] # "main")
    BY <2>1 DEF Calm, Still, Woken
  <2>3. ASSUME Running(Parent) PROVE ParentStatus'
    BY <2>1, <2>2, <2>3 DEF ParentStatus, KeepsPlace, Calm, Still, Ready
  <2>4. ASSUME ~ Running(Parent) PROVE ParentStatus'
    <3>1. /\ pc[Parent] = "run" /\ (at[Parent] = "create" => made < Len(Roles))
          /\ Running(Parent)' \/ (pc'[Parent] = "run" /\ made' = made)
      BY <2>1, <2>4 DEF ParentStatus, Calm, Still
    <3>2. Woken => at[Parent] = "join" /\ pc'[Parent] = "run"
      BY <1>0, <2>1, <2>2, <3>1, Unmade DEF Calm, Still
    <3>3. Woken' => \/ Ready(Parent)'
                    \/ Running(Parent)' /\ at'[Parent] = "join" /\ pc'[Parent] = "run"
      BY <2>1, <2>2, <2>4, <3>2 DEF ParentStatus, KeepsPlace, Calm, Ready
    <3>. QED BY <2>1, <2>2, <2>4, <3>1, <3>3 DEF ParentStatus, KeepsPlace
  <2>5. ParentStatus'
    BY <2>3, <2>4
  <2>. QED BY <1>0, <1>1, <1>4, <2>5 DEF TopStatus
<1>. QED BY <1>0, <1>2, <1>3, <1>4

(* It stays where it is in the kernel, or leaves it.                       *)
LEMMA CalmCall ==
  ASSUME NEW q \in Tops, TopCall(q), Running(q) => Running(q)',
         q \in dying' <=> q \in dying,
         kernel'[q] = "none" \/ (kernel'[q] = kernel[q] /\ pc'[q] = pc[q])
  PROVE  TopCall(q)'
BY DEF TopCall

(* A wake that was on its way gets to the queue or to the processor.       *)
LEMMA Lands ==
  ASSUME ParInv, NEW q \in Tops, TopStatus(q), Still(q), Posted(q) \/ Scheduled(q),
         q \notin Others, GetsPlace(q), ~ Posted(q)', ~ Scheduled(q)'
  PROVE  TopStatus(q)'
<1>0. /\ Parent \notin Others /\ Parent \notin Children
      /\ q \in Children \cup {Parent} /\ ~ Queued(q) /\ Ready(q)
      /\ at[Parent] \in {"main", "create", "join"}
  BY Roster, TopIs DEF ParInv, LifeType, TopStatus, OneWay, Ready
<1>1. OneWay(q)'
  BY DEF OneWay, Still, GetsPlace
<1>2. CASE q \in Children
  <2>1. ChildStatus(q)'
    BY <1>0, <1>2 DEF TopStatus, ChildStatus, Still, GetsPlace, Ready
  <2>. QED BY <1>0, <1>1, <1>2, <2>1 DEF TopStatus
<1>3. CASE q = Parent
  <2>1. ParentStatus /\ Still(Parent) /\ GetsPlace(Parent) /\ ~ Queued(Parent)
    BY <1>0, <1>3 DEF TopStatus
  <2>2. at'[Parent] = at[Parent] /\ (Woken' <=> Woken) /\ (Woken => at[Parent] # "main")
    BY <2>1 DEF Still, Woken
  <2>3. ASSUME Running(Parent) PROVE ParentStatus'
    BY <2>1, <2>2, <2>3 DEF ParentStatus, GetsPlace, Ready
  <2>4. ASSUME ~ Running(Parent) PROVE ParentStatus'
    <3>1. /\ pc[Parent] = "run" /\ (at[Parent] = "create" => made < Len(Roles))
          /\ Running(Parent)' \/ (pc'[Parent] = "run" /\ made' = made)
      BY <2>1, <2>4 DEF ParentStatus, Still
    <3>2. Woken => at[Parent] = "join" /\ pc'[Parent] = "run"
      BY <1>0, <2>1, <2>2, <3>1, Unmade DEF Still
    <3>3. Woken' => \/ Ready(Parent)'
                    \/ Running(Parent)' /\ at'[Parent] = "join" /\ pc'[Parent] = "run"
      BY <2>1, <2>2, <2>4, <3>2 DEF GetsPlace, Ready
    <3>. QED BY <2>1, <2>2, <2>4, <3>1, <3>3 DEF ParentStatus, GetsPlace
  <2>5. ParentStatus'
    BY <2>3, <2>4
  <2>. QED BY <1>0, <1>1, <1>3, <2>5 DEF TopStatus
<1>. QED BY <1>0, <1>2, <1>3

(* A wake goes from schedule to the interprocessor queue.                  *)
LEMMA Forwarded ==
  ASSUME ParInv, NEW q \in Tops, TopStatus(q), Still(q), Scheduled(q), q \notin Others,
         UNCHANGED <<current, rdyQues>>, Posted(q)', ~ Scheduled(q)'
  PROVE  TopStatus(q)'
<1>0. /\ Parent \notin Others /\ Parent \notin Children
      /\ q \in Children \cup {Parent} /\ ~ Queued(q) /\ Ready(q) /\ Ready(q)'
      /\ OnceIn(rdyQues[Place[q]], q)
  BY Roster, TopIs DEF TopStatus, OneWay, Ready
<1>1. (Running(q)' <=> Running(q)) /\ (Queued(q)' <=> Queued(q))
  BY DEF Running, Queued
<1>2. OneWay(q)'
  BY <1>0, <1>1 DEF OneWay, Still
<1>3. CASE q \in Children
  <2>1. ChildStatus(q)'
    BY <1>0, <1>1, <1>3 DEF TopStatus, ChildStatus, Still
  <2>. QED BY <1>0, <1>2, <1>3, <2>1 DEF TopStatus
<1>4. CASE q = Parent
  <2>1. ParentStatus'
    BY <1>0, <1>1, <1>4 DEF TopStatus, ParentStatus, Still
  <2>. QED BY <1>0, <1>2, <1>4, <2>1 DEF TopStatus
<1>. QED BY <1>0, <1>3, <1>4

(* Nothing happens in the queues.                                          *)
LEMMA QuietTop ==
  ASSUME ParInv, Schedulers, Schedulers', NEW q \in Tops, TopStatus(q),
         UNCHANGED <<current, rdyQues, ipQues, wakee>>
  PROVE  /\ KeepsPlace(q) /\ OnceIn(ipQues'[Place[q]], q)
         /\ (Running(q)' <=> Running(q)) /\ (Queued(q)' <=> Queued(q))
         /\ (Posted(q)' <=> Posted(q)) /\ (Scheduled(q)' <=> Scheduled(q))
<1>1. /\ KeepsPlace(q) /\ OnceIn(ipQues'[Place[q]], q)
      /\ (Running(q)' <=> Running(q)) /\ (Queued(q)' <=> Queued(q))
      /\ (Posted(q)' <=> Posted(q))
  BY DEF TopStatus, OneWay, KeepsPlace, Running, Queued, Posted
<1>2. Scheduled(q)' <=> Scheduled(q)
  BY ScheduledIs, TopIs
<1>. QED BY <1>1, <1>2

(* Steps that only enter or leave a routine of the kernel.                 *)
LEMMA CallsTop ==
  ASSUME ParInv, KeptInv, Schedulers', NEW p \in All, UNCHANGED life,
         \/ Yield(p) /\ p \in Procs \ dying
         \/ Disable(p) \/ ScheduleRemote(p)
         \/ IpiEnter(p) \/ IpiDone(p) \/ IntrEnter(p) \/ IntrDone(p)
         \/ YieldSwitch(p) /\ UNCHANGED <<current, rdyQues>>,
         NEW q \in Tops
  PROVE  TopCall(q)' /\ TopStatus(q)'
<1>0. /\ TopCall(q) /\ TopStatus(q) /\ Schedulers /\ BaseInv /\ q \in All /\ Unrivalled(q)
      /\ kernel \in [All -> Kernels]
  BY TopIs DEF KeptInv, ParInv, BaseInv, TypeOK
<1>1. /\ UNCHANGED <<current, rdyQues, ipQues, sched_state, waiting, pc, wakee>>
      /\ UNCHANGED <<at, children, made, dying>>
  BY DEF Yield, Disable, ScheduleRemote, IpiEnter, IpiDone, IntrEnter, IntrDone, YieldSwitch,
         life
<1>2. /\ KeepsPlace(q) /\ OnceIn(ipQues'[Place[q]], q) /\ (Running(q)' <=> Running(q))
      /\ (Posted(q)' <=> Posted(q)) /\ (Scheduled(q)' <=> Scheduled(q))
  BY <1>0, <1>1, QuietTop
<1>3. TopStatus(q)'
  <2>1. Calm(q)
    BY <1>1, <1>2 DEF Calm, Still, Woken
  <2>. QED BY <1>0, <1>2, <2>1, CalmStatus
<1>4. current[Place[p]] = p /\ \E k \in Kernels : kernel' = [kernel EXCEPT ![p] = k]
  <2>1. CASE IpiDone(p) \/ IntrDone(p)
    <3>1. schedule_from_interrupt(p)
      BY <2>1 DEF IpiDone, IntrDone
    <3>. QED BY <1>0, <2>1, <3>1, EndsCalmly DEF IpiDone, IntrDone, Handles, RunsIn, Kernels
  <2>. QED BY <2>1 DEF Yield, Disable, ScheduleRemote, IpiEnter, IntrEnter, YieldSwitch,
                       Runs, RunsIn, Kernels
<1>5. CASE q # p
  <2>1. kernel'[q] = kernel[q]
    BY <1>0, <1>4, <1>5
  <2>. QED BY <1>0, <1>1, <1>2, <1>3, <2>1, CalmCall
<1>6. CASE q = p
  <2>1. Running(q) /\ Running(q)'
    BY <1>2, <1>4, <1>6 DEF Running
  <2>2. \/ kernel'[q] \in {"none", "ipq_add", "ipi", "intr"}
        \/ kernel'[q] = "take1" /\ pc[q] \in {"run", "publish"} /\ q \notin dying
        \/ kernel'[q] = "take" /\ pc[q] = "disable"
    <3>1. CASE IpiDone(p) \/ IntrDone(p)
      <4>1. schedule_from_interrupt(p)
        BY <3>1 DEF IpiDone, IntrDone
      <4>2. kernel' = [kernel EXCEPT ![p] = "none"]
        BY <1>0, <1>6, <4>1, EndsCalmly
      <4>. QED BY <1>0, <1>6, <4>2
    <3>. QED BY <1>0, <1>6, <3>1 DEF Yield, Disable, ScheduleRemote, IpiEnter, IntrEnter,
                                     YieldSwitch
  <2>. QED BY <1>1, <1>3, <2>1, <2>2 DEF TopCall
<1>. QED BY <1>5, <1>6

-----------------------------------------------------------------------------
(* Steps of a process in its own code.                                     *)

\* The step is not one of q.
Aside(q) ==
  /\ sched_state'[q] = sched_state[q] /\ pc'[q] = pc[q] /\ kernel'[q] = kernel[q]
  /\ at'[q] = at[q]
  /\ q \in waiting' <=> q \in waiting
  /\ q \in dying' <=> q \in dying
  /\ q = Parent => (Woken' <=> Woken) /\ made' = made

(* The processes beside the one that makes the step.                       *)
LEMMA AsideTop ==
  ASSUME ParInv, KeptInv, Schedulers', NEW q \in Tops, Aside(q),
         UNCHANGED <<current, rdyQues, ipQues, wakee>>
  PROVE  TopCall(q)' /\ TopStatus(q)'
<1>0. TopCall(q) /\ TopStatus(q) /\ Schedulers
  BY DEF KeptInv
<1>1. /\ KeepsPlace(q) /\ OnceIn(ipQues'[Place[q]], q) /\ (Running(q)' <=> Running(q))
      /\ (Posted(q)' <=> Posted(q)) /\ (Scheduled(q)' <=> Scheduled(q))
  BY <1>0, QuietTop
<1>2. Calm(q)
  BY <1>1 DEF Aside, Calm, Still
<1>. QED BY <1>0, <1>1, <1>2, CalmStatus, CalmCall DEF Aside

(* PREPARE_TO_WAIT, the publication and relinquish.                        *)
LEMMA WaitsTop ==
  ASSUME ParInv, KeptInv, Schedulers', NEW p \in All, UNCHANGED life,
         \/ p \in Others /\ (PrepareToWait(p) \/ Publish(p))
         \/ Relinquish(p),
         NEW q \in Tops
  PROVE  TopCall(q)' /\ TopStatus(q)'
<1>0. /\ TopCall(q) /\ TopStatus(q) /\ Schedulers /\ Paths /\ q \in All
      /\ Parent \notin Others /\ Parent \notin Children /\ Children \cap Others = {}
      /\ Procs = Children \cup Others \cup {Parent}
      /\ pc \in [All -> PCs] /\ sched_state \in [All -> SchedStates]
  BY TopIs, Roster DEF KeptInv, ParInv, BaseInv, TypeOK
<1>1. /\ UNCHANGED <<current, rdyQues, ipQues, wakee, kernel, at, children, made, dying>>
      /\ Runs(p)
      /\ \E l \in PCs : pc' = [pc EXCEPT ![p] = l]
      /\ \E s \in SchedStates : sched_state' = [sched_state EXCEPT ![p] = s]
      /\ UNCHANGED waiting \/ waiting' = waiting \cup {p}
  <2>1. sched_state = [sched_state EXCEPT ![p] = sched_state[p]] /\ sched_state[p] \in SchedStates
    BY <1>0
  <2>. QED BY <2>1 DEF PrepareToWait, Publish, Relinquish, life, PCs, SchedStates
<1>2. CASE q # p
  <2>1. Aside(q)
    BY <1>0, <1>1, <1>2 DEF Aside, Woken
  <2>. QED BY <1>1, <2>1, AsideTop
<1>3. CASE q = p
  <2>1. /\ OnceIn(ipQues'[Place[q]], q) /\ OnceIn(rdyQues'[Place[q]], q)
        /\ (Running(q)' <=> Running(q)) /\ (Queued(q)' <=> Queued(q))
        /\ (Posted(q)' <=> Posted(q)) /\ (Scheduled(q)' <=> Scheduled(q))
        /\ Running(q) /\ kernel'[q] = "none"
    <3>1. OnceIn(rdyQues'[Place[q]], q)
      BY <1>0, <1>1 DEF TopStatus, OneWay
    <3>2. Running(q) /\ kernel'[q] = "none"
      BY <1>1, <1>3 DEF Runs, Running
    <3>. QED BY <1>0, <1>1, <3>1, <3>2, QuietTop
  <2>2. TopCall(q)' /\ OneWay(q)'
    BY <1>0, <2>1 DEF TopCall, TopStatus, OneWay
  <2>3. ASSUME q \in Others PROVE OtherStatus(q)'
    <3>0. OtherStatus(q)
      BY <1>0, <2>3 DEF TopStatus
    <3>1. CASE PrepareToWait(q)
      <4>1. /\ pc[q] = "run" /\ pc'[q] = "publish" /\ sched_state'[q] = "PREPARING_TO_WAIT"
            /\ waiting' = waiting
        BY <1>0, <3>1 DEF PrepareToWait
      <4>. QED BY <2>1, <3>0, <4>1 DEF OtherStatus
    <3>2. CASE Publish(q)
      <4>1. /\ pc[q] = "publish" /\ pc'[q] = "relinquish" /\ sched_state'[q] = sched_state[q]
            /\ q \in waiting'
        BY <1>0, <3>2 DEF Publish
      <4>. QED BY <2>1, <3>0, <4>1 DEF OtherStatus
    <3>3. CASE Relinquish(q)
      <4>1. /\ pc[q] = "relinquish" /\ waiting' = waiting
            /\ IF sched_state[q] = "PREPARING_TO_WAIT"
               THEN sched_state'[q] = "WAITING" /\ pc'[q] = "disable"
               ELSE pc'[q] = "run" /\ sched_state'[q] = sched_state[q]
        BY <1>0, <3>3 DEF Relinquish
      <4>. QED BY <2>1, <3>0, <4>1 DEF OtherStatus
    <3>. QED BY <1>3, <3>1, <3>2, <3>3
  <2>4. q \notin Children
    BY <1>0, <1>3 DEF Relinquish, Paths
  <2>5. ASSUME q = Parent PROVE ParentStatus'
    <3>1. Relinquish(Parent)
      BY <1>0, <1>3, <2>5
    <3>2. pc[Parent] = "relinquish" /\ at[Parent] = "join"
      BY <3>1 DEF Relinquish, ParInv, Asleep, LifeType
    <3>3. Ready(Parent)' <=> Ready(Parent)
      BY <2>1, <2>5 DEF Ready
    <3>4. Woken' <=> Woken
      BY <1>1 DEF Woken
    <3>. QED BY <1>0, <1>1, <2>1, <2>5, <3>2, <3>3, <3>4 DEF TopStatus, ParentStatus
  <2>. QED BY <2>2, <2>3, <2>4, <2>5 DEF TopStatus
<1>. QED BY <1>2, <1>3

(* The parent enters par and leaves it.                                    *)
LEMMA ParentTop ==
  ASSUME ParInv, KeptInv, Schedulers', Par \/ Join \/ Return, NEW q \in Tops
  PROVE  TopCall(q)' /\ TopStatus(q)'
<1>0. /\ TopCall(q) /\ TopStatus(q) /\ Schedulers /\ q \in All /\ q \in Procs
      /\ Parent \in All /\ Parent \in Procs
      /\ Parent \notin Others /\ Parent \notin Children
      /\ pc \in [All -> PCs] /\ sched_state \in [All -> SchedStates] /\ at \in [Procs -> Ats]
      /\ Len(Roles) > 0 /\ Len(Roles) \in Nat
  BY TopIs, Roster DEF KeptInv, ParInv, BaseInv, TypeOK, LifeType
<1>1. /\ UNCHANGED <<current, rdyQues, ipQues, wakee, kernel, waiting, dying>>
      /\ Runs(Parent)
      /\ \A x \in All : x # Parent => pc'[x] = pc[x] /\ sched_state'[x] = sched_state[x]
      /\ \A x \in Procs : x # Parent => at'[x] = at[x]
  BY <1>0 DEF Par, Join, Return, vars, Lives
<1>2. CASE q # Parent
  <2>1. Aside(q)
    BY <1>0, <1>1, <1>2 DEF Aside
  <2>. QED BY <1>1, <2>1, AsideTop
<1>3. CASE q = Parent
  <2>1. /\ OnceIn(ipQues'[Place[q]], q) /\ OnceIn(rdyQues'[Place[q]], q)
        /\ (Running(q)' <=> Running(q)) /\ (Queued(q)' <=> Queued(q))
        /\ (Posted(q)' <=> Posted(q)) /\ (Scheduled(q)' <=> Scheduled(q))
        /\ Running(q) /\ kernel'[q] = "none"
    <3>1. OnceIn(rdyQues'[Place[q]], q)
      BY <1>0, <1>1 DEF TopStatus, OneWay
    <3>2. Running(q) /\ kernel'[q] = "none"
      BY <1>1, <1>3 DEF Runs, Running
    <3>. QED BY <1>0, <1>1, <3>1, <3>2, QuietTop
  <2>2. TopCall(q)' /\ OneWay(q)'
    BY <1>0, <2>1 DEF TopCall, TopStatus, OneWay
  <2>3. Woken' => Ready(Parent)'
    <3>1. CASE Par
      BY <1>0, <3>1 DEF Par, par_barr_init, Woken
    <3>2. CASE Join
      <4>1. at[Parent] = "create" /\ children' = children
        BY <3>2 DEF Join, Lives
      <4>2. Woken' => Woken
        BY <4>1 DEF Woken
      <4>3. Ready(Parent)' <=> Ready(Parent)
        BY <1>3, <2>1 DEF Ready
      <4>. QED BY <1>0, <1>3, <4>1, <4>2, <4>3 DEF TopStatus, ParentStatus
    <3>3. CASE Return
      BY <1>0, <3>3 DEF Return, Woken
    <3>. QED BY <3>1, <3>2, <3>3
  <2>4. ParentStatus'
    BY <1>3, <2>1, <2>3 DEF ParentStatus
  <2>. QED BY <1>0, <1>3, <2>2, <2>4 DEF TopStatus
<1>. QED BY <1>2, <1>3

(* A child terminates.                                                     *)
LEMMA EndsTop ==
  ASSUME ParInv, KeptInv, Schedulers', NEW p \in Children,
         Terminate(p) \/ Release(p) \/ FinishTermination(p), NEW q \in Tops
  PROVE  TopCall(q)' /\ TopStatus(q)'
<1>0. /\ TopCall(q) /\ TopStatus(q) /\ Schedulers /\ q \in All /\ q \in Procs
      /\ p \in Procs /\ p \in All /\ Parent \in Procs /\ p # Parent
      /\ Children \cap Others = {} /\ Parent \notin Children
      /\ kernel \in [All -> Kernels] /\ at \in [Procs -> Ats]
  BY TopIs, Roster, Constants DEF KeptInv, ParInv, BaseInv, TypeOK, LifeType
<1>1. /\ UNCHANGED <<current, rdyQues, ipQues, wakee, waiting, pc, sched_state>>
      /\ UNCHANGED <<children, made>>
      /\ Runs(p)
      /\ \A x \in All : x # p => kernel'[x] = kernel[x]
      /\ \A x \in Procs : x # p => at'[x] = at[x]
      /\ UNCHANGED dying \/ dying' = dying \cup {p}
  BY <1>0 DEF Terminate, Release, FinishTermination, vars, Lives
<1>2. Woken' <=> Woken
  BY <1>0, <1>1 DEF Woken
<1>3. CASE q # p
  <2>1. Aside(q)
    BY <1>0, <1>1, <1>2, <1>3 DEF Aside
  <2>. QED BY <1>1, <2>1, AsideTop
<1>4. CASE q = p
  <2>1. /\ OnceIn(ipQues'[Place[q]], q) /\ OnceIn(rdyQues'[Place[q]], q)
        /\ (Running(q)' <=> Running(q)) /\ (Queued(q)' <=> Queued(q))
        /\ (Posted(q)' <=> Posted(q)) /\ (Scheduled(q)' <=> Scheduled(q))
        /\ Running(q)
    <3>1. OnceIn(rdyQues'[Place[q]], q)
      BY <1>0, <1>1 DEF TopStatus, OneWay
    <3>2. Running(q)
      BY <1>1, <1>4 DEF Runs, Running
    <3>. QED BY <1>0, <1>1, <3>1, <3>2, QuietTop
  <2>2. OneWay(q)' /\ (Ready(q)' <=> Ready(q)) /\ ChildStatus(q)
    BY <1>0, <1>4, <2>1 DEF TopStatus, OneWay, Ready
  <2>3. TopCall(q)'
    <3>1. kernel'[q] = "none" \/ (kernel'[q] = "take" /\ q \in dying')
      BY <1>0, <1>4 DEF Terminate, Release, FinishTermination, vars, Lives, Runs
    <3>. QED BY <2>1, <3>1 DEF TopCall
  <2>4. ChildStatus(q)'
    <3>1. CASE Terminate(p)
      <4>1. at[q] = "terminate" /\ at'[q] = "release" /\ q \notin dying /\ dying' = dying
        BY <1>0, <1>4, <3>1 DEF Terminate, Lives
      <4>. QED BY <2>1, <2>2, <4>1 DEF ChildStatus
    <3>2. CASE Release(p)
      <4>1. at[q] = "release" /\ at'[q] = "free" /\ q \notin dying /\ q \in dying'
        BY <1>0, <1>4, <3>2 DEF Release, Lives
      <4>. QED BY <2>1, <2>2, <4>1 DEF ChildStatus
    <3>3. CASE FinishTermination(p)
      <4>1. UNCHANGED <<at, dying>>
        BY <3>3 DEF FinishTermination
      <4>. QED BY <2>1, <2>2, <4>1 DEF ChildStatus
    <3>. QED BY <3>1, <3>2, <3>3
  <2>. QED BY <1>0, <1>4, <2>2, <2>3, <2>4 DEF TopStatus
<1>. QED BY <1>3, <1>4

(* The last child ends when all are made.                                  *)
LEMMA LastMade ==
  ASSUME ParInv, at[Parent] = "create", NEW p \in Children, at[p] = "body", children = 1
  PROVE  ~ (made < Len(Roles))
<1>1. p \in Bodies
  BY DEF Bodies
<1>2. children = Len(Roles) - made + Cardinality(Bodies) /\ IsFiniteSet(Bodies)
  BY DEF ParInv, Counted
<1>3. Len(Roles) \in Nat /\ made \in Nat /\ Cardinality(Bodies) \in Nat
  BY Roster, BodiesSize DEF ParInv, LifeType
<1>4. Cardinality(Bodies) # 0
  BY <1>1, <1>2, FS_EmptySet
<1>. QED BY <1>2, <1>3, <1>4

(* A child ends; the last one makes the parent ready, which is not ready   *)
(* yet.                                                                    *)
LEMMA SyncTop ==
  ASSUME ParInv, KeptInv, Schedulers', NEW p \in Children, Sync(p), NEW q \in Tops
  PROVE  TopCall(q)' /\ TopStatus(q)'
<1>0. /\ TopCall(q) /\ TopStatus(q) /\ Schedulers /\ q \in All /\ q \in Procs
      /\ p \in Procs /\ p \in All /\ Parent \in Procs /\ Parent \in All /\ p # Parent
      /\ Children \cap Others = {} /\ Parent \notin Children /\ Parent \notin Others
      /\ pc \in [All -> PCs] /\ at \in [Procs -> Ats]
      /\ wakee \in [All -> Procs \cup {NULL}] /\ NULL \notin Procs
  BY TopIs, Roster, Constants DEF KeptInv, ParInv, BaseInv, TypeOK, LifeType
<1>1. /\ UNCHANGED <<current, rdyQues, ipQues, waiting, kernel, sched_state, dying>>
      /\ Runs(p) /\ pc[p] = "run" /\ at[p] = "body" /\ p \notin dying
      /\ children' = children - 1 /\ made' = made /\ at' = [at EXCEPT ![p] = "terminate"]
      /\ \A x \in All : x # p => pc'[x] = pc[x]
  BY <1>0 DEF Sync, Lives
<1>2. at[Parent] # "main" /\ children > 0 /\ children \in Nat
  <2>1. p \in Bodies
    BY <1>1 DEF Bodies
  <2>. QED BY <2>1, BodiesSize DEF ParInv, Counted
<1>3. ~ Woken /\ ~ Pending
  BY <1>2 DEF Woken, ParInv, Token
<1>4. \/ wakee' = wakee /\ children # 1
      \/ wakee' = [wakee EXCEPT ![p] = Parent] /\ children = 1
  BY DEF Sync, LastChild
<1>5. wakee[p] = NULL
  BY <1>0, <1>1 DEF Schedulers
<1>6. /\ OnceIn(ipQues'[Place[q]], q) /\ KeepsPlace(q)
      /\ (Running(q)' <=> Running(q)) /\ (Queued(q)' <=> Queued(q)) /\ (Posted(q)' <=> Posted(q))
  BY <1>0, <1>1 DEF TopStatus, OneWay, KeepsPlace, Running, Queued, Posted
<1>7. TopCall(q)'
  <2>1. kernel'[q] = "none" \/ (kernel'[q] = kernel[q] /\ pc'[q] = pc[q])
    BY <1>0, <1>1 DEF Runs
  <2>. QED BY <1>0, <1>1, <1>6, <2>1, CalmCall
<1>8. CASE q # Parent
  <2>1. Scheduled(q)' <=> Scheduled(q)
    BY <1>0, <1>4, <1>5, <1>8, ScheduledIs
  <2>2. CASE q # p
    <3>1. Calm(q)
      BY <1>0, <1>1, <1>6, <1>8, <2>1, <2>2 DEF Calm, Still
    <3>. QED BY <1>0, <1>6, <1>7, <3>1, CalmStatus
  <2>3. CASE q = p
    <3>1. at'[q] = "terminate" /\ (Ready(q)' <=> Ready(q)) /\ ChildStatus(q) /\ OneWay(q)
      BY <1>0, <1>1, <1>6, <2>1, <2>3 DEF Ready, TopStatus
    <3>2. ChildStatus(q)'
      BY <1>1, <1>6, <2>3, <3>1 DEF ChildStatus
    <3>3. OneWay(q)'
      BY <1>6, <2>1, <3>1 DEF OneWay, KeepsPlace
    <3>. QED BY <1>0, <1>7, <1>8, <2>3, <3>2, <3>3 DEF TopStatus
  <2>. QED BY <2>2, <2>3
<1>9. CASE q = Parent
  <2>0. ParentStatus /\ OneWay(Parent) /\ at'[Parent] = at[Parent] /\ pc'[Parent] = pc[Parent]
    BY <1>0, <1>1, <1>9 DEF TopStatus
  <2>1. ~ Scheduled(q) /\ ~ Posted(q)
    BY <1>3, <1>9 DEF Pending, Waked, Scheduled
  <2>2. CASE wakee' = wakee /\ children # 1
    <3>1. ~ Woken'
      BY <1>1, <1>2, <2>2 DEF Woken
    <3>2. Scheduled(q)' <=> Scheduled(q)
      BY <1>0, <2>2, ScheduledIs
    <3>3. Calm(q)
      BY <1>0, <1>1, <1>3, <1>6, <1>9, <2>0, <3>1, <3>2 DEF Calm, Still
    <3>. QED BY <1>0, <1>6, <1>7, <3>3, CalmStatus
  <2>3. CASE wakee' = [wakee EXCEPT ![p] = Parent] /\ children = 1
    <3>0. ~ Queued(q)
      <4>1. CASE Running(Parent)
        BY <1>3, <1>9, <4>1 DEF ParInv, Token
      <4>2. CASE ~ Running(Parent)
        <5>1. at[Parent] \in {"create", "join"} /\ pc[Parent] = "run"
          BY <1>2, <2>0, <4>2 DEF ParentStatus, ParInv, LifeType
        <5>2. at[Parent] # "create"
          BY <1>1, <2>0, <2>3, <4>2, LastMade DEF ParentStatus
        <5>. QED BY <1>3, <1>9, <5>1, <5>2 DEF ParInv, Token
      <4>. QED BY <4>1, <4>2
    <3>1. Scheduled(q)'
      BY <1>0, <1>9, <2>3, ScheduledIs
    <3>2. OneWay(q)'
      BY <1>2, <1>6, <2>1, <3>0, <3>1 DEF OneWay, KeepsPlace
    <3>3. ParentStatus'
      BY <1>1, <1>2, <1>6, <1>9, <2>0, <3>1 DEF ParentStatus, Ready
    <3>. QED BY <1>0, <1>7, <1>9, <3>2, <3>3 DEF TopStatus
  <2>. QED BY <1>4, <2>2, <2>3
<1>. QED BY <1>8, <1>9

-----------------------------------------------------------------------------
(* Steps that move processes in the queues.                                *)

(* ipq_remove, for an unrivalled process.                                  *)
LEMMA FetchTop ==
  ASSUME BaseInv, NEW p \in All, ipQues[Place[p]] # << >>,
         ipQues' = [ipQues EXCEPT ![Place[p]] = Tail(@)],
         NEW q \in Tops, OnceIn(ipQues[Place[q]], q)
  PROVE  /\ OnceIn(ipQues'[Place[q]], q)
         /\ q # Head(ipQues[Place[p]]) => (Posted(q)' <=> Posted(q))
         /\ q = Head(ipQues[Place[p]]) => Posted(q) /\ ~ Posted(q)'
<1> DEFINE u == Place[p]
           x == Head(ipQues[u])
<1>0. Place[q] \in Puns /\ u \in Puns /\ ipQues[u] \in Seq(All)
  BY TopIs, Constants DEF BaseInv, TypeOK
<1>1. /\ ipQues'[u] = Tail(ipQues[u]) /\ Place[x] = u
      /\ \A w \in Puns : w # u => ipQues'[w] = ipQues[w]
  BY <1>0, RemoveEffect
<1>2. Range(ipQues[u]) = {x} \cup Range(Tail(ipQues[u]))
  BY <1>0, TailRange
<1>3. CASE u = Place[q]
  <2>1. OnceIn(Tail(ipQues[u]), q) /\ (x = q => q \notin Range(Tail(ipQues[u])))
    BY <1>0, <1>3, OnceTail
  <2>. QED BY <1>1, <1>2, <1>3, <2>1 DEF Posted
<1>4. CASE u # Place[q]
  BY <1>0, <1>1, <1>4 DEF Posted
<1>. QED BY <1>3, <1>4

(* The loops of take and of the handler.                                   *)
LEMMA DrainTop ==
  ASSUME ParInv, KeptInv, Schedulers', NEW p \in All, UNCHANGED life,
         Drain(p) \/ IpiStep(p), NEW q \in Tops
  PROVE  TopCall(q)' /\ TopStatus(q)'
<1> DEFINE x == Head(ipQues[Place[p]])
<1>0. /\ TopCall(q) /\ TopStatus(q) /\ Schedulers /\ BaseInv /\ Sorted /\ q \in All /\ q \in Procs
      /\ kernel \in [All -> Kernels] /\ Place[p] \in Puns /\ Unrivalled(q)
      /\ OnceIn(rdyQues[Place[q]], q) /\ OnceIn(ipQues[Place[q]], q)
  BY TopIs, Constants DEF KeptInv, ParInv, BaseInv, TypeOK, TopStatus, OneWay
<1>1. /\ ipQues[Place[p]] # << >> /\ ipQues' = [ipQues EXCEPT ![Place[p]] = Tail(@)]
      /\ UNCHANGED <<sched_state, waiting, pc, wakee, at, children, made, dying>>
      /\ current[Place[p]] = p
  BY DEF Drain, IpiStep, life, Handles, RunsIn
<1>2. x \in Procs /\ x \in All /\ Place[x] = Place[p]
  BY <1>0, <1>1, RemoveEffect
<1>3. Unrivalled(x) => Posted(x) /\ ~ Queued(x) /\ ~ Scheduled(x) /\ x \notin Others
  <2>1. SUFFICES ASSUME Unrivalled(x) PROVE Posted(x) /\ ~ Queued(x) /\ ~ Scheduled(x)
                                             /\ x \notin Others
    OBVIOUS
  <2>2. x \in Tops
    BY <1>2, <2>1 DEF Tops
  <2>3. TopStatus(x)
    BY <2>2 DEF KeptInv
  <2>4. Posted(x)
    BY <1>0, <1>1, <2>2, <2>3, FetchTop DEF TopStatus, OneWay
  <2>. QED BY <2>3, <2>4 DEF TopStatus, OneWay, OtherStatus
<1>4. /\ OnceIn(ipQues'[Place[q]], q)
      /\ q # x => (Posted(q)' <=> Posted(q))
      /\ q = x => ~ Posted(q)'
  BY <1>0, <1>1, FetchTop
<1>5. Scheduled(q)' <=> Scheduled(q)
  BY <1>1 DEF Scheduled
<1>6. Still(q)
  BY <1>1, <1>4 DEF Still, Woken
<1>7. (q # x => KeepsPlace(q)) /\ (q = x => GetsPlace(q)) /\ (Running(q) => Running(q)')
  <2>1. CASE Drain(p)
    <3>1. Enqueue(Place[x], x) /\ UNCHANGED current
      BY <1>2, <2>1 DEF Drain
    <3>2. OnceIn(rdyQues'[Place[q]], q) /\ (Queued(q)' <=> Queued(q) \/ q = x)
      BY <1>0, <1>2, <1>3, <3>1, EnqueueTop
    <3>. QED BY <3>1, <3>2 DEF KeepsPlace, GetsPlace, Running
  <2>2. CASE IpiStep(p)
    <3>1. schedule0(Place[x], x)
      BY <1>2, <2>2 DEF IpiStep
    <3>. QED BY <1>0, <1>2, <1>3, <3>1, ScheduleTop
  <2>. QED BY <2>1, <2>2
<1>8. TopStatus(q)'
  <2>1. CASE q # x
    <3>1. Calm(q)
      BY <1>4, <1>5, <1>6, <2>1 DEF Calm
    <3>. QED BY <1>0, <1>7, <2>1, <3>1, CalmStatus
  <2>2. CASE q = x
    <3>1. Posted(q) /\ ~ Scheduled(q)' /\ ~ Posted(q)' /\ q \notin Others /\ GetsPlace(q)
      BY <1>0, <1>3, <1>4, <1>5, <1>7, <2>2
    <3>. QED BY <1>0, <1>6, <3>1, Lands
  <2>. QED BY <2>1, <2>2
<1>9. kernel'[q] = kernel[q]
  <2>1. CASE Drain(p)
    BY <2>1 DEF Drain
  <2>2. CASE IpiStep(p)
    <3>1. kernel' = [kernel EXCEPT ![p] = IF current'[Place[p]] = p THEN @ ELSE "resumed"]
      BY <2>2 DEF IpiStep
    <3>2. CASE q = p
      <4>1. current'[Place[p]] = p
        BY <1>1, <1>7, <3>2 DEF Running
      <4>. QED BY <1>0, <3>1, <3>2, <4>1
    <3>. QED BY <1>0, <3>1, <3>2
  <2>. QED BY <2>1, <2>2
<1>. QED BY <1>0, <1>1, <1>7, <1>8, <1>9, CalmCall

(* Who is made ready by p: by nobody else, and not by itself.              *)
LEMMA WakeeIs ==
  ASSUME ParInv, Schedulers, Schedulers', NEW p \in All, pc[p] = "schedule",
         wakee' = [wakee EXCEPT ![p] = NULL], NEW x \in Procs, wakee[p] = x
  PROVE  /\ x \notin Others /\ x # p
         /\ p \in Children \cup {Parent} /\ (p = Parent => at[p] = "create")
         /\ Scheduled(x) /\ ~ Scheduled(x)'
         /\ \A q \in Procs : q # x => (Scheduled(q)' <=> Scheduled(q))
<1>0. /\ Parent \notin Children /\ Procs = Children \cup Others \cup {Parent}
      /\ wakee \in [All -> Procs \cup {NULL}] /\ NULL \notin Procs
  BY Roster, Constants DEF ParInv, BaseInv, TypeOK
<1>1. x \notin Others
  BY DEF Schedulers
<1>2. (x \in Children /\ p = Parent) \/ (x = Parent /\ p \in Children)
  BY <1>0, <1>1 DEF Schedulers
<1>3. p = Parent => at[p] = "create"
  BY DEF ParInv, Asleep, LifeType
<1>4. \A y \in All : wakee[y] = x => y = p
  BY <1>0, <1>1, <1>2 DEF Schedulers, ParInv, Token, Waked
<1>5. \A y \in All : wakee'[y] = IF y = p THEN NULL ELSE wakee[y]
  BY <1>0
<1>6. ~ \E y \in All : wakee'[y] = x
  BY <1>0, <1>4, <1>5
<1>7. ASSUME NEW q \in Procs, q # x
      PROVE  (\E y \in All : wakee'[y] = q) <=> (\E y \in All : wakee[y] = q)
  BY <1>0, <1>5, <1>7
<1>8. Scheduled(x) /\ ~ Scheduled(x)'
  BY <1>6, ScheduledIs
<1>9. \A q \in Procs : q # x => (Scheduled(q)' <=> Scheduled(q))
  BY <1>7, ScheduledIs
<1>. QED BY <1>0, <1>1, <1>2, <1>3, <1>8, <1>9

(* schedule, for a process of this processor.                              *)
LEMMA LocalTop ==
  ASSUME ParInv, KeptInv, Schedulers', NEW p \in All, UNCHANGED life,
         ScheduleLocal(p), NEW q \in Tops
  PROVE  TopCall(q)' /\ TopStatus(q)'
<1>w. PICK x \in Procs : wakee[p] = x
  BY DEF ScheduleLocal, ParInv, BaseInv, Steady
<1>0. /\ TopCall(q) /\ TopStatus(q) /\ Schedulers /\ BaseInv /\ Sorted /\ q \in All /\ q \in Procs
      /\ pc \in [All -> PCs] /\ Parent \notin Others /\ Children \cap Others = {}
      /\ Parent \notin Children
      /\ OnceIn(rdyQues[Place[q]], q) /\ OnceIn(ipQues[Place[q]], q)
  BY TopIs, Roster DEF KeptInv, ParInv, BaseInv, TypeOK, TopStatus, OneWay
<1>1. /\ pc[p] = "schedule" /\ pc' = [pc EXCEPT ![p] = "run"]
      /\ wakee' = [wakee EXCEPT ![p] = NULL] /\ Runs(p) /\ schedule0(Place[x], x)
      /\ UNCHANGED <<ipQues, sched_state, waiting, kernel, at, children, made, dying>>
  BY <1>w DEF ScheduleLocal, life
<1>2. /\ x \in All /\ Place[x] \in Puns /\ x \notin Others /\ x # p
      /\ p \in Children \cup {Parent} /\ (p = Parent => at[p] = "create")
      /\ Scheduled(x) /\ ~ Scheduled(x)' /\ (q # x => (Scheduled(q)' <=> Scheduled(q)))
  BY <1>0, <1>1, <1>w, WakeeIs, Constants
<1>3. Unrivalled(x) => ~ Queued(x) /\ ~ Posted(x)
  <2>1. ASSUME x \in Tops PROVE OneWay(x)
    BY <2>1 DEF KeptInv, TopStatus
  <2>. QED BY <1>2, <2>1 DEF Tops, OneWay
<1>4. (q # x => KeepsPlace(q)) /\ (q = x => GetsPlace(q)) /\ (Running(q) => Running(q)')
  BY <1>0, <1>1, <1>2, <1>3, ScheduleTop
<1>5. Posted(q)' <=> Posted(q)
  BY <1>1 DEF Posted
<1>6. Still(q)
  BY <1>0, <1>1, <1>2 DEF Still, Woken
<1>7. TopStatus(q)'
  <2>1. CASE q # x
    <3>1. Calm(q)
      BY <1>2, <1>5, <1>6, <2>1 DEF Calm
    <3>. QED BY <1>0, <1>4, <2>1, <3>1, CalmStatus
  <2>2. CASE q = x
    <3>1. Scheduled(q) /\ ~ Scheduled(q)' /\ ~ Posted(q)' /\ q \notin Others /\ GetsPlace(q)
      BY <1>2, <1>3, <1>4, <1>5, <2>2, TopIs
    <3>. QED BY <1>0, <1>6, <3>1, Lands
  <2>. QED BY <2>1, <2>2
<1>8. kernel'[q] = "none" \/ (kernel'[q] = kernel[q] /\ pc'[q] = pc[q])
  BY <1>0, <1>1 DEF Runs
<1>. QED BY <1>0, <1>1, <1>4, <1>7, <1>8, CalmCall

(* ipq_add.                                                                *)
LEMMA PostTop ==
  ASSUME ParInv, KeptInv, Schedulers', NEW p \in All, UNCHANGED life,
         IpqAdd(p), NEW q \in Tops
  PROVE  TopCall(q)' /\ TopStatus(q)'
<1>w. PICK x \in Procs : wakee[p] = x
  BY DEF IpqAdd, RunsIn, ParInv, BaseInv, Steady
<1>0. /\ TopCall(q) /\ TopStatus(q) /\ Schedulers /\ BaseInv /\ q \in All /\ q \in Procs
      /\ pc \in [All -> PCs] /\ kernel \in [All -> Kernels]
      /\ Parent \notin Others /\ Children \cap Others = {}
      /\ Parent \notin Children /\ Place[q] \in Puns
      /\ ipQues \in [Puns -> Seq(All)] /\ ipQues[Place[q]] \in Seq(All)
      /\ OnceIn(rdyQues[Place[q]], q) /\ OnceIn(ipQues[Place[q]], q)
  BY TopIs, Roster DEF KeptInv, ParInv, BaseInv, TypeOK, TopStatus, OneWay
<1>1. /\ pc[p] = "schedule" /\ pc' = [pc EXCEPT ![p] = "run"]
      /\ wakee' = [wakee EXCEPT ![p] = NULL] /\ kernel' = [kernel EXCEPT ![p] = "none"]
      /\ ipQues' = [ipQues EXCEPT ![Place[x]] = Append(@, x)]
      /\ UNCHANGED <<current, rdyQues, sched_state, waiting, at, children, made, dying>>
  BY <1>0, <1>w DEF IpqAdd, life, RunsIn, BaseInv, Steady
<1>2. /\ x \in All /\ Place[x] \in Puns /\ x \notin Others /\ x # p
      /\ p \in Children \cup {Parent} /\ (p = Parent => at[p] = "create")
      /\ Scheduled(x) /\ ~ Scheduled(x)' /\ (q # x => (Scheduled(q)' <=> Scheduled(q)))
  BY <1>0, <1>1, <1>w, WakeeIs, Constants
<1>3. q = x => ~ Queued(q) /\ ~ Posted(q)
  BY <1>0, <1>2 DEF TopStatus, OneWay
<1>4. /\ OnceIn(ipQues'[Place[q]], q)
      /\ q # x => (Posted(q)' <=> Posted(q))
      /\ q = x => Posted(q)'
  <2>1. CASE Place[x] = Place[q]
    <3>1. ipQues'[Place[q]] = Append(ipQues[Place[q]], x)
      BY <1>0, <1>1, <2>1
    <3>2. OnceIn(Append(ipQues[Place[q]], x), q)
      BY <1>0, <1>2, <1>3, OnceAppend DEF Posted
    <3>3. Range(Append(ipQues[Place[q]], x)) = Range(ipQues[Place[q]]) \cup {x}
      BY <1>0, <1>2, AppendRange
    <3>. QED BY <3>1, <3>2, <3>3 DEF Posted
  <2>2. CASE Place[x] # Place[q]
    <3>1. ipQues'[Place[q]] = ipQues[Place[q]]
      BY <1>0, <1>1, <2>2
    <3>. QED BY <1>0, <2>2, <3>1 DEF Posted
  <2>. QED BY <2>1, <2>2
<1>5. KeepsPlace(q) /\ (Running(q) => Running(q)')
  BY <1>0, <1>1 DEF KeepsPlace, Running, Queued
<1>6. Still(q)
  BY <1>0, <1>1, <1>2, <1>4 DEF Still, Woken
<1>7. TopStatus(q)'
  <2>1. CASE q # x
    <3>1. Calm(q)
      BY <1>2, <1>4, <1>6, <2>1 DEF Calm
    <3>. QED BY <1>0, <1>5, <3>1, CalmStatus
  <2>2. CASE q = x
    BY <1>0, <1>1, <1>2, <1>4, <1>6, <2>2, Forwarded
  <2>. QED BY <2>1, <2>2
<1>8. kernel'[q] = "none" \/ (kernel'[q] = kernel[q] /\ pc'[q] = pc[q])
  BY <1>0, <1>1
<1>. QED BY <1>0, <1>1, <1>5, <1>7, <1>8, CalmCall

(* A timeout or a user interrupt makes a process ready.                    *)
LEMMA IntrTop ==
  ASSUME Foremost, ParInv, KeptInv, Schedulers', NEW p \in All, UNCHANGED life,
         NEW x \in waiting, IntrWake(p, x), NEW q \in Tops
  PROVE  TopCall(q)' /\ TopStatus(q)'
<1>0. /\ TopCall(q) /\ TopStatus(q) /\ Schedulers /\ BaseInv /\ Sorted /\ q \in All /\ q \in Procs
      /\ sched_state \in [All -> SchedStates]
      /\ Parent \notin Others /\ Children \cap Others = {}
      /\ OnceIn(rdyQues[Place[q]], q)
      /\ x \in Others /\ x \in All
  BY TopIs, Roster, Constants
     DEF KeptInv, ParInv, BaseInv, TypeOK, TopStatus, OneWay, Asleep
<1>1. /\ UNCHANGED <<current, ipQues, pc, kernel, wakee, at, children, made, dying>>
      /\ waiting' = waiting \ {x} /\ sched_state' = [sched_state EXCEPT ![x] = "READY"]
      /\ \/ sched_state[x] = "WAITING" /\ Enqueue(Place[x], x)
         \/ sched_state[x] # "WAITING" /\ UNCHANGED rdyQues
  BY DEF IntrWake, life
<1>2. x \in Tops /\ OtherStatus(x)
  <2>1. x \in Tops
    BY <1>0, Roster DEF Foremost, Tops
  <2>. QED BY <1>0, <2>1 DEF KeptInv, TopStatus
<1>3. ~ Queued(x) /\ x \in waiting
  BY <1>2 DEF OtherStatus
<1>4. /\ (Posted(q)' <=> Posted(q)) /\ (Scheduled(q)' <=> Scheduled(q))
      /\ OnceIn(ipQues'[Place[q]], q) /\ (Running(q)' <=> Running(q))
      /\ (Woken' <=> Woken)
  BY <1>0, <1>1 DEF Posted, Scheduled, Running, TopStatus, OneWay, Woken
<1>5. /\ OnceIn(rdyQues'[Place[q]], q)
      /\ q # x => (Queued(q)' <=> Queued(q))
      /\ q = x => (Queued(q)' <=> sched_state[x] = "WAITING")
  <2>1. CASE sched_state[x] = "WAITING" /\ Enqueue(Place[x], x)
    <3>1. OnceIn(rdyQues'[Place[q]], q) /\ (Queued(q)' <=> Queued(q) \/ q = x)
      BY <1>0, <1>3, <2>1, EnqueueTop
    <3>. QED BY <2>1, <3>1
  <2>2. CASE sched_state[x] # "WAITING" /\ UNCHANGED rdyQues
    BY <1>0, <1>3, <2>2 DEF Queued
  <2>. QED BY <1>1, <2>1, <2>2
<1>6. TopCall(q)'
  BY <1>0, <1>1, <1>4, CalmCall
<1>7. CASE q # x
  <2>1. Calm(q)
    BY <1>0, <1>1, <1>4, <1>7 DEF Calm, Still
  <2>2. KeepsPlace(q)
    BY <1>4, <1>5, <1>7 DEF KeepsPlace
  <2>. QED BY <1>0, <1>6, <2>1, <2>2, CalmStatus
<1>8. CASE q = x
  <2>1. sched_state'[q] = "READY" /\ q \notin waiting' /\ pc'[q] = pc[q]
    BY <1>0, <1>1, <1>8
  <2>2. pc[q] \in {"run", "publish", "relinquish", "disable"} /\ OtherStatus(q)
    BY <1>0, <1>2, <1>8 DEF KeptInv, Paths
  <2>3. OtherStatus(q)'
    BY <1>3, <1>4, <1>5, <1>8, <2>1, <2>2 DEF OtherStatus
  <2>4. OneWay(q)'
    <3>1. ~ Scheduled(q) /\ ~ Posted(q)
      BY <1>0, <1>8, <2>2 DEF Schedulers, Scheduled, OtherStatus
    <3>. QED BY <1>4, <1>5, <3>1 DEF OneWay
  <2>. QED BY <1>0, <1>6, <1>8, <2>3, <2>4 DEF TopStatus
<1>. QED BY <1>7, <1>8

(* The switch of relinquish, and that of finish_termination: who gives the *)
(* processor up is ready, or has nothing more to do.                       *)
LEMMA SwitchTop ==
  ASSUME ParInv, KeptInv, Schedulers', NEW p \in All, Switch(p),
         UNCHANGED <<at, children, made>>,
         \/ p \notin dying /\ UNCHANGED dying
         \/ p \in dying /\ dying' = dying \ {p},
         NEW q \in Tops
  PROVE  TopCall(q)' /\ TopStatus(q)'
<1>0. /\ TopCall(q) /\ TopStatus(q) /\ Schedulers /\ BaseInv /\ q \in All /\ q \in Procs
      /\ pc \in [All -> PCs] /\ kernel \in [All -> Kernels]
      /\ Parent \notin Others /\ Parent \notin Children /\ Children \cap Others = {}
      /\ Procs = Children \cup Others \cup {Parent}
      /\ OnceIn(rdyQues[Place[q]], q) /\ OnceIn(ipQues[Place[q]], q)
      /\ dying \subseteq Children
  BY TopIs, Roster DEF KeptInv, ParInv, BaseInv, TypeOK, TopStatus, OneWay, LifeType
<1>1. /\ current[Place[p]] = p /\ kernel[p] = "take" /\ rdyQues[Place[p]] # << >>
      /\ rdyQues' = [rdyQues EXCEPT ![Place[p]] = Tail(@)]
      /\ Dispatch(Place[p], Head(rdyQues[Place[p]]))
      /\ pc' = [pc EXCEPT ![p] = "run"] /\ kernel' = [kernel EXCEPT ![p] = "none"]
      /\ UNCHANGED <<ipQues, wakee, sched_state, waiting>>
  BY DEF Switch, RunsIn
<1>2. /\ OnceIn(rdyQues'[Place[q]], q)
      /\ q # p => KeepsPlace(q)
      /\ q = p => /\ Queued(q) <=> Running(q)' \/ Queued(q)'
                  /\ ~ (Running(q)' /\ Queued(q)')
  BY <1>0, <1>1, TakeTop
<1>3. /\ (Posted(q)' <=> Posted(q)) /\ (Scheduled(q)' <=> Scheduled(q))
      /\ OnceIn(ipQues'[Place[q]], q) /\ (Woken' <=> Woken)
  <2>1. Scheduled(q)' <=> Scheduled(q)
    BY <1>0, <1>1, ScheduledIs
  <2>. QED BY <1>0, <1>1, <2>1 DEF Posted, Woken
<1>4. CASE q # p
  <2>1. Calm(q)
    BY <1>0, <1>1, <1>3, <1>4 DEF Calm, Still
  <2>2. /\ Running(q) => Running(q)'
        /\ kernel'[q] = kernel[q] /\ pc'[q] = pc[q] /\ (q \in dying' <=> q \in dying)
    BY <1>0, <1>1, <1>2, <1>4 DEF KeepsPlace
  <2>. QED BY <1>0, <1>2, <1>4, <2>1, <2>2, CalmStatus, CalmCall
<1>5. CASE q = p
  <2>0. Running(q) /\ kernel'[q] = "none" /\ pc'[q] = "run"
    BY <1>0, <1>1, <1>5 DEF Running
  <2>1. TopCall(q)' /\ OneWay(q)'
    BY <1>0, <1>2, <1>3, <1>5, <2>0 DEF TopCall, TopStatus, OneWay
  <2>2. q \in Children \/ pc[q] = "disable"
    BY <1>0, <1>1, <1>5 DEF TopCall
  <2>3. ASSUME q \in Others PROVE OtherStatus(q)'
    <3>1. OtherStatus(q) /\ pc[q] = "disable"
      BY <1>0, <2>2, <2>3 DEF TopStatus
    <3>. QED BY <1>1, <1>2, <1>3, <1>5, <2>0, <3>1 DEF OtherStatus
  <2>4. ASSUME q \in Children PROVE ChildStatus(q)'
    <3>1. q \in dying /\ q \notin dying' /\ at[q] \in {"free", "body"} /\ at'[q] = at[q]
      BY <1>0, <1>1, <1>5, <2>4 DEF KeptInv, Paths, ParInv, LifeType
    <3>2. (at[q] = "body" <=> Ready(q)) /\ OneWay(q)
      BY <1>0, <2>4, <3>1 DEF TopStatus, ChildStatus
    <3>3. CASE at[q] = "free"
      BY <1>2, <1>3, <1>5, <3>1, <3>2, <3>3 DEF ChildStatus, Ready
    <3>4. CASE at[q] = "body"
      BY <1>2, <1>3, <1>5, <3>1, <3>2, <3>4 DEF ChildStatus, Ready, OneWay
    <3>. QED BY <3>1, <3>3, <3>4
  <2>5. ASSUME q = Parent PROVE ParentStatus'
    <3>1. at[Parent] = "join" /\ pc[Parent] = "disable" /\ ParentStatus
      BY <1>0, <1>1, <1>5, <2>5 DEF ParInv, Asleep, TopStatus
    <3>2. Woken => Ready(Parent)
      BY <3>1 DEF ParentStatus
    <3>. QED BY <1>2, <1>3, <1>5, <2>0, <2>5, <3>1, <3>2 DEF ParentStatus, Ready
  <2>. QED BY <2>1, <2>3, <2>4, <2>5 DEF TopStatus
<1>. QED BY <1>4, <1>5

(* yield and preemption: who loses the processor is queued again.          *)
LEMMA RotatesTop ==
  ASSUME ParInv, KeptInv, Schedulers', NEW p \in All, UNCHANGED life,
         Preempt(p) \/ YieldSwitch(p), rdyQues[Place[p]] # << >>,
         rdyQues' = [rdyQues EXCEPT ![Place[p]] = enqueue0(Tail(@), p)],
         Dispatch(Place[p], Head(rdyQues[Place[p]])), NEW q \in Tops
  PROVE  TopCall(q)' /\ TopStatus(q)'
<1>0. /\ TopCall(q) /\ TopStatus(q) /\ Schedulers /\ BaseInv /\ Sorted /\ q \in All /\ q \in Procs
      /\ kernel \in [All -> Kernels]
      /\ Parent \notin Others /\ Parent \notin Children /\ Children \cap Others = {}
      /\ Procs = Children \cup Others \cup {Parent}
      /\ OnceIn(rdyQues[Place[q]], q) /\ OnceIn(ipQues[Place[q]], q)
      /\ Unrivalled(q)
  BY TopIs, Roster DEF KeptInv, ParInv, BaseInv, TypeOK, TopStatus, OneWay
<1>1. /\ current[Place[p]] = p
      /\ kernel[p] \in {"take1", "preempt", "stale"}
      /\ \E k \in {"none", "resumed"} : kernel' = [kernel EXCEPT ![p] = k]
      /\ kernel[p] = "take1" => kernel' = [kernel EXCEPT ![p] = "none"]
      /\ UNCHANGED <<ipQues, wakee, pc, sched_state, waiting, at, children, made, dying>>
  BY DEF Preempt, YieldSwitch, RunsIn, life
<1>2. ASSUME Unrivalled(p)
      PROVE  /\ kernel[p] = "take1" /\ p \in Tops /\ ~ Ready(p)
             /\ p \in Others => pc[p] \in {"run", "publish"} /\ p \notin waiting
             /\ p \in Children => at[p] # "free" /\ p \notin dying
             /\ p = Parent => at[p] = "create" /\ made < Len(Roles) /\ pc[p] = "run"
  <2>1. kernel[p] = "take1" /\ p \in Procs
    BY <1>1, <1>2 DEF KeptInv, Paths
  <2>2. p \in Tops /\ TopCall(p) /\ TopStatus(p) /\ Running(p)
    BY <1>1, <1>2, <2>1 DEF Tops, KeptInv, Running
  <2>3. pc[p] \in {"run", "publish"} /\ p \notin dying
    BY <2>1, <2>2 DEF TopCall
  <2>4. p \in Others => ~ Ready(p) /\ p \notin waiting
    <3>1. ASSUME p \in Others PROVE ~ Queued(p) /\ ~ Posted(p) /\ p \notin waiting
      BY <2>2, <2>3, <3>1 DEF TopStatus, OtherStatus
    <3>2. ASSUME p \in Others PROVE ~ Scheduled(p)
      BY <3>2 DEF KeptInv, Schedulers, Scheduled
    <3>. QED BY <3>1, <3>2 DEF Ready
  <2>5. p \in Children => ~ Ready(p) /\ at[p] # "free"
    BY <2>2, <2>3 DEF TopStatus, ChildStatus
  <2>6. ASSUME p = Parent
        PROVE  ~ Ready(p) /\ at[p] = "create" /\ made < Len(Roles) /\ pc[p] = "run"
    <3>1. at[p] = "create" /\ made < Len(Roles) /\ pc[p] = "run"
      BY <2>1, <2>3, <2>6 DEF ParInv, Asleep
    <3>2. ~ Woken
      BY <2>6, <3>1, Unmade
    <3>3. ~ Queued(p) /\ ~ Posted(p) /\ ~ \E x \in All : wakee[x] = p
      BY <2>2, <2>6, <3>2 DEF ParInv, Token, Pending, Waked
    <3>. QED BY <3>1, <3>3 DEF Ready, Scheduled
  <2>. QED BY <1>0, <2>1, <2>2, <2>3, <2>4, <2>5, <2>6
<1>3. Unrivalled(p) => ~ Queued(p)
  BY <1>2 DEF Ready
<1>4. /\ OnceIn(rdyQues'[Place[q]], q)
      /\ q # p => KeepsPlace(q)
      /\ q = p => Queued(q)' /\ ~ Running(q)'
  BY <1>0, <1>1, <1>3, RotateTop
<1>5. /\ (Posted(q)' <=> Posted(q)) /\ (Scheduled(q)' <=> Scheduled(q))
      /\ OnceIn(ipQues'[Place[q]], q) /\ (Woken' <=> Woken)
  BY <1>0, <1>1 DEF Posted, Scheduled, Woken
<1>6. CASE q # p
  <2>1. Calm(q)
    BY <1>0, <1>1, <1>5, <1>6 DEF Calm, Still
  <2>2. (Running(q) => Running(q)') /\ kernel'[q] = kernel[q]
    BY <1>0, <1>1, <1>4, <1>6 DEF KeepsPlace
  <2>. QED BY <1>0, <1>1, <1>4, <1>6, <2>1, <2>2, CalmStatus, CalmCall
<1>7. CASE q = p
  <2>1. kernel'[q] = "none"
    BY <1>0, <1>1, <1>2, <1>7
  <2>2. TopCall(q)'
    BY <2>1 DEF TopCall
  <2>3. OneWay(q)' /\ Ready(q)' /\ ~ Running(q)' /\ ~ Posted(q)'
    BY <1>0, <1>2, <1>4, <1>5, <1>7 DEF OneWay, Ready
  <2>4. ASSUME q \in Others PROVE OtherStatus(q)'
    <3>1. OtherStatus(q) /\ pc[q] \in {"run", "publish"} /\ q \notin waiting
      BY <1>0, <1>2, <1>7, <2>4 DEF TopStatus
    <3>2. pc'[q] = pc[q] /\ sched_state'[q] = sched_state[q] /\ q \notin waiting'
      BY <1>1, <3>1
    <3>. QED BY <1>4, <1>7, <2>3, <3>1, <3>2 DEF OtherStatus
  <2>5. q \in Children => ChildStatus(q)'
    BY <1>0, <1>1, <1>2, <1>7, <2>3 DEF ChildStatus
  <2>6. ASSUME q = Parent PROVE ParentStatus'
    <3>1. at'[Parent] = "create" /\ made' < Len(Roles) /\ pc'[Parent] = "run"
      BY <1>0, <1>1, <1>2, <1>7, <2>6
    <3>2. Queued(Parent)' /\ Ready(Parent)'
      BY <1>4, <1>7, <2>3, <2>6
    <3>. QED BY <3>1, <3>2 DEF ParentStatus
  <2>. QED BY <1>0, <1>2, <1>7, <2>2, <2>3, <2>4, <2>5, <2>6 DEF TopStatus
<1>. QED BY <1>6, <1>7

(* A child is made ready, by the parent or by schedule.  Its record may    *)
(* still be that of a process that runs.                                   *)
LEMMA CreateTop ==
  ASSUME ParInv, KeptInv, Schedulers', NEW r \in Children, Create(r), NEW q \in Tops
  PROVE  TopCall(q)' /\ TopStatus(q)'
<1>0. /\ TopCall(q) /\ TopStatus(q) /\ Schedulers /\ BaseInv /\ Sorted /\ q \in All /\ q \in Procs
      /\ r \in All /\ r \in Procs /\ r # Parent /\ Place[r] \in Puns
      /\ Parent \in All /\ Parent \in Procs /\ NULL \notin Procs
      /\ pc \in [All -> PCs] /\ kernel \in [All -> Kernels]
      /\ sched_state \in [All -> SchedStates] /\ at \in [Procs -> Ats]
      /\ wakee \in [All -> Procs \cup {NULL}]
      /\ Parent \notin Others /\ Parent \notin Children /\ Children \cap Others = {}
      /\ Procs = Children \cup Others \cup {Parent}
      /\ OnceIn(rdyQues[Place[q]], q) /\ OnceIn(ipQues[Place[q]], q)
  BY TopIs, Roster, Constants
     DEF KeptInv, ParInv, BaseInv, TypeOK, TopStatus, OneWay, LifeType
<1>1. /\ UNCHANGED <<current, ipQues, waiting, children, kernel, dying>>
      /\ sched_state' = [sched_state EXCEPT ![r] = "WAITING"]
      /\ at[r] = "free" /\ at' = [at EXCEPT ![r] = "body"]
      /\ at[Parent] = "create" /\ pc[Parent] = "run" /\ Runs(Parent)
      /\ \/ Enqueue(Place[r], r) /\ UNCHANGED <<pc, wakee>>
         \/ /\ pc' = [pc EXCEPT ![Parent] = "schedule"]
            /\ wakee' = [wakee EXCEPT ![Parent] = r]
            /\ UNCHANGED rdyQues
  BY DEF Create, Build, Lives
<1>2. ASSUME r \in Tops
      PROVE  ~ Ready(r) /\ (r \in dying <=> Running(r)) /\ TopStatus(r) /\ OneWay(r)
  <2>1. TopStatus(r) /\ ChildStatus(r) /\ OneWay(r)
    BY <1>2 DEF KeptInv, TopStatus
  <2>. QED BY <1>1, <2>1 DEF ChildStatus
<1>3. Unrivalled(r) => ~ Queued(r)
  BY <1>0, <1>2 DEF Tops, Ready
<1>4. /\ OnceIn(ipQues'[Place[q]], q) /\ OnceIn(rdyQues'[Place[q]], q)
      /\ (Running(q)' <=> Running(q)) /\ (Posted(q)' <=> Posted(q))
      /\ q # r => (Queued(q)' <=> Queued(q))
  <2>1. CASE Enqueue(Place[r], r)
    <3>1. OnceIn(rdyQues'[Place[q]], q) /\ (Queued(q)' <=> Queued(q) \/ q = r)
      BY <1>0, <1>3, <2>1, EnqueueTop
    <3>. QED BY <1>0, <1>1, <3>1 DEF Running, Posted
  <2>2. CASE UNCHANGED rdyQues
    BY <1>0, <1>1, <2>2 DEF Running, Posted, Queued
  <2>. QED BY <1>1, <2>1, <2>2
<1>5. wakee[Parent] = NULL
  BY <1>0, <1>1 DEF Schedulers
<1>6. ASSUME q # r PROVE Scheduled(q)' <=> Scheduled(q)
  <2>1. (\E y \in All : wakee'[y] = q) <=> (\E y \in All : wakee[y] = q)
    BY <1>0, <1>1, <1>5, <1>6
  <2>. QED BY <1>0, <2>1, ScheduledIs
<1>7. Woken' <=> Woken
  BY <1>0, <1>1 DEF Woken
<1>8. CASE q # r
  <2>1. KeepsPlace(q) /\ Calm(q)
    <3>1. q = Parent => Running(q)'
      BY <1>0, <1>1 DEF Runs, Running
    <3>. QED BY <1>0, <1>1, <1>4, <1>6, <1>7, <1>8, <3>1 DEF KeepsPlace, Calm, Still
  <2>2. kernel'[q] = "none" \/ (kernel'[q] = kernel[q] /\ pc'[q] = pc[q])
    BY <1>0, <1>1, <1>8 DEF Runs
  <2>3. q \in dying' <=> q \in dying
    BY <1>1, <1>8
  <2>. QED BY <1>0, <1>4, <2>1, <2>2, <2>3, CalmStatus, CalmCall
<1>9. CASE q = r
  <2>1. ~ Queued(q) /\ ~ Posted(q) /\ ~ Scheduled(q) /\ (q \in dying <=> Running(q))
    BY <1>2, <1>9 DEF Ready
  <2>2. \/ Queued(q)' /\ ~ Scheduled(q)'
        \/ ~ Queued(q)' /\ Scheduled(q)'
    <3>1. CASE Enqueue(Place[r], r) /\ UNCHANGED <<pc, wakee>>
      <4>1. Queued(q)' <=> Queued(q) \/ q = r
        BY <1>0, <1>3, <3>1, EnqueueTop
      <4>2. Scheduled(q)' <=> Scheduled(q)
        BY <3>1 DEF Scheduled
      <4>. QED BY <1>9, <2>1, <4>1, <4>2
    <3>2. CASE wakee' = [wakee EXCEPT ![Parent] = r] /\ UNCHANGED rdyQues
      <4>1. Scheduled(q)'
        BY <1>0, <1>9, <3>2, ScheduledIs
      <4>2. ~ Queued(q)'
        BY <2>1, <3>2 DEF Queued
      <4>. QED BY <4>1, <4>2
    <3>. QED BY <1>1, <3>1, <3>2
  <2>3. OneWay(q)' /\ Ready(q)'
    BY <1>4, <2>1, <2>2 DEF OneWay, Ready
  <2>4. /\ at'[q] = "body" /\ (q \in dying' <=> Running(q)') /\ pc'[q] = pc[q]
        /\ kernel'[q] = kernel[q]
    BY <1>0, <1>1, <1>4, <1>9, <2>1 DEF Running
  <2>5. ChildStatus(q)'
    BY <2>3, <2>4 DEF ChildStatus
  <2>6. TopCall(q)'
    BY <1>0, <1>4, <2>1, <2>4 DEF TopCall
  <2>. QED BY <1>0, <1>9, <2>3, <2>5, <2>6 DEF TopStatus
<1>. QED BY <1>8, <1>9

-----------------------------------------------------------------------------
(* The theorems.                                                           *)

(* Who is there at the beginning runs or is queued.                        *)
LEMMA KeptStart ==
  ASSUME Foremost, ParInit
  PROVE  KeptInv
<1>0. /\ Parent \notin Others /\ Parent \notin Children /\ Children \cap Others = {}
      /\ Parent \in Procs /\ Procs \subseteq All /\ Children \subseteq Procs
      /\ Others \subseteq Procs
      /\ NULL \notin All /\ NULL \notin Procs
  BY Roster, Constants, SchedAssumption
<1>1. Schedulers
  BY <1>0 DEF ParInit, Schedulers
<1>2. Paths
  BY <1>0 DEF ParInit, Paths
<1>3. ASSUME NEW q \in Tops PROVE TopCall(q) /\ TopStatus(q)
  <2> DEFINE u == Place[q]
             s == Living0[u]
  <2>0. u \in Puns /\ q \in Procs /\ q \in All /\ Idle[u] \in All /\ Place[Idle[u]] = u
        /\ Idle[u] \notin Procs
    BY TopIs, Constants
  <2>1. /\ s \in Seq(All) /\ Range(s) = {p \in All \ Children : Place[p] = u} /\ IsInjective(s)
    BY <2>0, LivingAssumption
  <2>2. s # << >>
    BY <1>0, <2>0, <2>1, Elements
  <2>3. /\ Tail(s) \in Seq(All) /\ Range(s) = {Head(s)} \cup Range(Tail(s))
        /\ Head(s) \notin Range(Tail(s)) /\ IsInjective(Tail(s))
    BY <2>1, <2>2, TailRange
  <2>4. /\ rdyQues[u] = Tail(s) /\ current[u] = Head(s) /\ ipQues[u] = << >>
        /\ waiting = {} /\ dying = {} /\ children = 0
        /\ pc[q] = "run" /\ kernel[q] = "none"
        /\ at[q] = IF q \in Children THEN "free" ELSE "main"
    BY <2>0 DEF ParInit
  <2>5. OnceIn(rdyQues[u], q)
    <3>1. rdyQues[u] \in Seq(All) /\ IsInjective(rdyQues[u])
      BY <2>3, <2>4
    <3>. QED BY <3>1, Elements DEF OnceIn, IsInjective
  <2>6. OnceIn(ipQues[u], q) /\ ~ Posted(q)
    BY <2>4 DEF OnceIn, Posted, Range
  <2>7. ~ Scheduled(q)
    BY DEF ParInit, Scheduled
  <2>8. /\ Running(q) <=> Head(s) = q
        /\ Queued(q) <=> q \in Range(Tail(s))
    BY <2>4 DEF Running, Queued
  <2> HIDE DEF s, u
  <2>9. q \in Children => ~ Running(q) /\ ~ Ready(q)
    BY <2>1, <2>3, <2>6, <2>7, <2>8 DEF Ready
  <2>10. q \notin Children => (Running(q) \/ Queued(q)) /\ ~ (Running(q) /\ Queued(q))
    BY <2>0, <2>1, <2>3, <2>8 DEF u
  <2>11. OneWay(q)
    BY <2>5, <2>6, <2>7 DEF OneWay, u
  <2>12. q \in Others => OtherStatus(q)
    BY <1>0, <2>4, <2>6, <2>10 DEF OtherStatus
  <2>13. q \in Children => ChildStatus(q)
    BY <2>4, <2>9 DEF ChildStatus
  <2>14. q = Parent => ParentStatus
    BY <1>0, <2>4, <2>10 DEF ParentStatus, Woken
  <2>15. TopCall(q)
    BY <2>4 DEF TopCall
  <2>. QED BY <2>11, <2>12, <2>13, <2>14, <2>15 DEF TopStatus
<1>. QED BY <1>1, <1>2, <1>3 DEF KeptInv

(* The steps of the scheduler.                                             *)
LEMMA CarriedTop ==
  ASSUME Foremost, ParInv, KeptInv, Schedulers', NEW p \in All, Carried(p), UNCHANGED life,
         NEW q \in Tops
  PROVE  TopCall(q)' /\ TopStatus(q)'
<1>0. /\ rdyQues[Place[p]] \in Seq(All) /\ Children \subseteq Procs /\ Others \subseteq Procs
      /\ Parent \notin Children /\ Parent \notin Others /\ Children \cap Others = {}
      /\ dying \subseteq Children /\ BaseInv
  BY Roster, Constants DEF ParInv, BaseInv, TypeOK, LifeType
<1>1. CASE \/ MayYield(p) /\ Yield(p)
           \/ p \in Others /\ Yield(p)
  <2>1. Yield(p) /\ p \in Procs \ dying
    BY <1>0, <1>1, Roster DEF MayYield, Lives
  <2>. QED BY <2>1, CallsTop
<1>2. CASE \/ Disable(p) \/ ScheduleRemote(p) \/ IpiEnter(p) \/ IpiDone(p)
           \/ IntrEnter(p) \/ IntrDone(p)
  BY <1>2, CallsTop
<1>3. CASE \/ p \in Others /\ (PrepareToWait(p) \/ Publish(p))
           \/ Relinquish(p)
  BY <1>3, WaitsTop
<1>4. CASE Drain(p) \/ IpiStep(p)
  BY <1>4, DrainTop
<1>5. CASE Switch(p) /\ p \notin dying
  BY <1>5, SwitchTop DEF life
<1>6. CASE YieldSwitch(p)
  <2>1. CASE Len(rdyQues[Place[p]]) >= 2
    <3>1. rdyQues[Place[p]] # << >>
      BY <1>0, <2>1, Elements
    <3>2. /\ rdyQues' = [rdyQues EXCEPT ![Place[p]] = enqueue0(Tail(@), p)]
          /\ Dispatch(Place[p], Head(rdyQues[Place[p]]))
      BY <1>6, <2>1 DEF YieldSwitch
    <3>. QED BY <1>6, <3>1, <3>2, RotatesTop
  <2>2. CASE ~ (Len(rdyQues[Place[p]]) >= 2)
    <3>1. UNCHANGED <<current, rdyQues>>
      BY <1>6, <2>2 DEF YieldSwitch
    <3>. QED BY <1>6, <3>1, CallsTop
  <2>. QED BY <2>1, <2>2
<1>7. CASE Preempt(p)
  <2>1. /\ rdyQues[Place[p]] # << >>
        /\ rdyQues' = [rdyQues EXCEPT ![Place[p]] = enqueue0(Tail(@), p)]
        /\ Dispatch(Place[p], Head(rdyQues[Place[p]]))
    BY <1>0, <1>7 DEF Preempt, RunsIn, BaseInv, Steady
  <2>. QED BY <1>7, <2>1, RotatesTop
<1>8. ASSUME NEW x \in waiting, IntrWake(p, x) PROVE TopCall(q)' /\ TopStatus(q)'
  BY <1>8, IntrTop
<1>. QED BY <1>1, <1>2, <1>3, <1>4, <1>5, <1>6, <1>7, <1>8, LocalTop, PostTop
         DEF Carried, Scheduling, Interrupt

(* Every step keeps every unrivalled process in one of its places.         *)
LEMMA TopsNext ==
  ASSUME Foremost, ParInv, KeptInv, [ParNext]_parVars
  PROVE  KeptInv'
<1>0. /\ Children \subseteq All /\ Others \subseteq All /\ Children \cap Others = {}
      /\ Procs \subseteq All
  BY Roster, Constants
<1>1. CASE ParNext
  <2>1. Schedulers' /\ Paths'
    BY <1>1, SchedulersNext, PathsNext DEF KeptInv
  <2>2. ASSUME NEW q \in Tops PROVE TopCall(q)' /\ TopStatus(q)'
    <3>1. CASE Par \/ Join \/ Return
      BY <2>1, <3>1, ParentTop
    <3>2. ASSUME NEW r \in Children, Create(r) PROVE TopCall(q)' /\ TopStatus(q)'
      BY <2>1, <3>2, CreateTop
    <3>3. ASSUME NEW p \in Children, Living(p) PROVE TopCall(q)' /\ TopStatus(q)'
      <4>1. CASE Sync(p)
        BY <2>1, <4>1, SyncTop
      <4>2. CASE Terminate(p) \/ Release(p) \/ FinishTermination(p)
        BY <2>1, <4>2, EndsTop
      <4>3. CASE Exit(p)
        BY <1>0, <2>1, <4>3, SwitchTop DEF Exit
      <4>. QED BY <3>3, <4>1, <4>2, <4>3 DEF Living
    <3>4. ASSUME NEW p \in All, Carried(p), UNCHANGED life PROVE TopCall(q)' /\ TopStatus(q)'
      BY <2>1, <3>4, CarriedTop
    <3>. QED BY <1>0, <1>1, <3>1, <3>2, <3>3, <3>4 DEF ParNext, Carried
  <2>3. Tops' = Tops
    BY DEF Tops, Unrivalled, pri_gt
  <2>. QED BY <2>1, <2>2, <2>3 DEF KeptInv
<1>2. CASE UNCHANGED parVars
  <2>1. UNCHANGED vars /\ UNCHANGED life
    BY <1>2 DEF parVars
  <2>2. Schedulers' /\ Paths'
    BY <2>1 DEF vars, life, KeptInv, Schedulers, Paths, Unrivalled, pri_gt
  <2>3. ASSUME NEW q \in Tops PROVE TopCall(q)' /\ TopStatus(q)'
    <3>1. Aside(q) /\ UNCHANGED <<current, rdyQues, ipQues, wakee>>
      BY <2>1 DEF vars, life, Aside, Woken
    <3>. QED BY <2>2, <3>1, AsideTop
  <2>4. Tops' = Tops
    BY DEF Tops, Unrivalled, pri_gt
  <2>. QED BY <2>2, <2>3, <2>4 DEF KeptInv
<1>. QED BY <1>1, <1>2

(* Where the unrivalled processes are in every reachable state.            *)
THEOREM ParKeptInvariant == Foremost => (ParSpec => [](ParInv /\ KeptInv))
<1> SUFFICES ASSUME Foremost PROVE ParSpec => [](ParInv /\ KeptInv)
  OBVIOUS
<1>1. ParInit => ParInv /\ KeptInv
  BY ParStart, KeptStart
<1>2. (ParInv /\ KeptInv) /\ [ParNext]_parVars => (ParInv /\ KeptInv)'
  BY ParKeeps, TopsNext
<1>. QED BY <1>1, <1>2, PTL DEF ParSpec

(* A parent that waits in par is on its processor, ready, or has a child   *)
(* left to wake it (par_barrier.m:36-40), if nobody outranks it on its     *)
(* processor, nor the processes beside the children on theirs.             *)
THEOREM ParParentKept == Foremost => (ParSpec => []ParentKept)
<1> SUFFICES ASSUME Foremost PROVE ParSpec => []ParentKept
  OBVIOUS
<1>1. ParInv /\ KeptInv => ParentKept
  <2> SUFFICES ASSUME ParInv, KeptInv, at[Parent] = "join"
               PROVE  Running(Parent) \/ Ready(Parent) \/ \E p \in Children : at[p] = "body"
    BY DEF ParentKept
  <2>1. Parent \in Tops
    BY Roster DEF Foremost, Tops
  <2>2. Woken => Running(Parent) \/ Ready(Parent)
    BY <2>1 DEF KeptInv, TopStatus, ParentStatus
  <2>3. CASE children # 0
    <3>1. children = Len(Roles) - made + Cardinality(Bodies) /\ made = Len(Roles)
      BY DEF ParInv, Counted
    <3>2. Len(Roles) \in Nat /\ Cardinality(Bodies) \in Nat
      BY Roster, BodiesSize DEF ParInv
    <3>3. Cardinality(Bodies) # 0
      BY <2>3, <3>1, <3>2
    <3>4. Bodies # {}
      BY <3>3, FS_EmptySet
    <3>. QED BY <3>4 DEF Bodies
  <2>. QED BY <2>2, <2>3 DEF Woken
<1>. QED BY <1>1, ParKeptInvariant, PTL

(* Waking the parent does no harm to the processes beside it, under the    *)
(* same condition: each is on its processor, ready, or waits for its       *)
(* interrupt (sched.c:171, comm.c:55-56).                                  *)
THEOREM ParOthersKept == Foremost => (ParSpec => []OthersKept)
<1> SUFFICES ASSUME Foremost PROVE ParSpec => []OthersKept
  OBVIOUS
<1>1. ParInv /\ KeptInv => OthersKept
  <2> SUFFICES ASSUME KeptInv, NEW q \in Others
               PROVE  Running(q) \/ Ready(q) \/ q \in waiting
    BY DEF OthersKept
  <2>1. q \in Tops
    BY Roster DEF Foremost, Tops
  <2>. QED BY <2>1 DEF KeptInv, TopStatus, OtherStatus, Ready
<1>. QED BY <1>1, ParKeptInvariant, PTL
===============================================================================
