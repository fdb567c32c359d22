------------------------------ MODULE IpqProofs -----------------------------
(***************************************************************************)
(* What is proved of Ipq for any processors, processes and queue length:   *)
(* as long as no two processors add to one queue at the same time, nothing *)
(* is lost, what is in the queue is announced, and the ring implements the *)
(* list of Mailbox.                                                        *)
(***************************************************************************)
EXTENDS Ipq, FiniteSetTheorems, SequenceTheorems, TLAPS

-----------------------------------------------------------------------------
(* The hypothesis, and the inductive invariant Inv.                        *)

\* Where the processor is in ipq_add, before its process is in the queue.
Carrying == Adding \ {"send"}

\* x has a process in its hands that is in no queue.
Bears(x) == pc[x] \in Carrying \cup {"release"}

\* No two processors are in ipq_add for the same queue at the same time.
OneAdder ==
  \A x, y \in Puns :
    /\ pc[x] \in Carrying /\ pc[y] \in Carrying
    /\ Place[proc[x]] = Place[proc[y]]
    => x = y

\* The k-th slot of u's queue after the next to be removed.
At(u, k) == (nextRem[u] + k) % QSIZE

\* The remover counts on an entry that is still there.
Removing ==
  \A u \in Puns :
    /\ pc[u] \in {"take", "release"} => Used(u) >= 1
    /\ pc[u] = "release" /\ Filling(u) => Used(u) >= 2

\* The adder's copy of nextAdd is still nextAdd, and the slot it found free
\* is still free; once claimed, it is the last slot in use.
Claiming ==
  \A x \in Puns :
    LET u == Place[proc[x]]
    IN  /\ pc[x] \in {"loadRem", "exchange"} => a[x] = nextAdd[u]
        /\ pc[x] = "exchange" => Used(u) < QSIZE - 1
        /\ pc[x] = "store" => Used(u) >= 1 /\ a[x] = At(u, Used(u) - 1)

\* The slots in use are the ones that are filled, but for the one that is
\* being released and the one that is claimed.
Filled ==
  \A u \in Puns : \A k \in 0..(QSIZE - 1) :
    que[u][At(u, k)] # NULL
      <=> /\ k < Used(u)
          /\ ~ (k = 0 /\ pc[u] = "release")
          /\ ~ (k = Used(u) - 1 /\ Filling(u))

\* Who has a process in its hands, and for which queue.
Hands ==
  /\ \A x \in Puns :
       /\ pc[x] \in Adding => proc[x] \in Procs /\ Place[proc[x]] # x
       /\ pc[x] = "release" => proc[x] \in Procs /\ Place[proc[x]] = x
       /\ Bears(x) => proc[x] \notin waits
  /\ \A x, y \in Puns : Bears(x) /\ Bears(y) /\ proc[x] = proc[y] => x = y

\* An entry is a process of that processor, entered once and in nobody's hands.
Entries ==
  \A u \in Puns, s \in Slots :
    que[u][s] # NULL =>
      /\ Place[que[u][s]] = u
      /\ que[u][s] \notin waits
      /\ \A x \in Puns : Bears(x) => proc[x] # que[u][s]
      /\ \A t \in Slots : que[u][t] = que[u][s] => t = s

\* A process that does not wait is somewhere.
Somewhere ==
  \A p \in Procs \ waits :
    \/ \E x \in Puns : Bears(x) /\ proc[x] = p
    \/ \E s \in Slots : que[Place[p]][s] = p

\* Announced, for every place of the remover: a loop that has begun may have
\* used up the interrupt of the entry it is about to take.
Signalled ==
  \A u \in Puns :
    Cardinality(Stored(u)) <=
      signals[u] + Cardinality(Senders(u)) + (IF pc[u] \in {"test", "take"} THEN 1 ELSE 0)

Ring == TypeOK /\ Removing /\ Claiming /\ Filled
Owners == Hands /\ Entries /\ Somewhere
Inv == Ring /\ Owners /\ Signalled

-----------------------------------------------------------------------------
(* Arithmetic on the ring.                                                 *)

\* The slot k after r, and how far s is from r.
Off(r, k) == (r + k) % QSIZE
Dist(s, r) == (s - r) % QSIZE

(* One turn of the ring, without remainders.                               *)
LEMMA Turn ==
  ASSUME NEW r \in Slots, NEW k \in Slots
  PROVE  /\ Off(r, k) = IF r + k < QSIZE THEN r + k ELSE r + k - QSIZE
         /\ Dist(k, r) = IF k >= r THEN k - r ELSE k - r + QSIZE
         /\ Succ(r) = IF r = QSIZE - 1 THEN 0 ELSE r + 1
         /\ Off(r, k) \in Slots /\ Dist(k, r) \in Slots /\ Succ(r) \in Slots
<1>1. QSIZE \in Nat /\ QSIZE >= 2 /\ Slots = 0..(QSIZE - 1)
  BY IpqAssumption DEF Slots
<1>2. Off(r, k) = IF r + k < QSIZE THEN r + k ELSE r + k - QSIZE
  BY <1>1 DEF Off
<1>3. Dist(k, r) = IF k >= r THEN k - r ELSE k - r + QSIZE
  BY <1>1 DEF Dist
<1>4. Succ(r) = IF r = QSIZE - 1 THEN 0 ELSE r + 1
  BY <1>1 DEF Succ
<1>. QED BY <1>1, <1>2, <1>3, <1>4

(* Every slot has one distance from r.                                     *)
LEMMA Offsets ==
  ASSUME NEW r \in Slots
  PROVE  /\ Off(r, 0) = r
         /\ \A k \in Slots : Off(r, k) \in Slots /\ Dist(Off(r, k), r) = k
         /\ \A s \in Slots : Dist(s, r) \in Slots /\ Off(r, Dist(s, r)) = s
         /\ \A k, l \in Slots : Off(r, k) = Off(r, l) => k = l
<1>1. QSIZE \in Nat /\ QSIZE >= 2 /\ Slots = 0..(QSIZE - 1)
  BY IpqAssumption DEF Slots
<1>2. Off(r, 0) = r
  BY <1>1, Turn
<1>3. ASSUME NEW k \in Slots PROVE Off(r, k) \in Slots /\ Dist(Off(r, k), r) = k
  <2> DEFINE s == Off(r, k)
  <2>1. s \in Slots /\ s = IF r + k < QSIZE THEN r + k ELSE r + k - QSIZE
    BY Turn
  <2> HIDE DEF s
  <2>2. Dist(s, r) = IF s >= r THEN s - r ELSE s - r + QSIZE
    BY <2>1, Turn
  <2>3. Dist(s, r) = k
    BY <1>1, <2>1, <2>2
  <2>. QED BY <2>1, <2>3 DEF s
<1>4. ASSUME NEW s \in Slots PROVE Dist(s, r) \in Slots /\ Off(r, Dist(s, r)) = s
  <2> DEFINE k == Dist(s, r)
  <2>1. k \in Slots /\ k = IF s >= r THEN s - r ELSE s - r + QSIZE
    BY Turn
  <2> HIDE DEF k
  <2>2. Off(r, k) = IF r + k < QSIZE THEN r + k ELSE r + k - QSIZE
    BY <2>1, Turn
  <2>3. Off(r, k) = s
    BY <1>1, <2>1, <2>2
  <2>. QED BY <2>1, <2>3 DEF k
<1>. QED BY <1>2, <1>3, <1>4

(* nextAdd or nextRem moves on by a slot.                                  *)
LEMMA Moves ==
  ASSUME NEW r \in Slots, NEW s \in Slots
  PROVE  /\ r = Succ(s) <=> Dist(s, r) = QSIZE - 1
         /\ s = r <=> Dist(s, r) = 0
         /\ Dist(s, r) < QSIZE - 1 => Dist(Succ(s), r) = Dist(s, r) + 1
         /\ Dist(s, r) >= 1 => Dist(s, Succ(r)) = Dist(s, r) - 1
         /\ \A k \in Slots : k + 1 \in Slots => Off(Succ(r), k) = Off(r, k + 1)
         /\ Off(Succ(r), QSIZE - 1) = r
<1>1. QSIZE \in Nat /\ QSIZE >= 2 /\ Slots = 0..(QSIZE - 1)
  BY IpqAssumption DEF Slots
<1> DEFINE t == Succ(s)
           q == Succ(r)
<1>2. /\ t \in Slots /\ t = IF s = QSIZE - 1 THEN 0 ELSE s + 1
      /\ q \in Slots /\ q = IF r = QSIZE - 1 THEN 0 ELSE r + 1
  BY Turn
<1> HIDE DEF t, q
<1>3. /\ Dist(s, r) = IF s >= r THEN s - r ELSE s - r + QSIZE
      /\ Dist(t, r) = IF t >= r THEN t - r ELSE t - r + QSIZE
      /\ Dist(s, q) = IF s >= q THEN s - q ELSE s - q + QSIZE
  BY <1>2, Turn
<1>4. \A k \in Slots : /\ Off(q, k) = IF q + k < QSIZE THEN q + k ELSE q + k - QSIZE
                       /\ Off(r, k) = IF r + k < QSIZE THEN r + k ELSE r + k - QSIZE
  BY <1>2, Turn
<1>5. r = t <=> Dist(s, r) = QSIZE - 1
  BY <1>1, <1>2, <1>3
<1>6. s = r <=> Dist(s, r) = 0
  BY <1>1, <1>3
<1>7. Dist(s, r) < QSIZE - 1 => Dist(t, r) = Dist(s, r) + 1
  BY <1>1, <1>2, <1>3
<1>8. Dist(s, r) >= 1 => Dist(s, q) = Dist(s, r) - 1
  BY <1>1, <1>2, <1>3
<1>9. \A k \in Slots : k + 1 \in Slots => Off(q, k) = Off(r, k + 1)
  BY <1>1, <1>2, <1>4
<1>10. Off(q, QSIZE - 1) = r
  BY <1>1, <1>2, <1>4
<1>. QED BY <1>5, <1>6, <1>7, <1>8, <1>9, <1>10 DEF t, q

(* The slots of a queue, by their distance from the next to be removed.    *)
LEMMA Positions ==
  ASSUME TypeOK, NEW u \in Puns
  PROVE  /\ Used(u) \in Slots /\ Used(u) = Dist(nextAdd[u], nextRem[u])
         /\ \A k : At(u, k) = Off(nextRem[u], k)
         /\ At(u, 0) = nextRem[u]
         /\ At(u, Used(u)) = nextAdd[u]
         /\ \A k \in Slots : At(u, k) \in Slots
         /\ \A k, l \in Slots : At(u, k) = At(u, l) => k = l
         /\ \A s \in Slots : \E k \in Slots : At(u, k) = s
<1>1. nextRem[u] \in Slots /\ nextAdd[u] \in Slots
  BY DEF TypeOK
<1>2. Used(u) = Dist(nextAdd[u], nextRem[u]) /\ \A k : At(u, k) = Off(nextRem[u], k)
  BY DEF Used, Dist, At, Off
<1> DEFINE r == nextRem[u]
           s == nextAdd[u]
<1>3. /\ Off(r, 0) = r
      /\ \A k \in Slots : Off(r, k) \in Slots
      /\ \A t \in Slots : Dist(t, r) \in Slots /\ Off(r, Dist(t, r)) = t
      /\ \A k, l \in Slots : Off(r, k) = Off(r, l) => k = l
  BY <1>1, Offsets
<1> HIDE DEF r, s
<1>4. Used(u) = Dist(s, r) /\ \A k : At(u, k) = Off(r, k)
  BY <1>2 DEF r, s
<1>5. r \in Slots /\ s \in Slots
  BY <1>1 DEF r, s
<1>6. /\ Dist(s, r) \in Slots /\ Off(r, Dist(s, r)) = s
      /\ \A t \in Slots : \E k \in Slots : Off(r, k) = t
  BY <1>3, <1>5
<1>7. /\ Used(u) \in Slots
      /\ At(u, 0) = r /\ At(u, Used(u)) = s
  BY <1>3, <1>4, <1>6
<1>8. /\ \A k \in Slots : At(u, k) \in Slots
      /\ \A k, l \in Slots : At(u, k) = At(u, l) => k = l
      /\ \A t \in Slots : \E k \in Slots : At(u, k) = t
  BY <1>3, <1>4, <1>6
<1>. QED BY <1>2, <1>7, <1>8 DEF r, s

(* What the constants are.                                                 *)
LEMMA Sizes ==
  /\ QSIZE \in Nat /\ QSIZE >= 2 /\ Slots = 0..(QSIZE - 1)
  /\ Place \in [Procs -> Puns] /\ NULL \notin Procs /\ MaxSignals \in Nat
BY IpqAssumption DEF Slots

-----------------------------------------------------------------------------
(* The steps, by what they do to the ring.                                 *)

\* The steps that neither fill nor claim nor empty nor release a slot.
Aside(x) ==
  \/ \E p \in Procs : Schedule(x, p)
  \/ LoadAdd(x) \/ LoadRem(x) \/ Send(x)
  \/ (Exchange(x) /\ UNCHANGED nextAdd)
  \/ Handle(x) \/ Enable(x) \/ Drain(x) \/ Test(x)

\* The exchange succeeds.
Claims(x) == Exchange(x) /\ nextAdd[Place[proc[x]]] = a[x]

(* Every step is one of these.                                             *)
LEMMA Kinds ==
  ASSUME Next
  PROVE  \E x \in Puns : Aside(x) \/ Claims(x) \/ Store(x) \/ Take(x) \/ Release(x)
<1>1. PICK x \in Puns : (\E p \in Procs : Schedule(x, p)) \/ Drain(x) \/ Add(x) \/ Remove(x)
  BY DEF Next
<1>2. Exchange(x) => Claims(x) \/ (Exchange(x) /\ UNCHANGED nextAdd)
  BY DEF Exchange, Claims
<1>. QED BY <1>1, <1>2 DEF Aside, Add, Remove

\* What a step aside does.
Apart(x) ==
  /\ UNCHANGED <<nextAdd, nextRem, que>>
  /\ pc'[x] \notin {"store", "release"} /\ pc[x] \notin {"store", "release"}
  /\ \A y \in Puns \ {x} : pc'[y] = pc[y] /\ proc'[y] = proc[y] /\ a'[y] = a[y]
  /\ pc' \in [Puns -> PCs] /\ proc' \in [Puns -> Procs \cup {NULL}]
  /\ a' \in [Puns -> Slots] /\ waits' \subseteq Procs
  /\ signals' \in [Puns -> Nat]

(* Whichever it is.                                                        *)
LEMMA AsideEffect ==
  ASSUME Inv, NEW x \in Puns, Aside(x)
  PROVE  Apart(x)
<1>1. TypeOK /\ (pc[x] \in Adding => proc[x] \in Procs /\ Place[proc[x]] \in Puns)
  BY Sizes DEF Inv, Ring, Owners, Hands
<1>2. ASSUME NEW p \in Procs, Schedule(x, p) PROVE Apart(x)
  BY <1>1, <1>2 DEF TypeOK, Schedule, Go, PCs, Adding, Apart
<1>3. CASE LoadAdd(x)
  <2>1. nextAdd[Place[proc[x]]] \in Slots
    BY <1>1, <1>3 DEF TypeOK, LoadAdd, Go, Adding
  <2>. QED BY <1>1, <1>3, <2>1 DEF TypeOK, LoadAdd, Go, PCs, Adding, Apart
<1>4. CASE LoadRem(x)
  BY <1>1, <1>4 DEF TypeOK, LoadRem, PCs, Adding, Apart
<1>5. CASE Send(x)
  <2> DEFINE u == Place[proc[x]]
  <2>1. u \in Puns
    BY <1>1, <1>5 DEF Send, Go, Adding
  <2>2. /\ pc[x] = "send" /\ pc' = [pc EXCEPT ![x] = "enable"]
        /\ signals' = [signals EXCEPT ![u] = signals[u] + 1]
        /\ proc' = [proc EXCEPT ![x] = NULL]
        /\ UNCHANGED <<nextAdd, nextRem, que, a, waits>>
    BY <1>5 DEF Send, Go
  <2> HIDE DEF u
  <2>3. signals[u] + 1 \in Nat
    BY <1>1, <2>1, <2>2 DEF TypeOK
  <2>4. signals' \in [Puns -> Nat]
    BY <1>1, <2>1, <2>2, <2>3 DEF TypeOK
  <2>. QED BY <1>1, <2>2, <2>4 DEF TypeOK, PCs, Adding, Apart
<1>6. CASE Exchange(x) /\ UNCHANGED nextAdd
  <2> DEFINE u == Place[proc[x]]
  <2>1. u \in Puns /\ nextAdd[u] \in Slots
    BY <1>1, <1>6 DEF TypeOK, Exchange, Adding
  <2>2. Succ(nextAdd[u]) # nextAdd[u]
    <3>1. \A s \in Slots : Succ(s) = IF s = QSIZE - 1 THEN 0 ELSE s + 1
      BY Turn
    <3>. QED BY <2>1, <3>1, Sizes
  <2>3. nextAdd[u] # a[x]
    BY <1>1, <1>6, <2>1, <2>2 DEF TypeOK, Exchange
  <2>. QED BY <1>1, <1>6, <2>3 DEF TypeOK, Exchange, PCs, Adding, Apart
<1>7. CASE Handle(x)
  <2>1. signals[x] - 1 \in Nat
    BY <1>1, <1>7 DEF TypeOK, Handle
  <2>. QED BY <1>1, <1>7, <2>1 DEF TypeOK, Handle, PCs, Adding, Apart
<1>8. CASE Enable(x) \/ Drain(x)
  BY <1>1, <1>8 DEF TypeOK, Enable, Drain, Go, PCs, Adding, Apart
<1>9. CASE Test(x)
  BY <1>1, <1>9 DEF TypeOK, Test, PCs, Adding, Apart
<1>. QED BY <1>2, <1>3, <1>4, <1>5, <1>6, <1>7, <1>8, <1>9 DEF Aside

(* What the successful exchange does.                                      *)
LEMMA ClaimEffect ==
  ASSUME Inv, OneAdder, NEW x \in Puns, Claims(x)
  PROVE  LET u == Place[proc[x]]
         IN  /\ u \in Puns /\ pc[x] = "exchange" /\ a[x] = nextAdd[u]
             /\ Used(u) < QSIZE - 1 /\ ~ Filling(u)
             /\ nextAdd' = [nextAdd EXCEPT ![u] = Succ(a[x])] /\ Succ(a[x]) \in Slots
             /\ pc' = [pc EXCEPT ![x] = "store"]
             /\ UNCHANGED <<nextRem, que, signals, proc, a, waits>>
             /\ \A y \in Puns : pc[y] \in Carrying /\ Place[proc[y]] = u => y = x
<1>1. pc[x] = "exchange" /\ nextAdd[Place[proc[x]]] = a[x]
  BY DEF Claims, Exchange
<1>2. proc[x] \in Procs /\ Place[proc[x]] \in Puns
  BY <1>1, Sizes DEF Inv, Owners, Hands, Adding
<1>3. Used(Place[proc[x]]) < QSIZE - 1
  BY <1>1 DEF Inv, Ring, Claiming
<1>4. \A y \in Puns : pc[y] \in Carrying /\ Place[proc[y]] = Place[proc[x]] => y = x
  BY <1>1 DEF OneAdder, Carrying, Adding
<1>5. ~ Filling(Place[proc[x]])
  BY <1>1, <1>4 DEF Filling, Carrying, Adding
<1>6. Succ(a[x]) \in Slots
  BY Turn DEF Inv, Ring, TypeOK
<1>. QED BY <1>1, <1>2, <1>3, <1>4, <1>5, <1>6 DEF Claims, Exchange

(* What the store does.                                                    *)
LEMMA StoreEffect ==
  ASSUME Inv, OneAdder, NEW x \in Puns, Store(x)
  PROVE  LET u == Place[proc[x]]
         IN  /\ u \in Puns /\ u # x /\ pc[x] = "store" /\ proc[x] \in Procs
             /\ Used(u) >= 1 /\ a[x] = At(u, Used(u) - 1) /\ Filling(u)
             /\ \A v \in Puns, s \in Slots :
                  que'[v][s] = IF v = u /\ s = a[x] THEN proc[x] ELSE que[v][s]
             /\ que' \in [Puns -> [Slots -> Procs \cup {NULL}]]
             /\ pc' = [pc EXCEPT ![x] = "send"]
             /\ UNCHANGED <<nextAdd, nextRem, signals, proc, a, waits>>
             /\ \A y \in Puns : pc[y] \in Carrying /\ Place[proc[y]] = u => y = x
<1>1. pc[x] = "store" /\ pc' = [pc EXCEPT ![x] = "send"]
  BY DEF Store, Go
<1>2. proc[x] \in Procs /\ Place[proc[x]] \in Puns /\ Place[proc[x]] # x
  BY <1>1, Sizes DEF Inv, Owners, Hands, Adding
<1>3. Used(Place[proc[x]]) >= 1 /\ a[x] = At(Place[proc[x]], Used(Place[proc[x]]) - 1)
  BY <1>1 DEF Inv, Ring, Claiming
<1>4. \A y \in Puns : pc[y] \in Carrying /\ Place[proc[y]] = Place[proc[x]] => y = x
  BY <1>1 DEF OneAdder, Carrying, Adding
<1>5. Filling(Place[proc[x]])
  BY <1>1 DEF Filling
<1>6. /\ que' = [que EXCEPT ![Place[proc[x]]] = [que[Place[proc[x]]] EXCEPT ![a[x]] = proc[x]]]
      /\ UNCHANGED <<nextAdd, nextRem, signals, proc, a, waits>>
  BY DEF Store
<1>7. que \in [Puns -> [Slots -> Procs \cup {NULL}]] /\ a[x] \in Slots
  BY DEF Inv, Ring, TypeOK
<1>8. /\ que' \in [Puns -> [Slots -> Procs \cup {NULL}]]
      /\ \A v \in Puns, s \in Slots :
           que'[v][s] = IF v = Place[proc[x]] /\ s = a[x] THEN proc[x] ELSE que[v][s]
  BY <1>2, <1>6, <1>7
<1>. QED BY <1>1, <1>2, <1>3, <1>4, <1>5, <1>6, <1>8

(* What the removal of an entry does.                                      *)
LEMMA TakeEffect ==
  ASSUME Inv, NEW x \in Puns, Take(x)
  PROVE  LET p == que[x][nextRem[x]]
         IN  /\ p \in Procs \cup {NULL} /\ nextRem[x] \in Slots
             /\ pc[x] = "take" /\ Used(x) >= 1
             /\ \A v \in Puns, s \in Slots :
                  que'[v][s] = IF v = x /\ s = nextRem[x] THEN NULL ELSE que[v][s]
             /\ que' \in [Puns -> [Slots -> Procs \cup {NULL}]]
             /\ pc' = [pc EXCEPT ![x] = IF p # NULL THEN "release" ELSE "enable"]
             /\ proc' = [proc EXCEPT ![x] = p]
             /\ UNCHANGED <<nextAdd, nextRem, signals, a, waits>>
<1>1. que \in [Puns -> [Slots -> Procs \cup {NULL}]] /\ nextRem[x] \in Slots
  BY DEF Inv, Ring, TypeOK
<1>2. que' = [que EXCEPT ![x] = [que[x] EXCEPT ![nextRem[x]] = NULL]]
  BY DEF Take
<1>3. /\ que' \in [Puns -> [Slots -> Procs \cup {NULL}]]
      /\ \A v \in Puns, s \in Slots :
           que'[v][s] = IF v = x /\ s = nextRem[x] THEN NULL ELSE que[v][s]
  BY <1>1, <1>2
<1>4. pc[x] = "take" /\ Used(x) >= 1
  BY DEF Take, Inv, Ring, Removing
<1>. QED BY <1>1, <1>3, <1>4 DEF Take

-----------------------------------------------------------------------------
(* The ring.                                                               *)

(* A step aside leaves it as it is.                                        *)
LEMMA RingAside ==
  ASSUME Inv, OneAdder, NEW x \in Puns, Aside(x)
  PROVE  Ring'
<1>0. Apart(x)
  BY AsideEffect
<1>1. TypeOK'
  BY <1>0 DEF Inv, Ring, TypeOK, Apart
<1>2. /\ \A u \in Puns : Used(u)' = Used(u)
      /\ \A u, k : At(u, k)' = At(u, k)
      /\ \A u \in Puns : Filling(u)' <=> Filling(u)
      /\ \A u \in Puns : pc'[u] = "release" <=> pc[u] = "release"
  <2>1. \A u \in Puns : Used(u)' = Used(u)
    BY <1>0 DEF Used, Apart
  <2>2. \A u, k : At(u, k)' = At(u, k)
    BY <1>0 DEF At, Apart
  <2>3. \A u \in Puns : Filling(u)' <=> Filling(u)
    BY <1>0 DEF Filling, Apart
  <2>4. \A u \in Puns : pc'[u] = "release" <=> pc[u] = "release"
    BY <1>0 DEF Apart
  <2>. QED BY <2>1, <2>2, <2>3, <2>4
<1>3. Filled'
  BY <1>0, <1>2 DEF Inv, Ring, Filled, Apart
<1>4. Removing'
  <2>1. ASSUME NEW u \in Puns, pc'[u] = "take" PROVE Used(u) >= 1
    <3>1. CASE u # x
      BY <1>0, <2>1, <3>1 DEF Inv, Ring, Removing, Apart
    <3>2. CASE u = x
      <4>1. Test(x) /\ nextAdd[x] # nextRem[x]
        BY <2>1, <3>2 DEF Aside, Schedule, LoadAdd, LoadRem, Send, Exchange, Handle, Enable,
                          Drain, Test, Go, Inv, Ring, TypeOK
      <4>2. nextAdd[x] \in Slots /\ nextRem[x] \in Slots
        BY DEF Inv, Ring, TypeOK
      <4>3. Used(x) # 0 /\ Used(x) \in Slots
        BY <4>1, <4>2, Moves, Positions DEF Inv, Ring
      <4>. QED BY <3>2, <4>3, Sizes
    <3>. QED BY <3>1, <3>2
  <2>. QED BY <1>2, <2>1 DEF Inv, Ring, Removing
<1>5. Claiming'
  <2>1. ASSUME NEW y \in Puns, y # x
        PROVE  /\ pc'[y] = pc[y] /\ proc'[y] = proc[y] /\ a'[y] = a[y]
    BY <1>0, <2>1 DEF Apart
  <2>2. pc'[x] \in {"loadRem", "exchange"} =>
          /\ proc'[x] = proc[x] /\ a'[x] = nextAdd[Place[proc[x]]]
          /\ pc'[x] = "exchange" => Used(Place[proc[x]]) < QSIZE - 1
    <3>1. CASE LoadAdd(x)
      BY <3>1 DEF LoadAdd, Go, Inv, Ring, TypeOK
    <3>2. CASE LoadRem(x)
      <4> DEFINE u == Place[proc[x]]
      <4>1. pc[x] = "loadRem" /\ u \in Puns /\ a[x] = nextAdd[u]
        BY <3>2, Sizes DEF LoadRem, Inv, Ring, Claiming, Owners, Hands, Adding
      <4>2. pc'[x] = "exchange" => nextRem[u] # Succ(nextAdd[u])
        BY <3>2, <4>1 DEF LoadRem, Full, Inv, Ring, TypeOK
      <4>3. nextAdd[u] \in Slots /\ nextRem[u] \in Slots
        BY <4>1 DEF Inv, Ring, TypeOK
      <4>4. Used(u) = Dist(nextAdd[u], nextRem[u]) /\ Used(u) \in Slots
        BY <4>1, Positions DEF Inv, Ring
      <4>5. pc'[x] = "exchange" => Used(u) # QSIZE - 1
        BY <4>2, <4>3, <4>4, Moves
      <4>6. pc'[x] = "exchange" => Used(u) < QSIZE - 1
        BY <4>4, <4>5, Sizes
      <4>. QED BY <3>2, <4>1, <4>6 DEF LoadRem
    <3>3. CASE ~ LoadAdd(x) /\ ~ LoadRem(x)
      BY <3>3 DEF Aside, Schedule, Send, Exchange, Handle, Enable, Drain, Test, Go, Inv, Ring,
                  TypeOK
    <3>. QED BY <3>1, <3>2, <3>3
  <2>3. ASSUME NEW y \in Puns
        PROVE  LET u == Place[proc'[y]]
               IN  /\ pc'[y] \in {"loadRem", "exchange"} => a'[y] = nextAdd[u]
                   /\ pc'[y] = "exchange" => Used(u) < QSIZE - 1
                   /\ pc'[y] = "store" => Used(u) >= 1 /\ a'[y] = At(u, Used(u) - 1)
    <3>1. CASE y = x
      BY <1>0, <2>2, <3>1 DEF Apart
    <3>2. CASE y # x
      BY <2>1, <3>2 DEF Inv, Ring, Claiming
    <3>. QED BY <3>1, <3>2
  <2>4. \A u : Used(u)' = Used(u)
    BY <1>0 DEF Used, Apart
  <2>. QED BY <1>0, <1>2, <2>3, <2>4 DEF Claiming, Apart
<1>. QED BY <1>1, <1>3, <1>4, <1>5 DEF Ring

(* What the successful exchange does to the slots.                         *)
LEMMA ClaimSlots ==
  ASSUME Inv, OneAdder, NEW x \in Puns, Claims(x), NEW u \in Puns, u = Place[proc[x]]
  PROVE  /\ Used(u)' = Used(u) + 1
         /\ \A v \in Puns \ {u} : Used(v)' = Used(v)
         /\ \A v, k : At(v, k)' = At(v, k)
         /\ Filling(u)'
         /\ \A v \in Puns \ {u} : Filling(v)' <=> Filling(v)
         /\ \A v \in Puns : pc'[v] = "release" <=> pc[v] = "release"
         /\ \A v \in Puns : pc'[v] = "take" <=> pc[v] = "take"
<1>0. /\ pc[x] = "exchange" /\ a[x] = nextAdd[u] /\ Used(u) < QSIZE - 1
      /\ nextAdd' = [nextAdd EXCEPT ![u] = Succ(a[x])]
      /\ pc' = [pc EXCEPT ![x] = "store"]
      /\ UNCHANGED <<nextRem, que, signals, proc, a, waits>>
  BY ClaimEffect
<1>1. TypeOK
  BY DEF Inv, Ring
<1>2. PICK n \in Slots : n = Used(u)
  BY <1>1, Positions
<1>3. Used(u)' = n + 1
  <2>1. nextAdd[u] \in Slots /\ nextRem[u] \in Slots /\ n = Dist(nextAdd[u], nextRem[u])
    BY <1>1, <1>2, Positions DEF TypeOK
  <2>2. Dist(Succ(nextAdd[u]), nextRem[u]) = n + 1
    BY <1>0, <1>2, <2>1, Moves
  <2>3. nextAdd'[u] = Succ(nextAdd[u]) /\ nextRem'[u] = nextRem[u]
    BY <1>0, <1>1 DEF TypeOK
  <2>. QED BY <2>2, <2>3 DEF Used, Dist
<1>4. /\ \A v \in Puns \ {u} : Used(v)' = Used(v)
      /\ \A v, k : At(v, k)' = At(v, k)
  BY <1>0, <1>1 DEF Used, At, TypeOK
<1>5. /\ Filling(u)'
      /\ \A v \in Puns \ {u} : Filling(v)' <=> Filling(v)
      /\ \A v \in Puns : pc'[v] = "release" <=> pc[v] = "release"
      /\ \A v \in Puns : pc'[v] = "take" <=> pc[v] = "take"
  BY <1>0, <1>1 DEF Filling, TypeOK
<1>. QED BY <1>2, <1>3, <1>4, <1>5

(* The claimed slot is the first free one and is in use from now on.       *)
LEMMA RingClaims ==
  ASSUME Inv, OneAdder, NEW x \in Puns, Claims(x)
  PROVE  Ring'
<1>a. PICK u \in Puns : u = Place[proc[x]]
  BY ClaimEffect
<1>0. /\ pc[x] = "exchange" /\ a[x] = nextAdd[u]
      /\ Used(u) < QSIZE - 1 /\ ~ Filling(u)
      /\ nextAdd' = [nextAdd EXCEPT ![u] = Succ(a[x])] /\ Succ(a[x]) \in Slots
      /\ pc' = [pc EXCEPT ![x] = "store"]
      /\ UNCHANGED <<nextRem, que, signals, proc, a, waits>>
      /\ \A y \in Puns : pc[y] \in Carrying /\ Place[proc[y]] = u => y = x
  BY <1>a, ClaimEffect
<1>1. TypeOK /\ TypeOK'
  BY <1>0 DEF Inv, Ring, TypeOK, PCs, Adding
<1>2. PICK n \in Slots : n = Used(u) /\ At(u, n) = nextAdd[u]
  BY <1>0, <1>1, Positions
<1>3. /\ Used(u)' = n + 1
      /\ \A v \in Puns \ {u} : Used(v)' = Used(v)
      /\ \A v, k : At(v, k)' = At(v, k)
      /\ Filling(u)'
      /\ \A v \in Puns \ {u} : Filling(v)' <=> Filling(v)
      /\ \A v \in Puns : pc'[v] = "release" <=> pc[v] = "release"
      /\ \A v \in Puns : pc'[v] = "take" <=> pc[v] = "take"
  BY <1>a, <1>2, ClaimSlots
<1>6. Filled'
  <2>1. ASSUME NEW k \in Slots
        PROVE  que[u][At(u, k)] # NULL
                 <=> /\ k < n + 1 /\ ~ (k = 0 /\ pc[u] = "release") /\ k # n
    BY <1>0, <1>2, Sizes DEF Inv, Ring, Filled
  <2>2. ASSUME NEW v \in Puns, NEW k \in Slots
        PROVE  que[v][At(v, k)] # NULL
                 <=> /\ k < Used(v)'
                     /\ ~ (k = 0 /\ pc'[v] = "release")
                     /\ ~ (k = Used(v)' - 1 /\ Filling(v)')
    <3>1. CASE v = u
      BY <1>2, <1>3, <2>1, <3>1, Sizes
    <3>2. CASE v # u
      BY <1>3, <3>2 DEF Inv, Ring, Filled, Slots
    <3>. QED BY <3>1, <3>2
  <2>. QED BY <1>0, <1>3, <2>2 DEF Filled, Slots
<1>7. Removing'
  <2>1. \A v \in Puns \ {u} :
          /\ pc'[v] \in {"take", "release"} => Used(v)' >= 1
          /\ pc'[v] = "release" /\ Filling(v)' => Used(v)' >= 2
    BY <1>3 DEF Inv, Ring, Removing
  <2>2. /\ pc'[u] \in {"take", "release"} => Used(u)' >= 2
        /\ Used(u)' >= 1
    BY <1>0, <1>2, <1>3, Sizes DEF Inv, Ring, Removing
  <2>. QED BY <2>1, <2>2 DEF Removing
<1>8. Claiming'
  <2>1. ASSUME NEW y \in Puns
        PROVE  LET v == Place[proc[y]]
               IN  /\ pc'[y] \in {"loadRem", "exchange"} => a[y] = nextAdd'[v]
                   /\ pc'[y] = "exchange" => Used(v)' < QSIZE - 1
                   /\ pc'[y] = "store" => Used(v)' >= 1 /\ a[y] = At(v, Used(v)' - 1)
    <3>1. CASE y = x
      <4>1. pc'[y] = "store" /\ Place[proc[y]] = u
        BY <1>0, <1>1, <1>a, <3>1 DEF TypeOK
      <4>2. Used(u)' >= 1 /\ Used(u)' - 1 = n
        BY <1>2, <1>3, Sizes
      <4>. QED BY <1>0, <1>2, <3>1, <4>1, <4>2
    <3>2. CASE y # x /\ pc[y] \in Carrying
      <4>1. Place[proc[y]] # u /\ Place[proc[y]] \in Puns /\ pc'[y] = pc[y]
        BY <1>0, <1>1, <3>2, Sizes DEF TypeOK, Inv, Owners, Hands, Carrying
      <4>2. nextAdd'[Place[proc[y]]] = nextAdd[Place[proc[y]]]
        BY <1>0, <1>1, <4>1 DEF TypeOK
      <4>3. PICK v \in Puns \ {u} : v = Place[proc[y]]
        BY <4>1
      <4>4. v = Place[proc'[y]] /\ Used(v)' = Used(v)
        BY <1>0, <1>3, <4>3
      <4>5. /\ pc[y] \in {"loadRem", "exchange"} => a[y] = nextAdd[v]
            /\ pc[y] = "exchange" => Used(v) < QSIZE - 1
            /\ pc[y] = "store" => Used(v) >= 1 /\ a[y] = At(v, Used(v) - 1)
        BY <4>3 DEF Inv, Ring, Claiming
      <4>. QED BY <4>1, <4>2, <4>3, <4>4, <4>5
    <3>3. CASE y # x /\ pc[y] \notin Carrying
      BY <1>0, <1>1, <3>3 DEF TypeOK, Carrying, Adding
    <3>. QED BY <3>1, <3>2, <3>3
  <2>. QED BY <1>0, <1>3, <2>1 DEF Claiming
<1>. QED BY <1>1, <1>6, <1>7, <1>8 DEF Ring

(* What the store does to the slots.                                       *)
LEMMA StoreSlots ==
  ASSUME Inv, OneAdder, NEW x \in Puns, Store(x), NEW u \in Puns, u = Place[proc[x]]
  PROVE  /\ \A v \in Puns : Used(v)' = Used(v)
         /\ \A v, k : At(v, k)' = At(v, k)
         /\ ~ Filling(u)'
         /\ \A v \in Puns \ {u} : Filling(v)' <=> Filling(v)
         /\ \A v \in Puns : pc'[v] = "release" <=> pc[v] = "release"
         /\ \A v \in Puns : pc'[v] = "take" <=> pc[v] = "take"
<1>0. /\ pc[x] = "store" /\ pc' = [pc EXCEPT ![x] = "send"]
      /\ UNCHANGED <<nextAdd, nextRem, signals, proc, a, waits>>
      /\ \A y \in Puns : pc[y] \in Carrying /\ Place[proc[y]] = u => y = x
  BY StoreEffect
<1>1. TypeOK
  BY DEF Inv, Ring
<1>3. /\ \A v \in Puns : Used(v)' = Used(v)
      /\ \A v, k : At(v, k)' = At(v, k)
  BY <1>0 DEF Used, At
<1>4. /\ ~ Filling(u)'
      /\ \A v \in Puns \ {u} : Filling(v)' <=> Filling(v)
      /\ \A v \in Puns : pc'[v] = "release" <=> pc[v] = "release"
      /\ \A v \in Puns : pc'[v] = "take" <=> pc[v] = "take"
  <2>1. ~ Filling(u)'
    BY <1>0, <1>1 DEF Filling, TypeOK, Carrying, Adding
  <2>2. \A v \in Puns \ {u} : Filling(v)' <=> Filling(v)
    BY <1>0, <1>1 DEF Filling, TypeOK
  <2>3. /\ \A v \in Puns : pc'[v] = "release" <=> pc[v] = "release"
        /\ \A v \in Puns : pc'[v] = "take" <=> pc[v] = "take"
    BY <1>0, <1>1 DEF TypeOK
  <2>. QED BY <2>1, <2>2, <2>3
<1>. QED BY <1>3, <1>4

(* The last slot in use is filled.                                         *)
LEMMA RingStores ==
  ASSUME Inv, OneAdder, NEW x \in Puns, Store(x)
  PROVE  Ring'
<1>a. PICK u \in Puns : u = Place[proc[x]]
  BY StoreEffect
<1>0. /\ u # x /\ pc[x] = "store" /\ proc[x] \in Procs
      /\ Used(u) >= 1 /\ a[x] = At(u, Used(u) - 1) /\ Filling(u)
      /\ \A v \in Puns, s \in Slots :
           que'[v][s] = IF v = u /\ s = a[x] THEN proc[x] ELSE que[v][s]
      /\ que' \in [Puns -> [Slots -> Procs \cup {NULL}]]
      /\ pc' = [pc EXCEPT ![x] = "send"]
      /\ UNCHANGED <<nextAdd, nextRem, signals, proc, a, waits>>
      /\ \A y \in Puns : pc[y] \in Carrying /\ Place[proc[y]] = u => y = x
  BY <1>a, StoreEffect
<1>1. TypeOK /\ TypeOK'
  BY <1>0 DEF Inv, Ring, TypeOK, PCs, Adding
<1>2. PICK n \in Slots : n = Used(u)
  BY <1>1, Positions
<1>3. /\ \A v \in Puns : Used(v)' = Used(v)
      /\ \A v, k : At(v, k)' = At(v, k)
      /\ ~ Filling(u)'
      /\ \A v \in Puns \ {u} : Filling(v)' <=> Filling(v)
      /\ \A v \in Puns : pc'[v] = "release" <=> pc[v] = "release"
      /\ \A v \in Puns : pc'[v] = "take" <=> pc[v] = "take"
  BY <1>a, StoreSlots
<1>5. Filled'
  <2>1. n >= 1 /\ n - 1 \in Slots /\ a[x] = At(u, n - 1)
    BY <1>0, <1>2, Sizes
  <2>2. pc[u] = "release" => n # 1
    BY <1>0, <1>2, Sizes DEF Inv, Ring, Removing
  <2>3. ASSUME NEW v \in Puns, NEW k \in Slots
        PROVE  que'[v][At(v, k)] # NULL
                 <=> /\ k < Used(v)
                     /\ ~ (k = 0 /\ pc[v] = "release")
                     /\ ~ (k = Used(v) - 1 /\ Filling(v)')
    <3>0. At(v, k) \in Slots
      BY <1>1, Positions
    <3>1. CASE v = u /\ k = n - 1
      <4>1. que'[v][At(v, k)] = proc[x]
        BY <1>0, <2>1, <3>0, <3>1
      <4>. QED BY <1>0, <1>2, <1>3, <2>1, <2>2, <3>1, <4>1, Sizes
    <3>2. CASE v = u /\ k # n - 1
      <4>1. At(u, k) # a[x]
        BY <1>1, <2>1, <3>2, Positions
      <4>2. que'[v][At(v, k)] = que[v][At(v, k)]
        BY <1>0, <3>0, <3>2, <4>1
      <4>. QED BY <1>2, <1>3, <3>2, <4>2 DEF Inv, Ring, Filled, Slots
    <3>3. CASE v # u
      <4>1. que'[v][At(v, k)] = que[v][At(v, k)]
        BY <1>0, <3>0, <3>3
      <4>. QED BY <1>3, <3>3, <4>1 DEF Inv, Ring, Filled, Slots
    <3>. QED BY <3>1, <3>2, <3>3
  <2>. QED BY <1>0, <1>3, <2>3 DEF Filled, Slots
<1>6. Removing'
  BY <1>0, <1>3 DEF Inv, Ring, Removing
<1>7. Claiming'
  <2>1. \A v : Used(v)' = Used(v)
    BY <1>0 DEF Used
  <2>2. \A y \in Puns : pc'[y] \in {"loadRem", "exchange", "store"} => pc'[y] = pc[y]
    BY <1>0, <1>1 DEF TypeOK
  <2>. QED BY <1>0, <1>3, <2>1, <2>2 DEF Inv, Ring, Claiming
<1>. QED BY <1>1, <1>5, <1>6, <1>7 DEF Ring

(* The first slot in use is emptied, if it was filled.                     *)
LEMMA RingTakes ==
  ASSUME Inv, OneAdder, NEW x \in Puns, Take(x)
  PROVE  Ring'
<1>a. PICK p \in Procs \cup {NULL} : p = que[x][nextRem[x]]
  BY TakeEffect
<1>0. /\ nextRem[x] \in Slots /\ pc[x] = "take" /\ Used(x) >= 1
      /\ \A v \in Puns, s \in Slots :
           que'[v][s] = IF v = x /\ s = nextRem[x] THEN NULL ELSE que[v][s]
      /\ que' \in [Puns -> [Slots -> Procs \cup {NULL}]]
      /\ pc' = [pc EXCEPT ![x] = IF p # NULL THEN "release" ELSE "enable"]
      /\ proc' = [proc EXCEPT ![x] = p]
      /\ UNCHANGED <<nextAdd, nextRem, signals, a, waits>>
  BY <1>a, TakeEffect
<1>1. TypeOK /\ TypeOK'
  BY <1>0 DEF Inv, Ring, TypeOK, PCs, Adding
<1>2. PICK n \in Slots : n = Used(x)
  BY <1>1, Positions
<1>3. /\ \A v : Used(v)' = Used(v)
      /\ \A v, k : At(v, k)' = At(v, k)
  BY <1>0 DEF Used, At
<1>4. /\ \A v \in Puns : Filling(v)' <=> Filling(v)
      /\ \A v \in Puns \ {x} : pc'[v] = pc[v]
      /\ pc'[x] = IF p # NULL THEN "release" ELSE "enable"
  BY <1>0, <1>1 DEF Filling, TypeOK
<1>5. At(x, 0) = nextRem[x] /\ 0 \in Slots
  BY <1>1, Positions, Sizes
<1>6. p # NULL <=> ~ (n = 1 /\ Filling(x))
  <2>1. p # NULL <=> 0 < n /\ ~ (0 = n - 1 /\ Filling(x))
    BY <1>a, <1>0, <1>2, <1>5 DEF Inv, Ring, Filled, Slots
  <2>. QED BY <1>0, <1>2, <2>1, Sizes
<1>7. Filled'
  <2>1. ASSUME NEW v \in Puns, NEW k \in Slots
        PROVE  que'[v][At(v, k)] # NULL
                 <=> /\ k < Used(v)
                     /\ ~ (k = 0 /\ pc'[v] = "release")
                     /\ ~ (k = Used(v) - 1 /\ Filling(v))
    <3>0. At(v, k) \in Slots
      BY <1>1, Positions
    <3>1. CASE v = x /\ k = 0
      <4>1. que'[v][At(v, k)] = NULL
        BY <1>0, <1>5, <3>0, <3>1
      <4>2. pc'[x] = "release" \/ (n = 1 /\ Filling(x))
        BY <1>4, <1>6
      <4>. QED BY <1>2, <3>1, <4>1, <4>2
    <3>2. CASE v = x /\ k # 0
      <4>1. At(x, k) # nextRem[x]
        BY <1>1, <1>5, <3>2, Positions
      <4>2. que'[v][At(v, k)] = que[v][At(v, k)]
        BY <1>0, <3>0, <3>2, <4>1
      <4>. QED BY <1>2, <3>2, <4>2 DEF Inv, Ring, Filled, Slots
    <3>3. CASE v # x
      <4>1. que'[v][At(v, k)] = que[v][At(v, k)]
        BY <1>0, <3>0, <3>3
      <4>. QED BY <1>4, <3>3, <4>1 DEF Inv, Ring, Filled, Slots
    <3>. QED BY <3>1, <3>2, <3>3
  <2>. QED BY <1>0, <1>3, <1>4, <2>1 DEF Filled, Slots
<1>8. Removing'
  <2>1. \A v \in Puns \ {x} : /\ pc'[v] \in {"take", "release"} => Used(v) >= 1
                              /\ pc'[v] = "release" /\ Filling(v) => Used(v) >= 2
    BY <1>4 DEF Inv, Ring, Removing
  <2>2. /\ Used(x) >= 1
        /\ pc'[x] = "release" /\ Filling(x) => Used(x) >= 2
    BY <1>0, <1>2, <1>4, <1>6, Sizes
  <2>. QED BY <1>3, <1>4, <2>1, <2>2 DEF Removing
<1>9. Claiming'
  <2>1. \A y \in Puns : pc'[y] \in {"loadRem", "exchange", "store"}
                          => pc'[y] = pc[y] /\ proc'[y] = proc[y]
    BY <1>0, <1>1 DEF TypeOK
  <2>. QED BY <1>0, <1>3, <2>1 DEF Inv, Ring, Claiming
<1>. QED BY <1>1, <1>7, <1>8, <1>9 DEF Ring

(* What the release of a slot does to the slots.                           *)
LEMMA ReleaseSlots ==
  ASSUME Inv, NEW x \in Puns, Release(x)
  PROVE  /\ Used(x)' = Used(x) - 1
         /\ \A k \in Slots : k + 1 \in Slots => At(x, k)' = At(x, k + 1)
         /\ At(x, QSIZE - 1)' = At(x, 0)
         /\ \A v \in Puns \ {x} : Used(v)' = Used(v)
         /\ \A v \in Puns \ {x} : \A k : At(v, k)' = At(v, k)
         /\ \A v \in Puns : Filling(v)' <=> Filling(v)
         /\ \A v \in Puns \ {x} : pc'[v] = pc[v]
         /\ pc'[x] \in {"test", "enable"}
<1>a. PICK t \in {"test", "enable"} : pc' = [pc EXCEPT ![x] = t]
  BY DEF Release
<1>0. /\ pc[x] = "release" /\ pc' = [pc EXCEPT ![x] = t]
      /\ nextRem' = [nextRem EXCEPT ![x] = Succ(nextRem[x])]
      /\ proc' = [proc EXCEPT ![x] = NULL]
      /\ waits' = waits \cup {proc[x]}
      /\ UNCHANGED <<nextAdd, que, signals, a>>
  BY <1>a DEF Release
<1>1. TypeOK /\ nextRem[x] \in Slots /\ nextAdd[x] \in Slots /\ proc[x] \in Procs
  BY <1>0 DEF Inv, Ring, TypeOK, Owners, Hands
<1>2. Succ(nextRem[x]) \in Slots
  BY <1>1, Turn
<1>3. TypeOK'
  BY <1>0, <1>1, <1>2 DEF TypeOK, PCs, Adding
<1>4. PICK n \in Slots : n = Used(x)
  BY <1>1, Positions
<1>5. n >= 1 /\ (Filling(x) => n >= 2)
  BY <1>0, <1>4 DEF Inv, Ring, Removing
<1>6. Used(x)' = n - 1
  <2>1. n = Dist(nextAdd[x], nextRem[x])
    BY <1>1, <1>4, Positions
  <2>2. Dist(nextAdd[x], Succ(nextRem[x])) = n - 1
    BY <1>1, <1>5, <2>1, Moves
  <2>3. nextRem'[x] = Succ(nextRem[x]) /\ nextAdd' = nextAdd
    BY <1>0, <1>1 DEF TypeOK
  <2>. QED BY <2>2, <2>3 DEF Used, Dist
<1>7. /\ \A k \in Slots : k + 1 \in Slots => At(x, k)' = At(x, k + 1)
      /\ At(x, QSIZE - 1)' = At(x, 0)
  <2>1. /\ \A k \in Slots : k + 1 \in Slots
                              => Off(Succ(nextRem[x]), k) = Off(nextRem[x], k + 1)
        /\ Off(Succ(nextRem[x]), QSIZE - 1) = nextRem[x]
    BY <1>1, Moves
  <2>2. nextRem'[x] = Succ(nextRem[x]) /\ At(x, 0) = nextRem[x]
    BY <1>0, <1>1, Positions DEF TypeOK
  <2>. QED BY <2>1, <2>2 DEF At, Off
<1>8. /\ \A v \in Puns \ {x} : Used(v)' = Used(v)
      /\ \A v \in Puns \ {x} : \A k : At(v, k)' = At(v, k)
      /\ \A v \in Puns : Filling(v)' <=> Filling(v)
      /\ \A v \in Puns \ {x} : pc'[v] = pc[v]
      /\ pc'[x] \in {"test", "enable"}
  BY <1>0, <1>1 DEF Used, At, Filling, TypeOK
<1>. QED BY <1>4, <1>6, <1>7, <1>8

(* The slot that was emptied is no longer in use.                          *)
LEMMA RingReleases ==
  ASSUME Inv, OneAdder, NEW x \in Puns, Release(x)
  PROVE  Ring'
<1>a. PICK t \in {"test", "enable"} : pc' = [pc EXCEPT ![x] = t]
  BY DEF Release
<1>0. /\ pc[x] = "release" /\ pc' = [pc EXCEPT ![x] = t]
      /\ nextRem' = [nextRem EXCEPT ![x] = Succ(nextRem[x])]
      /\ proc' = [proc EXCEPT ![x] = NULL]
      /\ waits' = waits \cup {proc[x]}
      /\ UNCHANGED <<nextAdd, que, signals, a>>
  BY <1>a DEF Release
<1>1. TypeOK /\ nextRem[x] \in Slots /\ nextAdd[x] \in Slots /\ proc[x] \in Procs
  BY <1>0 DEF Inv, Ring, TypeOK, Owners, Hands
<1>2. Succ(nextRem[x]) \in Slots
  BY <1>1, Turn
<1>3. TypeOK'
  BY <1>0, <1>1, <1>2 DEF TypeOK, PCs, Adding
<1>4. PICK n \in Slots : n = Used(x)
  BY <1>1, Positions
<1>5. n >= 1 /\ (Filling(x) => n >= 2)
  BY <1>0, <1>4 DEF Inv, Ring, Removing
<1>6. /\ Used(x)' = n - 1
      /\ \A k \in Slots : k + 1 \in Slots => At(x, k)' = At(x, k + 1)
      /\ At(x, QSIZE - 1)' = At(x, 0)
      /\ \A v \in Puns \ {x} : Used(v)' = Used(v)
      /\ \A v \in Puns \ {x} : \A k : At(v, k)' = At(v, k)
      /\ \A v \in Puns : Filling(v)' <=> Filling(v)
      /\ \A v \in Puns \ {x} : pc'[v] = pc[v]
      /\ pc'[x] \in {"test", "enable"}
  BY <1>4, ReleaseSlots
<1>9. Filled'
  <2>1. ASSUME NEW v \in Puns, NEW k \in Slots
        PROVE  que[v][At(v, k)'] # NULL
                 <=> /\ k < Used(v)'
                     /\ ~ (k = 0 /\ pc'[v] = "release")
                     /\ ~ (k = Used(v)' - 1 /\ Filling(v))
    <3>1. CASE v = x /\ k + 1 \in Slots
      <4>1. que[x][At(x, k)'] # NULL <=> k + 1 < n /\ ~ (k + 1 = n - 1 /\ Filling(x))
        <5>1. At(x, k)' = At(x, k + 1) /\ k + 1 # 0
          BY <1>6, <3>1, Sizes
        <5>. QED BY <1>4, <3>1, <5>1 DEF Inv, Ring, Filled, Slots
      <4>. QED BY <1>5, <1>6, <3>1, <4>1, Sizes
    <3>2. CASE v = x /\ k + 1 \notin Slots
      <4>1. k = QSIZE - 1
        BY <3>2, Sizes
      <4>2. que[x][At(x, k)'] = NULL
        <5>1. At(x, k)' = At(x, 0) /\ 0 \in Slots
          BY <1>6, <4>1, Sizes
        <5>. QED BY <1>0, <5>1 DEF Inv, Ring, Filled, Slots
      <4>. QED BY <1>6, <3>2, <4>1, <4>2, Sizes
    <3>3. CASE v # x
      BY <1>6, <3>3 DEF Inv, Ring, Filled, Slots
    <3>. QED BY <3>1, <3>2, <3>3
  <2>. QED BY <1>0, <1>6, <2>1 DEF Filled, Slots
<1>10. Removing'
  <2>1. \A v \in Puns \ {x} : /\ pc'[v] \in {"take", "release"} => Used(v)' >= 1
                              /\ pc'[v] = "release" /\ Filling(v)' => Used(v)' >= 2
    BY <1>6 DEF Inv, Ring, Removing
  <2>. QED BY <1>6, <2>1 DEF Removing
<1>11. Claiming'
  <2>1. ASSUME NEW y \in Puns, pc'[y] \in {"loadRem", "exchange", "store"}
        PROVE  (LET v == Place[proc[y]]
                IN  /\ pc[y] \in {"loadRem", "exchange"} => a[y] = nextAdd[v]
                    /\ pc[y] = "exchange" => Used(v) < QSIZE - 1
                    /\ pc[y] = "store" => Used(v) >= 1 /\ a[y] = At(v, Used(v) - 1))'
    <3>1. y # x /\ pc'[y] = pc[y] /\ proc'[y] = proc[y] /\ a'[y] = a[y]
      BY <1>0, <1>1, <2>1 DEF TypeOK
    <3>2. PICK v \in Puns : v = Place[proc[y]]
      BY <2>1, <3>1, Sizes DEF Inv, Owners, Hands, Adding
    <3>3. /\ pc[y] \in {"loadRem", "exchange"} => a[y] = nextAdd[v]
          /\ pc[y] = "exchange" => Used(v) < QSIZE - 1
          /\ pc[y] = "store" => Used(v) >= 1 /\ a[y] = At(v, Used(v) - 1) /\ Filling(v)
      BY <3>2 DEF Inv, Ring, Claiming, Filling
    <3>4. /\ pc[y] = "exchange" => Used(v)' < QSIZE - 1
          /\ pc[y] = "store" => Used(v)' >= 1 /\ a[y] = At(v, Used(v) - 1)'
      <4>1. CASE v # x
        <5>1. Used(v)' = Used(v) /\ At(v, Used(v) - 1)' = At(v, Used(v) - 1)
          BY <1>0, <1>1, <1>6, <4>1 DEF At, Used, TypeOK
        <5>. QED BY <3>3, <4>1, <5>1
      <4>2. CASE v = x /\ pc[y] = "exchange"
        BY <1>4, <1>6, <3>3, <4>2, Sizes
      <4>3. CASE v = x /\ pc[y] = "store"
        <5>1. n - 2 \in Slots /\ (n - 2) + 1 = n - 1 /\ n - 1 \in Slots /\ n - 1 >= 1
          BY <1>5, <3>3, <4>3, Sizes
        <5>2. At(x, n - 2)' = At(x, n - 1)
          BY <1>6, <5>1
        <5>3. At(x, Used(x) - 1)' = At(x, n - 2)'
          <6>1. Used(x)' - 1 = n - 2
            BY <1>6, Sizes
          <6>. QED BY <6>1 DEF At
        <5>. QED BY <1>4, <1>6, <3>3, <4>3, <5>1, <5>2, <5>3
      <4>. QED BY <2>1, <3>1, <4>1, <4>2, <4>3
    <3>5. v = Place[proc'[y]]
      BY <3>1, <3>2
    <3>. QED BY <1>0, <3>1, <3>3, <3>4, <3>5
  <2>. QED BY <2>1 DEF Claiming
<1>. QED BY <1>3, <1>9, <1>10, <1>11 DEF Ring

-----------------------------------------------------------------------------
(* Every process that does not wait is in one place.                       *)

(* Most steps leave every process where it is.                             *)
LEMMA OwnersStay ==
  ASSUME Inv, UNCHANGED <<que, waits>>,
         \A y \in Puns : Bears(y)' <=> Bears(y),
         \A y \in Puns : Bears(y) => proc'[y] = proc[y],
         \A y \in Puns : pc'[y] \in Adding => pc[y] \in Adding /\ proc'[y] = proc[y],
         \A y \in Puns : pc'[y] = "release" => pc[y] = "release"
  PROVE  Owners'
<1>1. Hands'
  <2>1. \A y \in Puns : pc'[y] = "release" => proc'[y] = proc[y]
    BY DEF Bears
  <2>2. \A y \in Puns :
          /\ pc'[y] \in Adding => proc'[y] \in Procs /\ Place[proc'[y]] # y
          /\ pc'[y] = "release" => proc'[y] \in Procs /\ Place[proc'[y]] = y
    BY <2>1 DEF Inv, Owners, Hands
  <2>3. \A y \in Puns : Bears(y)' => proc'[y] \notin waits'
    BY DEF Inv, Owners, Hands
  <2>4. \A y, z \in Puns : Bears(y)' /\ Bears(z)' /\ proc'[y] = proc'[z] => y = z
    BY DEF Inv, Owners, Hands
  <2>. QED BY <2>2, <2>3, <2>4 DEF Hands
<1>2. Entries'
  BY DEF Inv, Owners, Entries
<1>3. Somewhere'
  BY DEF Inv, Owners, Somewhere
<1>. QED BY <1>1, <1>2, <1>3 DEF Owners

(* schedule takes a process that waits into its hands.                     *)
LEMMA OwnersSchedule ==
  ASSUME Inv, NEW x \in Puns, NEW p \in Procs, Schedule(x, p)
  PROVE  Owners'
<1>0. /\ pc[x] = "run" /\ pc' = [pc EXCEPT ![x] = "loadAdd"]
      /\ p \in waits /\ Place[p] # x /\ waits' = waits \ {p}
      /\ proc' = [proc EXCEPT ![x] = p] /\ que' = que
      /\ pc \in [Puns -> PCs] /\ proc \in [Puns -> Procs \cup {NULL}]
      /\ que \in [Puns -> [Slots -> Procs \cup {NULL}]]
  BY DEF Schedule, Go, Inv, Ring, TypeOK
<1>1. /\ ~ Bears(x) /\ Bears(x)' /\ proc'[x] = p
      /\ \A y \in Puns \ {x} : /\ Bears(y)' <=> Bears(y)
                               /\ pc'[y] = pc[y] /\ proc'[y] = proc[y]
  BY <1>0 DEF Bears, Carrying, Adding
<1>2. \A y \in Puns : Bears(y) => proc[y] # p
  BY <1>0 DEF Inv, Owners, Hands
<1>3. \A u \in Puns, s \in Slots : que[u][s] # p
  BY <1>0, Sizes DEF Inv, Owners, Entries
<1>4. Hands'
  <2>1. \A y \in Puns :
          /\ pc'[y] \in Adding => proc'[y] \in Procs /\ Place[proc'[y]] # y
          /\ pc'[y] = "release" => proc'[y] \in Procs /\ Place[proc'[y]] = y
    BY <1>0, <1>1 DEF Inv, Owners, Hands
  <2>2. \A y \in Puns : Bears(y)' => proc'[y] \notin waits'
    BY <1>0, <1>1 DEF Inv, Owners, Hands
  <2>3. \A y, z \in Puns : Bears(y)' /\ Bears(z)' /\ proc'[y] = proc'[z] => y = z
    BY <1>1, <1>2 DEF Inv, Owners, Hands
  <2>. QED BY <2>1, <2>2, <2>3 DEF Hands
<1>5. Entries'
  BY <1>0, <1>1, <1>3 DEF Inv, Owners, Entries
<1>6. Somewhere'
  <2>1. ASSUME NEW q \in Procs, q \notin waits'
        PROVE  (\E y \in Puns : Bears(y)' /\ proc'[y] = q) \/ \E s \in Slots : que[Place[q]][s] = q
    <3>1. CASE q = p
      BY <1>1, <3>1
    <3>2. CASE q # p
      <4>1. (\E y \in Puns : Bears(y) /\ proc[y] = q) \/ \E s \in Slots : que[Place[q]][s] = q
        BY <1>0, <2>1, <3>2 DEF Inv, Owners, Somewhere
      <4>. QED BY <1>1, <4>1
    <3>. QED BY <3>1, <3>2
  <2>. QED BY <1>0, <2>1 DEF Somewhere
<1>. QED BY <1>4, <1>5, <1>6 DEF Owners

(* The other steps aside move no process.                                  *)
LEMMA OwnersAside ==
  ASSUME Inv, NEW x \in Puns, Aside(x)
  PROVE  Owners'
<1>1. CASE \E p \in Procs : Schedule(x, p)
  BY <1>1, OwnersSchedule
<1>2. CASE ~ \E p \in Procs : Schedule(x, p)
  <2>0. pc \in [Puns -> PCs] /\ proc \in [Puns -> Procs \cup {NULL}]
    BY DEF Inv, Ring, TypeOK
  <2>1. Apart(x)
    BY AsideEffect
  <2>2. /\ Bears(x)' <=> Bears(x)
        /\ Bears(x) => proc'[x] = proc[x]
        /\ pc'[x] \in Adding => pc[x] \in Adding /\ proc'[x] = proc[x]
        /\ waits' = waits
    <3>1. CASE LoadAdd(x) \/ LoadRem(x) \/ Exchange(x)
      BY <2>0, <2>1, <3>1 DEF LoadAdd, LoadRem, Exchange, Go, Bears, Carrying, Adding, Apart
    <3>2. CASE Send(x)
      BY <2>0, <2>1, <3>2 DEF Send, Go, Bears, Carrying, Adding
    <3>3. CASE Handle(x) \/ Enable(x) \/ Drain(x) \/ Test(x)
      BY <2>0, <2>1, <3>3 DEF Handle, Enable, Drain, Test, Go, Bears, Carrying, Adding
    <3>. QED BY <1>2, <3>1, <3>2, <3>3 DEF Aside
  <2>3. \A y \in Puns \ {x} : Bears(y)' <=> Bears(y)
    BY <2>1 DEF Apart, Bears
  <2>. QED BY <2>1, <2>2, <2>3, OwnersStay DEF Apart
<1>. QED BY <1>1, <1>2

(* Neither does the exchange that claims a slot.                           *)
LEMMA OwnersClaims ==
  ASSUME Inv, NEW x \in Puns, Claims(x)
  PROVE  Owners'
<1>0. /\ pc[x] = "exchange" /\ pc' = [pc EXCEPT ![x] = "store"]
      /\ UNCHANGED <<que, waits, proc>> /\ pc \in [Puns -> PCs]
  BY DEF Claims, Exchange, Inv, Ring, TypeOK
<1>. QED BY <1>0, OwnersStay DEF Bears, Carrying, Adding

(* The store hands the process over to the queue.                          *)
LEMMA OwnersStores ==
  ASSUME Inv, OneAdder, NEW x \in Puns, Store(x)
  PROVE  Owners'
<1>a. PICK u \in Puns, p \in Procs, c \in Slots :
        u = Place[proc[x]] /\ p = proc[x] /\ c = a[x]
  BY StoreEffect DEF Inv, Ring, TypeOK
<1>0. /\ u # x /\ pc[x] = "store" /\ u = Place[p]
      /\ \A v \in Puns, s \in Slots :
           que'[v][s] = IF v = u /\ s = c THEN p ELSE que[v][s]
      /\ pc' = [pc EXCEPT ![x] = "send"]
      /\ proc' = proc /\ waits' = waits
      /\ pc \in [Puns -> PCs]
  BY <1>a, StoreEffect DEF Inv, Ring, TypeOK
<1>1. /\ Bears(x) /\ ~ Bears(x)'
      /\ \A y \in Puns \ {x} : (Bears(y)' <=> Bears(y)) /\ pc'[y] = pc[y]
  BY <1>0 DEF Bears, Carrying, Adding
<1>2. p \notin waits /\ \A y \in Puns \ {x} : Bears(y) => proc[y] # p
  BY <1>a, <1>1 DEF Inv, Owners, Hands
<1>3. \A v \in Puns, s \in Slots : que[v][s] # p
  BY <1>a, <1>1, Sizes DEF Inv, Owners, Entries
<1>4. que[u][c] = NULL
  <2>1. PICK n \in Slots : n = Used(u) /\ n >= 1 /\ c = At(u, n - 1)
    BY <1>a, StoreEffect, Positions DEF Inv, Ring
  <2>2. n - 1 \in 0..(QSIZE - 1) /\ Filling(u)
    BY <1>a, <1>0, <2>1, Sizes DEF Filling
  <2>. QED BY <2>1, <2>2 DEF Inv, Ring, Filled
<1>5. Hands'
  <2>1. pc'[x] = "send"
    BY <1>0
  <2>2. \A y \in Puns :
          /\ pc'[y] \in Adding => proc'[y] \in Procs /\ Place[proc'[y]] # y
          /\ pc'[y] = "release" => proc'[y] \in Procs /\ Place[proc'[y]] = y
    BY <1>a, <1>0, <1>1, <2>1 DEF Inv, Owners, Hands
  <2>3. \A y \in Puns : Bears(y)' => proc'[y] \notin waits'
    BY <1>0, <1>1 DEF Inv, Owners, Hands
  <2>4. \A y, z \in Puns : Bears(y)' /\ Bears(z)' /\ proc'[y] = proc'[z] => y = z
    BY <1>0, <1>1 DEF Inv, Owners, Hands
  <2>. QED BY <2>2, <2>3, <2>4 DEF Hands
<1>6. Entries'
  <2>1. ASSUME NEW v \in Puns, NEW s \in Slots, que'[v][s] # NULL
        PROVE  /\ Place[que'[v][s]] = v /\ que'[v][s] \notin waits
               /\ \A y \in Puns : Bears(y)' => proc[y] # que'[v][s]
               /\ \A t \in Slots : que'[v][t] = que'[v][s] => t = s
    <3>1. CASE v = u /\ s = c
      <4>1. que'[v][s] = p
        BY <1>0, <3>1
      <4>2. \A t \in Slots : que'[v][t] = p => t = s
        BY <1>0, <1>3, <3>1
      <4>. QED BY <1>0, <1>1, <1>2, <3>1, <4>1, <4>2
    <3>2. CASE ~ (v = u /\ s = c)
      <4>1. que'[v][s] = que[v][s]
        BY <1>0, <3>2
      <4>2. /\ Place[que[v][s]] = v /\ que[v][s] \notin waits
            /\ \A y \in Puns : Bears(y) => proc[y] # que[v][s]
            /\ \A t \in Slots : que[v][t] = que[v][s] => t = s
        BY <2>1, <4>1 DEF Inv, Owners, Entries
      <4>3. \A t \in Slots : que'[v][t] = que[v][s] => t = s
        BY <1>0, <1>3, <4>2
      <4>. QED BY <1>1, <4>1, <4>2, <4>3
    <3>. QED BY <3>1, <3>2
  <2>. QED BY <1>0, <2>1 DEF Entries
<1>7. Somewhere'
  <2>1. ASSUME NEW q \in Procs, q \notin waits
        PROVE  (\E y \in Puns : Bears(y)' /\ proc[y] = q) \/ \E s \in Slots : que'[Place[q]][s] = q
    <3>1. CASE q = p
      BY <1>0, <3>1
    <3>2. CASE q # p
      <4>1. CASE \E y \in Puns : Bears(y) /\ proc[y] = q
        BY <1>a, <1>1, <3>2, <4>1
      <4>2. CASE \E s \in Slots : que[Place[q]][s] = q
        <5>1. PICK s \in Slots : que[Place[q]][s] = q
          BY <4>2
        <5>2. Place[q] \in Puns /\ q # NULL
          BY Sizes
        <5>3. que'[Place[q]][s] = q
          BY <1>0, <1>4, <5>1, <5>2
        <5>. QED BY <5>3
      <4>. QED BY <2>1, <4>1, <4>2 DEF Inv, Owners, Somewhere
    <3>. QED BY <3>1, <3>2
  <2>. QED BY <1>0, <2>1 DEF Somewhere
<1>. QED BY <1>5, <1>6, <1>7 DEF Owners

(* The remover takes a process into its hands.                             *)
LEMMA OwnersTakes ==
  ASSUME Inv, NEW x \in Puns, Take(x)
  PROVE  Owners'
<1>a. PICK p \in Procs \cup {NULL}, c \in Slots : p = que[x][nextRem[x]] /\ c = nextRem[x]
  BY TakeEffect
<1>0. /\ pc[x] = "take" /\ p = que[x][c]
      /\ \A v \in Puns, s \in Slots :
           que'[v][s] = IF v = x /\ s = c THEN NULL ELSE que[v][s]
      /\ pc' = [pc EXCEPT ![x] = IF p # NULL THEN "release" ELSE "enable"]
      /\ proc' = [proc EXCEPT ![x] = p]
      /\ waits' = waits
      /\ pc \in [Puns -> PCs] /\ proc \in [Puns -> Procs \cup {NULL}]
  BY <1>a, TakeEffect DEF Inv, Ring, TypeOK
<1>1. /\ ~ Bears(x) /\ (Bears(x)' <=> p # NULL) /\ proc'[x] = p
      /\ \A y \in Puns \ {x} : /\ Bears(y)' <=> Bears(y)
                               /\ pc'[y] = pc[y] /\ proc'[y] = proc[y]
      /\ pc'[x] \notin Adding
  BY <1>0 DEF Bears, Carrying, Adding
<1>2. p # NULL => /\ p \in Procs /\ Place[p] = x /\ p \notin waits
                  /\ \A y \in Puns : Bears(y) => proc[y] # p
                  /\ \A t \in Slots : que[x][t] = p => t = c
  BY <1>0 DEF Inv, Owners, Entries
<1>3. Hands'
  <2>1. \A y \in Puns :
          /\ pc'[y] \in Adding => proc'[y] \in Procs /\ Place[proc'[y]] # y
          /\ pc'[y] = "release" => proc'[y] \in Procs /\ Place[proc'[y]] = y
    <3>1. pc'[x] = "release" => p # NULL
      BY <1>0
    <3>. QED BY <1>1, <1>2, <3>1 DEF Inv, Owners, Hands
  <2>2. \A y \in Puns : Bears(y)' => proc'[y] \notin waits'
    BY <1>0, <1>1, <1>2 DEF Inv, Owners, Hands
  <2>3. \A y, z \in Puns : Bears(y)' /\ Bears(z)' /\ proc'[y] = proc'[z] => y = z
    BY <1>1, <1>2 DEF Inv, Owners, Hands
  <2>. QED BY <2>1, <2>2, <2>3 DEF Hands
<1>4. Entries'
  <2>1. ASSUME NEW v \in Puns, NEW s \in Slots, que'[v][s] # NULL
        PROVE  /\ Place[que'[v][s]] = v /\ que'[v][s] \notin waits
               /\ \A y \in Puns : Bears(y)' => proc'[y] # que'[v][s]
               /\ \A t \in Slots : que'[v][t] = que'[v][s] => t = s
    <3>1. que'[v][s] = que[v][s] /\ ~ (v = x /\ s = c) /\ que[v][s] # NULL
      BY <1>0, <2>1
    <3>2. /\ Place[que[v][s]] = v /\ que[v][s] \notin waits
          /\ \A y \in Puns : Bears(y) => proc[y] # que[v][s]
          /\ \A t \in Slots : que[v][t] = que[v][s] => t = s
      BY <3>1 DEF Inv, Owners, Entries
    <3>3. \A t \in Slots : que'[v][t] = que[v][s] => t = s
      BY <1>0, <3>1, <3>2
    <3>4. p # NULL => que[v][s] # p
      BY <1>2, <3>1, <3>2
    <3>. QED BY <1>1, <3>1, <3>2, <3>3, <3>4
  <2>. QED BY <1>0, <2>1 DEF Entries
<1>5. Somewhere'
  <2>1. ASSUME NEW q \in Procs, q \notin waits
        PROVE  (\E y \in Puns : Bears(y)' /\ proc'[y] = q) \/ \E s \in Slots : que'[Place[q]][s] = q
    <3>1. CASE q = p
      BY <1>1, <3>1, Sizes
    <3>2. CASE q # p
      <4>1. CASE \E y \in Puns : Bears(y) /\ proc[y] = q
        BY <1>1, <4>1
      <4>2. CASE \E s \in Slots : que[Place[q]][s] = q
        BY <1>0, <3>2, <4>2, Sizes
      <4>. QED BY <2>1, <4>1, <4>2 DEF Inv, Owners, Somewhere
    <3>. QED BY <3>1, <3>2
  <2>. QED BY <1>0, <2>1 DEF Somewhere
<1>. QED BY <1>3, <1>4, <1>5 DEF Owners

(* The process runs and waits again.                                       *)
LEMMA OwnersReleases ==
  ASSUME Inv, NEW x \in Puns, Release(x)
  PROVE  Owners'
<1>a. PICK p \in Procs : p = proc[x]
  BY DEF Release, Inv, Owners, Hands
<1>b. PICK t \in {"test", "enable"} : pc' = [pc EXCEPT ![x] = t]
  BY DEF Release
<1>0. /\ pc[x] = "release" /\ pc' = [pc EXCEPT ![x] = t]
      /\ proc' = [proc EXCEPT ![x] = NULL]
      /\ waits' = waits \cup {p} /\ que' = que
      /\ pc \in [Puns -> PCs] /\ proc \in [Puns -> Procs \cup {NULL}]
  BY <1>a, <1>b DEF Release, Inv, Ring, TypeOK
<1>1. /\ Bears(x) /\ ~ Bears(x)' /\ pc'[x] \in {"test", "enable"}
      /\ \A y \in Puns \ {x} : /\ Bears(y)' <=> Bears(y)
                               /\ pc'[y] = pc[y] /\ proc'[y] = proc[y]
  BY <1>0 DEF Bears, Carrying, Adding
<1>2. \A y \in Puns \ {x} : Bears(y) => proc[y] # p
  BY <1>a, <1>1 DEF Inv, Owners, Hands
<1>3. \A u \in Puns, s \in Slots : que[u][s] # p
  BY <1>a, <1>1, Sizes DEF Inv, Owners, Entries
<1>4. Hands'
  <2>1. \A y \in Puns :
          /\ pc'[y] \in Adding => proc'[y] \in Procs /\ Place[proc'[y]] # y
          /\ pc'[y] = "release" => proc'[y] \in Procs /\ Place[proc'[y]] = y
    BY <1>1 DEF Inv, Owners, Hands, Adding
  <2>2. \A y \in Puns : Bears(y)' => proc'[y] \notin waits'
    BY <1>0, <1>1, <1>2 DEF Inv, Owners, Hands
  <2>3. \A y, z \in Puns : Bears(y)' /\ Bears(z)' /\ proc'[y] = proc'[z] => y = z
    BY <1>1 DEF Inv, Owners, Hands
  <2>. QED BY <2>1, <2>2, <2>3 DEF Hands
<1>5. Entries'
  BY <1>0, <1>1, <1>3 DEF Inv, Owners, Entries
<1>6. Somewhere'
  BY <1>a, <1>0, <1>1 DEF Inv, Owners, Somewhere
<1>. QED BY <1>4, <1>5, <1>6 DEF Owners

-----------------------------------------------------------------------------
(* What is in the queue is announced.                                      *)

(* What is counted can be counted.                                         *)
LEMMA Counted ==
  ASSUME NEW u \in Puns
  PROVE  /\ IsFiniteSet(Stored(u)) /\ Cardinality(Stored(u)) \in Nat
         /\ IsFiniteSet(Senders(u)) /\ Cardinality(Senders(u)) \in Nat
<1>1. IsFiniteSet(Slots)
  BY Sizes, FS_Interval
<1>2. IsFiniteSet(Puns)
  BY IpqAssumption
<1>3. IsFiniteSet(Stored(u)) /\ IsFiniteSet(Senders(u))
  BY <1>1, <1>2, FS_Subset DEF Stored, Senders
<1>. QED BY <1>3, FS_CardinalityType

(* A remover that finds the queue empty, or its first slot, leaves nothing. *)
LEMMA NothingLeft ==
  ASSUME Inv, NEW u \in Puns,
         \/ nextAdd[u] = nextRem[u]
         \/ pc[u] = "take" /\ que[u][nextRem[u]] = NULL
  PROVE  Stored(u) = {}
<1>0. /\ nextAdd[u] \in Slots /\ nextRem[u] \in Slots
      /\ At(u, 0) = nextRem[u] /\ 0 \in Slots
      /\ \A t \in Slots : \E k \in Slots : At(u, k) = t
  BY Positions, Sizes DEF Inv, Ring, TypeOK
<1>1. PICK n \in Slots : n = Used(u) /\ n = Dist(nextAdd[u], nextRem[u])
  BY Positions DEF Inv, Ring
<1>2. ASSUME NEW k \in Slots PROVE que[u][At(u, k)] = NULL
  <2>1. que[u][At(u, k)] # NULL =>
          k < n /\ ~ (k = 0 /\ pc[u] = "release") /\ ~ (k = n - 1 /\ Filling(u))
    BY <1>1 DEF Inv, Ring, Filled, Slots
  <2>2. CASE nextAdd[u] = nextRem[u]
    <3>1. n = 0
      BY <1>0, <1>1, <2>2, Moves
    <3>. QED BY <2>1, <3>1, Sizes
  <2>3. CASE pc[u] = "take" /\ que[u][nextRem[u]] = NULL
    <3>1. n >= 1
      BY <1>1, <2>3 DEF Inv, Ring, Removing
    <3>2. 0 = n - 1
      <4>1. \/ ~ 0 < n
            \/ pc[u] = "release"
            \/ 0 = n - 1 /\ Filling(u)
        BY <1>0, <1>1, <2>3 DEF Inv, Ring, Filled, Slots
      <4>. QED BY <2>3, <3>1, <4>1, Sizes
    <3>3. k # 0 \/ que[u][At(u, k)] = NULL
      BY <1>0, <2>3
    <3>. QED BY <2>1, <3>2, <3>3, Sizes
  <2>. QED BY <2>2, <2>3
<1>. QED BY <1>0, <1>2 DEF Stored

(* The bound is kept where nothing is entered and nothing announced.       *)
LEMMA SignalledSame ==
  ASSUME Inv, NEW u \in Puns,
         Stored(u)' = Stored(u), Senders(u)' = Senders(u), signals'[u] = signals[u],
         pc[u] \in {"test", "take"} => pc'[u] \in {"test", "take"} \/ Stored(u) = {},
         signals[u] \in Nat
  PROVE  Cardinality(Stored(u))' <=
           signals'[u] + Cardinality(Senders(u))'
             + (IF pc'[u] \in {"test", "take"} THEN 1 ELSE 0)
<1>1. PICK c \in Nat, d \in Nat : c = Cardinality(Stored(u)) /\ d = Cardinality(Senders(u))
  BY Counted
<1>2. c <= signals[u] + d + (IF pc[u] \in {"test", "take"} THEN 1 ELSE 0)
  BY <1>1 DEF Inv, Signalled
<1>3. Stored(u) = {} => c = 0
  BY <1>1, FS_EmptySet
<1>4. Cardinality(Stored(u))' = c /\ Cardinality(Senders(u))' = d
  BY <1>1
<1>. QED BY <1>2, <1>3, <1>4

(* The senders of a processor, when x is no sender before or after.        *)
LEMMA SendersSame ==
  ASSUME NEW x \in Puns, NEW u \in Puns,
         \A y \in Puns \ {x} : pc'[y] = pc[y] /\ proc'[y] = proc[y],
         pc[x] # "send", pc'[x] # "send"
  PROVE  Senders(u)' = Senders(u)
BY DEF Senders

(* A step aside takes a signal only to look into the queue.                *)
LEMMA SignalledAside ==
  ASSUME Inv, NEW x \in Puns, Aside(x)
  PROVE  Signalled'
<1>0. /\ Apart(x)
      /\ pc \in [Puns -> PCs] /\ proc \in [Puns -> Procs \cup {NULL}]
      /\ signals \in [Puns -> Nat]
  BY AsideEffect DEF Inv, Ring, TypeOK
<1>1. SUFFICES ASSUME NEW u \in Puns
               PROVE  Cardinality(Stored(u))' <=
                        signals'[u] + Cardinality(Senders(u))'
                          + (IF pc'[u] \in {"test", "take"} THEN 1 ELSE 0)
  BY DEF Signalled
<1>2. /\ Stored(u)' = Stored(u)
      /\ \A y \in Puns \ {x} : pc'[y] = pc[y] /\ proc'[y] = proc[y]
  BY <1>0 DEF Stored, Apart
<1>3. CASE Send(x)
  <2>1. PICK v \in Puns : v = Place[proc[x]]
    BY <1>3, Sizes DEF Send, Go, Inv, Owners, Hands, Adding
  <2>2. /\ pc[x] = "send" /\ pc' = [pc EXCEPT ![x] = "enable"]
        /\ signals' = [signals EXCEPT ![v] = signals[v] + 1]
    BY <1>3, <2>1 DEF Send, Go
  <2>3. pc'[x] = "enable" /\ (pc[u] \in {"test", "take"} => pc'[u] \in {"test", "take"})
    BY <1>0, <2>2
  <2>4. CASE u = v
    <3>1. Senders(u)' = Senders(u) \ {x} /\ x \in Senders(u)
      BY <1>2, <2>1, <2>2, <2>3, <2>4 DEF Senders
    <3>2. PICK c \in Nat, d \in Nat : c = Cardinality(Stored(u)) /\ d = Cardinality(Senders(u))
      BY Counted
    <3>3. Cardinality(Senders(u))' = d - 1 /\ Cardinality(Stored(u))' = c
      BY <1>2, <3>1, <3>2, Counted, FS_RemoveElement
    <3>4. c <= signals[u] + d + (IF pc[u] \in {"test", "take"} THEN 1 ELSE 0)
      BY <3>2 DEF Inv, Signalled
    <3>5. signals'[u] = signals[u] + 1 /\ signals[u] \in Nat
      BY <1>0, <2>2, <2>4
    <3>. QED BY <2>3, <3>2, <3>3, <3>4, <3>5
  <2>5. CASE u # v
    <3>1. Senders(u)' = Senders(u)
      BY <1>2, <2>1, <2>3, <2>5 DEF Senders
    <3>2. signals'[u] = signals[u] /\ signals[u] \in Nat
      BY <1>0, <2>2, <2>5
    <3>. QED BY <1>2, <2>3, <3>1, <3>2, SignalledSame
  <2>. QED BY <2>4, <2>5
<1>4. CASE Handle(x)
  <2>1. /\ pc[x] \in {"run", "enable"} /\ pc' = [pc EXCEPT ![x] = "test"]
        /\ signals[x] > 0 /\ signals' = [signals EXCEPT ![x] = signals[x] - 1]
    BY <1>4 DEF Handle
  <2>2. Senders(u)' = Senders(u)
    BY <1>0, <1>2, <2>1, SendersSame
  <2>3. CASE u = x
    <3>1. PICK c \in Nat, d \in Nat : c = Cardinality(Stored(u)) /\ d = Cardinality(Senders(u))
      BY Counted
    <3>2. c <= signals[u] + d + (IF pc[u] \in {"test", "take"} THEN 1 ELSE 0)
      BY <3>1 DEF Inv, Signalled
    <3>3. /\ signals'[u] = signals[u] - 1 /\ signals[u] \in Nat
          /\ pc'[u] = "test" /\ pc[u] \notin {"test", "take"}
      BY <1>0, <2>1, <2>3
    <3>4. Cardinality(Stored(u))' = c /\ Cardinality(Senders(u))' = d
      BY <1>2, <2>2, <3>1
    <3>. QED BY <3>1, <3>2, <3>3, <3>4
  <2>4. CASE u # x
    <3>1. signals'[u] = signals[u] /\ signals[u] \in Nat /\ pc'[u] = pc[u]
      BY <1>0, <2>1, <2>4
    <3>. QED BY <1>2, <2>2, <3>1, SignalledSame
  <2>. QED BY <2>3, <2>4
<1>5. CASE ~ Send(x) /\ ~ Handle(x)
  <2>1. pc[x] # "send" /\ pc'[x] # "send" /\ signals' = signals
    BY <1>0, <1>5 DEF Aside, Schedule, LoadAdd, LoadRem, Exchange, Enable, Drain, Test, Go
  <2>2. pc[x] \in {"test", "take"} => pc'[x] \in {"test", "take"} \/ nextAdd[x] = nextRem[x]
    BY <1>0, <1>5 DEF Aside, Schedule, LoadAdd, LoadRem, Exchange, Enable, Drain, Test, Go
  <2>3. pc[u] \in {"test", "take"} => pc'[u] \in {"test", "take"} \/ Stored(u) = {}
    BY <1>2, <2>2, NothingLeft
  <2>. QED BY <1>0, <1>2, <2>1, <2>3, SendersSame, SignalledSame
<1>. QED BY <1>3, <1>4, <1>5

(* The store enters one and has it to announce.                            *)
LEMMA SignalledStores ==
  ASSUME Inv, OneAdder, NEW x \in Puns, Store(x)
  PROVE  Signalled'
<1>0. /\ pc \in [Puns -> PCs] /\ signals \in [Puns -> Nat]
  BY DEF Inv, Ring, TypeOK
<1>1. PICK v \in Puns, b \in Slots, p \in Procs :
        v = Place[proc[x]] /\ b = a[x] /\ p = proc[x] /\ v # x
  BY StoreEffect DEF Inv, Ring, TypeOK
<1>2. /\ pc[x] = "store" /\ pc' = [pc EXCEPT ![x] = "send"] /\ proc' = proc
      /\ signals' = signals
      /\ \A w \in Puns, s \in Slots :
           que'[w][s] = IF w = v /\ s = b THEN p ELSE que[w][s]
  BY <1>1, StoreEffect
<1>3. SUFFICES ASSUME NEW u \in Puns
               PROVE  Cardinality(Stored(u))' <=
                        signals'[u] + Cardinality(Senders(u))'
                          + (IF pc'[u] \in {"test", "take"} THEN 1 ELSE 0)
  BY DEF Signalled
<1>4. /\ pc'[x] = "send" /\ \A y \in Puns \ {x} : pc'[y] = pc[y]
      /\ (pc[u] \in {"test", "take"} => pc'[u] \in {"test", "take"})
      /\ signals'[u] = signals[u] /\ signals[u] \in Nat
  BY <1>0, <1>2
<1>5. CASE u = v
  <2>1. Stored(u)' = Stored(u) \cup {b}
    BY <1>1, <1>2, <1>5, Sizes DEF Stored
  <2>2. Senders(u)' = Senders(u) \cup {x} /\ x \notin Senders(u)
    BY <1>1, <1>2, <1>4, <1>5 DEF Senders
  <2>3. PICK c \in Nat, d \in Nat : c = Cardinality(Stored(u)) /\ d = Cardinality(Senders(u))
    BY Counted
  <2>4. c <= signals[u] + d + (IF pc[u] \in {"test", "take"} THEN 1 ELSE 0)
    BY <2>3 DEF Inv, Signalled
  <2>5. Cardinality(Stored(u))' \in {c, c + 1}
    BY <2>1, <2>3, Counted, FS_AddElement
  <2>6. Cardinality(Senders(u))' = d + 1
    BY <2>2, <2>3, Counted, FS_AddElement
  <2>. QED BY <1>4, <2>3, <2>4, <2>5, <2>6
<1>6. CASE u # v
  <2>1. Stored(u)' = Stored(u)
    BY <1>2, <1>6 DEF Stored
  <2>2. Senders(u)' = Senders(u)
    BY <1>1, <1>2, <1>4, <1>6 DEF Senders
  <2>. QED BY <1>4, <2>1, <2>2, SignalledSame
<1>. QED BY <1>5, <1>6

(* What is taken needs no announcement any more.                           *)
LEMMA SignalledTakes ==
  ASSUME Inv, NEW x \in Puns, Take(x)
  PROVE  Signalled'
<1>0. /\ pc \in [Puns -> PCs] /\ proc \in [Puns -> Procs \cup {NULL}]
      /\ signals \in [Puns -> Nat]
  BY DEF Inv, Ring, TypeOK
<1>1. PICK p \in Procs \cup {NULL} : p = que[x][nextRem[x]]
  BY TakeEffect
<1>2. /\ pc[x] = "take" /\ pc' = [pc EXCEPT ![x] = IF p # NULL THEN "release" ELSE "enable"]
      /\ proc' = [proc EXCEPT ![x] = p] /\ signals' = signals /\ nextRem[x] \in Slots
      /\ \A w \in Puns, s \in Slots :
           que'[w][s] = IF w = x /\ s = nextRem[x] THEN NULL ELSE que[w][s]
  BY <1>1, TakeEffect
<1>3. SUFFICES ASSUME NEW u \in Puns
               PROVE  Cardinality(Stored(u))' <=
                        signals'[u] + Cardinality(Senders(u))'
                          + (IF pc'[u] \in {"test", "take"} THEN 1 ELSE 0)
  BY DEF Signalled
<1>4. /\ \A y \in Puns \ {x} : pc'[y] = pc[y] /\ proc'[y] = proc[y]
      /\ pc'[x] \in {"release", "enable"}
      /\ signals'[u] = signals[u] /\ signals[u] \in Nat
  BY <1>0, <1>2
<1>5. Senders(u)' = Senders(u)
  BY <1>2, <1>4, SendersSame
<1>6. CASE u # x
  <2>1. Stored(u)' = Stored(u) /\ pc'[u] = pc[u]
    BY <1>2, <1>4, <1>6 DEF Stored
  <2>. QED BY <1>4, <1>5, <2>1, SignalledSame
<1>7. CASE u = x
  <2>1. Stored(u)' = Stored(u) \ {nextRem[x]}
    BY <1>2, <1>7 DEF Stored
  <2>2. CASE p = NULL
    <3>1. Stored(u) = {}
      BY <1>1, <1>2, <1>7, <2>2, NothingLeft
    <3>2. Stored(u)' = Stored(u)
      BY <2>1, <3>1
    <3>. QED BY <1>4, <1>5, <3>1, <3>2, SignalledSame
  <2>3. CASE p # NULL
    <3>1. nextRem[x] \in Stored(u)
      BY <1>1, <1>2, <1>7, <2>3 DEF Stored
    <3>2. PICK c \in Nat, d \in Nat : c = Cardinality(Stored(u)) /\ d = Cardinality(Senders(u))
      BY Counted
    <3>3. c <= signals[u] + d + (IF pc[u] \in {"test", "take"} THEN 1 ELSE 0)
      BY <3>2 DEF Inv, Signalled
    <3>4. Cardinality(Stored(u))' = c - 1
      <4>1. IsFiniteSet(Stored(u))
        BY Counted
      <4>2. Cardinality(Stored(u) \ {nextRem[x]}) = c - 1
        BY <3>1, <3>2, <4>1, FS_RemoveElement
      <4>. QED BY <2>1, <4>2
    <3>5. Cardinality(Senders(u))' = d
      BY <1>5, <3>2
    <3>. QED BY <1>4, <1>7, <3>2, <3>3, <3>4, <3>5
  <2>. QED BY <2>2, <2>3
<1>. QED BY <1>6, <1>7

(* The claim of a slot and its release leave the entries alone; after the  *)
(* release the remover may leave its loop, with what is announced.         *)
LEMMA SignalledNext ==
  ASSUME Inv, OneAdder, NEW x \in Puns, Claims(x) \/ Release(x)
  PROVE  Signalled'
<1>0. pc \in [Puns -> PCs] /\ proc \in [Puns -> Procs \cup {NULL}] /\ signals \in [Puns -> Nat]
  BY DEF Inv, Ring, TypeOK
<1>1. PICK t \in {"store", "test", "enable"} : pc' = [pc EXCEPT ![x] = t]
  BY DEF Claims, Exchange, Release
<1>2. /\ que' = que /\ signals' = signals
      /\ pc[x] \notin {"send", "test", "take"}
      /\ \A y \in Puns \ {x} : proc'[y] = proc[y]
  BY <1>0 DEF Claims, Exchange, Release
<1>3. /\ \A y \in Puns \ {x} : pc'[y] = pc[y]
      /\ pc'[x] # "send"
  BY <1>0, <1>1
<1>4. SUFFICES ASSUME NEW u \in Puns
               PROVE  Cardinality(Stored(u))' <=
                        signals'[u] + Cardinality(Senders(u))'
                          + (IF pc'[u] \in {"test", "take"} THEN 1 ELSE 0)
  BY DEF Signalled
<1>5. Stored(u)' = Stored(u) /\ Senders(u)' = Senders(u)
  BY <1>2, <1>3, SendersSame DEF Stored
<1>6. pc[u] \in {"test", "take"} => pc'[u] \in {"test", "take"}
  BY <1>2, <1>3
<1>. QED BY <1>0, <1>2, <1>5, <1>6, SignalledSame

-----------------------------------------------------------------------------
(* The invariant holds.                                                    *)

(* It holds of the empty queues.                                           *)
LEMMA InvInit == Init => Inv
<1>0. SUFFICES ASSUME Init PROVE Inv
  OBVIOUS
<1>1. TypeOK
  BY <1>0, Sizes DEF Init, ipq_init, TypeOK, PCs, Adding
<1>2. \A u \in Puns : /\ nextAdd[u] = nextRem[u] /\ nextRem[u] \in Slots
                      /\ pc[u] = "run"
                      /\ \A s \in Slots : que[u][s] = NULL
  BY <1>0, Sizes DEF Init, ipq_init
<1>3. \A u \in Puns : Used(u) = 0
  BY <1>1, <1>2, Moves, Positions
<1>4. \A u \in Puns : ~ Filling(u)
  BY <1>2 DEF Filling
<1>5. \A u \in Puns : \A k \in Slots : que[u][At(u, k)] = NULL
  BY <1>1, <1>2, Positions
<1>6. Removing /\ Claiming
  BY <1>2 DEF Removing, Claiming
<1>7. Filled
  BY <1>3, <1>5, Sizes DEF Filled
<1>8. Owners
  BY <1>0, <1>2 DEF Init, Owners, Hands, Entries, Somewhere, Bears, Carrying, Adding
<1>9. Signalled
  <2>1. ASSUME NEW u \in Puns
        PROVE  /\ Cardinality(Stored(u)) = 0 /\ Cardinality(Senders(u)) \in Nat
               /\ signals[u] = 0 /\ pc[u] = "run"
    <3>1. Stored(u) = {}
      BY <1>2 DEF Stored
    <3>. QED BY <1>0, <1>2, <3>1, FS_EmptySet, Counted DEF Init
  <2>. QED BY <2>1 DEF Signalled
<1>. QED BY <1>1, <1>6, <1>7, <1>8, <1>9 DEF Inv, Ring

(* And it is kept while no two processors add to one queue.                *)
LEMMA InvNext == Inv /\ OneAdder /\ [Next]_vars => Inv'
<1>0. SUFFICES ASSUME Inv, OneAdder, [Next]_vars PROVE Inv'
  OBVIOUS
<1>1. CASE UNCHANGED vars
  BY <1>0, <1>1 DEF vars, Inv, Ring, TypeOK, Removing, Claiming, Filled, Used, At, Filling,
                    Owners, Hands, Entries, Somewhere, Bears, Signalled, Stored, Senders
<1>2. CASE Next
  <2>1. PICK x \in Puns : Aside(x) \/ Claims(x) \/ Store(x) \/ Take(x) \/ Release(x)
    BY <1>2, Kinds
  <2>2. CASE Aside(x)
    BY <1>0, <2>2, RingAside, OwnersAside, SignalledAside DEF Inv
  <2>3. CASE Claims(x)
    BY <1>0, <2>3, RingClaims, OwnersClaims, SignalledNext DEF Inv
  <2>4. CASE Store(x)
    BY <1>0, <2>4, RingStores, OwnersStores, SignalledStores DEF Inv
  <2>5. CASE Take(x)
    BY <1>0, <2>5, RingTakes, OwnersTakes, SignalledTakes DEF Inv
  <2>6. CASE Release(x)
    BY <1>0, <2>6, RingReleases, OwnersReleases, SignalledNext DEF Inv
  <2>. QED BY <2>1, <2>2, <2>3, <2>4, <2>5, <2>6
<1>. QED BY <1>0, <1>1, <1>2

(* The invariant of every execution in which adders take turns.            *)
THEOREM IpqInvariant == Spec /\ []OneAdder => []Inv
BY InvInit, InvNext, PTL DEF Spec

(* Every entry of a queue is announced, even when the remover gives up     *)
(* (ipq.m:124-125) or the handler loses the processor (sched.c:98-102).    *)
THEOREM IpqAnnounced == Spec /\ []OneAdder => []Announced
<1>1. Inv => Announced
  <2>1. ASSUME Inv, NEW u \in Puns, pc[u] \notin {"test", "take", "release"}
        PROVE  Cardinality(Stored(u)) <= signals[u] + Cardinality(Senders(u))
    <3>1. Cardinality(Stored(u)) <= signals[u] + Cardinality(Senders(u)) + 0
      BY <2>1 DEF Inv, Signalled
    <3>2. signals[u] \in Nat
      BY <2>1 DEF Inv, Ring, TypeOK
    <3>. QED BY <3>1, <3>2, Counted
  <2>. QED BY <2>1 DEF Announced
<1>. QED BY <1>1, IpqInvariant, PTL

(* The places NoneLost counts, one by one.                                 *)
LEMMA OnePlace ==
  ASSUME Inv, NEW p \in Procs, p \notin waits,
         NEW adders, NEW places, NEW taken,
         adders = {x \in Puns : proc[x] = p /\ pc[x] \in Adding \ {"send"}},
         places = {i \in DOMAIN InUse(Place[p]) : que[Place[p]][InUse(Place[p])[i]] = p},
         taken  = {x \in {Place[p]} : proc[x] = p /\ pc[x] = "release"}
  PROVE  Cardinality(adders) + Cardinality(places) + Cardinality(taken) = 1
<1>0. PICK u \in Puns : u = Place[p] /\ p # NULL
  BY Sizes
<1>1. PICK n \in Slots : n = Used(u)
  BY Positions DEF Inv, Ring
<1>2. /\ DOMAIN InUse(u) = 1..n
      /\ \A i \in 1..n : i - 1 \in Slots /\ InUse(u)[i] = At(u, i - 1) /\ At(u, i - 1) \in Slots
  <2>1. DOMAIN InUse(u) = 1..n /\ \A i \in 1..n : InUse(u)[i] = (nextRem[u] + i - 1) % QSIZE
    BY <1>1 DEF InUse
  <2>2. \A i \in 1..n : i - 1 \in Slots /\ nextRem[u] + i - 1 = nextRem[u] + (i - 1)
    BY <1>1, Sizes DEF Inv, Ring, TypeOK
  <2>3. \A k \in Slots : At(u, k) \in Slots
    BY Positions DEF Inv, Ring
  <2>. QED BY <2>1, <2>2, <2>3 DEF At
<1>3. Cardinality({}) = 0 /\ \A x : Cardinality({x}) = 1
  BY FS_EmptySet, FS_Singleton
<1>4. CASE \E x \in Puns : Bears(x) /\ proc[x] = p
  <2>1. PICK x \in Puns : Bears(x) /\ proc[x] = p
    BY <1>4
  <2>2. \A y \in Puns : Bears(y) /\ proc[y] = p => y = x
    BY <2>1 DEF Inv, Owners, Hands
  <2>3. places = {}
    <3>1. \A s \in Slots : que[u][s] # p
      BY <1>0, <2>1 DEF Inv, Owners, Entries
    <3>. QED BY <1>0, <1>2, <3>1
  <2>4. CASE pc[x] = "release"
    <3>1. Place[p] = x /\ adders = {} /\ taken = {x}
      BY <2>1, <2>2, <2>4 DEF Inv, Owners, Hands, Bears, Carrying, Adding
    <3>2. Cardinality(adders) = 0 /\ Cardinality(places) = 0 /\ Cardinality(taken) = 1
      BY <1>3, <2>3, <3>1
    <3>. QED BY <3>2
  <2>5. CASE pc[x] \in Carrying
    <3>1. adders = {x} /\ taken = {}
      BY <1>0, <2>1, <2>2, <2>5 DEF Bears, Carrying, Adding
    <3>. QED BY <1>3, <2>3, <3>1
  <2>. QED BY <2>1, <2>4, <2>5 DEF Bears
<1>5. CASE \E s \in Slots : que[u][s] = p
  <2>1. PICK s \in Slots : que[u][s] = p
    BY <1>5
  <2>2. /\ \A x \in Puns : Bears(x) => proc[x] # p
        /\ \A t \in Slots : que[u][t] = p => t = s
    BY <1>0, <2>1 DEF Inv, Owners, Entries
  <2>3. adders = {} /\ taken = {}
    BY <1>0, <2>2 DEF Bears, Carrying
  <2>4. PICK k \in Slots : At(u, k) = s
    BY Positions DEF Inv, Ring
  <2>5. k < n
    BY <1>0, <1>1, <2>1, <2>4 DEF Inv, Ring, Filled, Slots
  <2>6. k + 1 \in 1..n /\ (k + 1) - 1 = k
    BY <1>1, <2>5, Sizes
  <2>7. ASSUME NEW i \in 1..n, At(u, i - 1) = s PROVE i = k + 1
    <3>1. i - 1 = k
      BY <1>2, <2>4, <2>7, Positions DEF Inv, Ring
    <3>. QED BY <1>1, <2>4, <3>1, Sizes
  <2>8. places = {k + 1}
    BY <1>0, <1>2, <2>1, <2>2, <2>4, <2>6, <2>7
  <2>9. Cardinality(adders) = 0 /\ Cardinality(places) = 1 /\ Cardinality(taken) = 0
    BY <1>3, <2>3, <2>8
  <2>. QED BY <2>9
<1>. QED BY <1>0, <1>4, <1>5 DEF Inv, Owners, Somewhere

(* A process that is made ready is in exactly one place until it runs      *)
(* (ipq.m:66-140).                                                         *)
THEOREM IpqNoneLost == Spec /\ []OneAdder => []NoneLost
<1>1. ASSUME Inv PROVE NoneLost
  <2>1. ASSUME NEW p \in Procs \ waits
        PROVE  LET adders == {x \in Puns : proc[x] = p /\ pc[x] \in Adding \ {"send"}}
                   places == {i \in DOMAIN InUse(Place[p]) :
                                que[Place[p]][InUse(Place[p])[i]] = p}
                   taken  == {x \in {Place[p]} : proc[x] = p /\ pc[x] = "release"}
               IN  Cardinality(adders) + Cardinality(places) + Cardinality(taken) = 1
    BY <1>1, OnePlace
  <2>2. ASSUME NEW x \in Puns, pc[x] = "store" PROVE que[Place[proc[x]]][a[x]] = NULL
    <3>1. PICK u \in Puns : u = Place[proc[x]]
      BY <1>1, <2>2, Sizes DEF Inv, Owners, Hands, Adding
    <3>2. Used(u) \in Slots /\ Used(u) >= 1 /\ a[x] = At(u, Used(u) - 1) /\ Filling(u)
      BY <1>1, <2>2, <3>1, Positions DEF Inv, Ring, Claiming, Filling
    <3>3. Used(u) - 1 \in 0..(QSIZE - 1)
      BY <3>2, Sizes
    <3>. QED BY <1>1, <3>1, <3>2, <3>3 DEF Inv, Ring, Filled
  <2>. QED BY <2>1, <2>2 DEF NoneLost
<1>. QED BY <1>1, IpqInvariant, PTL

-----------------------------------------------------------------------------
(* The ring implements the list.                                           *)

\* Where the list begins, how long it is, and what it is.
First(u) == IF pc[u] = "release" THEN 1 ELSE 0
Count(u) == Used(u) - First(u) - (IF Filling(u) THEN 1 ELSE 0)
Entry(u, i) == que[u][At(u, First(u) + i - 1)]

\* Contents, by its entries.
Listing ==
  \A u \in Puns :
    /\ Count(u) \in Nat /\ Count(u) + First(u) <= Used(u)
    /\ Contents(u) \in Seq(Procs)
    /\ Len(Contents(u)) = Count(u)
    /\ \A i \in 1..Count(u) : Contents(u)[i] = Entry(u, i)

(* Every entry of the list is a process.                                   *)
LEMMA ListingIs == Ring => Listing
<1>0. SUFFICES ASSUME Ring, NEW u \in Puns
               PROVE  /\ Count(u) \in Nat /\ Count(u) + First(u) <= Used(u)
                      /\ Contents(u) \in Seq(Procs)
                      /\ Len(Contents(u)) = Count(u)
                      /\ \A i \in 1..Count(u) : Contents(u)[i] = Entry(u, i)
  BY DEF Listing
<1>1. PICK n \in Slots : n = Used(u)
  BY <1>0, Positions DEF Ring
<1>2. n \in Nat /\ n <= QSIZE - 1 /\ QSIZE \in Nat
  BY <1>1, Sizes
<1>3. First(u) \in {0, 1} /\ (First(u) = 1 <=> pc[u] = "release")
  BY DEF First
<1>4. PICK f \in {0, 1} : f = First(u)
  BY <1>3
<1>5. PICK g \in {0, 1} : g = (IF Filling(u) THEN 1 ELSE 0) /\ (g = 1 <=> Filling(u))
  OBVIOUS
<1>6. Filling(u) => n >= 1
  BY <1>0, <1>1 DEF Ring, Claiming, Filling
<1>7. (f = 1 => n >= 1) /\ (f = 1 /\ g = 1 => n >= 2)
  BY <1>0, <1>1, <1>3, <1>4, <1>5 DEF Ring, Removing
<1>8. Count(u) = n - f - g
  BY <1>1, <1>4, <1>5 DEF Count
<1>9. Count(u) \in Nat /\ Count(u) + f <= n
  BY <1>2, <1>5, <1>6, <1>7, <1>8
<1>10. ASSUME NEW i \in 1..Count(u)
       PROVE  /\ InUse(u)[f + i] = At(u, f + i - 1)
              /\ Entry(u, i) \in Procs /\ Entry(u, i) = que[u][InUse(u)[f + i]]
  <2>1. /\ f + i \in 1..n /\ f + i - 1 \in Slots /\ f + i - 1 < n
        /\ f + i - 1 = 0 => f = 0
        /\ f + i - 1 = n - 1 => g = 0
    BY <1>2, <1>8, <1>9, Sizes
  <2>2. InUse(u)[f + i] = (nextRem[u] + (f + i) - 1) % QSIZE
    BY <1>1, <2>1 DEF InUse
  <2>3. nextRem[u] + (f + i) - 1 = nextRem[u] + (f + i - 1)
    BY <1>0, <2>1, Sizes DEF Ring, TypeOK
  <2>4. InUse(u)[f + i] = At(u, f + i - 1)
    BY <2>2, <2>3 DEF At
  <2>5. que[u][At(u, f + i - 1)] # NULL
    BY <1>0, <1>1, <1>3, <1>4, <1>5, <2>1 DEF Ring, Filled, Slots
  <2>6. At(u, f + i - 1) \in Slots
    BY <1>0, <2>1, Positions DEF Ring
  <2>7. que[u][At(u, f + i - 1)] \in Procs
    BY <1>0, <2>5, <2>6 DEF Ring, TypeOK
  <2>. QED BY <1>4, <2>4, <2>7 DEF Entry
<1>11. Contents(u) = [i \in 1..Count(u) |-> que[u][InUse(u)[f + i]]]
  BY <1>1, <1>4, <1>5, <1>8 DEF Contents, First
<1>12. /\ Contents(u) \in Seq(Procs) /\ Len(Contents(u)) = Count(u)
       /\ \A i \in 1..Count(u) : Contents(u)[i] = Entry(u, i)
  BY <1>9, <1>10, <1>11
<1>. QED BY <1>1, <1>4, <1>9, <1>12

(* A list that keeps its length and its entries is the same.               *)
LEMMA SameList ==
  ASSUME Listing, Listing', NEW u \in Puns, Count(u)' = Count(u),
         \A i \in 1..Count(u) : Entry(u, i)' = Entry(u, i)
  PROVE  Contents(u)' = Contents(u)
<1>1. PICK s \in Seq(Procs), t \in Seq(Procs), c \in Nat :
        s = Contents(u) /\ t = Contents(u)' /\ c = Count(u)
  BY DEF Listing
<1>2. Len(s) = c /\ Len(t) = c /\ \A i \in 1..c : t[i] = s[i]
  BY <1>1 DEF Listing
<1>. QED BY <1>1, <1>2, SeqEqual

(* A list that gets one more entry at its end.                             *)
LEMMA LongerList ==
  ASSUME Listing, Listing', NEW u \in Puns, NEW p \in Procs, Count(u)' = Count(u) + 1,
         \A i \in 1..Count(u) : Entry(u, i)' = Entry(u, i),
         \A i \in 1..(Count(u) + 1) : i = Count(u) + 1 => Entry(u, i)' = p
  PROVE  Contents(u)' = Append(Contents(u), p)
<1>1. PICK s \in Seq(Procs), t \in Seq(Procs), c \in Nat :
        s = Contents(u) /\ t = Contents(u)' /\ c = Count(u)
  BY DEF Listing
<1>2. /\ Len(s) = c /\ Len(t) = c + 1 /\ \A i \in 1..c : t[i] = s[i]
      /\ t[c + 1] = p
  <2>1. Len(s) = c /\ Len(t) = c + 1
    BY <1>1 DEF Listing
  <2>2. /\ \A i \in 1..c : s[i] = Entry(u, i)
        /\ \A i \in 1..(c + 1) : t[i] = Entry(u, i)'
    BY <1>1 DEF Listing
  <2>3. c + 1 \in 1..(c + 1) /\ 1..c \subseteq 1..(c + 1)
    BY <1>1
  <2>. QED BY <1>1, <2>1, <2>2, <2>3
<1> DEFINE q == Append(s, p)
<1>3. /\ q \in Seq(Procs) /\ Len(q) = c + 1
      /\ \A i \in 1..c : q[i] = s[i]
      /\ q[c + 1] = p
  BY <1>2, AppendProperties
<1> HIDE DEF q
<1>4. \A i \in 1..Len(q) : q[i] = t[i]
  <2>1. \A i \in 1..(c + 1) : i \in 1..c \/ i = c + 1
    BY <1>1
  <2>. QED BY <1>2, <1>3, <2>1
<1>5. q = t
  BY <1>2, <1>3, <1>4, SeqEqual
<1>. QED BY <1>1, <1>5 DEF q

(* A list that loses its first entry.                                      *)
LEMMA ShorterList ==
  ASSUME Listing, Listing', NEW u \in Puns, Count(u)' = Count(u) - 1, Count(u) >= 1,
         \A i \in 1..Count(u) : i < Count(u) => Entry(u, i)' = Entry(u, i + 1)
  PROVE  Contents(u) # << >> /\ Contents(u)' = Tail(Contents(u))
<1>1. PICK s \in Seq(Procs), t \in Seq(Procs), c \in Nat :
        s = Contents(u) /\ t = Contents(u)' /\ c = Count(u)
  BY DEF Listing
<1>2. Len(s) = c /\ Len(t) = c - 1 /\ c >= 1 /\ s # << >>
  BY <1>1 DEF Listing
<1>3. /\ \A i \in 1..c : s[i] = Entry(u, i)
      /\ \A i \in 1..(c - 1) : t[i] = Entry(u, i)'
  BY <1>1 DEF Listing
<1>4. ASSUME NEW i \in 1..(c - 1) PROVE t[i] = s[i + 1]
  <2>1. i \in 1..c /\ i < c /\ i + 1 \in 1..c
    BY <1>1
  <2>. QED BY <1>1, <1>3, <2>1
<1> DEFINE q == Tail(s)
<1>5. /\ q \in Seq(Procs) /\ Len(q) = c - 1
      /\ \A i \in 1..(c - 1) : q[i] = s[i + 1]
  BY <1>2, HeadTailProperties
<1> HIDE DEF q
<1>6. q = t
  BY <1>2, <1>4, <1>5, SeqEqual
<1>. QED BY <1>1, <1>2, <1>6 DEF q

(* The abstract list when only one queue changes.                          *)
LEMMA BoxChange ==
  ASSUME NEW u \in Puns, \A v \in Puns \ {u} : Contents(v)' = Contents(v)
  PROVE  [v \in Puns |-> Contents(v)]'
           = [[v \in Puns |-> Contents(v)] EXCEPT ![u] = Contents(u)']
OBVIOUS

(* The list does not see a step aside.                                     *)
LEMMA BoxAside ==
  ASSUME Inv, Listing, Listing', NEW x \in Puns, Aside(x)
  PROVE  \A u \in Puns : Contents(u)' = Contents(u)
<1>0. Apart(x)
  BY AsideEffect
<1>1. TAKE u \in Puns
<1>2. Used(u)' = Used(u) /\ First(u)' = First(u) /\ (Filling(u)' <=> Filling(u))
  <2>1. Used(u)' = Used(u)
    BY <1>0 DEF Used, Apart
  <2>2. pc'[u] = "release" <=> pc[u] = "release"
    BY <1>0 DEF Apart
  <2>3. Filling(u)' <=> Filling(u)
    BY <1>0 DEF Filling, Apart
  <2>. QED BY <2>1, <2>2, <2>3 DEF First
<1>3. Count(u)' = Count(u)
  BY <1>2 DEF Count
<1>4. \A i : Entry(u, i)' = Entry(u, i)
  BY <1>0, <1>2 DEF Entry, At, Apart
<1>. QED BY <1>3, <1>4, SameList

(* Nor the exchange that claims a slot: it is not filled yet.              *)
LEMMA BoxClaims ==
  ASSUME Inv, OneAdder, Listing, Listing', NEW x \in Puns, Claims(x)
  PROVE  \A u \in Puns : Contents(u)' = Contents(u)
<1>1. PICK v \in Puns : v = Place[proc[x]] /\ ~ Filling(v) /\ que' = que
  BY ClaimEffect
<1>2. /\ Used(v)' = Used(v) + 1 /\ Filling(v)'
      /\ \A w \in Puns \ {v} : Used(w)' = Used(w) /\ (Filling(w)' <=> Filling(w))
      /\ \A w, k : At(w, k)' = At(w, k)
      /\ \A w \in Puns : pc'[w] = "release" <=> pc[w] = "release"
  BY <1>1, ClaimSlots
<1>3. TAKE u \in Puns
<1>4. First(u)' = First(u) /\ First(u) \in {0, 1}
  BY <1>2 DEF First
<1>5. Count(u)' = Count(u)
  <2>1. CASE u = v
    <3>1. Used(v) \in Int
      BY Positions, Sizes DEF Inv, Ring
    <3>. QED BY <1>1, <1>2, <1>4, <2>1, <3>1 DEF Count
  <2>2. CASE u # v
    BY <1>2, <1>4, <2>2 DEF Count
  <2>. QED BY <2>1, <2>2
<1>6. \A i : Entry(u, i)' = Entry(u, i)
  <2>1. \A i : At(u, First(u) + i - 1)' = At(u, First(u) + i - 1)
    BY <1>1, <1>4 DEF At, Claims, Exchange
  <2>. QED BY <1>1, <2>1 DEF Entry
<1>. QED BY <1>5, <1>6, SameList

(* The store appends the process.                                          *)
LEMMA BoxStores ==
  ASSUME Inv, OneAdder, Listing, Listing', NEW x \in Puns, Store(x)
  PROVE  \E p \in Procs : Box!Post(p)
<1>1. PICK v \in Puns, p \in Procs, c \in Slots :
        v = Place[proc[x]] /\ p = proc[x] /\ c = a[x]
  BY StoreEffect DEF Inv, Ring, TypeOK
<1>2. /\ Used(v) >= 1 /\ c = At(v, Used(v) - 1) /\ Filling(v)
      /\ \A w \in Puns, s \in Slots : que'[w][s] = IF w = v /\ s = c THEN p ELSE que[w][s]
      /\ nextRem' = nextRem
  BY <1>1, StoreEffect
<1>3. /\ \A w \in Puns : Used(w)' = Used(w)
      /\ \A w, k : At(w, k)' = At(w, k)
      /\ ~ Filling(v)'
      /\ \A w \in Puns \ {v} : Filling(w)' <=> Filling(w)
      /\ \A w \in Puns : pc'[w] = "release" <=> pc[w] = "release"
  BY <1>1, StoreSlots
<1>4. \A w \in Puns : First(w)' = First(w) /\ First(w) \in {0, 1}
  BY <1>3 DEF First
<1>5. \A w \in Puns : \A k \in Slots : At(w, k) \in Slots
  BY Positions DEF Inv, Ring
<1>6. \A w \in Puns : \A i : At(w, First(w) + i - 1)' = At(w, First(w) + i - 1)
  BY <1>2, <1>4 DEF At
<1>7. ASSUME NEW w \in Puns, NEW i \in 1..Count(w) PROVE First(w) + i - 1 \in Slots
  <2>1. First(w) \in {0, 1} /\ Used(w) \in Slots
    BY <1>4, Positions DEF Inv, Ring
  <2>2. Count(w) \in Nat /\ Count(w) + First(w) <= Used(w)
    BY DEF Listing
  <2>. QED BY <2>1, <2>2, Sizes
<1>8. ASSUME NEW w \in Puns \ {v} PROVE Contents(w)' = Contents(w)
  <2>1. Count(w)' = Count(w)
    BY <1>3, <1>4 DEF Count
  <2>2. \A i \in 1..Count(w) : At(w, First(w) + i - 1) \in Slots
    BY <1>5, <1>7
  <2>3. \A i \in 1..Count(w) : que'[w][At(w, First(w) + i - 1)] = que[w][At(w, First(w) + i - 1)]
    BY <1>2, <2>2
  <2>4. \A i \in 1..Count(w) : Entry(w, i)' = Entry(w, i)
    BY <1>6, <2>3 DEF Entry
  <2>. QED BY <2>1, <2>4, SameList
<1>9. PICK n \in Slots : n = Used(v)
  BY Positions DEF Inv, Ring
<1>10. PICK f \in {0, 1} : f = First(v)
  BY <1>4
<1>11. Count(v) = n - f - 1 /\ Count(v)' = n - f
  BY <1>2, <1>3, <1>4, <1>9, <1>10, Sizes DEF Count
<1>12. Count(v) \in Nat /\ Count(v)' = Count(v) + 1 /\ Count(v) < QSIZE - 1
  <2>1. Count(v) \in Nat
    BY DEF Listing
  <2>. QED BY <1>9, <1>10, <1>11, <2>1, Sizes
<1>13. \A i \in 1..Count(v) : Entry(v, i)' = Entry(v, i)
  <2>1. ASSUME NEW i \in 1..Count(v) PROVE At(v, f + i - 1) # c /\ At(v, f + i - 1) \in Slots
    <3>1. f + i - 1 # n - 1 /\ n - 1 \in Slots /\ f + i - 1 \in Slots
      BY <1>2, <1>7, <1>9, <1>10, <1>11, Sizes
    <3>. QED BY <1>2, <1>5, <1>9, <3>1, Positions DEF Inv, Ring
  <2>. QED BY <1>2, <1>6, <1>10, <2>1 DEF Entry
<1>14. \A i \in 1..(Count(v) + 1) : i = Count(v) + 1 => Entry(v, i)' = p
  <2>1. f + (Count(v) + 1) - 1 = n - 1
    BY <1>9, <1>11, Sizes
  <2>2. At(v, n - 1) = c
    BY <1>2, <1>9
  <2>. QED BY <1>1, <1>2, <1>6, <1>10, <2>1, <2>2 DEF Entry
<1>15. Contents(v)' = Append(Contents(v), p)
  BY <1>12, <1>13, <1>14, LongerList
<1>16. Len(Contents(v)) < QSIZE - 1
  BY <1>12 DEF Listing
<1>17. [w \in Puns |-> Contents(w)]'
         = [[w \in Puns |-> Contents(w)] EXCEPT ![v] = Append(Contents(v), p)]
  BY <1>8, <1>15, BoxChange
<1>18. Place[p] = v
  BY <1>1
<1>19. Box!Post(p)
  BY <1>16, <1>17, <1>18 DEF Box!Post
<1>. QED BY <1>19

(* The remover takes the first, if there is one.                           *)
LEMMA BoxTakes ==
  ASSUME Inv, OneAdder, Listing, Listing', NEW x \in Puns, Take(x)
  PROVE  Box!Take(x) \/ \A u \in Puns : Contents(u)' = Contents(u)
<1>1. PICK p \in Procs \cup {NULL} : p = que[x][nextRem[x]]
  BY TakeEffect
<1>2. /\ nextRem[x] \in Slots /\ pc[x] = "take" /\ Used(x) >= 1
      /\ \A w \in Puns, s \in Slots :
           que'[w][s] = IF w = x /\ s = nextRem[x] THEN NULL ELSE que[w][s]
      /\ pc' = [pc EXCEPT ![x] = IF p # NULL THEN "release" ELSE "enable"]
      /\ proc' = [proc EXCEPT ![x] = p]
      /\ UNCHANGED <<nextAdd, nextRem>>
      /\ pc \in [Puns -> PCs] /\ proc \in [Puns -> Procs \cup {NULL}]
  BY <1>1, TakeEffect DEF Inv, Ring, TypeOK
<1>3. /\ \A w : Used(w)' = Used(w)
      /\ \A w \in Puns : Filling(w)' <=> Filling(w)
      /\ First(x) = 0 /\ First(x)' = IF p # NULL THEN 1 ELSE 0
      /\ \A w \in Puns \ {x} : First(w)' = First(w)
  BY <1>2 DEF Used, Filling, First
<1>4. \A w \in Puns : First(w) \in {0, 1}
  BY DEF First
<1>5. \A w \in Puns : \A k \in Slots : At(w, k) \in Slots
  BY Positions DEF Inv, Ring
<1>6. ASSUME NEW w \in Puns, NEW i \in 1..Count(w) PROVE First(w) + i - 1 \in Slots
  <2>1. First(w) \in {0, 1} /\ Used(w) \in Slots
    BY <1>4, Positions DEF Inv, Ring
  <2>2. Count(w) \in Nat /\ Count(w) + First(w) <= Used(w)
    BY DEF Listing
  <2>. QED BY <2>1, <2>2, Sizes
<1>7. ASSUME NEW w \in Puns \ {x} PROVE Contents(w)' = Contents(w)
  <2>1. Count(w)' = Count(w)
    BY <1>3 DEF Count
  <2>2. \A i \in 1..Count(w) : At(w, First(w) + i - 1)' = At(w, First(w) + i - 1)
    BY <1>2, <1>3 DEF At
  <2>3. \A i \in 1..Count(w) : Entry(w, i)' = Entry(w, i)
    BY <1>2, <1>5, <1>6, <2>2 DEF Entry
  <2>. QED BY <2>1, <2>3, SameList
<1>8. CASE p = NULL
  <2>1. First(x)' = 0 /\ Count(x)' = Count(x)
    BY <1>3, <1>8 DEF Count
  <2>2. \A i \in 1..Count(x) : At(x, First(x) + i - 1)' = At(x, First(x) + i - 1)
    BY <1>2, <1>3, <2>1 DEF At
  <2>3. \A s \in Slots : que'[x][s] = que[x][s]
    BY <1>1, <1>2, <1>8
  <2>4. \A i \in 1..Count(x) : Entry(x, i)' = Entry(x, i)
    BY <1>5, <1>6, <2>2, <2>3 DEF Entry
  <2>. QED BY <1>7, <2>1, <2>4, SameList
<1>9. CASE p # NULL
  <2>1. PICK n \in Slots : n = Used(x)
    BY Positions DEF Inv, Ring
  <2>2. PICK g \in {0, 1} : g = (IF Filling(x) THEN 1 ELSE 0) /\ (g = 1 <=> Filling(x))
    OBVIOUS
  <2>3. Count(x) = n - g /\ Count(x)' = n - 1 - g
    <3>1. Count(x) = n - 0 - g /\ Count(x)' = n - 1 - g
      BY <1>3, <1>9, <2>1, <2>2 DEF Count
    <3>. QED BY <3>1, Sizes
  <2>4. At(x, 0) = nextRem[x] /\ 0 \in Slots
    BY Positions, Sizes DEF Inv, Ring
  <2>5. ~ (0 = n - 1 /\ Filling(x))
    BY <1>1, <1>9, <2>1, <2>4 DEF Inv, Ring, Filled, Slots
  <2>6. Count(x) >= 1 /\ Count(x)' = Count(x) - 1
    BY <1>2, <2>1, <2>2, <2>3, <2>5, Sizes
  <2>7. ASSUME NEW i \in 1..Count(x), i < Count(x) PROVE Entry(x, i)' = Entry(x, i + 1)
    <3>1. 1 + i - 1 = i /\ 0 + (i + 1) - 1 = i /\ i \in Slots /\ i # 0
      BY <2>1, <2>3, <2>7, Sizes
    <3>2. At(x, i) \in Slots /\ At(x, i) # nextRem[x]
      BY <2>4, <3>1, Positions DEF Inv, Ring
    <3>3. que'[x][At(x, i)] = que[x][At(x, i)]
      BY <1>2, <3>2
    <3>4. At(x, First(x) + i - 1)' = At(x, i)
      BY <1>2, <1>3, <1>9, <3>1 DEF At
    <3>5. At(x, First(x) + (i + 1) - 1) = At(x, i)
      BY <1>3, <3>1
    <3>. QED BY <3>3, <3>4, <3>5 DEF Entry
  <2>8. Contents(x) # << >> /\ Contents(x)' = Tail(Contents(x))
    BY <2>6, <2>7, ShorterList
  <2>9. [w \in Puns |-> Contents(w)]'
           = [[w \in Puns |-> Contents(w)] EXCEPT ![x] = Tail(Contents(x))]
    BY <1>7, <2>8, BoxChange
  <2>. QED BY <2>8, <2>9 DEF Box!Take
<1>. QED BY <1>8, <1>9

(* The list does not see the release: the entry was taken before.          *)
LEMMA BoxReleases ==
  ASSUME Inv, Listing, Listing', NEW x \in Puns, Release(x)
  PROVE  \A u \in Puns : Contents(u)' = Contents(u)
<1>0. pc[x] = "release" /\ que' = que
  BY DEF Release
<1>1. /\ Used(x)' = Used(x) - 1
      /\ \A k \in Slots : k + 1 \in Slots => At(x, k)' = At(x, k + 1)
      /\ \A w \in Puns \ {x} : Used(w)' = Used(w)
      /\ \A w \in Puns \ {x} : \A k : At(w, k)' = At(w, k)
      /\ \A w \in Puns : Filling(w)' <=> Filling(w)
      /\ \A w \in Puns \ {x} : pc'[w] = pc[w]
      /\ pc'[x] \in {"test", "enable"}
  BY ReleaseSlots
<1>2. TAKE u \in Puns
<1>3. CASE u # x
  <2>1. First(u)' = First(u) /\ Count(u)' = Count(u)
    BY <1>1, <1>3 DEF Count, First
  <2>2. \A i : At(u, First(u) + i - 1)' = At(u, First(u) + i - 1)
    BY <1>3, <2>1 DEF At, Release, Inv, Ring, TypeOK
  <2>3. \A i \in 1..Count(u) : Entry(u, i)' = Entry(u, i)
    BY <1>0, <2>2 DEF Entry
  <2>. QED BY <2>1, <2>3, SameList
<1>4. CASE u = x
  <2>1. PICK n \in Slots : n = Used(x)
    BY Positions DEF Inv, Ring
  <2>2. PICK g \in {0, 1} : g = (IF Filling(x) THEN 1 ELSE 0) /\ (g = 1 <=> Filling(x))
    OBVIOUS
  <2>3. First(x) = 1 /\ First(x)' = 0
    BY <1>0, <1>1 DEF First
  <2>4. Count(x) = n - 1 - g /\ Count(x)' = n - 1 - 0 - g
    BY <1>1, <2>1, <2>2, <2>3 DEF Count
  <2>5. Count(x)' = Count(x)
    BY <2>1, <2>4, Sizes
  <2>6. ASSUME NEW i \in 1..Count(x) PROVE Entry(x, i)' = Entry(x, i)
    <3>1. 0 + i - 1 = i - 1 /\ 1 + i - 1 = i /\ (i - 1) + 1 = i /\ i \in Slots /\ i - 1 \in Slots
      BY <2>1, <2>4, Sizes
    <3>2. At(x, i - 1)' = At(x, i)
      BY <1>1, <3>1
    <3>3. At(x, First(x) + i - 1)' = At(x, i - 1)'
      BY <2>3, <3>1 DEF At
    <3>4. At(x, First(x) + i - 1) = At(x, i)
      BY <2>3, <3>1
    <3>. QED BY <1>0, <3>2, <3>3, <3>4 DEF Entry
  <2>. QED BY <1>4, <2>5, <2>6, SameList
<1>. QED BY <1>3, <1>4

(* Each queue is a list of at most QSIZE - 1 entries, first in first out.  *)
THEOREM IpqBox == Spec /\ []OneAdder => BoxSpec
<1> DEFINE box == [u \in Puns |-> Contents(u)]
<1>1. ASSUME Init PROVE Box!Init
  <2>1. Inv /\ Listing
    BY <1>1, InvInit, ListingIs DEF Inv
  <2>2. ASSUME NEW u \in Puns PROVE Contents(u) = << >>
    <3>1. /\ nextAdd[u] = nextRem[u] /\ nextRem[u] \in Slots /\ pc[u] = "run"
          /\ ~ Filling(u)
      BY <1>1, Sizes DEF Init, ipq_init, Filling
    <3>2. Used(u) = 0
      <4>1. Used(u) = Dist(nextAdd[u], nextRem[u])
        BY <2>1, Positions DEF Inv, Ring
      <4>. QED BY <3>1, <4>1, Moves
    <3>3. Count(u) = 0
      <4>1. First(u) = 0 /\ Count(u) = Used(u) - First(u) - 0
        BY <3>1 DEF Count, First
      <4>. QED BY <3>2, <4>1
    <3>. QED BY <2>1, <3>3 DEF Listing
  <2>. QED BY <2>2 DEF Box!Init
<1>2. ASSUME Inv, Inv', OneAdder, [Next]_vars PROVE [Box!Next]_box
  <2>1. Listing /\ Listing'
    <3>1. Ring' => Listing'
      BY ListingIs, PTL
    <3>. QED BY <1>2, <3>1, ListingIs DEF Inv
  <2>2. CASE UNCHANGED vars
    BY <2>2 DEF vars, Contents, InUse, Used, Filling
  <2>3. CASE Next
    <3>1. PICK x \in Puns : Aside(x) \/ Claims(x) \/ Store(x) \/ Take(x) \/ Release(x)
      BY <2>3, Kinds
    <3>2. CASE Aside(x) \/ Claims(x) \/ Release(x)
      BY <1>2, <2>1, <3>2, BoxAside, BoxClaims, BoxReleases
    <3>3. CASE Store(x)
      BY <1>2, <2>1, <3>3, BoxStores DEF Box!Next
    <3>4. CASE Take(x)
      BY <1>2, <2>1, <3>4, BoxTakes DEF Box!Next
    <3>. QED BY <3>1, <3>2, <3>3, <3>4
  <2>. QED BY <1>2, <2>2, <2>3
<1>. QED BY <1>1, <1>2, IpqInvariant, PTL DEF Spec, BoxSpec, Box!Spec

-----------------------------------------------------------------------------
(* Two processors.                                                         *)

\* There is no third processor.
TwoPuns == \A u, x, y \in Puns : x # u /\ y # u => x = y

(* With two processors each queue has one adder, and the three results     *)
(* above hold of every execution.                                          *)
THEOREM IpqTwo == TwoPuns => (Spec => [](NoneLost /\ Announced) /\ BoxSpec)
<1>0. SUFFICES ASSUME TwoPuns PROVE Spec => [](NoneLost /\ Announced) /\ BoxSpec
  OBVIOUS
<1>1. Inv => OneAdder
  BY <1>0, Sizes DEF Inv, Owners, Hands, OneAdder, Carrying, TwoPuns
<1>2. Spec => []OneAdder
  BY <1>1, InvInit, InvNext, PTL DEF Spec
<1>. QED BY <1>2, IpqNoneLost, IpqAnnounced, IpqBox, PTL
=============================================================================
