------------------------------ MODULE MCSched -------------------------------
(***************************************************************************)
(* Instances of Sched for TLC: one or two processors, "pu" with the        *)
(* processes a1, a2 (and a3), "pv" with b.                                 *)
(***************************************************************************)
EXTENDS Sched, TLC

CONSTANTS pu, pv, a1, a2, a3, b, idleU, idleV

\* two processors, two processes on pu and one on pv, all of one priority
IdleTwo == (pu :> idleU) @@ (pv :> idleV)
PlaceTwo == [p \in {a1, a2, idleU} |-> pu] @@ [p \in {b, idleV} |-> pv]
PriFlat == [p \in Procs |-> 1] @@ [p \in {Idle[w] : w \in Puns} |-> 9]
CreatedTwo == (pu :> <<a1, a2, idleU>>) @@ (pv :> <<b, idleV>>)

\* the same with two priorities on pu
PriTwo == (a1 :> 1) @@ (a2 :> 2) @@ (b :> 1) @@ (idleU :> 9) @@ (idleV :> 9)

\* one processor, three processes of one priority
IdleOne == pu :> idleU
PlaceOne == [p \in {a1, a2, a3, idleU} |-> pu]
CreatedOne == pu :> <<a1, a2, a3, idleU>>
=============================================================================
