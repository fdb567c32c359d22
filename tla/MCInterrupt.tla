---------------------------- MODULE MCInterrupt -----------------------------
(* Two processors with processes of one priority; a1 receives the user      *)
(* interrupt of its processor, and anybody there raises it.                 *)
EXTENDS Interrupt, TLC

CONSTANTS pu, pv, a1, a2, b, idleU, idleV, user0

IdleTwo == (pu :> idleU) @@ (pv :> idleV)
PlaceTwo == [p \in {a1, a2, idleU} |-> pu] @@ [p \in {b, idleV} |-> pv]
PriFlat == [p \in Procs |-> 1] @@ [p \in {Idle[w] : w \in Puns} |-> 9]
CreatedTwo == (pu :> <<a1, a2, idleU>>) @@ (pv :> <<b, idleV>>)

\* one processor
IdleOne == pu :> idleU
PlaceOne == [p \in {a1, a2, idleU} |-> pu]
CreatedOne == pu :> <<a1, a2, idleU>>

\* one receiver of the interrupt, or two
ListensBoth == [p \in Procs |-> {user0}]
ListensOne == [p \in Procs |-> IF p = a1 THEN {user0} ELSE {}]
=============================================================================
