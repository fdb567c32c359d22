------------------------------ MODULE MCMemory ------------------------------
(* One processor, a1 above a2; a1 receives the user interrupt that either   *)
(* of them raises, and both use the allocator.                              *)
EXTENDS Memory, TLC

CONSTANTS pu, a1, a2, a3, idleU, user0

IdleOne == pu :> idleU
PlaceOne == [p \in Procs \cup {idleU} |-> pu]
PriTwo == (a1 :> 1) @@ (a2 :> 2) @@ (idleU :> 9)
CreatedOne == pu :> <<a1, a2, idleU>>
ListensOne == [p \in Procs |-> IF p = a1 THEN {user0} ELSE {}]
Lengths == <<1, 3>>
WantsTwo == (a1 :> {1}) @@ (a2 :> {1, 2})

\* two processes above a third
PriThree == (a1 :> 1) @@ (a2 :> 1) @@ (a3 :> 2) @@ (idleU :> 9)
CreatedThree == pu :> <<a1, a2, a3, idleU>>
WantsThree == [p \in Procs |-> {1}]
=============================================================================
