------------------------------ MODULE MCParRun ------------------------------
(***************************************************************************)
(* Instances of ParRun for TLC: a parent and its children k1, k2, k3 on    *)
(* one or two processors, beside processes high and peer.                  *)
(***************************************************************************)
EXTENDS ParRun, TLC

CONSTANTS pu, pv, parent, k1, k2, k3, high, peer, idleU, idleV

\* two processors; placed_par_pri: k1 and k3 on pu beside a process of higher
\* priority, k2 with the parent on pv
IdleTwo == (pu :> idleU) @@ (pv :> idleV)
PlaceBoth == [p \in {high, k1, k3, idleU} |-> pu] @@ [p \in {parent, k2, idleV} |-> pv]
PriBoth == (high :> 0) @@ (parent :> 1) @@ (k1 :> 1) @@ (k2 :> 2) @@ (k3 :> 3)
             @@ (idleU :> 9) @@ (idleV :> 9)
CreatedBoth == (pu :> <<high, k1, k3, idleU>>) @@ (pv :> <<parent, k2, idleV>>)
LivingBoth == (pu :> <<high, idleU>>) @@ (pv :> <<parent, idleV>>)
RolesBoth == <<{k1}, {k2}, {k3}>>

\* the same with all children on pu, and nobody else
PlaceLive == [p \in {k1, k2, k3, idleU} |-> pu] @@ [p \in {parent, idleV} |-> pv]
PriLive == (parent :> 1) @@ (k1 :> 1) @@ (k2 :> 2) @@ (k3 :> 3)
             @@ (idleU :> 9) @@ (idleV :> 9)
CreatedLive == (pu :> <<k1, k2, k3, idleU>>) @@ (pv :> <<parent, idleV>>)
LivingLive == (pu :> <<idleU>>) @@ (pv :> <<parent, idleV>>)

\* two processors, one child, and its record used twice
PlaceReuse == [p \in {k1, idleU} |-> pu] @@ [p \in {parent, idleV} |-> pv]
PriReuse == (parent :> 1) @@ (k1 :> 1) @@ (idleU :> 9) @@ (idleV :> 9)
CreatedReuse == (pu :> <<k1, idleU>>) @@ (pv :> <<parent, idleV>>)
RolesReuse == <<{k1}>>

\* one processor, a child, and two processes besides the parent: one of a
\* higher priority that waits for an interrupt, one of the same
IdleOne == pu :> idleU
PlaceLost == [p \in Procs \cup {idleU} |-> pu]
PriLost == (high :> 0) @@ (parent :> 1) @@ (peer :> 1) @@ (k1 :> 1) @@ (idleU :> 9)
CreatedLost == pu :> <<high, parent, peer, k1, idleU>>
LivingLost == pu :> <<high, parent, peer, idleU>>
=============================================================================
