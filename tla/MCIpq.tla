------------------------------- MODULE MCIpq --------------------------------
(* Two processors that wake each other's processes, and three.             *)
EXTENDS Ipq, TLC

CONSTANTS pu, pv, pw, p1, p2, p3, q1, q2, q3

PlaceTwo == p1 :> pv @@ p2 :> pv @@ p3 :> pv @@ q1 :> pu @@ q2 :> pu @@ q3 :> pu
PlaceThree == p1 :> pv @@ p2 :> pv @@ q1 :> pu @@ q2 :> pu
PlaceOne == p1 :> pv @@ p2 :> pv @@ p3 :> pv
=============================================================================
