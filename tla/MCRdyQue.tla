------------------------------ MODULE MCRdyQue ------------------------------
(* Four processes and the idle process, three priorities.                  *)
EXTENDS RdyQue, TLC

CONSTANTS a1, a2, a3, b, idle

RecordsMC == {a1, a2, a3, b, idle}
PriMC == a1 :> 0 @@ a2 :> 0 @@ a3 :> 0 @@ b :> 1 @@ idle :> 2
=============================================================================
