------------------------------ MODULE MCTimer -------------------------------
(* Processes that use After, beside one that alternates.                   *)
EXTENDS Timer, TLC

CONSTANTS p, q, r

GuardsAfter == [x \in Procs |-> 0]
GuardsBoth == [x \in Procs |-> IF x = p THEN 1 ELSE 0]
GuardsTwo == [x \in Procs |-> 2]
=============================================================================
