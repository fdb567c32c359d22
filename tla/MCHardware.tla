----------------------------- MODULE MCHardware -----------------------------
EXTENDS Hardware, TLC

CONSTANTS ca, cb

ReadersMain == {Main}

RaisesCb == [p \in Procs |-> IF p = cb THEN {"USER1"} ELSE {}]

PlaceOne == cb :> 1
PlaceTwo == (ca :> 0) @@ (cb :> 1)
=============================================================================
