------------------------------ MODULE Mailbox -------------------------------
(***************************************************************************)
(* What an interprocessor queue promises, and what Sched takes it to be: a *)
(* list for each processor, to which others append and from which the      *)
(* processor itself takes the first.                                       *)
(***************************************************************************)
EXTENDS Naturals, Sequences

CONSTANTS
  Puns,    \* the processors
  Procs,   \* the processes that are posted
  Place,   \* Place[p]: the processor p is posted to
  Cap      \* entries a box holds

VARIABLE box    \* box[u]: the processes posted to u and not yet taken

Init == box = [u \in Puns |-> << >>]

Post(p) ==
  /\ Len(box[Place[p]]) < Cap
  /\ box' = [box EXCEPT ![Place[p]] = Append(@, p)]

Take(u) ==
  /\ box[u] # << >>
  /\ box' = [box EXCEPT ![u] = Tail(@)]

Next == (\E p \in Procs : Post(p)) \/ (\E u \in Puns : Take(u))

Spec == Init /\ [][Next]_box
=============================================================================
