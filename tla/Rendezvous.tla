----------------------------- MODULE Rendezvous -----------------------------
(***************************************************************************)
(* What a channel promises: its writer and its reader meet.  A datum goes  *)
(* from one to the other in a single step that needs both, and neither     *)
(* out nor in returns before that step.                                    *)
(***************************************************************************)
CONSTANTS
  Channels,
  Values,    \* what is sent
  NULL       \* no value

VARIABLES
  offer,     \* offer[c]: the writer, "idle", "waiting" in out, or "done"
  demand,    \* demand[c]: the reader, likewise
  data,      \* data[c]: what the writer sends while it is in out
  got        \* got[c]: what the reader has got when it is "done"

vars == <<offer, demand, data, got>>

Init ==
  /\ offer = [c \in Channels |-> "idle"]
  /\ demand = [c \in Channels |-> "idle"]
  /\ data = [c \in Channels |-> NULL]
  /\ got = [c \in Channels |-> NULL]

StartOut(c) ==
  /\ offer[c] = "idle"
  /\ offer' = [offer EXCEPT ![c] = "waiting"]
  /\ \E v \in Values : data' = [data EXCEPT ![c] = v]
  /\ UNCHANGED <<demand, got>>

StartIn(c) ==
  /\ demand[c] = "idle"
  /\ demand' = [demand EXCEPT ![c] = "waiting"]
  /\ UNCHANGED <<offer, data, got>>

Meet(c) ==
  /\ offer[c] = "waiting" /\ demand[c] = "waiting"
  /\ offer' = [offer EXCEPT ![c] = "done"]
  /\ demand' = [demand EXCEPT ![c] = "done"]
  /\ got' = [got EXCEPT ![c] = data[c]]
  /\ UNCHANGED data

EndOut(c) ==
  /\ offer[c] = "done"
  /\ offer' = [offer EXCEPT ![c] = "idle"]
  /\ data' = [data EXCEPT ![c] = NULL]
  /\ UNCHANGED <<demand, got>>

EndIn(c) ==
  /\ demand[c] = "done"
  /\ demand' = [demand EXCEPT ![c] = "idle"]
  /\ got' = [got EXCEPT ![c] = NULL]
  /\ UNCHANGED <<offer, data>>

\* A reader that only tries gives up.
Withdraw(c) ==
  /\ demand[c] = "waiting"
  /\ demand' = [demand EXCEPT ![c] = "idle"]
  /\ UNCHANGED <<offer, data, got>>

Next ==
  \E c \in Channels :
    \/ StartOut(c) \/ StartIn(c) \/ Meet(c)
    \/ EndOut(c) \/ EndIn(c) \/ Withdraw(c)

Spec == Init /\ [][Next]_vars
=============================================================================
