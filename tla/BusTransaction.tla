--------------------------- MODULE BusTransaction ---------------------------
(***************************************************************************)
(* What a bus promises the streams of its agents: it carries out one       *)
(* transaction at a time; a transaction gets one result, complete or       *)
(* refuse, which is final; the result is returned to the agent that holds  *)
(* the bus before the next transaction begins; and no transaction stays on *)
(* the bus for ever.                                                       *)
(***************************************************************************)
EXTENDS Naturals

CONSTANTS N, Idle
Agents == 1..N

VARIABLES
  holder,  \* the agent whose transaction is on the bus, or Idle
  result   \* "none" until the transaction is over

vars == <<holder, result>>

Init == holder = Idle /\ result = "none"

\* The bus takes the request of an agent.
Begin(a) ==
  /\ holder = Idle
  /\ holder' = a /\ result' = "none"

\* The transaction gets its result.
Finish(r) ==
  /\ holder # Idle /\ result = "none"
  /\ result' = r /\ holder' = holder

\* The agent is told, and the bus is free.
Return ==
  /\ holder # Idle /\ result # "none"
  /\ holder' = Idle /\ result' = "none"

Next ==
  \/ \E a \in Agents : Begin(a)
  \/ \E r \in {"complete", "refuse"} : Finish(r)
  \/ Return

Safety == Init /\ [][Next]_vars

Spec ==
  /\ Safety
  /\ WF_vars(\E r \in {"complete", "refuse"} : Finish(r))
  /\ WF_vars(Return)
=============================================================================
