------------------------------ MODULE MCCanBus ------------------------------
(* Small instances of CanBus for TLC. *)
EXTENDS CanBus, TLC

\* Every agent is a board of its own.  What a board mate adds, a gate that is
\* shut by the request of another agent, Withdraw does at any moment.
OwnBoards == [a \in 1..N |-> a]
=============================================================================
