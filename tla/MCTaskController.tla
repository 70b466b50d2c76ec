-------------------------- MODULE MCTaskController --------------------------
(* Small instances of TaskController for TLC: the tasks are model values. *)
EXTENDS TaskController

CONSTANTS n1, n2, n3, p1, p2
=============================================================================
