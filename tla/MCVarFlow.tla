------------------------------- MODULE MCVarFlow -------------------------------
\* A device with a few variables for TLC.
EXTENDS VarFlow

\* Every value is as long as a descriptor: the length tells no answers apart.
TwoBytes == [n \in Names |-> 2]
===============================================================================
