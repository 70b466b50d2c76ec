----------------------------- MODULE MCDevAgent -----------------------------
(* Instances of DevAgent for TLC: one agent, few of its run modes.          *)
EXTENDS DevAgent
=============================================================================
