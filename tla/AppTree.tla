------------------------------- MODULE AppTree -------------------------------
(***************************************************************************)
(* The life of an application, core/robosd_app: a tree of nodes under the  *)
(* singleton `machine', driven by machine::frontend_loop and by a program  *)
(* that calls begin, start, the loop until terminated(), and finish, as    *)
(* tools/flow2serial++.cpp does.  A stop may come from another thread.     *)
(*                                                                         *)
(* Each method walks the tree, children before their owner, and calls a    *)
(* do-callback at every node it reaches.  A node keeps its children in one *)
(* list per state, so st[n] also says in which list of its owner n is; the *)
(* one exception is "loading": in stopped_ already, actual_state() clean.  *)
(* The order of the children in a list depends on its history: every order *)
(* is allowed.  The backend thread only reads the state and is left out.   *)
(***************************************************************************)

CONSTANTS
  Nodes, Root,  \* the nodes of the tree; the root is the machine
  Parent,       \* owner_ of every other node
  NoNode,       \* no node
  EarlyStop     \* a stop may be asked for while the application starts up

\* A is closed under owner_.
UpClosed(A) == \A n \in A \ {Root} : Parent[n] \in A

\* n and the nodes above it: what every closed set with n in it contains.
Upward(n) == {m \in Nodes : \A A \in SUBSET Nodes : n \in A /\ UpClosed(A) => m \in A}

ASSUME TreeAssumption ==
  /\ Root \in Nodes
  /\ Parent \in [Nodes \ {Root} -> Nodes]
  /\ \A n \in Nodes : Root \in Upward(n)
  /\ NoNode \notin Nodes
  /\ EarlyStop \in BOOLEAN

States == {"panic", "clean", "loading", "stopped", "startup", "execute", "shutdown"}

VARIABLES
  st,          \* actual_state_ and the list of the owner, of every node
  phase,       \* how far the program has come
  req,         \* req_state_
  terminated,  \* terminated_
  system       \* the system is started

vars == <<st, phase, req, terminated, system>>

TypeOK ==
  /\ st \in [Nodes -> States]
  /\ phase \in {"begin", "loaded", "running", "failed", "finished"}
  /\ req \in {"start", "stop"}
  /\ terminated \in BOOLEAN
  /\ system \in BOOLEAN

Init ==
  /\ st = [n \in Nodes |-> "clean"]
  /\ phase = "begin"
  /\ req = "stop"
  /\ terminated = TRUE
  /\ system = FALSE

-----------------------------------------------------------------------------
(* Walks.  A walk that is broken off at node f has done some whole subtrees *)
(* and reached, but not done, f and the nodes above it.                     *)

Children(n) == {c \in Nodes \ {Root} : Parent[c] = n}

\* D is what a walk over all the nodes has done when f fails.
BrokenOff(D, f) ==
  /\ D \subseteq Nodes \ Upward(f)
  /\ \A n \in D : Children(n) \subseteq D /\ Parent[n] \in D \cup Upward(f)

\* Mutant: a node is asked without waiting for its children.
CompletesAlone(C, s) == C \subseteq {n \in Nodes : st[n] = s}

\* C can complete in one walk over the nodes in state s: a node is asked only
\* when none of its children is left in that state.
Completes(C, s) ==
  /\ C \subseteq {n \in Nodes : st[n] = s}
  /\ \A n \in C : \A c \in Children(n) : st[c] = s => c \in C

\* The machine's own callbacks always answer `complete'.
MachineAnswers(C, s) ==
  (\A c \in Children(Root) : st[c] = s => c \in C) => Root \in C

\* p answers `panic' once its children are through: with it every node above it
\* panics, and the walk ends.
Panics(C, p, s) ==
  /\ p \in Nodes \ (C \cup {Root}) /\ st[p] = s
  /\ \A c \in Children(p) : st[c] = s => c \in C

Panicked(t, p) == [n \in Nodes |-> IF n \in Upward(p) THEN "panic" ELSE t[n]]

\* Mutant: a walk does not go below the modules.
ReachedModules(S) == {n \in Nodes : n = Root \/ (Parent[n] = Root /\ st[n] \in S)}

\* The nodes that a walk through the children in one of the states S reaches.
Reached(S) == {n \in Nodes : \A m \in Upward(n) \ {Root} : st[m] \in S}

-----------------------------------------------------------------------------
(* The program. *)

\* machine::begin
Begin ==
  /\ phase = "begin"
  /\ st' = [n \in Nodes |-> "stopped"]
  /\ phase' = "loaded"
  /\ terminated' = FALSE
  /\ UNCHANGED <<req, system>>

\* machine::begin when do_load() of node f fails: the nodes above f are in
\* stopped_ already, with their state still clean.  do_load() of the machine
\* resets terminated_ last.
BeginFails(f, D) ==
  /\ phase = "begin"
  /\ D \cap Upward(f) = {} /\ D \cap Children(f) = {}
  /\ \A n \in D : Children(n) \subseteq D /\ Parent[n] \in D \cup (Upward(f) \ {f})
  /\ st' = [n \in Nodes |-> IF n \in D THEN "stopped"
                            ELSE IF n \in Upward(f) \ {f} THEN "loading" ELSE "clean"]
  /\ phase' = "failed"
  /\ terminated' = (f = Root)
  /\ UNCHANGED <<req, system>>

\* machine::start, once by the program, then perhaps again by any thread.
RequestStart ==
  /\ phase \in {"loaded", "running"} /\ ~terminated
  /\ phase' = "running" /\ req' = "start" /\ system' = TRUE
  /\ UNCHANGED <<st, terminated>>

\* machine::start when system::start() fails; the program gives up.
RequestStartFails ==
  /\ phase = "loaded"
  /\ phase' = "failed"
  /\ UNCHANGED <<st, req, terminated, system>>

\* machine::stop, from any thread.
RequestStop ==
  /\ phase \in {"loaded", "running"} /\ ~terminated
  /\ EarlyStop \/ st[Root] # "startup"
  /\ req' = "stop"
  /\ UNCHANGED <<st, phase, terminated, system>>

\* machine::finish: clean() reaches the nodes in stopped_ only; the modules are
\* reset, cut off and unloaded whatever their state.
Finish ==
  /\ phase = "failed" \/ (phase = "running" /\ terminated)
  /\ st' = [n \in Nodes |-> IF n \in Reached({"stopped", "loading"}) \cup Children(Root)
                            THEN "clean" ELSE st[n]]
  /\ phase' = "finished" /\ req' = "stop" /\ system' = FALSE
  /\ UNCHANGED terminated

Ended == phase = "finished" /\ UNCHANGED vars

-----------------------------------------------------------------------------
(* machine::frontend_loop: one step of frontend_machine_. *)

\* Mutant: < for <= in the comparison with state::stopped.
TurnStoppedGoesOn(t) ==
  /\ phase = "running" /\ ~terminated
  /\ st' = t
  /\ terminated' = (t[Root] \in {"panic", "clean"})
  /\ UNCHANGED <<phase, req>>

\* Mutant: = for <= in that comparison.
TurnPanicGoesOn(t) ==
  /\ phase = "running" /\ ~terminated
  /\ st' = t
  /\ terminated' = (t[Root] = "stopped")
  /\ UNCHANGED <<phase, req>>

Turn(t) ==
  /\ phase = "running" /\ ~terminated
  /\ st' = t
  /\ terminated' = (t[Root] \in {"panic", "clean", "stopped"})
  /\ UNCHANGED <<phase, req>>

\* Nothing was asked for.
TurnIdle == st[Root] = "stopped" /\ req = "stop" /\ Turn(st) /\ UNCHANGED system

\* node::start.  All the lists it checks are empty: it runs once.
TurnStart ==
  /\ st[Root] = "stopped" /\ req = "start"
  /\ Turn([n \in Nodes |-> "startup"])
  /\ UNCHANGED system

\* node::start when do_start() of f fails: what was started stays so.
TurnStartFails(f, D) ==
  /\ st[Root] = "stopped" /\ req = "start"
  /\ f # Root /\ Children(f) \subseteq D /\ BrokenOff(D, f)
  /\ Turn([n \in Nodes |-> IF n \in D THEN "startup" ELSE st[n]])
  /\ UNCHANGED system

\* node::startup, in which the nodes C complete and p, if any, panics.
TurnStartup(C, p) ==
  /\ st[Root] = "startup" /\ req = "start"
  /\ Completes(C, "startup")
  /\ LET t == [n \in Nodes |-> IF n \in C THEN "execute" ELSE st[n]] IN
     \/ p = NoNode /\ MachineAnswers(C, "startup") /\ Turn(t)
     \/ Panics(C, p, "startup") /\ Turn(Panicked(t, p))
  /\ UNCHANGED system

\* Mutant: a stop passes over the children that are executing.
StoppedAlone == [n \in Nodes |-> IF n = Root THEN "shutdown" ELSE st[n]]

\* node::stop goes through the children in active_ only.
Stopped == [n \in Nodes |-> IF n = Root \/ n \in Reached({"execute"}) THEN "shutdown" ELSE st[n]]

TurnStop ==
  /\ st[Root] \in {"startup", "execute"} /\ req = "stop"
  /\ Turn(Stopped)
  /\ UNCHANGED system

\* Mutant: the system is stopped as soon as the shutdown begins.
TurnShutdownSystemFirst(C, p) ==
  /\ st[Root] = "shutdown"
  /\ Completes(C, "shutdown")
  /\ p = NoNode /\ MachineAnswers(C, "shutdown")
  /\ Turn([n \in Nodes |-> IF n \in C THEN "stopped" ELSE st[n]])
  /\ system' = FALSE

\* node::shutdown; do_shutdown() of the machine stops the system.
TurnShutdown(C, p) ==
  /\ st[Root] = "shutdown"
  /\ Completes(C, "shutdown")
  /\ LET t == [n \in Nodes |-> IF n \in C THEN "stopped" ELSE st[n]] IN
     \/ p = NoNode /\ MachineAnswers(C, "shutdown") /\ Turn(t)
     \/ Panics(C, p, "shutdown") /\ Turn(Panicked(t, p))
  /\ system' = (Root \notin C)

Loop ==
  \/ TurnIdle \/ TurnStart \/ TurnStop
  \/ \E f \in Nodes, D \in SUBSET Nodes : TurnStartFails(f, D)
  \/ \E C \in SUBSET Nodes, p \in Nodes \cup {NoNode} : TurnStartup(C, p) \/ TurnShutdown(C, p)

Next ==
  \/ Begin \/ RequestStart \/ RequestStartFails \/ RequestStop \/ Finish \/ Ended
  \/ \E f \in Nodes, D \in SUBSET Nodes : BeginFails(f, D)
  \/ Loop

Spec == Init /\ [][Next]_vars

\* The program goes on, and no node answers `resume' for ever.
Fairness ==
  /\ WF_vars(Begin) /\ WF_vars(phase = "loaded" /\ RequestStart) /\ WF_vars(Finish)
  /\ WF_vars(Loop)
  /\ \A n \in Nodes :
       /\ SF_vars(\E C \in SUBSET Nodes : n \in C /\ TurnStartup(C, NoNode))
       /\ SF_vars(\E C \in SUBSET Nodes : n \in C /\ TurnShutdown(C, NoNode))

FairSpec == Spec /\ Fairness

-----------------------------------------------------------------------------
(* Properties. *)

Running == {"startup", "execute", "shutdown"}

\* A node executes only on top of children that all execute: do_startup() is
\* asked bottom up, however many walks that takes.
SubtreeRuns ==
  \A n \in Nodes \ {Root} : st[Parent[n]] = "execute" => st[n] = "execute"

\* No node is still up when its owner has been stopped: do_shutdown() is asked
\* bottom up.
NoneOutlivesOwner ==
  phase = "running" => \A n \in Nodes \ {Root} :
    st[n] \in {"execute", "shutdown"} => st[Parent[n]] \in Running \cup {"panic"}

\* When the machine has shut down, and the program may unload the libraries the
\* nodes come from, all of them have been stopped.
AllStopped ==
  phase = "running" /\ st[Root] = "stopped" /\ ~system => \A n \in Nodes : st[n] = "stopped"

\* The system runs as long as any node needs it.
SystemOutlives == phase = "running" /\ (\E n \in Nodes : st[n] \in Running) => system

\* The machine does not execute before the last node of the tree does.
WholeTreeRuns == st[Root] = "execute" => \A n \in Nodes : st[n] = "execute"

\* Where a node may come from in one step of a running application.
ComesFrom(n, s) ==
  CASE s = "startup"  -> {"stopped"}
    [] s = "execute"  -> {"startup"}
    [] s = "shutdown" -> {"execute"} \cup IF n = Root THEN {"startup"} ELSE {}
    [] s = "stopped"  -> {"shutdown"}
    [] s = "panic"    -> {"startup", "shutdown"}
    [] OTHER          -> {}

\* However walks are broken off and resumed, every node is called in the order
\* of its life: started when stopped, stopped when it executes, never cut short
\* by the panic of another while it executes.  Only the machine itself is
\* stopped while it starts up.
LivesInOrder ==
  [][phase = "running" /\ phase' = "running" =>
       \A n \in Nodes : st'[n] # st[n] => st[n] \in ComesFrom(n, st'[n])]_vars

\* A stop that is asked for ends the application, whatever it was doing, unless
\* a start takes it back.
StopEnds == phase = "running" /\ req = "stop" ~> terminated \/ req = "start"

\* An application that is started comes up, or it ends.
StartSettles == phase = "running" ~> st[Root] = "execute" \/ terminated
=============================================================================
