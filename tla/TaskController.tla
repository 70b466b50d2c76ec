--------------------------- MODULE TaskController ---------------------------
(***************************************************************************)
(* The task controller of core/robosd_stateflow: `controller' runs one     *)
(* task at a time, a `node' or a `process', and switches to another one    *)
(* when the running task says that it has stopped.                         *)
(*                                                                         *)
(* run() of a task is one long fall-through switch: it polls the do-       *)
(* callbacks of its phases in order until one of them answers `wait'.  A   *)
(* run is therefore described by the phase that waits, or "none".          *)
(*                                                                         *)
(* Everything is called from one thread.  A callback may call the          *)
(* controller back (switchto, stop, terminate), as the modes of the device *)
(* agents do; at most one such call per run is modelled.                   *)
(***************************************************************************)
EXTENDS Naturals

CONSTANTS
  Nodes, Processes,  \* the tasks, by kind
  NoTask,            \* the null pointer
  LeaveWaits,        \* the nodes whose doLeave() may answer `wait'
  Repeating          \* the processes whose onFinish() may answer `go'

ASSUME TasksAssumption ==
  /\ NoTask \notin Nodes \cup Processes
  /\ Nodes \cap Processes = {}
  /\ LeaveWaits \subseteq Nodes
  /\ Repeating \subseteq Processes

Tasks == Nodes \cup Processes

NodeStates == {"stopped", "entered", "execute", "leaved"}
ProcessStates == {"stopped", "prepare", "startup", "execute", "shutdown", "relax"}

\* The order in which process::run polls its phases.
Rank(s) == CASE s = "prepare" -> 1 [] s = "startup" -> 2 [] s = "execute" -> 3
             [] s = "shutdown" -> 4 [] s = "relax" -> 5 [] OTHER -> 6

VARIABLE ctl  \* the controller: selected_, runned_, and command_ and state_ of each task

vars == ctl

Controllers == [selected : Tasks \cup {NoTask}, runned : Tasks \cup {NoTask},
                cmd : [Tasks -> {"start", "stop"}],
                st : [Tasks -> NodeStates \cup ProcessStates]]

TypeOK ==
  /\ ctl \in Controllers
  /\ \A n \in Nodes : ctl.st[n] \in NodeStates
  /\ \A p \in Processes : ctl.st[p] \in ProcessStates

\* command_ is not initialised: whatever was in memory.
Init ==
  ctl \in [selected : {NoTask}, runned : {NoTask},
           cmd : [Tasks -> {"start", "stop"}], st : [Tasks -> {"stopped"}]]

-----------------------------------------------------------------------------
(* The controller's methods, as functions of its state. *)

Command(c, t, command) == IF t = NoTask THEN c ELSE [c EXCEPT !.cmd[t] = command]

\* Mutant: the running task goes on when another one is selected.
SwitchedToKeepsRunning(c, t) ==
  IF c.selected = NoTask /\ c.runned = t THEN Command(c, t, "start")
                                         ELSE [c EXCEPT !.selected = t]

\* switchto: the running task is started again, or it is stopped and the other
\* one remembered.
SwitchedTo(c, t) ==
  IF c.selected = NoTask /\ c.runned = t
  THEN Command(c, t, "start")
  ELSE [Command(c, c.runned, "stop") EXCEPT !.selected = t]

Stopped(c) == [Command(c, c.runned, "stop") EXCEPT !.selected = NoTask]

\* Mutant: the task that is terminated keeps its state.
TerminatedKeepsState(c) ==
  [Command(c, c.runned, "stop") EXCEPT !.selected = NoTask, !.runned = NoTask]

Terminated(c) ==
  IF c.runned = NoTask THEN [c EXCEPT !.selected = NoTask]
  ELSE [c EXCEPT !.selected = NoTask, !.runned = NoTask,
                 !.cmd[c.runned] = "stop", !.st[c.runned] = "stopped"]

\* Mutant: the task taken is not started.
TakenNotStarted(c) ==
  IF c.runned = NoTask /\ c.selected # NoTask
  THEN [c EXCEPT !.runned = c.selected, !.selected = NoTask] ELSE c

\* The first half of run(): a task is taken when none is running.
Taken(c) ==
  IF c.runned = NoTask /\ c.selected # NoTask
  THEN [Command(c, c.selected, "start") EXCEPT !.runned = c.selected, !.selected = NoTask]
  ELSE c

-----------------------------------------------------------------------------
(* node::run and process::run: the state after a run in which phase w waits, *)
(* and whether run() reported that the task has stopped.                     *)

NodeWaits(c, n) ==
  LET leaving == IF n \in LeaveWaits THEN {"leaved", "none"} ELSE {"none"} IN
  CASE c.cmd[n] = "start" /\ c.st[n] \in {"stopped", "entered"} -> {"entered", "none"}
    [] c.st[n] = "leaved" \/ (c.cmd[n] = "stop" /\ c.st[n] # "stopped") -> leaving
    [] OTHER -> {"none"}

NodeRun(c, n, w) ==
  LET to == IF w # "none" THEN w
            ELSE IF c.cmd[n] = "start" /\ c.st[n] # "leaved" THEN "execute" ELSE "stopped"
  IN [c EXCEPT !.st[n] = to]

\* Mutant: a node reports the end of a run it was told to go on with.
NodeOverAnyway(c, n, w) == c.st[n] # "stopped" /\ w = "none"

NodeOver(c, n, w) == c.cmd[n] = "stop" /\ c.st[n] # "stopped" /\ w = "none"

\* The first phase a run polls.
FirstPhase(c, p) ==
  CASE c.st[p] = "stopped" -> "prepare"
    [] c.cmd[p] = "stop" /\ Rank(c.st[p]) < 4 -> "shutdown"
    [] OTHER -> c.st[p]

ProcessWaits(c, p) ==
  IF c.cmd[p] = "stop" /\ c.st[p] = "stopped" THEN {"none"}
  ELSE {w \in ProcessStates \ {"stopped"} : Rank(w) >= Rank(FirstPhase(c, p))} \cup {"none"}

\* doExecute() reported success: the process stops itself and goes on.
Executed(c, p, w) ==
  c.cmd[p] = "start" /\ Rank(FirstPhase(c, p)) <= 3 /\ Rank(w) > 3

\* The answers of onFinish().
Finishes(p) == IF p \in Repeating THEN {"no", "go"} ELSE {"no"}

\* When doShutdown() waits in the run that ended the execution, state_ is still
\* `execute'; repeat is the answer of onFinish(), used by a stopping process.
ProcessRun(c, p, w, repeat) ==
  LET to == CASE w = "none" -> "stopped"
              [] w = "shutdown" /\ Executed(c, p, w) -> "execute"
              [] OTHER -> w
      again == c.cmd[p] = "stop" /\ c.st[p] # "stopped" /\ w = "none" /\ repeat = "go"
      command == IF Executed(c, p, w) THEN "stop" ELSE IF again THEN "start" ELSE c.cmd[p]
  IN [c EXCEPT !.st[p] = to, !.cmd[p] = command]

ProcessOver(c, p, w, repeat) ==
  c.cmd[p] = "stop" /\ c.st[p] # "stopped" /\ w = "none" /\ repeat = "no"

-----------------------------------------------------------------------------
(* What a callback asks of the controller while it runs. *)

\* terminate() only from a do-callback that ends the run: doExecute(), or a
\* doEnter() that waits.
Asked(c, n) ==
  {c} \cup {SwitchedTo(c, t) : t \in Tasks} \cup {Stopped(c)}
      \cup (IF c.st[n] \in {"entered", "execute"} THEN {Terminated(c)} ELSE {})

\* A process may stop itself in a doExecute() that waits.
AskedByProcess(c, p) ==
  {c} \cup (IF c.st[p] = "execute" THEN {Command(c, p, "stop")} ELSE {})

\* The second half of run(): a task that reported its end is let go.
Released(c, over) == IF over THEN [c EXCEPT !.runned = NoTask] ELSE c

RunNode(n, w) ==
  LET c == Taken(ctl) IN
  /\ c.runned = n
  /\ w \in NodeWaits(c, n)
  /\ \E asked \in Asked(NodeRun(c, n, w), n) :
       ctl' = Released(asked, NodeOver(c, n, w))

RunProcess(p, w, repeat) ==
  LET c == Taken(ctl) IN
  /\ c.runned = p
  /\ w \in ProcessWaits(c, p)
  /\ repeat \in Finishes(p)
  /\ \E asked \in AskedByProcess(ProcessRun(c, p, w, repeat), p) :
       ctl' = Released(asked, ProcessOver(c, p, w, repeat))

SwitchTo(t) == ctl' = SwitchedTo(ctl, t)
Stop == ctl' = Stopped(ctl)
Terminate == ctl' = Terminated(ctl)

Next ==
  \/ \E n \in Nodes, w \in NodeStates \cup {"none"} : RunNode(n, w)
  \/ \E p \in Processes, w \in ProcessStates \cup {"none"}, r \in {"no", "go"} : RunProcess(p, w, r)
  \/ \E t \in Tasks : SwitchTo(t)
  \/ Stop \/ Terminate

Spec == Init /\ [][Next]_vars

\* run() is called for ever, and no phase of a task waits for ever.  A run in
\* which no callback asks for anything is enough.
QuietNode(n) ==
  LET c == Taken(ctl) IN
  /\ c.runned = n /\ "none" \in NodeWaits(c, n)
  /\ ctl' = Released(NodeRun(c, n, "none"), NodeOver(c, n, "none"))

QuietProcess(p, repeat) ==
  LET c == Taken(ctl) IN
  /\ c.runned = p /\ "none" \in ProcessWaits(c, p)
  /\ ctl' = Released(ProcessRun(c, p, "none", repeat), ProcessOver(c, p, "none", repeat))

Fairness ==
  /\ \A n \in Nodes : SF_vars(QuietNode(n))
  /\ \A p \in Processes : SF_vars(\E r \in Finishes(p) : QuietProcess(p, r))

FairSpec == Spec /\ Fairness

-----------------------------------------------------------------------------
(* Properties. *)

\* Only the running task is active: every other task has been left, so two
\* tasks never drive the same machine at once.
OnlyOneActive == \A t \in Tasks : ctl.st[t] # "stopped" => t = ctl.runned

\* While another task waits to be run, the running one has been told to stop; a
\* process that repeats itself takes that back.
PendingStops ==
  ctl.selected # NoTask /\ ctl.runned \notin {NoTask} \cup Repeating =>
    ctl.cmd[ctl.runned] = "stop"

\* Tasks change hands through the stopped state only: the task that loses the
\* controller has been left, and none gets it from another directly.
HandOver ==
  [][ctl'.runned # ctl.runned =>
       /\ ctl.runned = NoTask \/ ctl'.runned = NoTask
       /\ ctl.runned # NoTask => ctl'.st[ctl.runned] = "stopped"]_vars

\* A task selected while a node runs that leaves at once, as the modes of the
\* device agents do, is run, unless another request replaces it.
NodesYield ==
  \A t \in Tasks :
    ctl.selected = t /\ ctl.runned \in (Nodes \ LeaveWaits) \cup {NoTask}
      ~> (ctl.runned = t \/ ctl.selected # t)

\* A selected task is run, unless another request replaces it.
SelectedRuns ==
  \A t \in Tasks : ctl.selected = t ~> (ctl.runned = t \/ ctl.selected # t)
=============================================================================
