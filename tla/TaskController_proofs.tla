------------------------ MODULE TaskController_proofs ------------------------
(***************************************************************************)
(* Proofs about the task controller, for any number of nodes and           *)
(* processes.                                                              *)
(*                                                                         *)
(* Every method is a function of the controller, so the work is one lemma  *)
(* per method: it keeps the type and keeps every task but the running one  *)
(* stopped.  An action is a composition of them.                           *)
(***************************************************************************)
EXTENDS TaskController, TLAPS

\* The type of a controller: a node has a node's states, a process a process's.
Typed(c) ==
  /\ c \in Controllers
  /\ \A n \in Nodes : c.st[n] \in NodeStates
  /\ \A p \in Processes : c.st[p] \in ProcessStates

\* Every task but the running one is stopped.
Alone(c) == \A t \in Tasks : c.st[t] # "stopped" => t = c.runned

Good(c) == Typed(c) /\ Alone(c)

-----------------------------------------------------------------------------
(* The methods. *)

\* Giving a task a command changes neither the states nor who runs.
LEMMA CommandGood ==
  ASSUME NEW c, Good(c), NEW t \in Tasks \cup {NoTask}, NEW k \in {"start", "stop"}
  PROVE  /\ Good(Command(c, t, k))
         /\ Command(c, t, k).st = c.st
         /\ Command(c, t, k).runned = c.runned
         /\ Command(c, t, k).selected = c.selected
BY TasksAssumption DEF Good, Typed, Alone, Controllers, Command, Tasks

\* switchto changes neither the states nor who runs.
LEMMA SwitchedToGood ==
  ASSUME NEW c, Good(c), NEW t \in Tasks
  PROVE  /\ Good(SwitchedTo(c, t))
         /\ SwitchedTo(c, t).st = c.st
         /\ SwitchedTo(c, t).runned = c.runned
BY CommandGood, TasksAssumption DEF Good, Typed, Alone, Controllers, Command, SwitchedTo, Tasks

\* stop changes neither the states nor who runs.
LEMMA StoppedGood ==
  ASSUME NEW c, Good(c)
  PROVE  /\ Good(Stopped(c))
         /\ Stopped(c).st = c.st
         /\ Stopped(c).runned = c.runned
BY CommandGood, TasksAssumption DEF Good, Typed, Alone, Controllers, Command, Stopped, Tasks

\* terminate leaves every task stopped and none running.
LEMMA TerminatedGood ==
  ASSUME NEW c, Good(c)
  PROVE  /\ Good(Terminated(c))
         /\ Terminated(c).runned = NoTask
         /\ c.runned # NoTask => Terminated(c).st[c.runned] = "stopped"
BY TasksAssumption
   DEF Good, Typed, Alone, Controllers, Terminated, Tasks, NodeStates, ProcessStates

\* Only the task that gets the controller may become active.
LEMMA TakenGood ==
  ASSUME NEW c, Good(c)
  PROVE  /\ Good(Taken(c))
         /\ c.runned # NoTask => Taken(c) = c
         /\ Taken(c).st = c.st
<1>1. CASE c.runned = NoTask /\ c.selected # NoTask
  <2> DEFINE d == Command(c, c.selected, "start")
  <2>1. c.selected \in Tasks
    BY <1>1 DEF Good, Typed, Controllers
  <2>2. Good(d) /\ d.st = c.st /\ d.runned = NoTask /\ d.selected = c.selected
    BY <1>1, <2>1, CommandGood
  <2>3. Taken(c) = [d EXCEPT !.runned = c.selected, !.selected = NoTask]
    BY <1>1 DEF Taken
  <2> HIDE DEF d
  <2>4. \A t \in Tasks : d.st[t] = "stopped"
    BY <2>2, TasksAssumption DEF Good, Alone, Tasks
  <2>5. Typed(Taken(c)) /\ Taken(c).st = d.st
    BY <2>1, <2>2, <2>3 DEF Good, Typed, Controllers
  <2>6. QED
    BY <1>1, <2>2, <2>4, <2>5 DEF Good, Alone
<1>2. CASE ~(c.runned = NoTask /\ c.selected # NoTask)
  BY <1>2 DEF Taken
<1>3. QED
  BY <1>1, <1>2

\* A task that reported its end is stopped, so it can be let go.
LEMMA ReleasedGood ==
  ASSUME NEW c, Good(c), NEW over \in BOOLEAN,
         over /\ c.runned # NoTask => c.st[c.runned] = "stopped"
  PROVE  Good(Released(c, over))
BY TasksAssumption DEF Good, Typed, Alone, Controllers, Released, Tasks

\* A run of the running node keeps the others stopped, and one that ends it
\* leaves it stopped.
LEMMA NodeRunGood ==
  ASSUME NEW c, Good(c), NEW n \in Nodes, c.runned = n, NEW w \in NodeWaits(c, n)
  PROVE  /\ Good(NodeRun(c, n, w))
         /\ NodeRun(c, n, w).runned = n
         /\ NodeOver(c, n, w) \in BOOLEAN
         /\ NodeOver(c, n, w) => NodeRun(c, n, w).st[n] = "stopped"
<1>1. w \in {"entered", "leaved", "none"}
  BY DEF NodeWaits, Good, Typed, Controllers, NodeStates, Tasks
<1>2. QED
  BY <1>1, TasksAssumption
     DEF Good, Typed, Alone, Controllers, NodeRun, NodeOver, NodeStates, Tasks

\* The same for a process.
LEMMA ProcessRunGood ==
  ASSUME NEW c, Good(c), NEW p \in Processes, c.runned = p, NEW w \in ProcessWaits(c, p),
         NEW r
  PROVE  /\ Good(ProcessRun(c, p, w, r))
         /\ ProcessRun(c, p, w, r).runned = p
         /\ ProcessOver(c, p, w, r) \in BOOLEAN
         /\ ProcessOver(c, p, w, r) => ProcessRun(c, p, w, r).st[p] = "stopped"
<1>1. w \in (ProcessStates \ {"stopped"}) \cup {"none"}
  BY DEF ProcessWaits
<1> DEFINE to == CASE w = "none" -> "stopped"
                   [] w = "shutdown" /\ Executed(c, p, w) -> "execute"
                   [] OTHER -> w
           again == c.cmd[p] = "stop" /\ c.st[p] # "stopped" /\ w = "none" /\ r = "go"
           command == IF Executed(c, p, w) THEN "stop"
                      ELSE IF again THEN "start" ELSE c.cmd[p]
<1>2. to \in ProcessStates /\ (w = "none" => to = "stopped")
  BY <1>1 DEF ProcessStates
<1>3. command \in {"start", "stop"}
  BY DEF Good, Typed, Controllers, Tasks
<1>4. ProcessRun(c, p, w, r) = [c EXCEPT !.st[p] = to, !.cmd[p] = command]
  BY DEF ProcessRun
<1> HIDE DEF to, command
<1>5. p \in Tasks /\ p \notin Nodes
  BY TasksAssumption DEF Tasks
<1>6. Typed(ProcessRun(c, p, w, r)) /\ ProcessRun(c, p, w, r).runned = p
  <2>1. /\ c.st \in [Tasks -> NodeStates \cup ProcessStates]
        /\ c.cmd \in [Tasks -> {"start", "stop"}]
        /\ \A q \in Processes : c.st[q] \in ProcessStates
        /\ \A n \in Nodes : c.st[n] \in NodeStates
    BY DEF Good, Typed, Controllers
  <2>2. /\ [c.st EXCEPT ![p] = to] \in [Tasks -> NodeStates \cup ProcessStates]
        /\ [c.cmd EXCEPT ![p] = command] \in [Tasks -> {"start", "stop"}]
        /\ \A q \in Processes : [c.st EXCEPT ![p] = to][q] \in ProcessStates
        /\ \A n \in Nodes : [c.st EXCEPT ![p] = to][n] \in NodeStates
    BY <1>2, <1>3, <1>5, <2>1 DEF Tasks
  <2>3. /\ c \in Controllers
        /\ ProcessRun(c, p, w, r) = [c EXCEPT !.st = [c.st EXCEPT ![p] = to],
                                             !.cmd = [c.cmd EXCEPT ![p] = command]]
    BY <1>4 DEF Good, Typed, Controllers
  <2>4. QED
    BY <2>2, <2>3 DEF Typed, Controllers
<1>7. \A t \in Tasks \ {p} : ProcessRun(c, p, w, r).st[t] = c.st[t]
  BY <1>4 DEF Good, Typed, Controllers
<1>8. w = "none" => ProcessRun(c, p, w, r).st[p] = "stopped"
  BY <1>2, <1>4, <1>5 DEF Good, Typed, Controllers
<1>9. Alone(ProcessRun(c, p, w, r))
  BY <1>6, <1>7 DEF Good, Alone
<1>10. QED
  BY <1>6, <1>8, <1>9 DEF Good, ProcessOver

-----------------------------------------------------------------------------
(* The inductive invariant. *)

IInv == TypeOK /\ OnlyOneActive

LEMMA GoodIsIInv == IInv <=> Good(ctl)
BY DEF IInv, TypeOK, OnlyOneActive, Good, Typed, Alone

\* No active task before the first run.
LEMMA InitGood == Init => IInv
BY TasksAssumption
   DEF Init, IInv, TypeOK, OnlyOneActive, Controllers, Tasks, NodeStates, ProcessStates

\* What a run of a node does to the controller.
LEMMA RunNodeGood ==
  ASSUME IInv, NEW n \in Nodes, NEW w, RunNode(n, w)
  PROVE  /\ IInv'
         /\ ctl.runned \in {NoTask, n} /\ ctl'.runned \in {NoTask, n}
         /\ ctl'.runned = NoTask => ctl'.st[n] = "stopped"
<1> DEFINE c == Taken(ctl)
<1>1. Good(c) /\ c.runned = n /\ w \in NodeWaits(c, n) /\ ctl.runned \in {NoTask, n}
  BY GoodIsIInv, TakenGood DEF RunNode
<1>2. PICK a \in Asked(NodeRun(c, n, w), n) : ctl' = Released(a, NodeOver(c, n, w))
  BY DEF RunNode
<1> DEFINE d == NodeRun(c, n, w)
<1>3. Good(d) /\ d.runned = n /\ NodeOver(c, n, w) \in BOOLEAN
      /\ (NodeOver(c, n, w) => d.st[n] = "stopped")
  BY <1>1, NodeRunGood
<1> HIDE DEF c, d
<1>4. a \in Asked(d, n)
  BY <1>2 DEF d
<1>5. n \in Tasks /\ n # NoTask
  BY TasksAssumption DEF Tasks
<1>6. Good(a) /\ (\/ a.runned = n /\ a.st = d.st
                  \/ a.runned = NoTask /\ a.st[n] = "stopped")
  BY <1>3, <1>4, <1>5, SwitchedToGood, StoppedGood, TerminatedGood DEF Asked
<1>7. Good(ctl') /\ ctl'.runned \in {NoTask, n}
      /\ (ctl'.runned = NoTask => ctl'.st[n] = "stopped")
  <2>1. NodeOver(c, n, w) => a.st[n] = "stopped"
    BY <1>3, <1>6
  <2>2. NodeOver(c, n, w) /\ a.runned # NoTask => a.st[a.runned] = "stopped"
    BY <1>6, <2>1
  <2>3. Good(Released(a, NodeOver(c, n, w)))
    BY <1>3, <1>6, <2>2, ReleasedGood
  <2>4. ctl' = IF NodeOver(c, n, w) THEN [a EXCEPT !.runned = NoTask] ELSE a
    BY <1>2 DEF Released, c
  <2>5. ctl' = Released(a, NodeOver(c, n, w))
    BY <2>4 DEF Released
  <2>6. a \in Controllers
    BY <1>6 DEF Good, Typed
  <2>7. CASE NodeOver(c, n, w)
    BY <2>1, <2>3, <2>4, <2>5, <2>6, <2>7 DEF Controllers
  <2>8. CASE ~NodeOver(c, n, w)
    BY <1>5, <1>6, <2>4, <2>8
  <2>9. QED
    BY <1>3, <2>7, <2>8
<1>8. IInv'
  BY <1>7, GoodIsIInv DEF IInv, TypeOK, OnlyOneActive, Good, Typed, Alone
<1>9. QED
  BY <1>1, <1>7, <1>8

\* What a run of a process does to the controller.
LEMMA RunProcessGood ==
  ASSUME IInv, NEW p \in Processes, NEW w, NEW r, RunProcess(p, w, r)
  PROVE  /\ IInv'
         /\ ctl.runned \in {NoTask, p} /\ ctl'.runned \in {NoTask, p}
         /\ ctl'.runned = NoTask => ctl'.st[p] = "stopped"
<1> DEFINE c == Taken(ctl)
<1>1. Good(c) /\ c.runned = p /\ w \in ProcessWaits(c, p) /\ ctl.runned \in {NoTask, p}
  BY GoodIsIInv, TakenGood DEF RunProcess
<1>2. PICK a \in AskedByProcess(ProcessRun(c, p, w, r), p) :
        ctl' = Released(a, ProcessOver(c, p, w, r))
  BY DEF RunProcess
<1> DEFINE d == ProcessRun(c, p, w, r)
<1>3. Good(d) /\ d.runned = p /\ ProcessOver(c, p, w, r) \in BOOLEAN
      /\ (ProcessOver(c, p, w, r) => d.st[p] = "stopped")
  BY <1>1, ProcessRunGood
<1> HIDE DEF c, d
<1>4. p \in Tasks /\ p # NoTask
  BY TasksAssumption DEF Tasks
<1>5. Good(a) /\ a.runned = p /\ a.st = d.st
  BY <1>2, <1>3, <1>4, CommandGood DEF AskedByProcess, d
<1>6. ctl' = IF ProcessOver(c, p, w, r) THEN [a EXCEPT !.runned = NoTask] ELSE a
  BY <1>2 DEF Released, c
<1>7. Good(ctl')
  <2>1. ctl' = Released(a, ProcessOver(c, p, w, r))
    BY <1>6 DEF Released
  <2>2. ProcessOver(c, p, w, r) /\ a.runned # NoTask => a.st[a.runned] = "stopped"
    BY <1>3, <1>5
  <2>3. QED
    BY <1>3, <1>5, <2>1, <2>2, ReleasedGood
<1>8. ctl'.runned \in {NoTask, p} /\ (ctl'.runned = NoTask => ctl'.st[p] = "stopped")
  BY <1>3, <1>4, <1>5, <1>6 DEF Good, Typed, Controllers
<1>9. IInv'
  BY <1>7 DEF IInv, TypeOK, OnlyOneActive, Good, Typed, Alone
<1>10. QED
  BY <1>1, <1>8, <1>9

\* Every step keeps the invariant.
LEMMA NextGood == IInv /\ [Next]_vars => IInv'
<1> SUFFICES ASSUME IInv, [Next]_vars PROVE IInv'
  OBVIOUS
<1> USE GoodIsIInv DEF IInv, TypeOK, OnlyOneActive, Good, Typed, Alone
<1>1. CASE \E n \in Nodes, w \in NodeStates \cup {"none"} : RunNode(n, w)
  BY <1>1, RunNodeGood
<1>2. CASE \E p \in Processes, w \in ProcessStates \cup {"none"}, r \in {"no", "go"} :
             RunProcess(p, w, r)
  BY <1>2, RunProcessGood
<1>3. CASE \E t \in Tasks : SwitchTo(t)
  <2>1. PICK t \in Tasks : SwitchTo(t)
    BY <1>3
  <2>2. Good(ctl')
    BY <2>1, SwitchedToGood DEF SwitchTo
  <2>3. QED
    BY <2>2
<1>4. CASE Stop
  <2>1. Good(ctl')
    BY <1>4, StoppedGood DEF Stop
  <2>2. QED
    BY <2>1
<1>5. CASE Terminate
  <2>1. Good(ctl')
    BY <1>5, TerminatedGood DEF Terminate
  <2>2. QED
    BY <2>1
<1>6. CASE UNCHANGED vars
  BY <1>6 DEF vars
<1>7. QED
  BY <1>1, <1>2, <1>3, <1>4, <1>5, <1>6 DEF Next

\* The inductive invariant of the task controller holds always.
THEOREM Inductive == Spec => []IInv
BY InitGood, NextGood, PTL DEF Spec

\* The controller, its tasks and their states keep their types.
THEOREM TypeCorrect == Spec => []TypeOK
<1>1. IInv => TypeOK
  BY DEF IInv
<1>2. QED
  BY <1>1, Inductive, PTL

\* At most one task is active, for any set of tasks and any answers of theirs.
THEOREM OneActive == Spec => []OnlyOneActive
<1>1. IInv => OnlyOneActive
  BY DEF IInv
<1>2. QED
  BY <1>1, Inductive, PTL

-----------------------------------------------------------------------------
(* Tasks change hands through the stopped state. *)

HandedOver ==
  ctl'.runned # ctl.runned =>
    /\ ctl.runned = NoTask \/ ctl'.runned = NoTask
    /\ ctl.runned # NoTask => ctl'.st[ctl.runned] = "stopped"

LEMMA StepHandsOver == IInv /\ [Next]_vars => HandedOver
<1> SUFFICES ASSUME IInv, [Next]_vars PROVE HandedOver
  OBVIOUS
<1>1. ASSUME NEW n \in Nodes, NEW w, RunNode(n, w) PROVE HandedOver
  BY <1>1, RunNodeGood DEF HandedOver
<1>2. ASSUME NEW p \in Processes, NEW w, NEW r, RunProcess(p, w, r)
      PROVE  HandedOver
  BY <1>2, RunProcessGood DEF HandedOver
<1>3. ASSUME NEW t \in Tasks, SwitchTo(t) PROVE HandedOver
  BY <1>3, GoodIsIInv, SwitchedToGood DEF SwitchTo, HandedOver
<1>4. CASE Stop
  BY <1>4, GoodIsIInv, StoppedGood DEF Stop, HandedOver
<1>5. CASE Terminate
  BY <1>5, GoodIsIInv, TerminatedGood DEF Terminate, HandedOver
<1>6. CASE UNCHANGED vars
  BY <1>6 DEF vars, HandedOver
<1>7. QED
  BY <1>1, <1>2, <1>3, <1>4, <1>5, <1>6 DEF Next

\* A task that loses the controller has been left, and no task takes the
\* controller from another.
THEOREM HandsOver == Spec => HandOver
<1>1. IInv /\ [Next]_vars => [HandedOver]_vars
  BY StepHandsOver
<1>2. QED
  BY <1>1, Inductive, PTL DEF Spec, HandOver, HandedOver

-----------------------------------------------------------------------------
(* A selected task waits for a running one that has been told to stop. *)

Pending(c) ==
  c.selected # NoTask /\ c.runned \notin {NoTask} \cup Repeating => c.cmd[c.runned] = "stop"

\* The methods keep it; a run takes the selected task only from an idle controller.
LEMMA MethodsPending ==
  ASSUME NEW c, Good(c), Pending(c)
  PROVE  /\ \A t \in Tasks : Pending(SwitchedTo(c, t))
         /\ Pending(Stopped(c)) /\ Pending(Terminated(c)) /\ Pending(Taken(c))
         /\ \A over \in BOOLEAN : Pending(Released(c, over))
         /\ \A t \in Tasks : Pending(Command(c, t, "stop"))
<1> USE TasksAssumption DEF Good, Typed, Controllers, Pending
<1>1. ASSUME NEW t \in Tasks PROVE Pending(SwitchedTo(c, t))
  BY <1>1 DEF SwitchedTo, Command, Tasks
<1>2. Pending(Stopped(c)) /\ Pending(Terminated(c))
  BY DEF Stopped, Terminated, Command
<1>3. Pending(Taken(c))
  <2>1. CASE c.runned = NoTask /\ c.selected # NoTask
    <3>1. Taken(c).selected = NoTask
      BY <2>1 DEF Taken, Command
    <3>2. QED
      BY <3>1
  <2>2. CASE ~(c.runned = NoTask /\ c.selected # NoTask)
    BY <2>2 DEF Taken
  <2>3. QED
    BY <2>1, <2>2
<1>4. ASSUME NEW over \in BOOLEAN PROVE Pending(Released(c, over))
  BY DEF Released
<1>5. ASSUME NEW t \in Tasks PROVE Pending(Command(c, t, "stop"))
  BY DEF Command
<1>6. QED
  BY <1>1, <1>2, <1>3, <1>4, <1>5

\* A run never starts again a task that was told to stop, unless it is a process
\* that repeats itself.
LEMMA RunsPending ==
  ASSUME NEW c, Good(c), Pending(c)
  PROVE  /\ \A n \in Nodes : \A w \in NodeWaits(c, n) : Pending(NodeRun(c, n, w))
         /\ \A p \in Processes : \A r \in Finishes(p) : \A w \in ProcessWaits(c, p) :
              c.runned = p => Pending(ProcessRun(c, p, w, r))
<1>1. ASSUME NEW n \in Nodes, NEW w \in NodeWaits(c, n)
      PROVE  Pending(NodeRun(c, n, w))
  BY DEF NodeRun, Good, Typed, Controllers, Pending
<1>2. ASSUME NEW p \in Processes, NEW r \in Finishes(p), NEW w \in ProcessWaits(c, p), c.runned = p
      PROVE  Pending(ProcessRun(c, p, w, r))
  <2> DEFINE d == ProcessRun(c, p, w, r)
  <2>1. d.selected = c.selected /\ d.runned = p
    BY <1>2 DEF ProcessRun, Good, Typed, Controllers
  <2>2. CASE p \in Repeating
    BY <2>1, <2>2 DEF Pending
  <2>3. CASE p \notin Repeating
    <3>1. r # "go"
      BY <2>3 DEF Finishes
    <3>2. d.cmd = [c.cmd EXCEPT ![p] = IF Executed(c, p, w) THEN "stop" ELSE c.cmd[p]]
      BY <3>1 DEF ProcessRun, Good, Typed, Controllers
    <3>3. p \in Tasks
      BY DEF Tasks
    <3>4. d.cmd[p] = "stop" \/ d.cmd[p] = c.cmd[p]
      BY <3>2, <3>3 DEF Good, Typed, Controllers
    <3> HIDE DEF d
    <3>5. Pending(d)
      BY <1>2, <2>1, <2>3, <3>4, TasksAssumption DEF Pending, Tasks
    <3>6. QED
      BY <3>5 DEF d
  <2>4. QED
    BY <2>2, <2>3
<1>3. QED
  BY <1>1, <1>2

LEMMA NextPending == IInv /\ PendingStops /\ [Next]_vars => PendingStops'
<1> SUFFICES ASSUME IInv, PendingStops, [Next]_vars PROVE Pending(ctl')
  BY DEF PendingStops, Pending
<1>1. Good(ctl) /\ Pending(ctl)
  BY GoodIsIInv DEF PendingStops, Pending
<1>2. ASSUME NEW n \in Nodes, NEW w, RunNode(n, w) PROVE Pending(ctl')
  <2> DEFINE c == Taken(ctl)
             d == NodeRun(c, n, w)
  <2>1. Good(c) /\ Pending(c) /\ c.runned = n /\ w \in NodeWaits(c, n)
    BY <1>1, <1>2, TakenGood, MethodsPending DEF RunNode
  <2>2. Good(d) /\ Pending(d) /\ NodeOver(c, n, w) \in BOOLEAN
    BY <2>1, NodeRunGood, RunsPending
  <2>3. PICK a \in Asked(d, n) : ctl' = Released(a, NodeOver(c, n, w))
    BY <1>2 DEF RunNode
  <2> HIDE DEF c, d
  <2>4. Good(a) /\ Pending(a)
    BY <2>2, <2>3, SwitchedToGood, StoppedGood, TerminatedGood, MethodsPending DEF Asked
  <2>5. QED
    BY <2>2, <2>3, <2>4, MethodsPending
<1>3. ASSUME NEW p \in Processes, NEW w, NEW r, RunProcess(p, w, r)
      PROVE  Pending(ctl')
  <2> DEFINE c == Taken(ctl)
             d == ProcessRun(c, p, w, r)
  <2>1. Good(c) /\ Pending(c) /\ c.runned = p /\ w \in ProcessWaits(c, p)
        /\ r \in Finishes(p)
    BY <1>1, <1>3, TakenGood, MethodsPending DEF RunProcess
  <2>2. Good(d) /\ Pending(d) /\ ProcessOver(c, p, w, r) \in BOOLEAN
    BY <2>1, ProcessRunGood, RunsPending
  <2>3. PICK a \in AskedByProcess(d, p) : ctl' = Released(a, ProcessOver(c, p, w, r))
    BY <1>3 DEF RunProcess
  <2> HIDE DEF c, d
  <2>4. Good(a) /\ Pending(a)
    BY <2>2, <2>3, CommandGood, MethodsPending DEF AskedByProcess, Tasks
  <2>5. QED
    BY <2>2, <2>3, <2>4, MethodsPending
<1>4. ASSUME NEW t \in Tasks, SwitchTo(t) PROVE Pending(ctl')
  BY <1>1, <1>4, MethodsPending DEF SwitchTo
<1>5. CASE Stop
  BY <1>1, <1>5, MethodsPending DEF Stop
<1>6. CASE Terminate
  BY <1>1, <1>6, MethodsPending DEF Terminate
<1>7. CASE UNCHANGED vars
  BY <1>1, <1>7 DEF vars
<1>8. QED
  BY <1>2, <1>3, <1>4, <1>5, <1>6, <1>7 DEF Next

\* The running task has always been told to stop when another one is selected,
\* unless it is a process that repeats itself.
THEOREM PendingAlwaysStops == Spec => []PendingStops
<1>1. Init => PendingStops
  BY DEF Init, PendingStops
<1>2. IInv /\ PendingStops /\ [Next]_vars => PendingStops'
  BY NextPending
<1>3. QED
  BY <1>1, <1>2, Inductive, PTL DEF Spec

=============================================================================
