--------------------------- MODULE DevAgent_proofs ---------------------------
(***************************************************************************)
(* Proofs about DevAgent, for any choice of the run modes, of the reports  *)
(* of the device and of refusals.  The agent is shown to implement the     *)
(* specification of its task controller, and its status to follow the mode *)
(* that runs; both rest on the state of the controller between two calls.  *)
(* What TaskController_proofs proves of any tasks is then taken over for    *)
(* the modes, and used to show what leaves an agent without one.            *)
(***************************************************************************)
EXTENDS DevAgent, TLAPS

\* A state of the controller in which only the running mode is active.
Good(c) ==
  /\ c \in Tasks!Controllers
  /\ \A m \in Modes : c.st[m] # "stopped" => m = c.runned

\* A run mode is selected by a command to a stopped device only.
SelectedFromStopped == ctl.selected \in RunModes => status = "stopped"

\* What do_start() does before the first poll.
Started ==
  /\ pc = "loaded" => ctl.runned = "none" /\ ctl.selected = "none"
  /\ pc = "begin" => ctl.runned = "none" /\ ctl.selected = "discovery"

IInv ==
  /\ TypeOK /\ Good(ctl)
  /\ StatusIsMode /\ SelectedFromStopped /\ Started /\ Excluded

-----------------------------------------------------------------------------
(* The methods of the controller *)

LEMMA ModesAre ==
  /\ "none" \notin Modes /\ Tasks!Tasks = Modes /\ "disconnected" \notin Modes
  /\ {"discovery", "configure", "panic", "reset_panic", "stopped"} \subseteq Modes
  /\ RunModes \subseteq Modes /\ StopModes \subseteq Modes
  /\ {"none", "discovery", "configure", "panic", "reset_panic", "stopped"} \cap RunModes = {}
BY AgentAssumption DEF Modes, StopModes, Tasks!Tasks

LEMMA ControllersAre ==
  Tasks!Controllers = [selected : Modes \cup {"none"}, runned : Modes \cup {"none"},
                       cmd : [Modes -> {"start", "stop"}],
                       st : [Modes -> Tasks!NodeStates \cup Tasks!ProcessStates]]
BY ModesAre DEF Tasks!Controllers

LEMMA SwitchedGood ==
  ASSUME NEW c, Good(c), NEW t \in Modes
  PROVE  LET d == Tasks!SwitchedTo(c, t) IN
         /\ Good(d) /\ d.st = c.st /\ d.runned = c.runned
         /\ d.selected = t \/ (d.selected = "none" /\ c.selected = "none")
         /\ c.runned = "none" => d.selected = t
BY ModesAre, ControllersAre DEF Good, Tasks!SwitchedTo, Tasks!Command

LEMMA TerminatedGood ==
  ASSUME NEW c, Good(c)
  PROVE  LET d == Tasks!Terminated(c) IN
         Good(d) /\ d.runned = "none" /\ d.selected = "none"
BY ModesAre, ControllersAre DEF Good, Tasks!Terminated, Tasks!NodeStates, Tasks!ProcessStates

LEMMA TakenGood ==
  ASSUME NEW c, Good(c)
  PROVE  LET d == Tasks!Taken(c) IN
         /\ Good(d) /\ d.st = c.st
         /\ c.runned # "none" => d = c
         /\ c.runned = "none" /\ c.selected = "none" => d = c
         /\ c.runned = "none" /\ c.selected # "none" =>
              /\ d.runned = c.selected /\ d.selected = "none" /\ d.cmd[c.selected] = "start"
              /\ d.st[c.selected] = "stopped"
BY ModesAre, ControllersAre DEF Good, Tasks!Taken, Tasks!Command

LEMMA NodeRunGood ==
  ASSUME NEW c, Good(c), NEW m \in Modes, c.runned = m, NEW w \in {"entered", "none"}
  PROVE  LET d == Tasks!NodeRun(c, m, w) IN
         /\ Good(d) /\ d.runned = m /\ d.selected = c.selected /\ d.cmd = c.cmd
         /\ w = "entered" => d.st[m] = "entered"
         /\ w = "none" /\ c.cmd[m] = "start" /\ c.st[m] # "leaved" => d.st[m] = "execute"
         /\ w = "none" /\ c.cmd[m] = "stop" => d.st[m] = "stopped"
         /\ w = "none" /\ c.cmd[m] = "start" /\ c.st[m] = "execute" => d = c
BY ModesAre, ControllersAre DEF Good, Tasks!NodeRun, Tasks!NodeStates, Tasks!ProcessStates

-----------------------------------------------------------------------------
(* What a run of a mode is to the controller *)

LEMMA RunIsNode ==
  ASSUME NEW m \in Modes, Running.runned = m,
         NEW w \in {"entered", "none"},
         w = "entered" => Running.cmd[m] = "start" /\ Running.st[m] \in {"stopped", "entered"},
         NEW d, d \in Tasks!Asked(Tasks!NodeRun(Running, m, w), m),
         ctl' = Tasks!Released(d, Tasks!NodeOver(Running, m, w))
  PROVE  Tasks!Next
<1>1. w \in Tasks!NodeWaits(Running, m)
  BY DEF Tasks!NodeWaits
<1>2. Tasks!RunNode(m, w)
  BY <1>1 DEF Tasks!RunNode, Running
<1>3. w \in Tasks!NodeStates \cup {"none"}
  BY DEF Tasks!NodeStates
<1> QED
  BY <1>2, <1>3 DEF Tasks!Next

LEMMA AskedAre ==
  ASSUME NEW d, NEW m \in Modes
  PROVE  /\ d \in Tasks!Asked(d, m)
         /\ \A t \in Modes : Tasks!SwitchedTo(d, t) \in Tasks!Asked(d, m)
         /\ d.st[m] \in {"entered", "execute"} => Tasks!Terminated(d) \in Tasks!Asked(d, m)
BY ModesAre DEF Tasks!Asked

\* The mode that runs, in a run of the controller.
LEMMA RunningIs ==
  ASSUME IInv
  PROVE  /\ Good(Running)
         /\ Running.runned # "none" => Running.runned \in Modes
         /\ Running.runned = "none" => Running = ctl /\ ctl.runned = "none" /\ ctl.selected = "none"
         /\ ctl.runned # "none" => Running = ctl /\ status = ctl.runned
         /\ ctl.runned = "none" /\ Running.runned # "none" =>
              /\ Running.runned = ctl.selected /\ Running.selected = "none"
              /\ Running.cmd[Running.runned] = "start" /\ Running.st[Running.runned] = "stopped"
         /\ pc = "begin" => Running.runned = "discovery"
         /\ Running.selected \in RunModes => Running = ctl
<1>1. Good(ctl)
  BY DEF IInv
<1>2. ctl.selected \in Modes \cup {"none"} /\ ctl.runned \in Modes \cup {"none"}
  BY <1>1, ControllersAre DEF Good
<1>3. Good(Running) /\ Running.runned \in Modes \cup {"none"}
  BY <1>1, TakenGood, ControllersAre DEF Running, Good
<1> QED
  BY <1>1, <1>2, <1>3, TakenGood, ModesAre DEF Running, IInv, StatusIsMode, Started

\* What is left to show of a run that keeps, or sets, the status.
LEMMA AfterRun ==
  ASSUME IInv, pc \in {"run", "begin"}, pc' = "idle", Good(ctl'),
         status' \in Modes \cup {"disconnected"},
         ctl'.runned # "none" => status' = ctl'.runned,
         ctl'.selected \in RunModes => status' = "stopped",
         status' = "disconnected" => list' = "disconnected",
         list' \in {"slow", "disconnected"},
         quests' \in 0..MaxQuests, {confirmed', heard', late'} \subseteq BOOLEAN,
         UNCHANGED <<command, remote>>
  PROVE  IInv'
<1>1. TypeOK'
  BY DEF IInv, TypeOK, Good
<1>2. Started'
  BY DEF Started
<1> QED
  BY <1>1, <1>2 DEF IInv, Good, StatusIsMode, SelectedFromStopped, Excluded

LEMMA ListedIs ==
  ASSUME IInv, NEW attach \in BOOLEAN, Listed(attach)
  PROVE  /\ list' \in {"slow", "disconnected"} /\ pc \in {"run", "begin"} /\ pc' = "idle"
         /\ pc = "run" /\ ~attach => list' = list
BY DEF Listed, IInv, TypeOK

LEMMA RunNothingInv ==
  ASSUME IInv, RunNothing
  PROVE  IInv' /\ UNCHANGED ctl
<1>1. Running = ctl /\ ctl.runned = "none" /\ ctl.selected = "none" /\ pc # "begin"
  BY RunningIs DEF RunNothing
<1>2. UNCHANGED <<ctl, status, confirmed, quests, heard, late, command, remote>>
  BY DEF RunNothing
<1>3. list' \in {"slow", "disconnected"} /\ pc \in {"run", "begin"} /\ pc' = "idle"
      /\ (pc = "run" => list' = list)
  BY ListedIs DEF RunNothing
<1>4. Good(ctl') /\ TypeOK /\ Excluded
  BY <1>2 DEF IInv
<1> QED
  BY <1>1, <1>2, <1>3, <1>4, ModesAre, AfterRun DEF TypeOK, Excluded

LEMMA RunWaitInv ==
  ASSUME IInv, NEW m \in Modes, RunWait(m)
  PROVE  IInv' /\ Tasks!Next
<1> DEFINE d == Tasks!NodeRun(Running, m, "entered")
<1>1. /\ Running.runned = m /\ Running.cmd[m] = "start"
      /\ Running.st[m] \in {"stopped", "entered"} /\ ctl' = d /\ status' = m
      /\ UNCHANGED <<confirmed, quests, heard, command, remote>>
      /\ late' \in BOOLEAN
  BY DEF RunWait, IInv, TypeOK
<1>2. list' \in {"slow", "disconnected"} /\ pc \in {"run", "begin"} /\ pc' = "idle"
  BY ListedIs DEF RunWait
<1>3. Good(d) /\ d.runned = m /\ d.selected = Running.selected
  BY <1>1, RunningIs, NodeRunGood
<1>4. Tasks!Next
  <2>1. ctl' = Tasks!Released(d, Tasks!NodeOver(Running, m, "entered"))
    BY <1>1 DEF Tasks!Released, Tasks!NodeOver
  <2> QED
    BY <1>1, <2>1, AskedAre, RunIsNode
<1>5. ctl'.selected \in RunModes => status' = "stopped"
  BY <1>1, <1>3, RunningIs, ModesAre DEF IInv, SelectedFromStopped
<1>6. IInv'
  BY <1>1, <1>2, <1>3, <1>5, ModesAre, AfterRun DEF IInv, TypeOK
<1> QED
  BY <1>4, <1>6

LEMMA RunEnterInv ==
  ASSUME IInv, NEW m \in Modes, RunEnter(m)
  PROVE  IInv' /\ Tasks!Next
<1> DEFINE d == Tasks!NodeRun(Running, m, "none")
           e == Tasks!SwitchedTo(d, "stopped")
<1>1. /\ Running.runned = m /\ Running.cmd[m] = "start"
      /\ Running.st[m] \in {"stopped", "entered"}
      /\ ctl' = IF m = "reset_panic" /\ remote = "ready" THEN e ELSE d
      /\ status' = m
      /\ UNCHANGED <<command, remote>>
      /\ late' \in BOOLEAN /\ heard' \in BOOLEAN /\ confirmed' \in BOOLEAN
  BY DEF RunEnter, IInv, TypeOK
<1>2. list' \in {"slow", "disconnected"} /\ pc \in {"run", "begin"} /\ pc' = "idle"
  <2>1. (m \in {"discovery", "stopped"}) \in BOOLEAN
    OBVIOUS
  <2> QED
    BY <2>1, ListedIs DEF RunEnter
<1>3. quests' \in 0..MaxQuests
  BY DEF RunEnter, IInv, TypeOK, MaxQuests
<1>4. Good(d) /\ d.runned = m /\ d.selected = Running.selected
  BY <1>1, RunningIs, NodeRunGood
<1>5. Good(e) /\ e.runned = m /\ e.selected \in {"stopped", "none"}
  BY <1>4, SwitchedGood, ModesAre
<1>6. Tasks!Next
  <2>1. ctl' = Tasks!Released(ctl', Tasks!NodeOver(Running, m, "none"))
    BY <1>1 DEF Tasks!Released, Tasks!NodeOver
  <2>2. ctl' \in Tasks!Asked(d, m)
    BY <1>1, AskedAre, ModesAre
  <2> QED
    BY <1>1, <2>1, <2>2, RunIsNode
<1>7. ctl'.selected \in RunModes => status' = "stopped"
  BY <1>1, <1>4, <1>5, RunningIs, ModesAre DEF IInv, SelectedFromStopped
<1>8. IInv'
  BY <1>1, <1>2, <1>3, <1>4, <1>5, <1>7, ModesAre, AfterRun
<1> QED
  BY <1>6, <1>8

LEMMA RunLateInv ==
  ASSUME IInv, NEW m \in Modes, RunLate(m)
  PROVE  IInv' /\ Tasks!Next /\ status' \in {status, "disconnected"}
<1>1. /\ Running.runned = m /\ Running.cmd[m] = "start" /\ Running.st[m] = "entered"
      /\ UNCHANGED <<confirmed, quests, heard, late, command, remote>>
  BY DEF RunLate
<1>2. Running = ctl /\ status = m
  BY <1>1, RunningIs, ModesAre
<1>3. CASE m = "configure"
  <2> DEFINE d == Tasks!NodeRun(Running, m, "entered")
             e == Tasks!Terminated(d)
  <2>1. ctl' = e /\ status' = "disconnected" /\ list' = "disconnected" /\ pc = "run" /\ pc' = "idle"
    BY <1>3 DEF RunLate, Terminate
  <2>2. Good(d) /\ d.st[m] = "entered"
    BY <1>1, RunningIs, NodeRunGood
  <2>3. Good(e) /\ e.runned = "none" /\ e.selected = "none"
    BY <2>2, TerminatedGood
  <2>4. ctl' = Tasks!Released(e, Tasks!NodeOver(Running, m, "entered"))
    BY <2>1 DEF Tasks!Released, Tasks!NodeOver
  <2>5. e \in Tasks!Asked(d, m)
    BY <2>2, AskedAre
  <2>6. Tasks!Next
    BY <1>1, <2>4, <2>5, RunIsNode
  <2>7. IInv'
    BY <1>1, <2>1, <2>3, ModesAre, AfterRun DEF IInv, TypeOK
  <2> QED
    BY <2>1, <2>6, <2>7
<1>4. CASE m # "configure"
  <2> DEFINE d == Tasks!NodeRun(Running, m, "none")
             e == Tasks!SwitchedTo(d, "panic")
  <2>1. ctl' = e /\ status' = status
    BY <1>4 DEF RunLate
  <2>2. list' \in {"slow", "disconnected"} /\ pc \in {"run", "begin"} /\ pc' = "idle"
    BY <1>4, ListedIs DEF RunLate
  <2>3. Good(d) /\ d.runned = m
    BY <1>1, RunningIs, NodeRunGood
  <2>4. Good(e) /\ e.runned = m /\ e.selected \in {"panic", "none"}
    BY <2>3, SwitchedGood, ModesAre
  <2>5. ctl' = Tasks!Released(e, Tasks!NodeOver(Running, m, "none"))
    BY <1>1, <2>1 DEF Tasks!Released, Tasks!NodeOver
  <2>6. e \in Tasks!Asked(d, m)
    BY AskedAre, ModesAre
  <2>7. Tasks!Next
    BY <1>1, <2>5, <2>6, RunIsNode
  <2>8. IInv'
    BY <1>1, <1>2, <2>1, <2>2, <2>4, ModesAre, AfterRun DEF IInv, TypeOK
  <2> QED
    BY <2>1, <2>7, <2>8
<1> QED
  BY <1>3, <1>4

LEMMA RunExecuteInv ==
  ASSUME IInv, NEW m \in Modes, RunExecute(m)
  PROVE  IInv' /\ Tasks!Next /\ status' \in {status, "disconnected"}
<1>1. /\ Running.runned = m /\ Running.cmd[m] = "start" /\ Running.st[m] = "execute"
      /\ UNCHANGED <<confirmed, quests, heard, late, command, remote>>
  BY DEF RunExecute
<1>2. Running = ctl /\ status = m
  BY <1>1, RunningIs, ModesAre
<1>3. Tasks!NodeRun(Running, m, "none") = Running
  BY <1>1, RunningIs, NodeRunGood
<1>4. \A d \in Tasks!Asked(Running, m) : ctl' = d => Tasks!Next
  <2> SUFFICES ASSUME NEW d \in Tasks!Asked(Running, m), ctl' = d PROVE Tasks!Next
    OBVIOUS
  <2>1. ctl' = Tasks!Released(d, Tasks!NodeOver(Running, m, "none"))
    BY <1>1 DEF Tasks!Released, Tasks!NodeOver
  <2> QED
    BY <1>1, <1>3, <2>1, RunIsNode
<1>5. CASE m = "discovery" /\ ~heard /\ late
  <2> DEFINE e == Tasks!Terminated(Running)
  <2>1. ctl' = e /\ status' = "disconnected" /\ list' = "disconnected" /\ pc = "run" /\ pc' = "idle"
    BY <1>5 DEF RunExecute, Terminate
  <2>2. Good(e) /\ e.runned = "none" /\ e.selected = "none"
    BY RunningIs, TerminatedGood
  <2>3. e \in Tasks!Asked(Running, m)
    BY <1>1, AskedAre
  <2>4. IInv'
    BY <1>1, <2>1, <2>2, ModesAre, AfterRun DEF IInv, TypeOK
  <2> QED
    BY <1>4, <2>1, <2>3, <2>4
<1>6. CASE ~(m = "discovery" /\ ~heard /\ late)
  <2> DEFINE f == Follower(m)
             e == Tasks!SwitchedTo(Running, f)
  <2>1. ctl' = (IF f = m THEN Running ELSE e) /\ status' = status
    BY <1>6 DEF RunExecute
  <2>2. list' \in {"slow", "disconnected"} /\ pc \in {"run", "begin"} /\ pc' = "idle"
    <3>1. (m = "configure" /\ confirmed) \in BOOLEAN
      BY DEF IInv, TypeOK
    <3> QED
      BY <1>6, <3>1, ListedIs DEF RunExecute
  <2>3. f = m \/ f \in {"configure", "stopped", "panic"}
    BY DEF Follower
  <2> HIDE DEF f
  <2>4. f # m => Good(e) /\ e.runned = m /\ e.selected \in {f, "none"}
    <3>1. ASSUME f # m PROVE Good(Running) /\ f \in Modes /\ Running.runned = m /\ f # "none"
      BY <1>1, <2>3, <3>1, RunningIs, ModesAre
    <3> QED
      BY <3>1, SwitchedGood
  <2>5. ctl' \in Tasks!Asked(Running, m)
    BY <2>1, <2>3, AskedAre, ModesAre
  <2>6. Good(ctl') /\ ctl'.runned = m
    BY <1>1, <2>1, <2>4, RunningIs
  <2>7. ctl'.selected \in RunModes => status = "stopped"
    BY <1>2, <2>1, <2>3, <2>4, ModesAre DEF IInv, SelectedFromStopped
  <2>8. IInv'
    BY <1>1, <1>2, <2>1, <2>2, <2>6, <2>7, ModesAre, AfterRun DEF IInv, TypeOK
  <2> QED
    BY <1>4, <2>1, <2>5, <2>8
<1> QED
  BY <1>5, <1>6

LEMMA RunLeaveInv ==
  ASSUME IInv, NEW m \in Modes, RunLeave(m)
  PROVE  IInv' /\ Tasks!Next /\ status' = status
<1> DEFINE d == Tasks!NodeRun(Running, m, "none")
           over == Tasks!NodeOver(Running, m, "none")
<1>1. /\ Running.runned = m /\ Running.cmd[m] = "stop"
      /\ ctl' = Tasks!Released(d, over)
      /\ UNCHANGED <<status, confirmed, quests, heard, late, command, remote>>
  BY DEF RunLeave
<1>2. Running = ctl /\ status = m /\ pc # "begin"
  BY <1>1, RunningIs, ModesAre DEF IInv, Started
<1>3. list' \in {"slow", "disconnected"} /\ pc \in {"run", "begin"} /\ pc' = "idle"
  BY ListedIs DEF RunLeave
<1>4. Good(d) /\ d.runned = m /\ d.selected = Running.selected /\ d.st[m] = "stopped"
  BY <1>1, RunningIs, NodeRunGood
<1>5. Good(ctl') /\ ctl'.runned \in {m, "none"} /\ ctl'.selected = ctl.selected
  BY <1>1, <1>2, <1>4, ModesAre, ControllersAre DEF Good, Tasks!Released
<1>6. Tasks!Next
  BY <1>1, AskedAre, RunIsNode
<1>7. IInv'
  BY <1>1, <1>2, <1>3, <1>5, ModesAre, AfterRun DEF IInv, TypeOK, SelectedFromStopped
<1> QED
  BY <1>1, <1>6, <1>7

-----------------------------------------------------------------------------
(* The other steps *)

LEMMA CommandsAre ==
  ASSUME NEW k \in Commands, Allowed(k)
  PROVE  Target(k) \in Modes /\ (Target(k) \in RunModes => status = "stopped")
BY AgentAssumption DEF Commands, Allowed, Target, Modes, StopModes

LEMMA CheckInv ==
  ASSUME IInv, Check
  PROVE  IInv' /\ (Tasks!Next \/ UNCHANGED ctl)
<1>1. /\ pc = "idle" /\ pc' \in {"run", "clear"}
      /\ UNCHANGED <<status, list, confirmed, quests, heard, late, command, remote>>
  BY DEF Check
<1>2. command \in Commands
  BY DEF IInv, TypeOK
<1>3. \/ UNCHANGED ctl
      \/ \E t \in Modes : ctl' = Tasks!SwitchedTo(ctl, t) /\ (t \in RunModes => status = "stopped")
  <2>1. CASE ctl' = Tasks!SwitchedTo(ctl, "panic")
    BY <2>1, ModesAre
  <2>2. CASE Obey
    BY <2>2, CommandsAre DEF Obey, IInv, TypeOK
  <2> QED
    BY <2>1, <2>2 DEF Check
<1>4. CASE UNCHANGED ctl
  BY <1>1, <1>2, <1>4 DEF IInv, TypeOK, Good, StatusIsMode, SelectedFromStopped, Started, Excluded
<1>5. CASE \E t \in Modes : ctl' = Tasks!SwitchedTo(ctl, t)
                            /\ (t \in RunModes => status = "stopped")
  <2>1. PICK t \in Modes : ctl' = Tasks!SwitchedTo(ctl, t) /\ (t \in RunModes => status = "stopped")
    BY <1>5
  <2>2. Good(ctl') /\ ctl'.runned = ctl.runned /\ ctl'.selected \in {t, "none"}
    BY <2>1, SwitchedGood DEF IInv
  <2>3. Tasks!Next
    BY <2>1, ModesAre DEF Tasks!Next, Tasks!SwitchTo
  <2>4. TypeOK' /\ StatusIsMode' /\ Started' /\ Excluded'
    BY <1>1, <1>2, <2>2 DEF IInv, TypeOK, Good, StatusIsMode, Started, Excluded
  <2>5. SelectedFromStopped'
    BY <1>1, <2>1, <2>2, ModesAre DEF SelectedFromStopped
  <2> QED
    BY <2>2, <2>3, <2>4, <2>5 DEF IInv, Good
<1> QED
  BY <1>3, <1>4, <1>5

LEMMA BeginInv ==
  ASSUME IInv, Begin
  PROVE  IInv' /\ Tasks!Next
<1>1. /\ pc = "loaded" /\ pc' = "begin" /\ ctl' = Tasks!SwitchedTo(ctl, "discovery")
      /\ UNCHANGED <<status, list, confirmed, quests, heard, late, command, remote>>
  BY DEF Begin
<1>2. ctl.runned = "none" /\ ctl.selected = "none" /\ Good(ctl)
  BY <1>1 DEF IInv, Started
<1>3. Good(ctl') /\ ctl'.runned = "none" /\ ctl'.selected = "discovery"
  BY <1>1, <1>2, SwitchedGood, ModesAre
<1>4. Tasks!Next
  BY <1>1, ModesAre DEF Tasks!Next, Tasks!SwitchTo
<1>5. IInv'
  BY <1>1, <1>3, ModesAre
     DEF IInv, TypeOK, Good, StatusIsMode, SelectedFromStopped, Started, Excluded
<1> QED
  BY <1>4, <1>5

LEMMA RefuseInv ==
  ASSUME IInv, Refuse
  PROVE  IInv' /\ Tasks!Next /\ status' \in {status, "disconnected"}
<1>1. /\ pc = "idle" /\ quests > 0 /\ quests' = quests - 1 /\ ctl' = Tasks!Terminated(ctl)
      /\ \/ status' = "disconnected" /\ list' = "disconnected"
         \/ UNCHANGED <<status, list>>
      /\ UNCHANGED <<confirmed, heard, late, command, remote, pc>>
  BY DEF Refuse
<1>2. Good(ctl') /\ ctl'.runned = "none" /\ ctl'.selected = "none"
  BY <1>1, TerminatedGood DEF IInv
<1>3. Tasks!Next
  BY <1>1 DEF Tasks!Next, Tasks!Terminate
<1>4. quests' \in 0..MaxQuests
  BY <1>1 DEF IInv, TypeOK, MaxQuests
<1>5. IInv'
  BY <1>1, <1>2, <1>4, ModesAre
     DEF IInv, TypeOK, Good, StatusIsMode, SelectedFromStopped, Started, Excluded
<1> QED
  BY <1>1, <1>3, <1>5

\* The steps that leave the controller alone: the clearing of a command, the
\* answer of a quest, and what others write.
Outside ==
  \/ Clear \/ Confirm \/ Hear \/ Expire
  \/ \E k \in Commands \ {"none"} : SetCommand(k)
  \/ \E r \in Remotes : SetRemote(r)

LEMMA OutsideInv ==
  ASSUME IInv, Outside
  PROVE  IInv' /\ UNCHANGED <<ctl, status>>
<1>1. /\ UNCHANGED <<ctl, status, list>> /\ pc' \in {pc, "run"}
      /\ {confirmed', heard', late'} \subseteq BOOLEAN
      /\ command' \in Commands /\ remote' \in Remotes
  BY DEF Outside, Clear, Confirm, Hear, Expire, SetCommand, SetRemote, IInv, TypeOK, Commands
<1>2. quests' \in 0..MaxQuests
  BY DEF Outside, Clear, Confirm, Hear, Expire, SetCommand, SetRemote, IInv, TypeOK, MaxQuests
<1> QED
  BY <1>1, <1>2 DEF IInv, TypeOK, Good, StatusIsMode, SelectedFromStopped, Started, Excluded

-----------------------------------------------------------------------------
(* The theorems *)

LEMMA InitInv == ASSUME Init PROVE IInv /\ Tasks!Init
<1>1. ctl = [selected |-> "none", runned |-> "none",
             cmd |-> [m \in Modes |-> "stop"], st |-> [m \in Modes |-> "stopped"]]
  BY DEF Init
<1>2. Good(ctl) /\ ctl.selected = "none" /\ ctl.runned = "none"
  BY <1>1, ControllersAre DEF Good, Tasks!NodeStates
<1>3. Tasks!Init
  BY <1>1, ModesAre DEF Tasks!Init
<1>4. TypeOK
  <2>1. quests \in 0..MaxQuests
    BY DEF Init, MaxQuests
  <2>2. /\ status \in Modes \cup {"disconnected"} /\ list \in {"slow", "disconnected"}
        /\ command \in Commands /\ remote \in Remotes
        /\ pc \in {"loaded", "begin", "idle", "clear", "run"}
    BY DEF Init, Commands
  <2>3. {confirmed, heard, late} \subseteq BOOLEAN
    BY DEF Init
  <2> QED
    BY <1>2, <2>1, <2>2, <2>3 DEF TypeOK, Good
<1>5. StatusIsMode /\ SelectedFromStopped /\ Started /\ Excluded
  BY <1>2, ModesAre DEF Init, StatusIsMode, SelectedFromStopped, Started, Excluded
<1> QED
  BY <1>2, <1>3, <1>4, <1>5 DEF IInv

\* A step is a step of the controller or none, and enters a run mode only from
\* the stopped device.
LEMMA NextInv ==
  ASSUME IInv, [Next]_vars
  PROVE  /\ IInv'
         /\ Tasks!Next \/ UNCHANGED ctl
         /\ status' \in RunModes /\ status' # status => status = "stopped"
<1>1. CASE Run
  <2>1. CASE RunNothing
    BY <2>1, RunNothingInv DEF RunNothing
  <2>2. ASSUME NEW m \in Modes, RunWait(m) \/ RunEnter(m)
        PROVE  /\ IInv' /\ Tasks!Next
               /\ status' \in RunModes /\ status' # status => status = "stopped"
    <3>1. IInv' /\ Tasks!Next /\ status' = m /\ Running.runned = m
      BY <2>2, RunWaitInv, RunEnterInv DEF RunWait, RunEnter
    <3>2. ctl.runned # "none" => status = m
      BY <3>1, RunningIs
    <3>3. ctl.runned = "none" => ctl.selected = m
      BY <3>1, RunningIs, ModesAre
    <3> QED
      BY <3>1, <3>2, <3>3 DEF IInv, SelectedFromStopped
  <2>3. ASSUME NEW m \in Modes, RunLate(m) \/ RunExecute(m) \/ RunLeave(m)
        PROVE  IInv' /\ Tasks!Next /\ status' \in {status, "disconnected"}
    BY <2>3, RunLateInv, RunExecuteInv, RunLeaveInv
  <2> QED
    BY <1>1, <2>1, <2>2, <2>3, ModesAre DEF Run
<1>2. CASE Begin
  BY <1>2, BeginInv DEF Begin
<1>3. CASE Check
  BY <1>3, CheckInv DEF Check
<1>4. CASE Refuse
  BY <1>4, RefuseInv, ModesAre
<1>5. CASE Outside
  BY <1>5, OutsideInv
<1>6. CASE UNCHANGED vars
  BY <1>6 DEF vars, IInv, TypeOK, Good, StatusIsMode, SelectedFromStopped, Started, Excluded
<1> QED
  BY <1>1, <1>2, <1>3, <1>4, <1>5, <1>6 DEF Next, Outside

\* The invariant of the agent holds whatever its device reports and its
\* operator asks for (devagent::poll, servo/robosd_frontend.hpp).
THEOREM Inductive == Spec => []IInv
<1> QED
  BY InitInv, NextInv, PTL DEF Spec

\* The types of the agent.
THEOREM TypeCorrect == Spec => []TypeOK
<1> QED
  BY Inductive, PTL DEF IInv

\* The status an agent shows is the mode that runs.
THEOREM ShowsItsMode == Spec => []StatusIsMode
<1> QED
  BY Inductive, PTL DEF IInv

\* A device given up is out of the exchange.
THEOREM LostIsExcluded == Spec => []Excluded
<1> QED
  BY Inductive, PTL DEF IInv

\* Direct, independent and service control begin from a stopped device only,
\* although a command is judged by a status that the mode it asked for has not
\* set yet.
THEOREM ControlFromStopped == Spec => FromStopped
<1>1. IInv /\ [Next]_vars
        => [status' \in RunModes /\ status' # status => status = "stopped"]_vars
  BY NextInv
<1> QED
  BY <1>1, Inductive, PTL DEF Spec, FromStopped

\* Every step of the agent is one its task controller allows: what is proved
\* of TaskController holds of the modes.
THEOREM UsesController == Spec => DrivesController
<1>1. IInv /\ [Next]_vars => [Tasks!Next]_(Tasks!vars)
  BY NextInv DEF Tasks!vars
<1>2. Init => Tasks!Init
  BY InitInv
<1> QED
  BY <1>1, <1>2, Inductive, PTL DEF Spec, DrivesController, Tasks!Spec
-----------------------------------------------------------------------------
(* What the task controller promises holds of the modes *)

Proved == INSTANCE TaskController_proofs
            WITH Nodes <- Modes, Processes <- {}, NoTask <- "none", LeaveWaits <- {},
                 Repeating <- {}

LEMMA ModesAssumed ==
  /\ "none" \notin Modes \cup {} /\ Modes \cap {} = {} /\ {} \subseteq Modes /\ {} \subseteq {}
BY ModesAre

\* Both instances are of the same specification.
LEMMA SameInit == Tasks!Init <=> Proved!Init
BY DEF Tasks!Init, Proved!Init, Tasks!Tasks, Proved!Tasks

LEMMA SameNext == Tasks!Next <=> Proved!Next
BY DEF Tasks!Next, Tasks!RunNode, Tasks!RunProcess, Tasks!SwitchTo, Tasks!Stop,
  Tasks!Terminate, Tasks!Taken, Tasks!NodeWaits, Tasks!Asked, Tasks!NodeRun, Tasks!NodeOver,
  Tasks!Released, Tasks!ProcessWaits, Tasks!Finishes, Tasks!AskedByProcess, Tasks!ProcessRun,
  Tasks!ProcessOver, Tasks!SwitchedTo, Tasks!Stopped, Tasks!Terminated, Tasks!Command,
  Tasks!Tasks, Tasks!NodeStates, Tasks!ProcessStates, Tasks!Rank, Tasks!FirstPhase,
  Tasks!Executed,
  Proved!Next, Proved!RunNode, Proved!RunProcess, Proved!SwitchTo, Proved!Stop,
  Proved!Terminate, Proved!Taken, Proved!NodeWaits, Proved!Asked, Proved!NodeRun,
  Proved!NodeOver, Proved!Released, Proved!ProcessWaits, Proved!Finishes,
  Proved!AskedByProcess, Proved!ProcessRun, Proved!ProcessOver, Proved!SwitchedTo,
  Proved!Stopped, Proved!Terminated, Proved!Command, Proved!Tasks, Proved!NodeStates,
  Proved!ProcessStates, Proved!Rank, Proved!FirstPhase, Proved!Executed

LEMMA ControllerIsProved == Spec => Proved!Spec
<1>1. Tasks!Spec => Proved!Spec
  BY SameInit, SameNext, PTL DEF Tasks!Spec, Proved!Spec, Tasks!vars, Proved!vars
<1> QED
  BY <1>1, UsesController DEF DrivesController

\* At most one mode of the agent is active, and the one that runs while another
\* is selected has been told to stop: what is proved of the task controller for
\* any tasks holds of the modes, whatever the device reports, because the agent
\* uses the controller as it allows.
THEOREM OneModeActive == Spec => [](Tasks!OnlyOneActive /\ Tasks!PendingStops)
<1>1. Proved!Spec => []Proved!OnlyOneActive
  BY ModesAssumed, Proved!OneActive
<1>2. Proved!Spec => []Proved!PendingStops
  BY ModesAssumed, Proved!PendingAlwaysStops
<1>3. /\ Proved!OnlyOneActive => Tasks!OnlyOneActive
      /\ Proved!PendingStops => Tasks!PendingStops
  BY DEF Proved!OnlyOneActive, Tasks!OnlyOneActive, Proved!PendingStops, Tasks!PendingStops,
    Tasks!Tasks, Proved!Tasks
<1> QED
  BY <1>1, <1>2, <1>3, ControllerIsProved, PTL

\* A mode that loses the controller has been left, and none takes it from
\* another, also when the agent gives its device up or is refused.
THEOREM ModesHandOver == Spec => Tasks!HandOver
<1>1. Proved!Spec => Proved!HandOver
  BY ModesAssumed, Proved!HandsOver
<1>2. Proved!HandOver => Tasks!HandOver
  BY DEF Proved!HandOver, Tasks!HandOver, Proved!vars, Tasks!vars
<1> QED
  BY <1>1, <1>2, ControllerIsProved

-----------------------------------------------------------------------------
(* An agent without a mode *)

\* A mode that was told to stop has a follower.
Told(c) == c.runned # "none" /\ c.cmd[c.runned] = "stop" => c.selected # "none"
Busy(c) == c.runned # "none" \/ c.selected # "none"

LEMMA SwitchedTold ==
  ASSUME NEW c, Good(c), Told(c), NEW t \in Modes
  PROVE  Told(Tasks!SwitchedTo(c, t)) /\ Busy(Tasks!SwitchedTo(c, t))
BY ModesAre, ControllersAre DEF Good, Told, Busy, Tasks!SwitchedTo, Tasks!Command

LEMMA TakenTold ==
  ASSUME NEW c, Good(c), Told(c)
  PROVE  Told(Tasks!Taken(c))
BY ModesAre, ControllersAre DEF Good, Told, Tasks!Taken, Tasks!Command

LEMMA RunTold ==
  ASSUME NEW c, Good(c), NEW m \in Modes, c.runned = m, NEW w \in {"entered", "none"}
  PROVE  LET d == Tasks!NodeRun(c, m, w) IN
         /\ Good(d) /\ Busy(d) /\ d.runned = m /\ d.selected = c.selected /\ d.cmd = c.cmd
         /\ Told(c) => Told(d)
BY NodeRunGood, ModesAre DEF Told, Busy

LEMMA TerminatedTold ==
  ASSUME NEW c, Good(c)
  PROVE  Told(Tasks!Terminated(c))
BY TerminatedGood DEF Told

LEMMA IdleStep ==
  ASSUME IInv, Told(ctl), [Next]_vars
  PROVE  Told(ctl') /\ (NeverIdle => NeverIdle' \/ Refuse)
<1> USE DEF NeverIdle
<1>0. Good(ctl) /\ Good(Running) /\ Told(Running)
  BY TakenTold, RunningIs DEF IInv, Running
<1>1. ASSUME UNCHANGED <<ctl, status>>
      PROVE  Told(ctl') /\ (NeverIdle => NeverIdle')
  BY <1>1
<1>2. ASSUME Told(ctl'), Busy(ctl')
      PROVE  Told(ctl') /\ NeverIdle'
  BY <1>2 DEF Busy
<1>3. ASSUME Told(ctl'), status' = "disconnected"
      PROVE  Told(ctl') /\ NeverIdle'
  BY <1>3
<1>4. CASE Run
  <2>1. CASE RunNothing
    BY <1>1, <2>1, RunNothingInv DEF RunNothing
  <2>2. ASSUME NEW m \in Modes, RunWait(m) PROVE Told(ctl') /\ NeverIdle'
    <3>1. Running.runned = m /\ ctl' = Tasks!NodeRun(Running, m, "entered")
      BY <2>2 DEF RunWait
    <3> QED
      BY <1>0, <1>2, <3>1, RunTold
  <2>3. ASSUME NEW m \in Modes, RunEnter(m) PROVE Told(ctl') /\ NeverIdle'
    <3> DEFINE d == Tasks!NodeRun(Running, m, "none")
    <3>1. Running.runned = m /\ (ctl' = d \/ ctl' = Tasks!SwitchedTo(d, "stopped"))
      BY <2>3 DEF RunEnter
    <3>2. Good(d) /\ Told(d) /\ Busy(d)
      BY <1>0, <3>1, RunTold
    <3> HIDE DEF d
    <3> QED
      BY <1>2, <3>1, <3>2, SwitchedTold, ModesAre
  <2>4. ASSUME NEW m \in Modes, RunLate(m) PROVE Told(ctl') /\ NeverIdle'
    <3>1. CASE m = "configure"
      <4> DEFINE d == Tasks!NodeRun(Running, m, "entered")
      <4>1. Running.runned = m /\ ctl' = Tasks!Terminated(d) /\ status' = "disconnected"
        BY <2>4, <3>1 DEF RunLate, Terminate
      <4>2. Good(d)
        BY <1>0, <4>1, RunTold
      <4> QED
        BY <1>3, <4>1, <4>2, TerminatedTold
    <3>2. CASE m # "configure"
      <4> DEFINE d == Tasks!NodeRun(Running, m, "none")
      <4>1. Running.runned = m /\ ctl' = Tasks!SwitchedTo(d, "panic")
        BY <2>4, <3>2 DEF RunLate
      <4>2. Good(d) /\ Told(d)
        BY <1>0, <4>1, RunTold
      <4> HIDE DEF d
      <4> QED
        BY <1>2, <4>1, <4>2, SwitchedTold, ModesAre
    <3> QED
      BY <3>1, <3>2
  <2>5. ASSUME NEW m \in Modes, RunExecute(m) PROVE Told(ctl') /\ NeverIdle'
    <3>1. Running.runned = m
      BY <2>5 DEF RunExecute
    <3>2. \/ ctl' = Tasks!Terminated(Running) /\ status' = "disconnected"
          \/ ctl' = Running
          \/ Follower(m) # m /\ ctl' = Tasks!SwitchedTo(Running, Follower(m))
      BY <2>5 DEF RunExecute, Terminate
    <3>3. Follower(m) \in Modes
      BY ModesAre DEF Follower
    <3>4. Busy(Running)
      BY <3>1, ModesAre DEF Busy
    <3> QED
      BY <1>0, <1>2, <1>3, <3>2, <3>3, <3>4, TerminatedTold, SwitchedTold
  <2>6. ASSUME NEW m \in Modes, RunLeave(m) PROVE Told(ctl') /\ NeverIdle'
    <3> DEFINE d == Tasks!NodeRun(Running, m, "none")
               over == Tasks!NodeOver(Running, m, "none")
    <3>1. Running.runned = m /\ Running.cmd[m] = "stop" /\ ctl' = Tasks!Released(d, over)
      BY <2>6 DEF RunLeave
    <3>2. Good(d) /\ d.selected = Running.selected /\ Running.selected # "none"
      BY <1>0, <3>1, RunTold, ModesAre DEF Told
    <3> HIDE DEF d, over
    <3>3. ctl'.selected = d.selected
      BY <3>1, <3>2, ControllersAre DEF Tasks!Released, Good
    <3> QED
      BY <1>2, <3>2, <3>3 DEF Told, Busy
  <2> QED
    BY <1>4, <2>1, <2>2, <2>3, <2>4, <2>5, <2>6 DEF Run
<1>5. CASE Begin
  BY <1>0, <1>2, <1>5, SwitchedTold, ModesAre DEF Begin
<1>6. CASE Check
  <2>1. UNCHANGED status
    BY <1>6 DEF Check
  <2>2. ctl' = ctl \/ \E t \in Modes : ctl' = Tasks!SwitchedTo(ctl, t)
    <3>1. CASE Obey
      BY <3>1, CommandsAre DEF Obey, IInv, TypeOK
    <3>2. CASE ctl' = Tasks!SwitchedTo(ctl, "panic")
      BY <3>2, ModesAre
    <3> QED
      BY <1>6, <3>1, <3>2 DEF Check
  <2> QED
    BY <1>0, <1>1, <1>2, <2>1, <2>2, SwitchedTold
<1>7. CASE Refuse
  BY <1>0, <1>7, TerminatedTold DEF Refuse
<1>8. CASE Outside
  BY <1>1, <1>8, OutsideInv
<1>9. CASE UNCHANGED vars
  BY <1>1, <1>9 DEF vars
<1> QED
  BY <1>4, <1>5, <1>6, <1>7, <1>8, <1>9 DEF Next, Outside

LEMMA ToldAlways == Spec => []Told(ctl)
<1>1. Init => Told(ctl)
  BY DEF Init, Told
<1>2. IInv /\ Told(ctl) /\ [Next]_vars => Told(ctl)'
  BY IdleStep
<1> QED
  BY <1>1, <1>2, Inductive, PTL DEF Spec

\* Only configure_refuse() between two modes leaves an agent idle that has not
\* given its device up (servo/robosd_frontend.hpp): a mode that was told to stop
\* has a follower, which nothing but that terminates.
THEOREM IdleOnlyByRefusal == Spec => IdleByRefusal
<1>1. IInv /\ Told(ctl) /\ [Next]_vars => [NeverIdle /\ ~NeverIdle' => Refuse]_vars
  BY IdleStep
<1> QED
  BY <1>1, Inductive, ToldAlways, PTL DEF Spec, IdleByRefusal

\* Where no configuration is refused an agent always has a mode.
THEOREM UnrefusedNeverIdle == ~MayRefuse /\ Spec => []NeverIdle
<1> DEFINE Unrefused == ~MayRefuse
<1>1. Init => NeverIdle
  BY DEF Init, NeverIdle
<1>2. Unrefused /\ IInv /\ Told(ctl) /\ NeverIdle /\ [Next]_vars => NeverIdle'
  BY IdleStep DEF Refuse
<1>3. Unrefused => []Unrefused
  <2>1. Unrefused => Unrefused'
    OBVIOUS
  <2> QED
    BY <2>1, PTL
<1> HIDE DEF Unrefused
<1>4. Unrefused /\ Spec => []NeverIdle
  BY <1>1, <1>2, <1>3, Inductive, ToldAlways, PTL DEF Spec
<1> QED
  BY <1>4 DEF Unrefused
=============================================================================
