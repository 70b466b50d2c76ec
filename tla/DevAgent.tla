------------------------------ MODULE DevAgent ------------------------------
(***************************************************************************)
(* The device agent of servo/robosd_frontend: the local picture of one     *)
(* remote device.  Its modes are the nodes of a task controller; poll()    *)
(* first obeys a command, then runs the mode.                              *)
(*                                                                         *)
(* The feedback of the device, the traffic from it and the commands of     *)
(* operator and program are written by others at any moment, so poll() is  *)
(* taken in steps (`pc'): it reads a command and obeys it, clears the      *)
(* command without a guard, and runs the mode.  The answer of the quest    *)
(* that loads the start-up variables is a callback of the thread that      *)
(* polls.                                                                  *)
(***************************************************************************)
EXTENDS Naturals

CONSTANTS
  RunModes,       \* the modes an operator may switch a stopped device to
  MayRefuse,      \* the quest that configures the device may be refused
  Remotes         \* what the device may report of itself; "busy" also stands for
                  \* the states no mode waits for

ASSUME AgentAssumption ==
  /\ RunModes \subseteq {"dirrect", "independed", "service"}
  /\ MayRefuse \in BOOLEAN
  /\ Remotes # {} /\ Remotes \subseteq {"busy", "configure", "panic", "ready"}

MaxQuests == 2    \* bound: quests that wait for their answer, counted up to here

StopModes == {"stopped"} \cup RunModes
Modes == {"discovery", "configure", "panic", "reset_panic"} \cup StopModes
Commands == {"none", "discovery", "stop", "reset_panic", "halt"} \cup RunModes

VARIABLES
  ctl,        \* devcontroller, see TaskController
  status,     \* status_
  list,       \* the exchange list ref_ is attached to
  confirmed,  \* configure_status_ is success
  quests,     \* quests that have not been answered
  heard,      \* bytes came in since incom_total was noted
  late,       \* discovery_period_us has passed since us was noted
  command,    \* action_.command
  remote,     \* feedback_.dev.status
  pc          \* where the polling thread is: before do_start(), about to run a mode
              \* in discovery_begin() or in poll(), about to clear the command,
              \* or outside

vars == <<ctl, status, list, confirmed, quests, heard, late, command, remote, pc>>

Tasks == INSTANCE TaskController
           WITH Nodes <- Modes, Processes <- {}, NoTask <- "none", LeaveWaits <- {},
                Repeating <- {}

TypeOK ==
  /\ ctl \in Tasks!Controllers
  /\ status \in Modes \cup {"disconnected"}
  /\ list \in {"slow", "disconnected"}
  /\ quests \in 0..MaxQuests
  /\ {confirmed, heard, late} \subseteq BOOLEAN
  /\ command \in Commands /\ remote \in Remotes
  /\ pc \in {"loaded", "begin", "idle", "clear", "run"}

\* An enabled agent after do_load().  command_ of a mode is read only after it
\* was written, so one value stands for all.
Init ==
  /\ ctl = [selected |-> "none", runned |-> "none",
            cmd |-> [m \in Modes |-> "stop"], st |-> [m \in Modes |-> "stopped"]]
  /\ status = "disconnected" /\ list = "disconnected"
  /\ confirmed = FALSE /\ quests = 0 /\ heard = FALSE /\ late = FALSE
  /\ command = "none" /\ remote \in Remotes
  /\ pc = "loaded"

-----------------------------------------------------------------------------
(* do_check_command *)

\* The mode that a command asks for.
Target(k) ==
  CASE k = "stop" -> "stopped" [] k = "halt" -> "configure" [] OTHER -> k

\* Mutant: a mode is switched to whatever the status is.
AllowedAlways(k) == k # "none"

Allowed(k) ==
  CASE k = "reset_panic" -> status = "panic"
    [] k \in RunModes -> status = "stopped"
    [] OTHER -> k # "none"

\* The command that stands is obeyed; one that is not allowed is dropped.
Obey ==
  ctl' = IF Allowed(command) THEN Tasks!SwitchedTo(ctl, Target(command)) ELSE ctl

\* Mutant: a device that panics while it is stopped goes unnoticed.
PanicIgnoredStopped ==
  remote = "panic"
    /\ status \notin {"panic", "reset_panic", "discovery", "disconnected", "stopped"}

Panic ==
  remote = "panic" /\ status \notin {"panic", "reset_panic", "discovery", "disconnected"}

\* Mutant: a command that stands when a panic is noticed is thrown away.
CheckPanicDrops ==
  /\ pc = "idle"
  /\ \/ /\ Panic /\ pc' = "run" /\ command' = "none"
        /\ ctl' = Tasks!SwitchedTo(ctl, "panic")
     \/ /\ ~Panic /\ pc' = (IF command = "none" THEN "run" ELSE "clear")
        /\ Obey /\ UNCHANGED command
  /\ UNCHANGED <<status, list, confirmed, quests, heard, late, remote>>

\* fail_to_panic() comes first; the command waits for the next poll.
Check ==
  /\ pc = "idle"
  /\ \/ /\ Panic /\ pc' = "run"
        /\ ctl' = Tasks!SwitchedTo(ctl, "panic")
     \/ /\ ~Panic /\ pc' = (IF command = "none" THEN "run" ELSE "clear")
        /\ Obey
  /\ UNCHANGED <<status, list, confirmed, quests, heard, late, command, remote>>

\* The command is cleared, be it the one that was obeyed or one written since.
Clear ==
  /\ pc = "clear" /\ pc' = "run" /\ command' = "none"
  /\ UNCHANGED <<ctl, status, list, confirmed, quests, heard, late, remote>>

\* discovery_begin(), in do_start(): the agent starts to look for its device.
Begin ==
  /\ pc = "loaded" /\ pc' = "begin"
  /\ ctl' = Tasks!SwitchedTo(ctl, "discovery")
  /\ UNCHANGED <<status, list, confirmed, quests, heard, late, command, remote>>

-----------------------------------------------------------------------------
(* devcontroller.run(): the mode that runs, by its phase. *)

Running == Tasks!Taken(ctl)

\* doEnter() of the mode: configure and the stop modes wait for the device.
Ready(m) ==
  CASE m = "configure" -> remote = "configure"
    [] m \in StopModes -> remote = "ready"
    [] OTHER -> TRUE

\* do_discovery_begin, do_configure_complete and do_stop_success attach the
\* agent to the slow list, and so does discovery_begin() after the run.
Listed(attach) ==
  /\ list' = IF attach \/ pc = "begin" THEN "slow" ELSE list
  /\ pc \in {"run", "begin"} /\ pc' = "idle"

\* doTerminate(): the agent is taken out of the exchange.
Terminate ==
  /\ status' = "disconnected"
  /\ list' = "disconnected"
  /\ pc = "run" /\ pc' = "idle"

\* No mode runs and none is selected.
RunNothing ==
  /\ Running.runned = "none"
  /\ Listed(FALSE)
  /\ UNCHANGED <<ctl, status, confirmed, quests, heard, late, command, remote>>

\* The device is not ready for the mode yet.
RunWait(m) ==
  LET fresh == Running.st[m] = "stopped" IN
  /\ Running.runned = m /\ Running.cmd[m] = "start"
  /\ fresh \/ (Running.st[m] = "entered" /\ ~late)
  /\ ~Ready(m)
  /\ ctl' = Tasks!NodeRun(Running, m, "entered")
  /\ status' = m
  /\ late' = (late /\ ~fresh)
  /\ Listed(FALSE)
  /\ UNCHANGED <<confirmed, quests, heard, command, remote>>

\* onExecute() and, in the same run, doExecute(): a fresh clock, no traffic and
\* no answer yet, so only reset_panic may find its device ready.
RunEnter(m) ==
  LET c == Tasks!NodeRun(Running, m, "none") IN
  /\ Running.runned = m /\ Running.cmd[m] = "start"
  /\ Running.st[m] \in {"stopped", "entered"}
  /\ Ready(m)
  /\ ctl' = IF m = "reset_panic" /\ remote = "ready"
            THEN Tasks!SwitchedTo(c, "stopped") ELSE c
  /\ status' = m
  /\ Listed(m \in {"discovery", "stopped"})
  /\ late' = FALSE
  /\ heard' = (heard /\ m # "discovery")
  /\ IF m = "configure"
     THEN /\ quests' = IF quests < MaxQuests THEN quests + 1 ELSE quests
          /\ confirmed' = FALSE
     ELSE UNCHANGED <<quests, confirmed>>
  /\ UNCHANGED <<command, remote>>

\* Mutant: the entry is abandoned for panic without an end of the wait.
RunLateAgain(m) ==
  /\ Running.runned = m /\ Running.cmd[m] = "start" /\ Running.st[m] = "entered"
  /\ late /\ ~Ready(m)
  /\ ctl' = Running
  /\ Listed(FALSE)
  /\ UNCHANGED <<status, confirmed, quests, heard, late, command, remote>>

\* The device did not get ready in time: configure gives the device up, a stop
\* mode is entered all the same and left for panic.
RunLate(m) ==
  /\ Running.runned = m /\ Running.cmd[m] = "start" /\ Running.st[m] = "entered"
  /\ late /\ ~Ready(m)
  /\ \/ /\ m = "configure"
        /\ ctl' = Tasks!Terminated(Tasks!NodeRun(Running, m, "entered"))
        /\ Terminate
     \/ /\ m # "configure"
        /\ ctl' = Tasks!SwitchedTo(Tasks!NodeRun(Running, m, "none"), "panic")
        /\ Listed(m = "stopped") /\ UNCHANGED status
  /\ UNCHANGED <<confirmed, quests, heard, late, command, remote>>

\* The mode that doExecute() switches to, or the mode itself.
Follower(m) ==
  CASE m = "discovery" /\ heard -> "configure"
    [] m = "configure" /\ confirmed -> "stopped"
    [] m = "reset_panic" /\ remote = "ready" -> "stopped"
    [] m = "reset_panic" /\ remote # "ready" /\ late -> "panic"
    [] OTHER -> m

RunExecute(m) ==
  /\ Running.runned = m /\ Running.cmd[m] = "start" /\ Running.st[m] = "execute"
  /\ \/ /\ m = "discovery" /\ ~heard /\ late
        /\ ctl' = Tasks!Terminated(Running)
        /\ Terminate
     \/ /\ ~(m = "discovery" /\ ~heard /\ late)
        /\ ctl' = IF Follower(m) = m THEN Running ELSE Tasks!SwitchedTo(Running, Follower(m))
        /\ Listed(m = "configure" /\ confirmed) /\ UNCHANGED status
  /\ UNCHANGED <<confirmed, quests, heard, late, command, remote>>

\* Mutant: a mode is let go without having been left.
RunLeaveAtOnce(m) ==
  /\ Running.runned = m /\ Running.cmd[m] = "stop"
  /\ ctl' = Tasks!Released(Running, TRUE)
  /\ Listed(FALSE)
  /\ UNCHANGED <<status, confirmed, quests, heard, late, command, remote>>

\* doLeave() never waits: the mode is left and let go.
RunLeave(m) ==
  /\ Running.runned = m /\ Running.cmd[m] = "stop"
  /\ ctl' = Tasks!Released(Tasks!NodeRun(Running, m, "none"),
                           Tasks!NodeOver(Running, m, "none"))
  /\ Listed(FALSE)
  /\ UNCHANGED <<status, confirmed, quests, heard, late, command, remote>>

Run ==
  \/ RunNothing
  \/ \E m \in Modes : RunWait(m) \/ RunEnter(m) \/ RunLate(m) \/ RunExecute(m) \/ RunLeave(m)

-----------------------------------------------------------------------------
(* The answer of the quest: configute_confirm() or configure_refuse(), in    *)
(* whatever mode the agent is by then.                                       *)

Confirm ==
  /\ pc = "idle" /\ quests > 0
  /\ quests' = quests - 1 /\ confirmed' = TRUE
  /\ UNCHANGED <<ctl, status, list, heard, late, command, remote, pc>>

\* terminate() of the controller tells the agent only when a mode runs.
Refuse ==
  /\ MayRefuse
  /\ pc = "idle" /\ quests > 0 /\ quests' = quests - 1
  /\ ctl' = Tasks!Terminated(ctl)
  /\ IF ctl.runned # "none"
     THEN status' = "disconnected" /\ list' = "disconnected"
     ELSE UNCHANGED <<status, list>>
  /\ UNCHANGED <<confirmed, heard, late, command, remote, pc>>

(* What the others write. *)

SetCommand(k) ==
  /\ command' = k
  /\ UNCHANGED <<ctl, status, list, confirmed, quests, heard, late, remote, pc>>

SetRemote(r) ==
  /\ remote' = r
  /\ UNCHANGED <<ctl, status, list, confirmed, quests, heard, late, command, pc>>

Hear ==
  /\ heard' = TRUE
  /\ UNCHANGED <<ctl, status, list, confirmed, quests, late, command, remote, pc>>

\* Time passes.
Expire ==
  /\ late' = TRUE
  /\ UNCHANGED <<ctl, status, list, confirmed, quests, heard, command, remote, pc>>

Next ==
  \/ Begin \/ Check \/ Clear \/ Run
  \/ Confirm \/ Refuse
  \/ \E k \in Commands \ {"none"} : SetCommand(k)
  \/ \E r \in Remotes : SetRemote(r)
  \/ Hear \/ Expire

Spec == Init /\ [][Next]_vars

\* The agent is polled in every exchange, time passes, and the frontend loop
\* comes to the answers of its quests between two polls.
Fairness ==
  /\ WF_vars(Begin) /\ WF_vars(Check) /\ WF_vars(Clear) /\ WF_vars(Run)
  /\ WF_vars(Expire)
  /\ SF_vars(Confirm \/ Refuse)

FairSpec == Spec /\ Fairness

-----------------------------------------------------------------------------
(* Properties. *)

\* The status an agent shows is the mode that runs.
StatusIsMode == ctl.runned # "none" => status = ctl.runned

\* A device given up is out of the exchange.
Excluded == status = "disconnected" => list = "disconnected"

\* Direct, independent and service control begin from a stopped device only.
FromStopped == [][status' \in RunModes /\ status' # status => status = "stopped"]_vars

\* The agent drives its task controller as TaskController allows.
DrivesController == Tasks!Spec

\* An agent that has not given its device up runs a mode or is about to.  Holds
\* without MayRefuse only: README, section 7.
NeverIdle == status # "disconnected" => ctl.runned # "none" \/ ctl.selected # "none"

\* Only a refused configuration leaves an agent without a mode that still shows
\* one: no order of commands, reports, answers and delays does.
IdleByRefusal == [][NeverIdle /\ ~NeverIdle' => Refuse]_vars

\* No mode waits for its device for ever.
WaitsEnd ==
  /\ \A m \in {"discovery", "configure", "reset_panic"} : ctl.runned = m ~> ctl.runned # m
  /\ \A m \in StopModes : ctl.st[m] = "entered" ~> ctl.st[m] # "entered"

\* A device that stays in panic is noticed in every mode that exchanges with it.
PanicNoticed ==
  remote = "panic" /\ status \in StopModes \cup {"configure"}
    ~> remote # "panic" \/ status \in {"panic", "reset_panic", "discovery", "disconnected"}

\* A command is not thrown away without a look: once one stands, some command
\* is obeyed, and that is the one written last, whatever the device reports and
\* however long the way into panic takes.  Not so a command written while another
\* is being obeyed: it is wiped with that one (Clear; README, section 7).
CommandTaken == command # "none" /\ pc # "clear" ~> pc = "clear"
=============================================================================
