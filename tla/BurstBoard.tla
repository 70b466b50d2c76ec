------------------------------ MODULE BurstBoard ------------------------------
(***************************************************************************)
(* The board of a burst++ firmware and its devices                         *)
(* (burst++/burst.cpp).  The main loop runs board::frontend_loop(); the    *)
(* timer interrupt runs board::backend_loop(), board::realtime_protection  *)
(* and the devices' loopA() and may fall between any two of its memory     *)
(* accesses, never the other way round.  A backend handler is therefore    *)
(* one action, and the frontend is the list `todo' of accesses it has      *)
(* still to make: the panic words are read, changed and written back.      *)
(* The periodic slots, the actions inside a mode, last_panic_us and the    *)
(* bits derived devices add in the frontend are left out.                  *)
(***************************************************************************)
EXTENDS Naturals, Sequences

CONSTANTS
  N,            \* the number of devices, in the order of devs_
  RunModes,     \* the modes a device has, idle apart
  Wanted,       \* the numbers a master writes into action_.mode
  Startups,     \* the delegates of the startup slot
  WaitConfig,   \* config_->wait_config_on_startup
  Supplies,     \* the voltages met: "fine", "over", "low"
  Temps,        \* the temperatures met: "cool", "warm", "hot"
  Overcurrent   \* whether the current may leave its range

ASSUME NAssumption == N \in Nat
ASSUME ModeAssumption == "idle" \notin RunModes
ASSUME ReadingAssumption == /\ Supplies \subseteq {"fine", "over", "low"}
                            /\ Temps \subseteq {"cool", "warm", "hot"}
                            /\ WaitConfig \in BOOLEAN
                            /\ Overcurrent \in BOOLEAN

VARIABLES
  status,    \* board::present_.status
  command,   \* board::present_.command
  reconfig,  \* reconfig_query_count_ > 0
  startup,   \* the delegates in the startup slot; the others are held
  panic,     \* panic[0] is board::present_.panics, panic[d] the word of device d
  mode,      \* dev::present_.mode
  action,    \* dev::action_.mode
  todo       \* what this pass of the frontend loop has still to do

board == <<status, command, reconfig, startup>>
vars == <<status, command, reconfig, startup, panic, mode, action, todo>>

Board == 0
Devs == 1..N
Statuses == {"startuped", "configure", "restart", "normal"}
Flags == {"config", "over", "low", "current", "temp"}  \* bits of the board
Bits == {"board", "fault"}   \* bits of a device; "fault" is one of its own
ModeIds == RunModes \cup {"idle"}

Op(do, at, bits) == [do |-> do, at |-> at, bits |-> bits]
Step(do) == Op(do, Board, {})
EachDev(do, bits) == [d \in Devs |-> Op(do, d, bits)]

TypeOK ==
  /\ status \in Statuses
  /\ command \in {"none", "configure"}
  /\ reconfig \in BOOLEAN
  /\ startup \subseteq Startups
  /\ DOMAIN panic = 0..N /\ panic[Board] \subseteq Flags
  /\ \A d \in Devs : panic[d] \subseteq Bits
  /\ mode \in [Devs -> ModeIds]
  /\ action \in [Devs -> Wanted \cup {"idle"}]
  /\ \A i \in DOMAIN todo :
       /\ todo[i].at \in 0..N
       /\ todo[i].bits \subseteq (IF todo[i].at = Board THEN Flags ELSE Bits)

\* board::begin_() runs under the guard, before the first loop.
Init ==
  /\ status = "startuped" /\ command = "none" /\ reconfig = FALSE
  /\ startup = Startups
  /\ panic = [t \in 0..N |-> IF t = Board THEN {"config"} ELSE {"board"}]
  /\ mode = [d \in Devs |-> "idle"]
  /\ action = [d \in Devs |-> "idle"]
  /\ todo = <<>>

-----------------------------------------------------------------------------
(* The frontend *)

\* What is left of a pass once the switch is over.
Rest == <<Step("poll"), Step("protect")>>

\* reset_panic_(bit): the word, then the devices if no bit is left.
ResetBoard(bit) == <<Op("clear", Board, {bit}), Step("release")>>
Release == ResetBoard("config") \o <<Step("ready")>>

\* The startup slot: some of its delegates call finish().
RunStartup(done) == startup' = startup \ done

\* Mutant: the startup slot is executed and not waited for.
StartupedEarly(done) ==
  /\ status = "startuped" /\ RunStartup(done)
  /\ todo' = Release \o Rest
  /\ UNCHANGED <<status, command, reconfig>>

Startuped(done) ==
  /\ status = "startuped" /\ RunStartup(done)
  /\ UNCHANGED reconfig
  /\ IF startup' = {} /\ WaitConfig
     THEN /\ status' = "configure" /\ command' = "configure"
          /\ todo' = Rest
     ELSE /\ todo' = (IF startup' = {} THEN Release \o Rest ELSE Rest)
          /\ UNCHANGED <<status, command>>

\* Mutant: the end of a restart forgets the status.
RestartNoReady(done) ==
  /\ status = "restart" /\ RunStartup(done)
  /\ todo' = (IF startup' = {} THEN ResetBoard("config") \o Rest ELSE Rest)
  /\ UNCHANGED <<status, command, reconfig>>

Restart(done) ==
  /\ status = "restart" /\ RunStartup(done)
  /\ todo' = (IF startup' = {} THEN Release \o Rest ELSE Rest)
  /\ UNCHANGED <<status, command, reconfig>>

\* Mutant: variables that ask for a reconfiguration are not looked at.
ConfigureNoRestart ==
  /\ status = "configure"
  /\ todo' = (IF command = "configure" THEN Rest ELSE Release \o Rest)
  /\ UNCHANGED board

\* The held delegates go back to the startup slot after a reconfiguration.
Configure ==
  /\ status = "configure"
  /\ IF command # "configure" /\ reconfig
     THEN /\ reconfig' = FALSE /\ startup' = Startups /\ status' = "restart"
          /\ todo' = Rest
     ELSE /\ todo' = (IF command = "configure" THEN Rest ELSE Release \o Rest)
          /\ UNCHANGED <<status, reconfig, startup>>
  /\ UNCHANGED command

Normal ==
  /\ status = "normal"
  /\ todo' = (IF command = "configure"
              THEN <<Op("raise", Board, {"config"}), Step("halted")>> \o Rest
              ELSE Rest)
  /\ UNCHANGED board

Switch ==
  /\ todo = <<>>
  /\ \/ \E done \in SUBSET startup : Startuped(done) \/ Restart(done)
     \/ Configure
     \/ Normal
  /\ UNCHANGED <<panic, mode, action>>

\* The head of `todo' is done; `more' is done before the rest.
Does(do) == todo # <<>> /\ Head(todo).do = do
Then(more) == todo' = more \o Tail(todo)
Here == Head(todo).at
Mask == Head(todo).bits

Ready == /\ Does("ready") /\ Then(<<>>) /\ status' = "normal"
         /\ UNCHANGED <<command, reconfig, startup, panic, mode, action>>
Halted == /\ Does("halted") /\ Then(<<>>) /\ status' = "configure"
          /\ UNCHANGED <<command, reconfig, startup, panic, mode, action>>

\* raise_panic_() of the board and raise_panic() of a device: a test, a word
\* read, and its new value to be written before the panic is passed on.
Raise ==
  /\ Does("raise")
  /\ Then(IF Mask \subseteq panic[Here] THEN <<>>
          ELSE <<Op("store", Here, panic[Here] \cup Mask)>>
               \o (IF Here = Board THEN EachDev("raise", {"board"})
                                   ELSE <<Op("perform", Here, {})>>))
  /\ UNCHANGED <<board, panic, mode, action>>

\* Bits leave a word: read, written back later.
Clear ==
  /\ Does("clear")
  /\ Then(IF Mask \cap panic[Here] = {} THEN <<>>
          ELSE <<Op("store", Here, panic[Here] \ Mask)>>)
  /\ UNCHANGED <<board, panic, mode, action>>

\* word &= ~mask, written whether or not a bit of the mask is set.
MaskOut ==
  /\ Does("mask")
  /\ Then(<<Op("store", Here, panic[Here] \ Mask)>>)
  /\ UNCHANGED <<board, panic, mode, action>>

Store == /\ Does("store") /\ Then(<<>>)
         /\ panic' = [panic EXCEPT ![Here] = Mask]
         /\ UNCHANGED <<board, mode, action>>

ReleaseDevs ==
  /\ Does("release")
  /\ Then(IF panic[Board] = {} THEN EachDev("mask", {"board"}) ELSE <<>>)
  /\ UNCHANGED <<board, panic, mode, action>>

\* perform_panic() outside the backend only withdraws the command.
Perform == /\ Does("perform") /\ Then(<<>>)
           /\ action' = [action EXCEPT ![Here] = "idle"]
           /\ UNCHANGED <<board, panic, mode>>

\* flow::frontend_poll(): at most one variable is written.
Poll ==
  /\ Does("poll") /\ Then(<<>>)
  /\ \/ UNCHANGED <<command, reconfig>>
     \/ command' \in {"none", "configure"} /\ UNCHANGED reconfig
     \/ status = "configure" /\ reconfig' = TRUE /\ UNCHANGED command
  /\ UNCHANGED <<status, startup, panic, mode, action>>

\* frontend_protection_(): the temperature, then the reset after the timeout.
Protect(t, expired) ==
  /\ Does("protect")
  /\ Then((CASE t = "hot" -> <<Op("raise", Board, {"temp"})>>
             [] t = "cool" /\ panic[Board] # {} -> ResetBoard("temp")
             [] OTHER -> <<>>)
          \o (IF expired THEN <<Step("expire")>> \o EachDev("expireDev", {})
              ELSE <<>>))
  /\ UNCHANGED <<board, panic, mode, action>>

\* Mutant: the config panic is left out of the masks that last.
LastingNoConfig == {"temp"}

Lasting == {"temp", "config"}   \* flags the timeout does not reset

Expire ==
  /\ Does("expire")
  /\ Then(IF panic[Board] = {} THEN <<>>
          ELSE <<Op("mask", Board, panic[Board] \ Lasting), Step("release")>>)
  /\ UNCHANGED <<board, panic, mode, action>>

\* A device's word, without noreset_panic_mask.
ExpireDev ==
  /\ Does("expireDev")
  /\ Then(IF panic[Here] = {} THEN <<>>
          ELSE <<Op("mask", Here, panic[Here] \ {"board"})>>)
  /\ UNCHANGED <<board, panic, mode, action>>

Frontend ==
  \/ Switch \/ Ready \/ Halted \/ Raise \/ Clear \/ MaskOut \/ Store
  \/ ReleaseDevs \/ Perform \/ Poll \/ Expire \/ ExpireDev
  \/ \E t \in Temps, expired \in BOOLEAN : Protect(t, expired)

-----------------------------------------------------------------------------
(* The backend: the words of a whole handler at once. *)

\* raise_panic_(f) and reset_panic_(f) on the words p.
Raised(p, f) ==
  IF f \in p[Board] THEN p
  ELSE [t \in 0..N |-> p[t] \cup {IF t = Board THEN f ELSE "board"}]
\* Mutant: the devices are released only with the last bit.
ResetWithBit(p, f) ==
  LET left == p[Board] \ {f}
  IN [t \in 0..N |-> CASE t = Board -> left
                       [] t # Board /\ f \in p[Board] /\ left = {} -> p[t] \ {"board"}
                       [] OTHER -> p[t]]

Reset(p, f) ==
  LET left == p[Board] \ {f}
  IN [t \in 0..N |-> CASE t = Board -> left
                       [] t # Board /\ left = {} -> p[t] \ {"board"}
                       [] OTHER -> p[t]]
\* The devices a raise of f reaches: perform_panic() in the backend stops them.
Reached(p, f) ==
  IF f \in p[Board] THEN {} ELSE {d \in Devs : "board" \notin p[d]}

\* Mutant: the command is withdrawn, the mode is not left.
Withdraw(S) ==
  /\ action' = [d \in Devs |-> IF d \in S THEN "idle" ELSE action[d]]
  /\ UNCHANGED mode

Stop(S) ==
  /\ mode' = [d \in Devs |-> IF d \in S THEN "idle" ELSE mode[d]]
  /\ action' = [d \in Devs |-> IF d \in S THEN "idle" ELSE action[d]]

\* realtime_protection_(): the voltage, then the current.
RealtimeProtection(s, over) ==
  LET p1 == IF s = "low" THEN Reset(panic, "over") ELSE panic
      p2 == IF s = "fine" THEN p1 ELSE Raised(p1, s)
      p3 == CASE s = "over" -> Reset(p2, "low")
              [] s = "fine" -> Reset(Reset(p2, "over"), "low")
              [] OTHER -> p2
  IN /\ panic' = (IF over THEN Raised(p3, "current") ELSE p3)
     /\ Stop((IF s = "fine" THEN {} ELSE Reached(p1, s))
             \cup (IF over THEN Reached(p3, "current") ELSE {}))
     /\ UNCHANGED <<board, todo>>

\* A device finds a fault of its own in its loop.
Fault(d) ==
  /\ "fault" \notin panic[d]
  /\ panic' = [panic EXCEPT ![d] = @ \cup {"fault"}]
  /\ Stop({d})
  /\ UNCHANGED <<board, todo>>

(* dev::loopA(): the mode asked for is taken, unless there is a panic. *)

\* Mutant: only the configuration holds a device.
HeldInConfigure(d) == status = "configure"

Held(d) == panic[d] # {} \/ status = "configure"

LoopA(d) ==
  /\ action[d] # mode[d]
  /\ IF Held(d) THEN Stop({d})
     ELSE /\ mode' = [mode EXCEPT ![d] =
                        IF action[d] \in RunModes THEN action[d] ELSE "idle"]
          /\ UNCHANGED action
  /\ UNCHANGED <<board, panic, todo>>

\* A master writes the action of a device, at any time.
Command(d, m) ==
  /\ action' = [action EXCEPT ![d] = m]
  /\ UNCHANGED <<board, panic, mode, todo>>

Protection == \E s \in Supplies, over \in {FALSE, Overcurrent} : RealtimeProtection(s, over)
Backend ==
  \/ Protection
  \/ \E d \in Devs : Fault(d) \/ LoopA(d)
  \/ \E d \in Devs, m \in Wanted : Command(d, m)

Next == Frontend \/ Backend
Spec == Init /\ [][Next]_vars

\* The main loop goes on, the interrupt comes (while no bit of the board is set
\* it can only have read a good supply), and a startup delegate that is called
\* again and again finishes in the end.
Fairness == /\ WF_vars(Frontend)
            /\ \A s \in Supplies : WF_vars(s = "fine" /\ RealtimeProtection(s, FALSE))
            /\ \A d \in Devs : WF_vars(LoopA(d))
            /\ \A s \in Startups : SF_vars(Switch /\ s \in startup /\ s \notin startup')
FairSpec == Spec /\ Fairness

-----------------------------------------------------------------------------
(* Properties *)

\* Between the end of a pass and the next, a board that is not in normal work
\* has the config panic and every device has the board's, whatever the
\* interrupt and the reset timeout did meanwhile.
ConfigHeld ==
  todo = <<>> /\ status # "normal"
    => "config" \in panic[Board] /\ \A d \in Devs : "board" \in panic[d]

\* A board in normal work has run its startup slot to the end after the last
\* variable that asked for it was written.
ReadyIsConfigured == status = "normal" => startup = {} /\ ~reconfig

\* The config panic goes away only after the startup slot, never by the reset
\* timeout or a word written back late.
ConfigKept ==
  [][ "config" \in panic[Board] /\ "config" \notin panic'[Board]
       => status # "normal" /\ startup = {} /\ ~reconfig]_vars

\* No device leaves idle while the board waits for its startup or its
\* configuration.
StartsReleased ==
  [][\A d \in Devs : mode[d] = "idle" /\ mode'[d] # "idle"
       => status = "normal" \/ "config" \notin panic[Board]]_vars

\* A device whose own fault stands in its word is idle: the backend stops it as
\* it raises the fault, and no word the main loop writes back late brings a
\* fault to a device that has been started since.
FaultHolds == \A d \in Devs : "fault" \in panic[d] => mode[d] = "idle"

\* When the master no longer asks for the configuration the board ends up in
\* normal work for good, with the config panic gone.
ConfigurationEnds ==
  <>[](command = "none") => <>[](status = "normal" /\ "config" \notin panic[Board])

\* A panic of the board does not stay on a device for good when the board has
\* none left, although a late write of the frontend may bring it back.
DevicesReleased ==
  \A d \in Devs : <>[](panic[Board] = {}) => []<>("board" \notin panic[d])

\* A panic that lasts stops the device.
PanicStops == \A d \in Devs : panic[d] # {} ~> (panic[d] = {} \/ mode[d] = "idle")

\* Between two passes of the frontend a panic of the board is on every device.
\* Does not hold: README, section 7.
PanicSpreads ==
  todo = <<>> /\ panic[Board] # {} => \A d \in Devs : "board" \in panic[d]
===============================================================================
