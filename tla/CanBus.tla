------------------------------- MODULE CanBus -------------------------------
(***************************************************************************)
(* The request/answer stack a device bus runs on a CAN port:               *)
(*                                                                         *)
(*   backend::bus       servo/robosd_backend.cpp   one message at a time,  *)
(*                      its timeout, the round over the agents             *)
(*   can::flow::bus     net/robosd_can_flow_bus.cpp  message <-> packet,   *)
(*                      the identifier it waits for                        *)
(*   master_t           net/robosd_net_master.hpp  exchange, watchdog      *)
(*   xphys              net/robosd_can_flow_bus.cpp  frames of the port    *)
(*   ican, devices      external: a transmit slot, a receive side, slaves  *)
(*                                                                         *)
(* Everything but start() and stop() runs in the backend thread: the port  *)
(* is polled, then the watchdog, then bus::perform.  start() and stop()    *)
(* come from the frontend and may fall between ready() and request_(),     *)
(* which take the guard separately, so perform_ is split there (pc).       *)
(*                                                                         *)
(* An agent answers the round only while its gate is open                  *)
(* (devagent::query): it is in the exchange, and the pause of its board    *)
(* since the last request to any agent of that board has passed.  The      *)
(* round passes the others over.                                           *)
(*                                                                         *)
(* Time is abstract: a timeout that is armed may expire at any moment, or, *)
(* on a timely installation, once nothing that belongs to the request is   *)
(* on its way.                                                             *)
(***************************************************************************)
EXTENDS Naturals, FiniteSets

CONSTANTS
  N,         \* number of agents attached to the bus (agents_)
  BoardOf,   \* the board each agent belongs to (boardagent_)
  Sizes,     \* payload sizes requests and frames may have
  MaxRx,     \* bound: frames waiting on the receive side of the port
  Watchdog,  \* default_timeout_us > 0: the driver's own watchdog is on
  OwnView,   \* the port returns the frames it sends (owned_view)
  StrayKinds,\* frames of other nodes the port may hear: "slave", "user"
  NoFrame    \* the empty transmit slot

ASSUME NAssumption == N \in Nat \ {0}
ASSUME BoardAssumption == BoardOf \in [1..N -> 1..N]
ASSUME SizesAssumption == Sizes # {} /\ Sizes \subseteq Nat \ {0}
ASSUME FlagsAssumption ==
  /\ Watchdog \in BOOLEAN /\ OwnView \in BOOLEAN
  /\ StrayKinds \subseteq {"slave", "user"}
  /\ MaxRx \in Nat

Agents == 1..N
Idle == 0          \* idle_id of wait_id_, and the null current_agent_ref_
Requests == {"get", "put", "exchange"}

\* The header bits of a CAN identifier: 0x000 a read, 0x200 a write, 0x400 an
\* answer of a slave, 0x100 a user frame; "agent" stands for address and suba.
\* "fresh" is a history mark: the frame belongs to the message on the bus now.
Frame == [kind : {"get", "put", "slave", "user"}, agent : Agents,
          len : Sizes \cup {0}, fresh : BOOLEAN]

\* The slot of the port: the frame and whether the slave is expected to answer.
TxFrame == [kind : {"get", "put"}, agent : Agents, len : Sizes,
            answer : BOOLEAN, fresh : BOOLEAN]
ASSUME NoFrameAssumption == NoFrame \notin TxFrame

Message == [agent : Agents, req : Requests, size : Sizes]

VARIABLES
  willing, \* agents that would answer a query: a stream has something to exchange,
           \* the exchange is enabled and the pause of the board is over
  owed,    \* agents whose stream was queried and has had no confirm() yet
  pc,      \* backend thread: "loop", or inside perform_: "scan", "post"
  res,     \* what the queried stream returned: "success" or "repeat"
  msg,     \* message_: agent (stream_), request, size_actual
  status,  \* message_.tran.status
  cur,     \* current_agent_ref_
  waitId,  \* wait_id_
  started, \* the module of the driver has been started and not stopped since
  drv,     \* state_ of the driver, as seen between two calls
  wd,      \* wd_enabled
  outcomm, \* outcomm_ # nullptr (it always points to out_packet_)
  incomm,  \* incomm_ # nullptr (it always points to in_packet_)
  outPkt,  \* identifier of out_packet_
  inPkt,   \* in_packet_
  tx,      \* transmit slot of the port
  rx,      \* frames the port has not reported yet
  timely   \* of the installation: timeouts are longer than any answer takes,
           \* and no other node answers in a slave's name (it never changes)

bus == <<willing, owed, pc, res, msg, status, cur>>
driver == <<waitId, started, drv, wd>>
phys == <<outcomm, incomm, outPkt, inPkt>>
port == <<tx, rx>>
vars == <<bus, driver, phys, port, timely>>

TypeOK ==
  /\ {willing, owed} \subseteq SUBSET Agents
  /\ pc \in {"loop", "scan", "post"}
  /\ res \in {"success", "repeat"}
  /\ msg \in Message
  /\ status \in {"none", "phy", "complete", "refuse"}
  /\ cur \in Agents \cup {Idle} /\ waitId \in Agents \cup {Idle}
  /\ drv \in {"disable", "stopped", "idle", "receive"}
  /\ started \in BOOLEAN /\ wd \in BOOLEAN
  /\ outcomm \in BOOLEAN /\ incomm \in BOOLEAN
  /\ outPkt \in [kind : {"get", "put"}, agent : Agents]
  /\ inPkt \in Frame
  /\ tx \in TxFrame \cup {NoFrame}
  /\ rx \in SUBSET Frame
  /\ timely \in BOOLEAN

Init ==
  /\ willing = {} /\ owed = {}
  /\ pc = "loop" /\ res = "success"
  /\ msg \in Message /\ status = "none"
  /\ cur = Idle /\ waitId = Idle
  /\ started = FALSE /\ drv = "disable" /\ wd = FALSE
  /\ outcomm = FALSE /\ incomm = FALSE
  /\ outPkt \in [kind : {"get", "put"}, agent : Agents]
  /\ inPkt \in [kind : {"user"}, agent : Agents, len : {0}, fresh : {FALSE}]
  /\ tx = NoFrame /\ rx = {}
  /\ timely \in BOOLEAN

-----------------------------------------------------------------------------
(* What the layers answer to each other. *)

\* bus::confirm: a result without a message is only logged.
BusConfirm(s, result) == IF s # "none" THEN result ELSE s

\* Mutant: the answer of an exchange is taken from any slave.
AnswersAnySlave(m, w, pkt) ==
  \/ m.req = "put"
  \/ m.req = "exchange" /\ pkt.kind = "slave"
  \/ m.req = "get" /\ pkt.kind = "slave" /\ pkt.agent = w /\ pkt.len = m.size

\* Does the packet answer message m when the bus waits for identifier w?
Answers(m, w, pkt) ==
  \/ m.req = "put"
  \/ m.req = "exchange" /\ pkt.kind = "slave" /\ pkt.agent = w
  \/ m.req = "get" /\ pkt.kind = "slave" /\ pkt.agent = w /\ pkt.len = m.size

\* Mutant: a failure of the driver is not reported.
ExchangeConfirmLosesRefuse(s, w, m, ok, pkt) ==
  IF w = Idle \/ ~ok THEN s
  ELSE BusConfirm(s, IF Answers(m, w, pkt) THEN "complete" ELSE "refuse")

\* exchange_confirm: the status after the driver reported ok for message m.
ExchangeConfirm(s, w, m, ok, pkt) ==
  IF w = Idle THEN s
  ELSE BusConfirm(s, IF ok /\ Answers(m, w, pkt) THEN "complete" ELSE "refuse")

\* ican::reset(): nothing at all, or the port forgets its frames.
PortReset == \/ UNCHANGED port
             \/ tx' = NoFrame /\ rx' = {}

\* phys::receive_cancel() when the driver is receiving.
DropReceiver ==
  IF drv = "receive" THEN incomm' = FALSE /\ PortReset
                     ELSE UNCHANGED <<incomm, port>>

\* Mutants: the identifier or the watchdog survives the report.
DriverConfirmKeepsId(pkt) ==
  /\ status' = ExchangeConfirm(status, waitId, msg, drv = "receive", pkt)
  /\ drv' = IF drv = "receive" THEN "idle" ELSE drv
  /\ wd' = FALSE
  /\ UNCHANGED <<started, waitId>>

DriverConfirmKeepsWatchdog(pkt) ==
  /\ status' = ExchangeConfirm(status, waitId, msg, drv = "receive", pkt)
  /\ waitId' = Idle
  /\ drv' = IF drv = "receive" THEN "idle" ELSE drv
  /\ UNCHANGED <<started, wd>>

\* master_t::confirm() called by the port: an answer when receiving, a panic
\* (which ends in refuse()) in every other state; pkt is in_packet_ by then.
DriverConfirm(pkt) ==
  /\ status' = ExchangeConfirm(status, waitId, msg, drv = "receive", pkt)
  /\ waitId' = Idle
  /\ drv' = IF drv = "receive" THEN "idle" ELSE drv
  /\ wd' = FALSE
  /\ UNCHANGED started

\* What belongs to the message on the bus is still on its way to it.
AnswerPending == \/ tx # NoFrame
                 \/ \E f \in rx : f.fresh /\ f.kind = "slave"

-----------------------------------------------------------------------------
(* bus::perform_, in the backend thread. *)

\* A stream of the agent gets something to exchange, the agent comes into the
\* exchange, or the pause of its board is over: now it would answer.
Demand(a) ==
  /\ a \notin willing
  /\ willing' = willing \cup {a}
  /\ UNCHANGED <<owed, pc, res, msg, status, cur, driver, phys, port, timely>>

\* The agent is taken out of the exchange.
Withdraw(a) ==
  /\ a \in willing
  /\ willing' = willing \ {a}
  /\ UNCHANGED <<owed, pc, res, msg, status, cur, driver, phys, port, timely>>

\* The message is executing and its timeout has passed: cancel().
BusTimeout ==
  /\ pc = "loop" /\ status = "phy"
  /\ timely => ~AnswerPending
  /\ DropReceiver
  /\ wd' = FALSE /\ drv' = "idle"
  /\ waitId' = Idle
  /\ status' = IF waitId # Idle THEN BusConfirm(status, "refuse") ELSE status
  /\ UNCHANGED <<willing, owed, pc, res, msg, cur, started, outcomm, outPkt, inPkt, timely>>

\* Mutants: the round's current agent is told instead of the message's; the
\* message is told but not released.
DeliverToCurrent ==
  /\ pc = "loop" /\ status \in {"complete", "refuse"}
  /\ owed' = owed \ {cur}
  /\ status' = "none"
  /\ pc' = "scan"
  /\ UNCHANGED <<willing, res, msg, cur, driver, phys, port, timely>>

DeliverKeepsStatus ==
  /\ pc = "loop" /\ status \in {"complete", "refuse"}
  /\ owed' = owed \ {msg.agent}
  /\ UNCHANGED <<willing, pc, res, msg, status, cur, driver, phys, port, timely>>

\* A finished message is handed back to its stream, and perform_ goes on.
Deliver ==
  /\ pc = "loop" /\ status \in {"complete", "refuse"}
  /\ owed' = owed \ {msg.agent}
  /\ status' = "none"
  /\ pc' = "scan"
  /\ UNCHANGED <<willing, res, msg, cur, driver, phys, port, timely>>

\* flow::bus::ready()
Ready == waitId = Idle /\ drv = "idle" /\ tx = NoFrame

\* The agents in the order of the round that starts at agent c.
Nth(c, k) == ((c - 1 + k) % N) + 1
Start(c) == IF c = Idle THEN 1 ELSE c

\* A served agent gives its turn to the next one; mutant: it keeps it.
NextTurnKept(a) == a
NextTurn(a) == (a % N) + 1

\* last_request_us_ is the board's: the pause begins for all its agents.
Mates(a) == {b \in Agents : BoardOf[b] = BoardOf[a]}

\* The round: the first willing agent from current_agent_ref_ on fills the
\* message; a stream with more pages to move returns "repeat".
Select(result) ==
  /\ pc \in {"loop", "scan"} /\ status = "none"
  /\ Ready
  /\ \E k \in 0..(N - 1) :
       LET a == Nth(Start(cur), k) IN
       /\ a \in willing
       /\ \A j \in 0..(k - 1) : Nth(Start(cur), j) \notin willing
       /\ \E q \in Requests, n \in Sizes : msg' = [agent |-> a, req |-> q, size |-> n]
       /\ cur' = a
       /\ owed' = owed \cup {a}
       /\ willing' = willing \ Mates(a)
  /\ res' = result
  /\ pc' = "post"
  /\ UNCHANGED <<status, driver, phys, port, timely>>

\* Nobody is willing, or the layers below are not ready.
SelectNone ==
  /\ pc \in {"loop", "scan"} /\ status = "none"
  /\ ~Ready \/ willing = {}
  /\ cur' = IF Ready THEN Start(cur) ELSE cur
  /\ pc' = "loop"
  /\ UNCHANGED <<willing, owed, res, msg, status, driver, phys, port, timely>>

Scan == SelectNone \/ \E result \in {"success", "repeat"} : Select(result)

\* The frames that belonged to the message before.
Stale(frames) == {[f EXCEPT !.fresh = FALSE] : f \in frames}

\* request_ -> post -> exchange -> send.  ok: the port took the frame.
\* A driver that is no longer idle panics and refuses; a port that does not
\* take the frame refuses; a sent "put" is confirmed at once; everything else
\* leaves the driver receiving into in_packet_.
Post(ok) ==
  LET kind == IF msg.req = "get" THEN "get" ELSE "put"
      out == [kind |-> kind, agent |-> msg.agent]
      sent == drv = "idle" /\ tx = NoFrame /\ ok
      old == IF msg.req = "put" THEN [inPkt EXCEPT !.len = 0, !.fresh = FALSE]
                                ELSE [inPkt EXCEPT !.fresh = FALSE]
      done == ~sent \/ msg.req = "put"
  IN
  /\ pc = "post"
  /\ outPkt' = out /\ inPkt' = old
  /\ outcomm' = IF drv = "idle" THEN sent ELSE outcomm
  /\ incomm' = (incomm \/ ~done)
  /\ IF sent
     THEN /\ tx' = [kind |-> kind, agent |-> msg.agent, len |-> msg.size,
                    answer |-> msg.req # "put", fresh |-> TRUE]
          /\ rx' = Stale(rx)
     ELSE \/ tx' = tx /\ rx' = Stale(rx)
          \/ drv = "idle" /\ tx' = NoFrame /\ rx' = {}  \* send_cancel: reset()
  /\ status' = IF done THEN ExchangeConfirm("phy", msg.agent, msg, sent, old) ELSE "phy"
  /\ waitId' = IF done THEN Idle ELSE msg.agent
  /\ drv' = IF done THEN drv ELSE "receive"
  /\ wd' = (~done /\ Watchdog)
  /\ cur' = IF res = "success" THEN NextTurn(msg.agent) ELSE msg.agent
  /\ pc' = "loop"
  /\ UNCHANGED <<willing, owed, res, msg, started, timely>>

-----------------------------------------------------------------------------
(* master_t::poll, xphys::poll and the frontend's start and stop. *)

\* The watchdog of the driver: refuse().
DriverTimeout ==
  /\ pc = "loop" /\ wd
  /\ timely => ~AnswerPending
  /\ status' = ExchangeConfirm(status, waitId, msg, FALSE, inPkt)
  /\ waitId' = Idle
  /\ wd' = FALSE
  /\ drv' = IF drv = "receive" THEN "idle" ELSE drv
  /\ DropReceiver
  /\ UNCHANGED <<willing, owed, pc, res, msg, cur, started, outcomm, outPkt, inPkt, timely>>

\* The port reports the echo of a frame that was sent.
HearEcho(f) ==
  /\ outcomm /\ f.kind = outPkt.kind /\ f.agent = outPkt.agent
  /\ outcomm' = FALSE
  /\ DriverConfirm(inPkt)
  /\ UNCHANGED <<incomm, inPkt>>

\* Mutant: a user frame ends the exchange too.
HearAnswerAnyFrame(f) ==
  /\ ~(outcomm /\ f.kind = outPkt.kind /\ f.agent = outPkt.agent)
  /\ incomm
  /\ inPkt' = f /\ incomm' = FALSE
  /\ DriverConfirm(f)
  /\ UNCHANGED outcomm

\* Any other frame while a receiver is armed: a user frame only leaves its
\* identifier in the packet, the rest ends the exchange.
HearAnswer(f) ==
  /\ ~(outcomm /\ f.kind = outPkt.kind /\ f.agent = outPkt.agent)
  /\ incomm
  /\ IF f.kind = "user"
     THEN /\ inPkt' = [inPkt EXCEPT !.kind = f.kind, !.agent = f.agent]
          /\ UNCHANGED <<status, driver, incomm>>
     ELSE /\ inPkt' = f
          /\ incomm' = FALSE
          /\ DriverConfirm(f)
  /\ UNCHANGED outcomm

\* No receiver: the frame is dropped.
HearNothing(f) ==
  /\ ~(outcomm /\ f.kind = outPkt.kind /\ f.agent = outPkt.agent)
  /\ ~incomm
  /\ UNCHANGED <<status, driver, outcomm, incomm, inPkt>>

\* ican::poll: one frame goes through do_can_receive.
Receive(f) ==
  /\ pc = "loop" /\ f \in rx
  /\ rx' = rx \ {f}
  /\ HearEcho(f) \/ HearAnswer(f) \/ HearNothing(f)
  /\ UNCHANGED <<willing, owed, pc, res, msg, cur, outPkt, tx, timely>>

\* module_t::do_start -> master_t::start, whatever the state of the driver.
DriverStart ==
  /\ ~started
  /\ started' = TRUE /\ drv' = "idle"
  /\ UNCHANGED <<bus, waitId, wd, phys, port, timely>>

\* module_t::do_stop -> master_t::stop: the bus is not told.
DriverStop ==
  /\ started
  /\ DropReceiver
  /\ started' = FALSE /\ wd' = FALSE /\ drv' = "stopped"
  /\ UNCHANGED <<bus, waitId, outcomm, outPkt, inPkt, timely>>

-----------------------------------------------------------------------------
(* The wire and the slaves (external). *)

\* The slot is sent; the slave may answer, with any length; the port may echo.
Transmit ==
  /\ tx # NoFrame
  /\ \E answered \in BOOLEAN, n \in Sizes \cup {0} :
       LET reply == [kind |-> "slave", agent |-> tx.agent, len |-> n, fresh |-> tx.fresh]
           echo == [kind |-> tx.kind, agent |-> tx.agent, len |-> tx.len, fresh |-> tx.fresh]
           heard == (IF answered /\ tx.answer THEN {reply} ELSE {})
                    \cup (IF OwnView THEN {echo} ELSE {})
       IN rx' = rx \cup heard
  /\ Cardinality(rx') <= MaxRx
  /\ tx' = NoFrame
  /\ UNCHANGED <<bus, driver, phys, timely>>

\* The slot is given up after its repetitions, or nobody heard it.
TransmitFails ==
  /\ tx # NoFrame
  /\ tx' = NoFrame
  /\ UNCHANGED <<bus, driver, phys, rx, timely>>

\* A frame of another node, or a frame is lost (a port keeps only the last).
Stray ==
  /\ Cardinality(rx) < MaxRx
  /\ \E k \in StrayKinds, a \in Agents, n \in Sizes :
       /\ timely => k # "slave"
       /\ rx' = rx \cup {[kind |-> k, agent |-> a, len |-> n, fresh |-> FALSE]}
  /\ UNCHANGED <<bus, driver, phys, tx, timely>>

Lose ==
  /\ \E f \in rx : rx' = rx \ {f}
  /\ UNCHANGED <<bus, driver, phys, tx, timely>>

-----------------------------------------------------------------------------
Next ==
  \/ \E a \in Agents : Demand(a) \/ Withdraw(a)
  \/ BusTimeout \/ Deliver \/ Scan
  \/ \E ok \in BOOLEAN : Post(ok)
  \/ DriverTimeout \/ DriverStart \/ DriverStop
  \/ \E f \in rx : Receive(f)
  \/ Transmit \/ TransmitFails \/ Stray \/ Lose

Spec == Init /\ [][Next]_vars

\* The backend loop polls the port and performs the bus for ever, time passes
\* and the port gets rid of a frame.  A stream has finitely many pages: streams
\* that return "repeat" for ever return "success" again and again.  Nothing is
\* assumed of the gates, nor of a message being found in a round.
Fairness ==
  /\ WF_vars(Deliver) /\ WF_vars(BusTimeout)
  /\ WF_vars(\E ok \in BOOLEAN : Post(ok))
  /\ WF_vars(\E f \in rx : Receive(f))
  /\ WF_vars(Transmit \/ TransmitFails)
  /\ WF_vars(Scan)
  /\ <>[][~Select("repeat")]_vars \/ []<><<Select("success")>>_vars

FairSpec == Spec /\ Fairness

-----------------------------------------------------------------------------
(* Properties. *)

\* The layers agree on whether an exchange is running: the identifier the bus
\* waits for is set exactly while the message executes, and it is the agent of
\* that message; a driver that receives serves a running message with its
\* receiver armed.  Otherwise a late frame, echo or timeout of one layer would
\* end, or never end, the message of another.
LayersAgree ==
  /\ (status = "phy") <=> (waitId # Idle)
  /\ waitId # Idle => waitId = msg.agent
  /\ drv = "receive" => status = "phy" /\ incomm
  /\ wd => status = "phy"

\* Every stream that was queried is owed exactly one confirm(), and it is the
\* stream of the message on the bus: nobody is forgotten and nobody is asked
\* again before the answer (stream::query and msg::confirm).
OneOwed ==
  owed = IF pc = "post" \/ status # "none" THEN {msg.agent} ELSE {}

\* A read that completes hands the stream a packet of the right slave and of
\* the requested length, and the packet is still that one when the stream gets
\* it (message_.tran.data points into in_packet_).  Not with OwnView.
PacketMatches ==
  (status = "complete" /\ msg.req # "put") =>
     /\ inPkt.kind = "slave" /\ inPkt.agent = msg.agent
     /\ msg.req = "get" => inPkt.len = msg.size

\* A completed read was answered to this very request, not to an earlier one of
\* the same agent.  The packets carry no number, so this needs timeouts longer
\* than any answer and no foreign answers (timely), and no echo (OwnView).
AnswerIsFresh ==
  (timely /\ status = "complete" /\ msg.req # "put") => inPkt.fresh

\* A message that was given to the bus comes back to its stream.
EveryMessageReturns == \A a \in Agents : a \in owed ~> a \notin owed

\* The round over the agents: an agent that would answer is asked, however busy
\* the others are, unless its gate is shut meanwhile or the driver's module is
\* stopped.  An agent whose gate is shut whenever its turn comes may wait for
\* ever: README, section 7.
EveryAgentServed ==
  \A a \in Agents : a \in willing ~> (a \in owed \/ a \notin willing \/ ~started)

\* How many agents the round passes before it comes to agent a.
Ahead(a) == IF a >= Start(cur) THEN a - Start(cur) ELSE a + N - Start(cur)

\* The round never gets further away from an agent whose gate is open and that
\* has something to exchange, and each turn another agent ends brings it nearer:
\* as long as its gate stays open, at most N - 1 turns go before its own
\* (bus::perform_, devagent::query and next_agent after the last page).  An agent
\* whose gate is shut is passed over.
TurnComes ==
  [][\A a \in willing \ owed : a \in willing' \ owed' =>
       /\ Ahead(a)' <= Ahead(a)
       /\ (pc = "post" /\ pc' = "loop" /\ res = "success") => Ahead(a)' < Ahead(a)]_vars

\* The stack implements one transaction at a time with one final result.
Transactions == INSTANCE BusTransaction WITH
  holder <- IF pc = "post" \/ status # "none" THEN msg.agent ELSE Idle,
  result <- IF status \in {"complete", "refuse"} THEN status ELSE "none"

\* CanBus refines BusTransaction, its fairness included.
ImplementsTransactions == Transactions!Spec
=============================================================================
