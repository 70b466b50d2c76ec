---------------------------- MODULE CanBus_proofs ----------------------------
(***************************************************************************)
(* Proofs about CanBus for every number of agents, every set of sizes,     *)
(* every bound of the receive side and every setting of the flags: the     *)
(* type invariant, the two invariants that tie the layers together, the    *)
(* step simulation of BusTransaction, that a read on a timely installation *)
(* is answered by its own answer, and that the round comes nearer to every *)
(* agent whose gate is open.                                               *)
(***************************************************************************)
EXTENDS CanBus, TLAPS

\* perform_ leaves the loop only when no message is on the bus.
ScanIsFree == pc # "loop" => status = "none"

IInv == TypeOK /\ LayersAgree /\ OneOwed /\ ScanIsFree

-----------------------------------------------------------------------------
(* Lemmas about the helpers. *)

\* The agents of a round are agents.
LEMMA RoundStaysInside ==
  ASSUME NEW c \in Agents \cup {Idle}, NEW k \in 0..(N - 1)
  PROVE  Nth(Start(c), k) \in Agents
<1> DEFINE m == Start(c) - 1 + k
<1>1. Start(c) \in Agents
  BY NAssumption DEF Start, Agents, Idle
<1>2. m \in Nat
  BY <1>1, NAssumption DEF Agents
<1>3. m % N \in 0..(N - 1)
  BY <1>2, NAssumption
<1>4. QED
  BY <1>3, NAssumption DEF Nth, Agents

\* The agent after another one is an agent.
LEMMA NextAgent == ASSUME NEW a \in Agents PROVE NextTurn(a) \in Agents
<1>1. a % N \in 0..(N - 1)
  BY NAssumption DEF Agents
<1>2. QED
  BY <1>1, NAssumption DEF Agents, NextTurn

\* What the driver's report makes of a status.
LEMMA ReportTypes ==
  ASSUME NEW s, NEW w, NEW m, NEW ok, NEW pkt,
         s \in {"none", "phy", "complete", "refuse"}
  PROVE  /\ ExchangeConfirm(s, w, m, ok, pkt) \in {"none", "phy", "complete", "refuse"}
         /\ w = Idle => ExchangeConfirm(s, w, m, ok, pkt) = s
         /\ w # Idle /\ s = "phy" =>
              ExchangeConfirm(s, w, m, ok, pkt) \in {"complete", "refuse"}
BY DEF ExchangeConfirm, BusConfirm

\* Forgetting to whom frames belong leaves frames.
LEMMA StaleFrames == ASSUME NEW S \in SUBSET Frame PROVE Stale(S) \in SUBSET Frame
BY DEF Stale, Frame

\* A receiver that is dropped leaves the ports' and receiver's types alone.
LEMMA DropTypes ==
  ASSUME TypeOK, DropReceiver
  PROVE  incomm' \in BOOLEAN /\ tx' \in TxFrame \cup {NoFrame} /\ rx' \in SUBSET Frame
BY DEF TypeOK, DropReceiver, PortReset, port

-----------------------------------------------------------------------------
LEMMA InitInv == Init => IInv
BY DEF Init, IInv, TypeOK, LayersAgree, OneOwed, ScanIsFree, Frame, Idle, Agents

USE DEF Idle

\* What a report of the driver to the bus leaves behind.
LEMMA ConfirmTypes ==
  ASSUME IInv, NEW ok, NEW pkt, status' = ExchangeConfirm(status, waitId, msg, ok, pkt)
  PROVE  /\ status' \in {"none", "phy", "complete", "refuse"}
         /\ status' # "phy"
         /\ status' = "none" <=> status = "none"
<1>1. CASE waitId = 0
  BY <1>1 DEF ExchangeConfirm, IInv, TypeOK, LayersAgree
<1>2. CASE waitId # 0
  BY <1>2 DEF ExchangeConfirm, BusConfirm, IInv, TypeOK, LayersAgree
<1>3. QED
  BY <1>1, <1>2

LEMMA PostInv == ASSUME IInv, NEW ok \in BOOLEAN, Post(ok) PROVE IInv'
<1> USE DEF IInv
<1> DEFINE old == IF msg.req = "put" THEN [inPkt EXCEPT !.len = 0, !.fresh = FALSE]
                                     ELSE [inPkt EXCEPT !.fresh = FALSE]
           sent == drv = "idle" /\ tx = NoFrame /\ ok
           done == ~sent \/ msg.req = "put"
           kind == IF msg.req = "get" THEN "get" ELSE "put"
           frame == [kind |-> kind, agent |-> msg.agent, len |-> msg.size,
                     answer |-> msg.req # "put", fresh |-> TRUE]
<1>1. msg \in Message /\ msg.agent \in Agents /\ msg.agent # 0
  BY NAssumption DEF TypeOK, Message, Agents
<1>2. old \in Frame
  BY DEF TypeOK, Frame
<1>3. frame \in TxFrame
  BY <1>1 DEF TxFrame, Message
<1>4. status = "none" /\ waitId = 0 /\ owed = {msg.agent} /\ drv # "receive"
  BY DEF Post, ScanIsFree, LayersAgree, OneOwed
<1>5. done => status' \in {"complete", "refuse"} /\ waitId' = 0 /\ drv' = drv
  BY <1>1, ReportTypes DEF Post
<1>6. ~done => status' = "phy" /\ waitId' = msg.agent /\ drv' = "receive" /\ incomm'
  BY DEF Post
<1>7. wd' \in BOOLEAN /\ (wd' => ~done)
  BY FlagsAssumption DEF Post
<1>8. TypeOK'
  <2>1. rx' \in SUBSET Frame /\ tx' \in TxFrame \cup {NoFrame}
    BY <1>3, StaleFrames DEF Post, TypeOK
  <2>2. outPkt' \in [kind : {"get", "put"}, agent : Agents]
    BY <1>1 DEF Post
  <2>3. inPkt' \in Frame /\ outcomm' \in BOOLEAN /\ incomm' \in BOOLEAN
    BY <1>2 DEF Post, TypeOK
  <2>4. cur' \in Agents \cup {0}
    BY <1>1, NextAgent DEF Post
  <2>5. status' \in {"none", "phy", "complete", "refuse"} /\ waitId' \in Agents \cup {0}
        /\ drv' \in {"disable", "stopped", "idle", "receive"}
    BY <1>1, <1>5, <1>6 DEF TypeOK
  <2>6. QED
    BY <1>7, <2>1, <2>2, <2>3, <2>4, <2>5 DEF TypeOK, Post
<1>9. LayersAgree'
  <2>1. msg' = msg
    BY DEF Post
  <2>2. CASE done
    BY <1>4, <1>5, <1>7, <2>2 DEF LayersAgree
  <2>3. CASE ~done
    BY <1>1, <1>6, <2>1, <2>3 DEF LayersAgree
  <2>4. QED
    BY <2>2, <2>3
<1>10. OneOwed' /\ ScanIsFree'
  BY <1>4, <1>5, <1>6 DEF Post, OneOwed, ScanIsFree
<1>11. QED
  BY <1>8, <1>9, <1>10

LEMMA ReceiveInv == ASSUME IInv, NEW f \in rx, Receive(f) PROVE IInv'
<1> USE DEF IInv
<1>1. f \in Frame /\ rx' \in SUBSET Frame /\ pc = "loop" /\ msg \in Message
      /\ msg.agent \in Agents
  BY DEF Receive, TypeOK, Message
<1>2. CASE HearEcho(f)
  <2>1. status' \in {"none", "phy", "complete", "refuse"} /\ status' # "phy"
        /\ (status' = "none" <=> status = "none")
    BY <1>2, ConfirmTypes DEF HearEcho, DriverConfirm
  <2>2. waitId' = 0 /\ wd' = FALSE /\ drv' # "receive" /\ started' = started
        /\ drv' \in {"disable", "stopped", "idle", "receive"}
        /\ outcomm' = FALSE /\ incomm' = incomm /\ inPkt' = inPkt
    BY <1>2 DEF HearEcho, DriverConfirm, TypeOK
  <2>3. QED
    BY <1>1, <2>1, <2>2 DEF Receive, TypeOK, LayersAgree, OneOwed, ScanIsFree
<1>3. CASE HearAnswer(f) /\ f.kind = "user"
  <2>1. inPkt' \in Frame
    BY <1>1, <1>3 DEF HearAnswer, TypeOK, Frame
  <2>2. QED
    BY <1>1, <1>3, <2>1
    DEF Receive, HearAnswer, driver, TypeOK, LayersAgree, OneOwed, ScanIsFree
<1>4. CASE HearAnswer(f) /\ f.kind # "user"
  <2>1. status' \in {"none", "phy", "complete", "refuse"} /\ status' # "phy"
        /\ (status' = "none" <=> status = "none")
    BY <1>4, ConfirmTypes DEF HearAnswer, DriverConfirm
  <2>2. waitId' = 0 /\ wd' = FALSE /\ drv' # "receive" /\ started' = started
        /\ drv' \in {"disable", "stopped", "idle", "receive"}
        /\ outcomm' = outcomm /\ incomm' = FALSE /\ inPkt' = f
    BY <1>4 DEF HearAnswer, DriverConfirm, TypeOK
  <2>3. QED
    BY <1>1, <2>1, <2>2 DEF Receive, TypeOK, LayersAgree, OneOwed, ScanIsFree
<1>5. CASE HearNothing(f)
  BY <1>1, <1>5
  DEF Receive, HearNothing, driver, TypeOK, LayersAgree, OneOwed, ScanIsFree
<1>6. QED
  BY <1>2, <1>3, <1>4, <1>5 DEF Receive

LEMMA SelectInv ==
  ASSUME IInv, NEW result \in {"success", "repeat"}, Select(result) PROVE IInv'
<1> USE DEF IInv
<1>1. PICK k \in 0..(N - 1) : LET a == Nth(Start(cur), k) IN
         /\ a \in willing
         /\ \E q \in Requests, n \in Sizes : msg' = [agent |-> a, req |-> q, size |-> n]
         /\ cur' = a
         /\ owed' = owed \cup {a}
         /\ willing' = willing \ Mates(a)
  BY DEF Select
<1> DEFINE a == Nth(Start(cur), k)
<1>2. a \in Agents
  BY RoundStaysInside DEF TypeOK
<1>3. msg' \in Message /\ msg'.agent = a
  BY <1>1, <1>2 DEF Message
<1>4. status = "none" /\ pc # "post" /\ owed = {}
  BY DEF Select, OneOwed
<1> HIDE DEF a
<1>5. TypeOK'
  BY <1>1, <1>2, <1>3 DEF TypeOK, Select, driver, phys, port, a
<1>6. LayersAgree' /\ OneOwed' /\ ScanIsFree'
  <2>1. owed' = {a}
    BY <1>1, <1>4 DEF a
  <2>2. QED
    BY <1>3, <1>4, <2>1
    DEF LayersAgree, OneOwed, ScanIsFree, Select, driver, phys, port
<1>7. QED
  BY <1>5, <1>6

LEMMA TransmitInv == ASSUME IInv, Transmit PROVE IInv'
<1> USE DEF IInv
<1>1. PICK answered \in BOOLEAN, n \in Sizes \cup {0} :
        LET reply == [kind |-> "slave", agent |-> tx.agent, len |-> n, fresh |-> tx.fresh]
            echo == [kind |-> tx.kind, agent |-> tx.agent, len |-> tx.len, fresh |-> tx.fresh]
            heard == (IF answered /\ tx.answer THEN {reply} ELSE {})
                     \cup (IF OwnView THEN {echo} ELSE {})
        IN rx' = rx \cup heard
  BY DEF Transmit
<1>2. tx \in TxFrame
  BY DEF Transmit, TypeOK
<1>3. rx' \in SUBSET Frame
  BY <1>1, <1>2 DEF TypeOK, TxFrame, Frame
<1>4. QED
  BY <1>3 DEF Transmit, bus, driver, phys, TypeOK, LayersAgree, OneOwed, ScanIsFree

LEMMA StepInv == IInv /\ [Next]_vars => IInv'
<1> SUFFICES ASSUME IInv, [Next]_vars PROVE IInv'
  OBVIOUS
<1> USE DEF IInv
<1>1. ASSUME NEW a \in Agents, Demand(a) \/ Withdraw(a) PROVE IInv'
  BY <1>1 DEF Demand, Withdraw, driver, phys, port, TypeOK, LayersAgree, OneOwed, ScanIsFree
<1>2. CASE BusTimeout
  BY <1>2, DropTypes
  DEF BusTimeout, BusConfirm, TypeOK, LayersAgree, OneOwed, ScanIsFree
<1>3. CASE Deliver
  BY <1>3 DEF Deliver, driver, phys, port, TypeOK, LayersAgree, OneOwed, ScanIsFree
<1>4. CASE SelectNone
  BY <1>4, NAssumption
  DEF SelectNone, Start, Agents, driver, phys, port, TypeOK, LayersAgree, OneOwed, ScanIsFree
<1>5. CASE DriverTimeout
  <2>1. status' \in {"none", "phy", "complete", "refuse"} /\ status' # "phy"
        /\ (status' = "none" <=> status = "none")
    BY <1>5, ConfirmTypes DEF DriverTimeout
  <2>2. waitId' = 0 /\ wd' = FALSE /\ drv' # "receive"
        /\ drv' \in {"disable", "stopped", "idle", "receive"}
    BY <1>5 DEF DriverTimeout, TypeOK
  <2>3. incomm' \in BOOLEAN /\ tx' \in TxFrame \cup {NoFrame} /\ rx' \in SUBSET Frame
    BY <1>5, DropTypes DEF DriverTimeout
  <2>4. QED
    BY <1>5, <2>1, <2>2, <2>3
    DEF DriverTimeout, TypeOK, LayersAgree, OneOwed, ScanIsFree
<1>6. CASE DriverStart
  BY <1>6 DEF DriverStart, bus, phys, port, TypeOK, LayersAgree, OneOwed, ScanIsFree
<1>7. CASE DriverStop
  BY <1>7, DropTypes DEF DriverStop, bus, TypeOK, LayersAgree, OneOwed, ScanIsFree
<1>8. CASE TransmitFails
  BY <1>8 DEF TransmitFails, bus, driver, phys, TypeOK, LayersAgree, OneOwed, ScanIsFree
<1>9. CASE Stray
  <2>1. rx' \in SUBSET Frame
    <3>1. PICK k \in StrayKinds, a \in Agents, n \in Sizes :
            rx' = rx \cup {[kind |-> k, agent |-> a, len |-> n, fresh |-> FALSE]}
      BY <1>9 DEF Stray
    <3>2. k \in {"slave", "user"}
      BY FlagsAssumption
    <3>3. [kind |-> k, agent |-> a, len |-> n, fresh |-> FALSE] \in Frame
      BY <3>2 DEF Frame
    <3>4. QED
      BY <3>1, <3>3 DEF TypeOK
  <2>2. QED
    BY <1>9, <2>1 DEF Stray, bus, driver, phys, TypeOK, LayersAgree, OneOwed, ScanIsFree
<1>10. CASE Lose
  <2>1. rx' \in SUBSET Frame
    BY <1>10 DEF Lose, TypeOK
  <2>2. QED
    BY <1>10, <2>1 DEF Lose, bus, driver, phys, TypeOK, LayersAgree, OneOwed, ScanIsFree
<1>11. CASE UNCHANGED vars
  BY <1>11 DEF vars, bus, driver, phys, port, TypeOK, LayersAgree, OneOwed, ScanIsFree
<1>12. QED
  BY <1>1, <1>2, <1>3, <1>4, <1>5, <1>6, <1>7, <1>8, <1>9, <1>10, <1>11,
     PostInv, ReceiveInv, SelectInv, TransmitInv DEF Next, Scan

\* The inductive invariant holds in every reachable state.
THEOREM Inductive == Spec => []IInv
<1>1. Init => IInv
  BY InitInv
<1>2. IInv /\ [Next]_vars => IInv'
  BY StepInv
<1>3. QED
  BY <1>1, <1>2, PTL DEF Spec

\* Every variable keeps its type.
THEOREM TypeCorrect == Spec => []TypeOK
BY Inductive, PTL DEF IInv

\* The bus, the driver and the receiver never disagree about which exchange is
\* running (wait_id_, state_, incomm_ against message_.tran.status).
THEOREM LayersAlwaysAgree == Spec => []LayersAgree
BY Inductive, PTL DEF IInv

\* A stream that was queried is owed one confirm(), and no other stream is.
THEOREM OneAlwaysOwed == Spec => []OneOwed
BY Inductive, PTL DEF IInv

-----------------------------------------------------------------------------
(* The packet of a completed read. *)

\* Without echoes the port reports no frame of the master, and once a read has
\* completed no receiver is armed that could overwrite its packet.
PacketInv ==
  /\ \A f \in rx : f.kind \in {"slave", "user"}
  /\ PacketMatches
  /\ (status = "complete" /\ msg.req # "put") => ~incomm

LEMMA PacketStep ==
  ASSUME ~OwnView, IInv, PacketInv, [Next]_vars PROVE PacketInv'
<1> USE DEF PacketInv, PacketMatches
<1>1. ASSUME NEW a \in Agents, Demand(a) \/ Withdraw(a) PROVE PacketInv'
  BY <1>1 DEF Demand, Withdraw, driver, phys, port
<1>2. CASE BusTimeout
  <2>1. status' = "refuse"
    BY <1>2 DEF BusTimeout, BusConfirm, IInv, LayersAgree
  <2>2. QED
    BY <1>2, <2>1 DEF BusTimeout, DropReceiver, PortReset, port
<1>3. CASE Deliver
  BY <1>3 DEF Deliver, driver, phys, port
<1>4. CASE SelectNone
  BY <1>4 DEF SelectNone, driver, phys, port
<1>5. CASE DriverTimeout
  <2>1. status' # "complete"
    BY <1>5 DEF DriverTimeout, ExchangeConfirm, BusConfirm, IInv, LayersAgree
  <2>2. QED
    BY <1>5, <2>1 DEF DriverTimeout, DropReceiver, PortReset, port
<1>6. CASE DriverStart
  BY <1>6 DEF DriverStart, bus, phys, port
<1>7. CASE DriverStop
  BY <1>7 DEF DriverStop, DropReceiver, PortReset, bus, port
<1>8. CASE TransmitFails
  BY <1>8 DEF TransmitFails, bus, driver, phys
<1>9. CASE Stray
  BY <1>9, FlagsAssumption DEF Stray, bus, driver, phys
<1>10. CASE Lose
  BY <1>10 DEF Lose, bus, driver, phys
<1>11. CASE UNCHANGED vars
  BY <1>11 DEF vars, bus, driver, phys, port
<1>12. ASSUME NEW result \in {"success", "repeat"}, Select(result) PROVE PacketInv'
  BY <1>12 DEF Select, driver, phys, port
<1>13. ASSUME NEW ok \in BOOLEAN, Post(ok) PROVE PacketInv'
  <2>1. \A f \in rx' : f.kind \in {"slave", "user"}
    <3>1. rx' = Stale(rx) \/ rx' = {}
      BY <1>13 DEF Post
    <3>2. \A f \in Stale(rx) : \E g \in rx : f.kind = g.kind
      BY DEF Stale, IInv, TypeOK, Frame
    <3>3. QED
      BY <3>1, <3>2
  <2>2. status' = "complete" => msg'.req = "put"
    BY <1>13 DEF Post, ExchangeConfirm, BusConfirm, Answers
  <2>3. QED
    BY <2>1, <2>2
<1>14. ASSUME NEW f \in rx, Receive(f) PROVE PacketInv'
  <2>1. \A g \in rx' : g.kind \in {"slave", "user"}
    BY <1>14 DEF Receive
  <2>2. ~HearEcho(f)
    BY DEF HearEcho, IInv, TypeOK
  <2>3. CASE HearAnswer(f) /\ f.kind = "user"
    BY <1>14, <2>1, <2>3 DEF Receive, HearAnswer, driver
  <2>4. CASE HearAnswer(f) /\ f.kind # "user"
    BY <1>14, <2>1, <2>4
    DEF Receive, HearAnswer, DriverConfirm, ExchangeConfirm, BusConfirm, Answers,
        IInv, LayersAgree
  <2>5. CASE HearNothing(f)
    BY <1>14, <2>1, <2>5 DEF Receive, HearNothing, driver
  <2>6. QED
    BY <1>14, <2>2, <2>3, <2>4, <2>5 DEF Receive
<1>15. CASE Transmit
  <2>1. \A g \in rx' : g \in rx \/ g.kind = "slave"
    BY <1>15 DEF Transmit
  <2>2. QED
    BY <1>15, <2>1 DEF Transmit, bus, driver, phys
<1>16. QED
  BY <1>1, <1>2, <1>3, <1>4, <1>5, <1>6, <1>7, <1>8, <1>9, <1>10, <1>11, <1>12,
     <1>13, <1>14, <1>15 DEF Next, Scan

\* On a port that does not echo, the stream of a completed read finds a packet
\* of its own slave, of the length it asked for, in the buffer it is pointed to.
THEOREM PacketAlwaysMatches == ~OwnView /\ Spec => []PacketMatches
<1>1. Init => PacketInv
  BY DEF Init, PacketInv, PacketMatches
<1>2. ~OwnView /\ IInv /\ PacketInv /\ [Next]_vars => PacketInv'
  BY PacketStep
<1>3. PacketInv => PacketMatches
  BY DEF PacketInv
<1> DEFINE NoEcho == ~OwnView
<1>4. NoEcho => [](NoEcho)
  <2>1. NoEcho => (NoEcho)'
    OBVIOUS
  <2>2. QED
    BY <2>1, PTL
<1>5. QED
  BY <1>1, <1>2, <1>3, <1>4, Inductive, PTL DEF Spec

-----------------------------------------------------------------------------
(* A read is answered by its own answer. *)

\* On a timely installation the slot and the receive side together hold at most
\* one answer, and it is that of the message that executes.  So the port that
\* ends a message by its timeout leaves no answer behind, and the first answer
\* a receiver hears is the only one.
FreshInv ==
  timely =>
    /\ tx # NoFrame /\ tx.answer =>
         /\ tx.fresh /\ status = "phy"
         /\ \A f \in rx : f.kind # "slave"
    /\ \A f \in rx : f.kind = "slave" => f.fresh /\ status = "phy"
    /\ \A f, g \in rx : f.kind = "slave" /\ g.kind = "slave" => f = g
    /\ (status = "complete" /\ msg.req # "put") => inPkt.fresh

\* Whatever takes frames away and lets the message and its status be keeps it.
LEMMA FewerFrames ==
  ASSUME FreshInv, timely' = timely, UNCHANGED <<status, msg, inPkt>>,
         tx' \in {tx, NoFrame}, rx' \subseteq rx
  PROVE  FreshInv'
BY DEF FreshInv

\* A timeout on a timely installation finds nothing on its way.
LEMMA NothingPending ==
  ASSUME FreshInv, timely, ~AnswerPending
  PROVE  tx = NoFrame /\ \A f \in rx : f.kind # "slave"
BY DEF FreshInv, AnswerPending

LEMMA FreshPost ==
  ASSUME IInv, FreshInv, NEW ok \in BOOLEAN, Post(ok) PROVE FreshInv'
<1> SUFFICES ASSUME timely' PROVE FreshInv'
  BY DEF FreshInv
<1>1. timely /\ status = "none" /\ NoFrame \notin TxFrame /\ msg' = msg
  BY NoFrameAssumption DEF Post, IInv, ScanIsFree
<1>2. \A f \in rx : f.kind # "slave"
  BY <1>1 DEF FreshInv
<1>3. \A f \in rx' : f.kind # "slave"
  <2>1. rx' = Stale(rx) \/ rx' = {}
    BY DEF Post
  <2>2. \A f \in Stale(rx) : \E g \in rx : f.kind = g.kind
    BY DEF Stale, IInv, TypeOK, Frame
  <2>3. QED
    BY <1>2, <2>1, <2>2
<1>4. status' = "complete" => msg'.req = "put"
  BY DEF Post, ExchangeConfirm, BusConfirm, Answers
<1>5. tx' # NoFrame /\ tx'.answer => tx'.fresh /\ status' = "phy"
  <2>1. CASE drv = "idle" /\ tx = NoFrame /\ ok
    <3>1. \E k : tx' = [kind |-> k, agent |-> msg.agent, len |-> msg.size,
                       answer |-> msg.req # "put", fresh |-> TRUE]
      BY <2>1 DEF Post
    <3>2. msg.req # "put" => status' = "phy"
      BY <2>1 DEF Post
    <3>3. tx'.fresh = TRUE /\ tx'.answer = (msg.req # "put")
      BY <3>1
    <3>4. QED
      BY <3>2, <3>3, Zenon
  <2>2. CASE ~(drv = "idle" /\ tx = NoFrame /\ ok)
    <3>1. tx' = tx \/ tx' = NoFrame
      BY <2>2 DEF Post
    <3>2. QED
      BY <1>1, <3>1 DEF FreshInv
  <2>3. QED
    BY <2>1, <2>2
<1>6. QED
  BY <1>3, <1>4, <1>5 DEF FreshInv

LEMMA FreshReceive ==
  ASSUME ~OwnView, IInv, PacketInv, FreshInv, NEW f \in rx, Receive(f)
  PROVE  FreshInv'
<1> SUFFICES ASSUME timely' PROVE FreshInv'
  BY DEF FreshInv
<1>1. timely /\ rx' = rx \ {f} /\ tx' = tx /\ msg' = msg
  BY DEF Receive
<1>2. ~HearEcho(f)
  BY DEF HearEcho, PacketInv, IInv, TypeOK
<1>3. CASE HearAnswer(f) /\ f.kind = "user"
  <2>1. status' = status /\ inPkt'.fresh = inPkt.fresh
    BY <1>3 DEF HearAnswer, IInv, TypeOK, Frame
  <2>2. QED
    BY <1>1, <2>1 DEF FreshInv
<1>4. CASE HearAnswer(f) /\ f.kind # "user"
  <2>1. f.kind = "slave" /\ inPkt' = f
    BY <1>4 DEF HearAnswer, PacketInv
  <2>2. f.fresh /\ \A g \in rx' : g.kind # "slave"
    BY <1>1, <2>1 DEF FreshInv
  <2>3. ~(tx' # NoFrame /\ tx'.answer)
    BY <1>1, <2>1 DEF FreshInv
  <2>4. QED
    BY <2>1, <2>2, <2>3 DEF FreshInv
<1>5. CASE HearNothing(f)
  BY <1>1, <1>5, FewerFrames DEF HearNothing
<1>6. QED
  BY <1>2, <1>3, <1>4, <1>5 DEF Receive

LEMMA FreshTransmit ==
  ASSUME ~OwnView, IInv, FreshInv, Transmit PROVE FreshInv'
<1> SUFFICES ASSUME timely' PROVE FreshInv'
  BY DEF FreshInv
<1> DEFINE reply(n) == [kind |-> "slave", agent |-> tx.agent, len |-> n, fresh |-> tx.fresh]
<1>1. timely /\ tx # NoFrame /\ tx' = NoFrame /\ UNCHANGED <<status, msg, inPkt>>
  BY DEF Transmit, bus, phys
<1>2. PICK n \in Sizes \cup {0} : rx' = rx \/ (tx.answer /\ rx' = rx \cup {reply(n)})
  BY DEF Transmit
<1>3. CASE rx' = rx
  BY <1>1, <1>3, FewerFrames DEF Transmit
<1>4. CASE tx.answer /\ rx' = rx \cup {reply(n)}
  BY <1>1, <1>4 DEF FreshInv
<1>5. QED
  BY <1>2, <1>3, <1>4

LEMMA FreshStep ==
  ASSUME ~OwnView, IInv, PacketInv, FreshInv, [Next]_vars PROVE FreshInv'
<1>1. ASSUME NEW a \in Agents, Demand(a) \/ Withdraw(a) PROVE FreshInv'
  BY <1>1, FewerFrames DEF Demand, Withdraw, phys, port
<1>2. CASE BusTimeout
  <2>1. status' = "refuse" /\ timely' = timely /\ rx' \subseteq rx /\ tx' \in {tx, NoFrame}
    BY <1>2 DEF BusTimeout, BusConfirm, IInv, LayersAgree, DropReceiver, PortReset, port
  <2>2. timely => ~AnswerPending
    BY <1>2 DEF BusTimeout
  <2>3. QED
    BY <2>1, <2>2, NothingPending DEF FreshInv
<1>3. CASE Deliver
  BY <1>3 DEF Deliver, phys, port, FreshInv
<1>4. CASE SelectNone
  BY <1>4, FewerFrames DEF SelectNone, phys, port
<1>5. CASE DriverTimeout
  <2>1. status' = "refuse" /\ timely' = timely /\ rx' \subseteq rx /\ tx' \in {tx, NoFrame}
    BY <1>5
    DEF DriverTimeout, ExchangeConfirm, BusConfirm, IInv, LayersAgree, DropReceiver, PortReset, port
  <2>2. timely => ~AnswerPending
    BY <1>5 DEF DriverTimeout
  <2>3. QED
    BY <2>1, <2>2, NothingPending DEF FreshInv
<1>6. CASE DriverStart
  BY <1>6, FewerFrames DEF DriverStart, bus, phys, port
<1>7. CASE DriverStop
  BY <1>7, FewerFrames DEF DriverStop, DropReceiver, PortReset, bus, port
<1>8. CASE TransmitFails
  BY <1>8, FewerFrames DEF TransmitFails, bus, phys
<1>9. CASE Stray
  <2>1. PICK k \in StrayKinds, a \in Agents, n \in Sizes :
          /\ timely => k # "slave"
          /\ rx' = rx \cup {[kind |-> k, agent |-> a, len |-> n, fresh |-> FALSE]}
    BY <1>9 DEF Stray
  <2>2. UNCHANGED <<status, msg, inPkt, tx, timely>>
    BY <1>9 DEF Stray, bus, phys
  <2>3. QED
    BY <2>1, <2>2 DEF FreshInv
<1>10. CASE Lose
  BY <1>10, FewerFrames DEF Lose, bus, phys
<1>11. CASE UNCHANGED vars
  BY <1>11, FewerFrames DEF vars, bus, phys, port
<1>12. ASSUME NEW result \in {"success", "repeat"}, Select(result) PROVE FreshInv'
  BY <1>12 DEF Select, phys, port, FreshInv
<1>13. QED
  BY <1>1, <1>2, <1>3, <1>4, <1>5, <1>6, <1>7, <1>8, <1>9, <1>10, <1>11, <1>12,
     FreshPost, FreshReceive, FreshTransmit DEF Next, Scan

\* On a timely installation without echoes the answer that completes a read is
\* that of this very request, for any number of frames on the receive side:
\* the packets carry no number, but no answer outlives its request.
THEOREM AnswersAreFresh == ~OwnView /\ Spec => []AnswerIsFresh
<1>1. Init => PacketInv /\ FreshInv
  BY DEF Init, PacketInv, PacketMatches, FreshInv
<1>2. ~OwnView /\ IInv /\ PacketInv /\ FreshInv /\ [Next]_vars => PacketInv' /\ FreshInv'
  BY PacketStep, FreshStep
<1>3. FreshInv => AnswerIsFresh
  BY DEF FreshInv, AnswerIsFresh
<1> DEFINE NoEcho == ~OwnView
<1>4. NoEcho => [](NoEcho)
  <2>1. NoEcho => (NoEcho)'
    OBVIOUS
  <2>2. QED
    BY <2>1, PTL
<1>5. QED
  BY <1>1, <1>2, <1>3, <1>4, Inductive, PTL DEF Spec

-----------------------------------------------------------------------------
(* The round over the agents. *)

\* A sum of an agent and a step of the round is reduced at most once.
LEMMA WrapsOnce ==
  ASSUME NEW m \in 0..(2 * N - 1)
  PROVE  m % N = IF m < N THEN m ELSE m - N
BY NAssumption

LEMMA NthIs ==
  ASSUME NEW c \in Agents, NEW k \in 0..(N - 1)
  PROVE  Nth(c, k) = IF c + k <= N THEN c + k ELSE c + k - N
<1> DEFINE m == c - 1 + k
<1>1. m \in 0..(2 * N - 1)
  BY NAssumption DEF Agents
<1> HIDE DEF m
<1>2. m % N = IF m < N THEN m ELSE m - N
  BY <1>1, WrapsOnce
<1>3. Nth(c, k) = (m % N) + 1
  BY DEF Nth, m
<1>4. QED
  BY <1>2, <1>3, NAssumption DEF Agents, m

LEMMA NextTurnIs ==
  ASSUME NEW a \in Agents
  PROVE  NextTurn(a) = IF a < N THEN a + 1 ELSE 1
<1>1. a \in 0..(2 * N - 1)
  BY NAssumption DEF Agents
<1>2. QED
  BY <1>1, WrapsOnce, NAssumption DEF NextTurn, Agents

\* An agent is met by the round after as many steps as there are agents ahead.
LEMMA MetByRound ==
  ASSUME IInv, NEW a \in Agents
  PROVE  Start(cur) \in Agents /\ Ahead(a) \in 0..(N - 1) /\ Nth(Start(cur), Ahead(a)) = a
<1>1. Start(cur) \in Agents
  BY NAssumption DEF Start, Agents, IInv, TypeOK
<1>2. Ahead(a) \in 0..(N - 1)
  BY <1>1, NAssumption DEF Ahead, Agents
<1>3. Nth(Start(cur), Ahead(a)) = a
  BY <1>1, <1>2, NthIs, NAssumption DEF Ahead, Agents
<1>4. QED
  BY <1>1, <1>2, <1>3

\* The message that is about to be posted is that of the agent whose turn it is.
Turn == pc = "post" => cur = msg.agent

LEMMA TurnStep == IInv /\ Turn /\ [Next]_vars => Turn'
<1> SUFFICES ASSUME IInv, Turn, [Next]_vars PROVE Turn'
  OBVIOUS
<1>1. ASSUME NEW result \in {"success", "repeat"}, Select(result) PROVE Turn'
  BY <1>1 DEF Select, Turn
<1>2. ASSUME UNCHANGED <<pc, cur, msg>> PROVE Turn'
  BY <1>2 DEF Turn
<1>3. ASSUME pc' # "post" PROVE Turn'
  BY <1>3 DEF Turn
<1>4. QED
  BY <1>1, <1>2, <1>3
  DEF Next, Scan, Demand, Withdraw, BusTimeout, Deliver, SelectNone, Post, DriverTimeout, DriverStart,
      DriverStop, Receive, Transmit, TransmitFails, Stray, Lose, vars, bus

\* The round comes nearer: the agents it passes have nothing to exchange, or
\* their gate is shut.
LEMMA SelectNearer ==
  ASSUME IInv, NEW result \in {"success", "repeat"}, Select(result),
         NEW a \in willing, a \in willing' \ owed'
  PROVE  Ahead(a)' <= Ahead(a)
<1>1. PICK k \in 0..(N - 1) :
        /\ \A j \in 0..(k - 1) : Nth(Start(cur), j) \notin willing
        /\ cur' = Nth(Start(cur), k) /\ owed' = owed \cup {Nth(Start(cur), k)}
  BY DEF Select
<1>2. a \in Agents /\ a # Nth(Start(cur), k)
  BY <1>1 DEF IInv, TypeOK
<1>3. Start(cur) \in Agents /\ Ahead(a) \in 0..(N - 1) /\ Nth(Start(cur), Ahead(a)) = a
  BY <1>2, MetByRound
<1>4. Ahead(a) \notin 0..(k - 1) /\ Ahead(a) # k
  BY <1>1, <1>2, <1>3
<1>5. cur' = IF Start(cur) + k <= N THEN Start(cur) + k ELSE Start(cur) + k - N
  BY <1>1, <1>3, NthIs
<1>6. Start(cur)' = cur'
  <2>1. cur' # 0
    BY <1>3, <1>5, NAssumption DEF Agents
  <2>2. QED
    BY <2>1 DEF Start
<1>7. QED
  BY <1>2, <1>3, <1>4, <1>5, <1>6, NAssumption DEF Ahead, Agents

LEMMA PostNearer ==
  ASSUME IInv, Turn, NEW ok \in BOOLEAN, Post(ok), NEW a \in willing \ owed
  PROVE  Ahead(a)' <= Ahead(a) /\ (res = "success" => Ahead(a)' < Ahead(a))
<1>1. cur = msg.agent /\ msg.agent \in Agents /\ a \in Agents /\ a # msg.agent
      /\ cur' = IF res = "success" THEN NextTurn(msg.agent) ELSE msg.agent
  BY DEF Post, Turn, IInv, TypeOK, OneOwed, Message
<1>2. Start(cur) = cur
  BY <1>1, NAssumption DEF Start, Agents
<1>3. CASE res = "success"
  <2>1. cur' = IF cur < N THEN cur + 1 ELSE 1
    BY <1>1, <1>3, NextTurnIs
  <2>2. Start(cur)' = cur'
    BY <1>1, <2>1, NAssumption DEF Start, Agents
  <2>3. QED
    BY <1>1, <1>2, <2>1, <2>2, NAssumption DEF Ahead, Agents
<1>4. CASE res # "success"
  <2>1. Ahead(a)' = Ahead(a)
    BY <1>1, <1>2, <1>4 DEF Ahead, Start
  <2>2. Ahead(a) \in 0..(N - 1)
    BY <1>1, MetByRound
  <2>3. QED
    BY <1>4, <2>1, <2>2
<1>5. QED
  BY <1>3, <1>4

LEMMA RoundStep ==
  ASSUME IInv, Turn, [Next]_vars, NEW a \in willing \ owed, a \in willing' \ owed'
  PROVE  /\ Ahead(a)' <= Ahead(a)
         /\ (pc = "post" /\ pc' = "loop" /\ res = "success") => Ahead(a)' < Ahead(a)
<1>1. a \in Agents /\ Ahead(a) \in 0..(N - 1)
  BY MetByRound DEF IInv, TypeOK
<1>2. CASE \E result \in {"success", "repeat"} : Select(result)
  BY <1>2, SelectNearer DEF Select
<1>3. CASE \E ok \in BOOLEAN : Post(ok)
  BY <1>3, PostNearer
<1>4. ASSUME UNCHANGED <<pc, cur>> PROVE Ahead(a)' = Ahead(a) /\ ~(pc = "post" /\ pc' = "loop")
  BY <1>4 DEF Ahead, Start
<1>5. CASE SelectNone
  <2>1. cur' \in {cur, Start(cur)} /\ pc # "post"
    BY <1>5 DEF SelectNone
  <2>2. Start(cur)' = Start(cur)
    BY <2>1, NAssumption DEF Start
  <2>3. Ahead(a)' = Ahead(a)
    BY <2>2 DEF Ahead
  <2>4. QED
    BY <1>1, <2>1, <2>3
<1>6. CASE Deliver
  BY <1>1, <1>6 DEF Deliver, Ahead, Start
<1>7. \/ \E result \in {"success", "repeat"} : Select(result)
      \/ \E ok \in BOOLEAN : Post(ok)
      \/ SelectNone \/ Deliver \/ UNCHANGED <<pc, cur>>
  BY DEF Next, Scan, Demand, Withdraw, BusTimeout, DriverTimeout, DriverStart,
      DriverStop, Receive, Transmit, TransmitFails, Stray, Lose, vars, bus
<1>8. QED
  BY <1>1, <1>2, <1>3, <1>4, <1>5, <1>6, <1>7

\* For any number of agents and any share of boards among them, the round comes
\* nearer to an agent that waits with its gate open with each turn another ends,
\* and never gets further away: while the gate stays open at most N - 1 turns go
\* before its own.  Of an agent whose gate is shut when the round comes by it
\* says nothing: that one is passed over (bus::perform_ and devagent::query,
\* servo/robosd_backend.cpp).
THEOREM TurnAlwaysComes == Spec => TurnComes
<1>1. Init => Turn
  BY DEF Init, Turn
<1>2. IInv /\ Turn /\ [Next]_vars
        => [\A a \in willing \ owed : a \in willing' \ owed' =>
              /\ Ahead(a)' <= Ahead(a)
              /\ (pc = "post" /\ pc' = "loop" /\ res = "success") => Ahead(a)' < Ahead(a)]_vars
  BY RoundStep
<1>3. QED
  BY <1>1, <1>2, TurnStep, Inductive, PTL DEF Spec, TurnComes

-----------------------------------------------------------------------------
(* The stack implements BusTransaction. *)

LEMMA TransactionStep ==
  ASSUME IInv, [Next]_vars PROVE [Transactions!Next]_(Transactions!vars)
<1> DEFINE busy == pc = "post" \/ status # "none"
           hold == IF busy THEN msg.agent ELSE Idle
           over == IF status \in {"complete", "refuse"} THEN status ELSE "none"
<1> USE DEF Transactions!vars
<1>0. msg.agent \in Agents /\ msg.agent # 0
  BY NAssumption DEF IInv, TypeOK, Message, Agents
<1>1. SUFFICES \/ \E a \in Agents : hold = 0 /\ hold' = a /\ over' = "none"
               \/ \E r \in {"complete", "refuse"} :
                    hold # 0 /\ over = "none" /\ over' = r /\ hold' = hold
               \/ hold # 0 /\ over # "none" /\ hold' = 0 /\ over' = "none"
               \/ hold' = hold /\ over' = over
  BY DEF Transactions!Next, Transactions!Begin, Transactions!Finish, Transactions!Return,
         Transactions!Agents, Agents
<1>2. ASSUME UNCHANGED <<pc, status, msg>> PROVE hold' = hold /\ over' = over
  BY <1>2
<1>3. CASE \/ \E a \in Agents : Demand(a) \/ Withdraw(a)
           \/ DriverStart \/ DriverStop \/ Transmit \/ TransmitFails \/ Stray \/ Lose
           \/ UNCHANGED vars
  BY <1>2, <1>3 DEF Demand, Withdraw, DriverStart, DriverStop, Transmit, TransmitFails, Stray, Lose,
     vars, bus
<1>4. CASE SelectNone
  BY <1>4 DEF SelectNone
<1>5. CASE BusTimeout
  <2>1. status = "phy" /\ status' = "refuse" /\ UNCHANGED <<pc, msg>>
    BY <1>5 DEF BusTimeout, BusConfirm, IInv, LayersAgree
  <2>2. QED
    BY <1>0, <2>1
<1>6. CASE Deliver
  BY <1>0, <1>6 DEF Deliver
<1>7. ASSUME NEW result \in {"success", "repeat"}, Select(result)
      PROVE \E a \in Agents : hold = 0 /\ hold' = a /\ over' = "none"
  <2>1. pc' = "post" /\ status' = "none" /\ msg' \in Message /\ hold = 0
    <3>1. IInv'
      BY <1>7, SelectInv
    <3>2. QED
      BY <1>7, <3>1 DEF Select, IInv, TypeOK
  <2>2. QED
    BY <2>1 DEF Message
<1>8. ASSUME NEW ok \in BOOLEAN, Post(ok)
      PROVE \/ \E r \in {"complete", "refuse"} :
                 hold # 0 /\ over = "none" /\ over' = r /\ hold' = hold
            \/ hold' = hold /\ over' = over
  <2>1. status = "none" /\ pc = "post" /\ pc' = "loop" /\ msg' = msg
    BY <1>8 DEF Post, IInv, ScanIsFree
  <2>2. status' \in {"phy", "complete", "refuse"}
    BY <1>0, <1>8, ReportTypes DEF Post
  <2>3. QED
    BY <1>0, <2>1, <2>2
<1>9. ASSUME pc' = pc, msg' = msg, NEW ok, NEW pkt,
             status' = ExchangeConfirm(status, waitId, msg, ok, pkt)
      PROVE \/ \E r \in {"complete", "refuse"} :
                 hold # 0 /\ over = "none" /\ over' = r /\ hold' = hold
            \/ hold' = hold /\ over' = over
  <2>1. CASE waitId = 0
    BY <1>9, <2>1 DEF ExchangeConfirm
  <2>2. CASE waitId # 0
    <3>1. status = "phy" /\ status' \in {"complete", "refuse"}
      BY <1>9, <2>2 DEF ExchangeConfirm, BusConfirm, IInv, LayersAgree
    <3>2. QED
      BY <1>0, <1>9, <3>1
  <2>3. QED
    BY <2>1, <2>2
<1>10. CASE DriverTimeout
  BY <1>9, <1>10 DEF DriverTimeout
<1>11. ASSUME NEW f \in rx, Receive(f)
       PROVE \/ \E r \in {"complete", "refuse"} :
                 hold # 0 /\ over = "none" /\ over' = r /\ hold' = hold
             \/ hold' = hold /\ over' = over
  <2>1. pc' = pc /\ msg' = msg
    BY <1>11 DEF Receive
  <2>2. \/ status' = status
        \/ \E pkt : status' = ExchangeConfirm(status, waitId, msg, drv = "receive", pkt)
    BY <1>11 DEF Receive, HearEcho, HearAnswer, HearNothing, DriverConfirm
  <2>3. QED
    BY <1>2, <1>9, <2>1, <2>2
<1>12. QED
  BY <1>3, <1>4, <1>5, <1>6, <1>7, <1>8, <1>10, <1>11 DEF Next, Scan

\* Every behaviour of the stack carries out one transaction at a time, each with
\* one final result that is returned before the next begins.
THEOREM ImplementsSafety == Spec => Transactions!Safety
<1>1. Init => Transactions!Init
  BY DEF Init, Transactions!Init
<1>2. IInv /\ [Next]_vars => [Transactions!Next]_(Transactions!vars)
  BY TransactionStep
<1>3. QED
  BY <1>1, <1>2, Inductive, PTL DEF Spec, Transactions!Safety
=============================================================================
