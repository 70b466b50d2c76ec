# A verification development of robosd++

robosd++ is a framework for distributed robot control: a host program runs a tree
of *nodes*; device agents in its frontend keep a picture of remote drives; a backend
thread exchanges data with them over a request/answer bus, here CAN. These modules
model the control of that core, TLC checks them on small instances, and TLAPS proves
the main safety results for every value of the constants.

Paths in this file are relative to `src/content/source/` unless they start with `doc/`
(`src/content/doc/`) or `app-template/`.

| module | what it is | code |
|---|---|---|
| `CanBus` | one bus, its driver, its port and its slaves | `servo/robosd_backend`, `net/robosd_can_flow_bus`, `net/robosd_net_master.hpp` |
| `BusTransaction` | what the bus promises the streams (abstract) | |
| `SafeRing` | the guarded ring buffer | `core/robosd_ring_safe_buf.hpp` |
| `BoundedFifo` | a bounded queue (abstract) | |
| `TaskController` | controller, node and process | `core/robosd_stateflow` |
| `DevAgent` | a device agent and its modes, over `TaskController` | `servo/robosd_frontend` |
| `AppTree` | the life of an application | `core/robosd_app` |
| `BurstBoard` | the board of a burst++ firmware, its devices, panics and modes | `burst++/burst.cpp` |
| `VarFlow` | a variable, from the program's request to the device's memory and back | `servo/burst_backend`, `servo/robosd_backend`, `servo/robosd_frontend`, `net/robosd_flow`, `burst++/vartree.cpp` |
| `Snapshots` | a periodic snapshot of a device's memory, page by page | `servo/robosd_backend` (datamap), `net/robosd_flow` (snapshot_proto) |
| `*_proofs` | theorems about the module they extend | |
| `MC*` | instances for TLC | |

`PROJECT.json` lists components, runs, mutants, the map from definitions to source
lines, findings, hazards and theorems.

## 1. Inventory

### 1.1 Threads and interaction

Two threads matter. The *frontend* runs `machine::frontend_loop` (about every
100 ms): the tree is brought up or down and, while it is up, the modules' frontend
loops and the servo with its agents are polled. The *backend* runs
`machine::backend_loop` (about every millisecond): ports, driver watchdogs,
`bus::perform`, timers and tasks. They share data under one recursive
`system::guard`, and the backend hands results to the frontend through signals.
A console or terminal thread may call `start` and `stop` of the machine and write
commands of agents.

```
 program, console ──begin/start/stop/finish──▶ app::machine ──walks──▶ nodes (modules, buses, agents)
 operator ──command──▶ frontend::devagent ──switchto/run──▶ stateflow::controller ──▶ mode (node)
                            │  ▲                                    
                     quest  │  │ feedback, traffic                   
                            ▼  │                                    
                       backend::devagent::stream ──query/confirm──▶ backend::bus
                                                                     │ request_/confirm
                                                             can::flow::bus : master_t
                                                                     │ send/receive
                                                                   ican port ══ wire ══ devices
```

### 1.2 Components

**CAN bus stack** (`backend::bus`, `can::flow::bus`, `master_t`, `xphys`).
*State*: the one message of the bus and its status, the agent whose turn it is, the
identifier the bus waits for, the driver's state and watchdog, the armed sender and
receiver, the last packet. *Operations*: `perform_` (timeout, delivery, the round over
the agents), `request_`/`post`, `exchange_confirm`, `confirm`/`refuse`/`poll` of the
driver, `do_can_receive`, `send`, `start`, `stop`. *Hard*: two timeouts of two layers
watch one exchange; confirmations arrive synchronously inside a call or from the port
later; packets carry no sequence number; the frontend starts and stops the driver between
two steps of the backend. *Correct when*: the layers agree on which exchange runs, each
queried stream gets exactly one outcome, data belongs to the request, every agent that answers gets its turn.

**Ring buffers**. *State*: an array and two word counters that only grow. *Operations*:
`put`, `get`, `try_put`, `try_get` and the fill level. *Hard*: counters wrap around, full
and empty differ in one bit. *Correct when*: it is a bounded queue.

**Task controller** (`core/robosd_stateflow`). *State*: the selected and the running task;
command and phase of each task. *Operations*: `switchto`, `stop`, `run`, `terminate`; the
tasks' `run`, long fall-through switches that poll callbacks. *Hard*: the callbacks call the
controller back in the middle of `run`. *Correct when*: one task at a time is active, tasks
change hands only when stopped, a selected task gets its turn.

**Device agents** (`frontend::devagent`). *State*: the controller of its eight modes, the
status it shows, the exchange list it is in, the pending command, the configuration quest, the
clock and traffic it compares with. *Operations*: `poll` = `do_check_command` + `run` of the
controller; `configute_confirm`, `configure_refuse`; `discovery_begin`; `doTerminate`. *Hard*:
device reports, traffic, commands and quest answers come at any time, also between the two
halves of `poll`. *Correct when*: the status is the mode that runs, lost devices leave the
exchange, control begins from a stopped device, panic is noticed, no wait lasts for ever.

**Application tree** (`core/robosd_app`). *State*: each node's state and the list of its owner it
is in; the request, `terminated_`. *Operations*: `load`, `start`, `startup`, `stop`, `shutdown`,
`clean`, `panic`; the machine's loop and the program's calls. *Hard*: walks resume over many
turns, any callback may fail or panic, a stop comes from another thread. *Correct when*:
nodes come up and go down children first, and everything is stopped before it is unloaded.

**Board and devices of burst++** (`burst++/burst.cpp`). *State*: the board's status and command, one panic
word for the board and one for each device, the mode each device runs and the one its master asks for, the
startup slot. *Operations*: the main loop's pass (reset timeout, commands, startup slot, panics set and
released), the interrupt's protection and `loopA()`, writes of the master. *Hard*: the panic words are read,
changed and written back without a guard while the interrupt changes them. *Correct when*: a board that is not
configured holds its devices, the panics that last survive, a device with a fault of its own does not work,
devices start only when released, and the configuration ends.

**Variables** (`vartable`, `ivar`, `varindex`, the protocol of the device). *State*: names waiting for their
index, the queue of busy variables, the step of the protocol; in the device the request in hand, the answer in
the slot, the pool. *Operations*: look up, write, read, repeat, refuse; PUT and GET on the bus; execute and
answer. *Hard*: the device keeps one answer for whoever asks next, and nothing numbers requests. *Correct when*:
a read is of the variable asked for, a confirmed write was done, no message is lost, every request of an agent in the exchange ends.

**Snapshots** (`datamap`, `snapshot_proto`). *State*: the page the reader is at and the pages it has; the page
the device's performer is at, the page made ahead in the slot, the pool. *Operations*: start, stop, tick, ask
for an update, read a page, copy, complete, fail; update, make the next page, post, release. *Hard*: an answer
says its page but not its update; requests are dropped by a busy performer; frames get lost; the drive restarts.
*Correct when*: what completes is of one update, and of a new one each time.

**Signals, performers, quests** (`servo/robosd_frontend`), **backend tasks, timers, queue**,
**servo lists**: the request/answer path between the two threads. *State*: performer and task states,
the list of wake-up times. *Hard*: posting and executing from two threads, stopping what is already queued.

**Events and intrusive lists** (`core/robosd_event.hpp`, `robosd_list.hpp`): observers that detach
while they are being called.

**Protocols over streams** (`net/robosd_flow`, `robosd_xproto_flow`, `robosd_proto_switch`, modbus,
serial, TCP, UDP): parsers and a switch between protocols on one port.

**Firmware of the drives** (`burst`, `burst++`, `mexo`, `mexo++`), **kinematics**, **emulators**,
**platforms**, **peripherals**, **FreeMASTER**, **terminal**, **tools**: see section 7.

### 1.3 Hazards

`PROJECT.json` lists each one at its line. In one sentence per part: a stale or foreign frame
meets the next exchange (bus); a full ring is written over (ring); a task is selected and never
run (controller); a command, answer or report meets an agent between two modes (agent); a stop
meets an application between two phases (tree); a panic raised between two accesses of the main
loop is lost or missed (board); an answer meets another request than its own (variables); pages of
two updates make one snapshot (snapshots).

## 2. Plan

Order of the plan: what the rest of the system stands on first.

1. `CanBus` with `BusTransaction`, and its proofs. *Done.*
2. `SafeRing` with `BoundedFifo`, and its proofs. *Done.*
3. `TaskController` with its proofs, then `DevAgent` over it, with its proofs. *Done.*
4. `AppTree` with its proofs. *Done.*
5. `BurstBoard` with its proofs: the firmware's side of modes and panics. *Done.*
6. `VarFlow` with its proofs: a request from the program to the device's memory and back. *Done.*
7. `Snapshots` with its proofs: the periodic stream. *Done.*
8. Signals, performers and quests between the two threads; backend tasks and timers. Abstract
   specification: a quest is answered exactly once, by the answer to it or by its end. *Left.*
9. Servo lists and polling; events and lists with observers that detach while called. *Left.*
10. The switch between protocols on one port; modbus; the firmware's modules. *Left.*

`CanBus`, `VarFlow` and `Snapshots` are three views of one path: `CanBus` shows what a stream is promised of its
request, `VarFlow` and `Snapshots` take that promise (one request at a time, ended once) and add what the device
does with it. Runs: one per component, hostile and fair at once where the state space allows.

## 3. The modules and the code

### CanBus

One variable per C++ member that control depends on (see the declarations). The backend thread's
order is kept: the port is polled (`Receive`, `Transmit`), then the watchdog (`DriverTimeout`), then
`bus::perform_`. `perform_` is cut at the one place where the frontend can come between:
`ready()` and `request_()` take the guard separately, hence `pc` = `scan`, `post`. Nested synchronous
calls are one action: `Post(FALSE)` is a frame the port refuses, whose refusal runs through
`DriverConfirm`, `ExchangeConfirm` and `BusConfirm` inside `post`.

`willing` are the agents that would answer `devagent::query`: a stream has something to exchange and the gate is open, that is,
the agent is in the exchange and the pause of its board (`request_pause_us_` since `last_request_us_`) is over. `Demand` and
`Withdraw` put an agent in and out at any moment; serving one shuts the gates of all agents of its board (`Mates`, from the
constant `BoardOf`). The round passes over an agent that is not willing, whatever its streams have (`Select`). External are the port (one
transmit slot, a set of at most `MaxRx` frames not yet reported) and the devices (an answer may
come, be late, be lost). `OwnView` is a port that reports the frames it sends, as the emulator's does
(`net/platform/can/emulator/emu_cans_module.cpp:22`). `timely` is a fact about an installation, chosen at
`Init` and never changed: its timeouts are longer than any answer takes and no foreign slave answers; every other
installation is checked as well. A slave may answer with any length, none included. Left out: traffic counters,
the length of the pause, the choice of the stream within an agent, payloads.

### SafeRing

Every public method holds the guard for its whole body, so it is one action. `Slot`, `Count`, `Full`
and `Space` are the masks, written as remainders; counters are `% Word`. `TryPut` has the guard the
code has. The refinement mapping takes the cells between the counters for the queue.

### TaskController

The state is one record so that each method is an operator on it (`SwitchedTo`, `Stopped`,
`Terminated`, `Taken`, `NodeRun`, `ProcessRun`, `Released`) and `controller::run` is their composition with
one callback in the middle. A fall-through run is described by the phase whose callback waits.
`Repeating` are the processes whose `onFinish` may ask for another go, `LeaveWaits` the nodes whose `doLeave`
may wait. At most one call back per run is modelled; direct calls of a task's methods and the
unused `restart()` are left out. `command_` has no initial value in the code: it starts as either.

### DevAgent

`Tasks == INSTANCE TaskController` with the eight modes as nodes. `Check`, `Clear` and `Run` are the steps of
`poll()`: `do_check_command()` looks at the command and obeys, and wipes it at its end (`servo/robosd_frontend.hpp:1070`) without a
guard, so that a command written in between (`SetCommand` comes between any two steps) is wiped unseen; a run of the controller is one of `RunNothing`, `RunWait`, `RunEnter`, `RunLate`, `RunExecute`,
`RunLeave`. `Confirm` and `Refuse` are the answers of the configuration quest, in whatever mode. `SetCommand`,
`SetRemote`, `Hear` and `Expire` are what operator, device and clock write. Pending quests are counted up to
`MaxQuests` = 2.

### BurstBoard

The interrupt runs to its end between two steps of the main loop, so each of its handlers (`RealtimeProtection`,
`LoopA`, the master's writes) is one action. A pass of `board::frontend_loop()` is cut at its accesses to shared
words: `todo` is the list of what the pass has still to do, and `raise_panic()` and `reset_panic()` are two entries of
it, the read and the write back. Voltage and temperature are the ranges the thresholds tell apart. Left out: the
periodic slots and what happens inside a mode.

### VarFlow

The client is the sequential program of `devagent::proto`: `step` is its state, `desc` and `cur` what it works for,
`reply` what became of its message. Every lookup makes a descriptor of its own (`Descs`, numbered as they are made), which becomes
the variable; `name` says what it is for, and a name may be looked up twice. A GET asks for a length in bytes and the device sends
only an answer of that length; a value of two bytes is as long as the answer to a lookup. The streams are asked only while
the agent is in the exchange (`exchange`, which changes at any moment). The device is the performer's loop, cut at the points where the interrupt
(`Put`, `Get`) can come: take the request, execute, make the answer, post it, release. `seen` and `unacked` are
histories: the values a variable has had, and the writes done and not yet confirmed. `Lookups` bounds how many
lookups the program makes; `AckCap` bounds the history (two answers to writes are all there can be on their way). The values of one
name are not told apart, and types are left out, so that a lookup whose type has no fabric is one that gets its variable.

### Snapshots

The datamap is `state`, `page`, `data` and whether its timer's tick reaches it (`attached`); `bus` is the one request it
may have on the bus. In the device the main loop is cut at the same points as in `VarFlow`; the page is chosen and
filled in one step, since only the main loop touches the snapshot. `size` and `steady` are facts about an
installation. A page is the version of the memory it was copied from; `Len` computes its length with the code's
unsigned arithmetic, which makes the page past the end (section 7) a page of the model too. `Fresh` gives the
update the least name nobody holds, so that six names are enough for any number of updates.

### AppTree

A walk is described by what it does, not how: `Completes(C, s)` says that the nodes `C` can complete in
one walk (a node only when all its children have), `Panics` that one node stops it, `BrokenOff` which
subtrees a failed walk has done. This allows every order of the children. The program is that of
`tools/flow2serial++.cpp`: begin, start, loop until `terminated()`, finish; a stop at any moment,
a start again at any moment.

## 4. Runs

| run | instance | shows |
|---|---|---|
| `canbus` | 2 agents whose gates open and shut at any moment, 1 size and empty answers, 1 frame on the receive side, strays of both kinds; installations with timely and with late answers; fairness | a completed read carries a packet of the right slave and length; the layers agree and one stream is owed an outcome; on a timely installation a read is answered by its own answer; every message returns, every agent whose gate stays open is served; refines `BusTransaction` with its fairness |
| `ring_fifo` | 4 cells, words of 16, blocks up to 3 | a bounded queue, also when counters wrap |
| `task_mixed` | 3 nodes (one waits on leaving), 2 processes (one repeats) | one task at a time, hand-over through stopped, nodes make room |
| `task_stuck` | 1 node, 1 process, fairness | **violated**, finding 1 |
| `agent_modes` | 1 control mode, 3 reports (`busy` is like one the mode does not wait for), commands between any two steps of a poll, refusals, fairness | control from stopped; legal user of `TaskController`; waits end, panic is noticed, a command that stands is looked at unless it came while another was being obeyed |
| `app_life` | root, 2 modules, 3 nodes below; stops at any moment but during startup; failures and panics everywhere; fairness | bottom-up startup and shutdown, all stopped before unloading, system last, a stop ends the application |
| `app_early` | a stop during startup | **violated**, finding 2 |
| `board` | 2 devices, 1 run mode and one unknown number, 1 startup delegate, every supply, temperature and current; fairness | an unconfigured board holds its devices, a board at work was configured after the last change, lasting panics survive, a device with a fault of its own is idle, devices start when released; configuration ends, devices are released |
| `board_panic` | 1 device whose master repeats the mode | **violated**, finding 3 |
| `var_flow` | 2 names with values as long as a descriptor, 2 lookups, also of one name, pool of 2, one repeat, an agent in and out of the exchange, frames lost; fairness | messages conserved, a busy variable in one place, reads are own, confirmed writes were done, lookups and requests end while in the exchange |
| `var_index` | 2 names, no loss, a slow device | **violated**, finding 4 |
| `snapshots` | snapshots of 1 page (shorter than the packet, and as long) and of 2; packets of 3 bytes, words of 16; lost frames, restarts; fairness | no message lost, snapshots whole and delivered once, a stopped stream falls silent, a started one completes again and again |

Types are not spent a run on: `TypeOK` of every module but `BoundedFifo` and `BusTransaction` is a theorem (section 6).

**Bounds.** Two agents are enough for one to disturb the other and for the round to pass over one. One size and the
empty answer tell a right length from a wrong one. One stray, late or echoed frame at a time on the receive side reaches
every receiver state and keeps frames in order, as the wire does; the port with its own view is covered by the
proofs of the layers, which hold for every setting. Four cells with words of sixteen let both counters wrap around
with every fill level and block length. Three nodes and two processes give one running, one selected and one
that replaces the selection, of every kind. The tree has both an inner node with two children and one with one,
so a walk can be broken off inside and between subtrees. `DevAgent` has no size but `MaxQuests`: two pending quests
are a stale and a present one; its control modes are all treated alike, so one stands for them (the proofs take any set). Two devices let the interrupt come between the first and the second of a pass. Two
names, or two lookups of one, give one request and the one whose answer it takes; values of two bytes are those whose answers a
lookup can take (other lengths are checked apart and in the proofs); a pool of two is the smallest with which the device can
answer, and with one it never can. Two pages give a first, a last and one past the end; safety for three and more is
what the proofs show. A pool of three is one message each for the slot, the request and the answer being made
(`PoolAssumption`): with two, an update may find no message, and pages
of the new memory follow the first page of the old. The ports of the application templates have four for all their performers
(`app-template/app/mexo++drive/source/platform/STM32F405/mexo++drive-perephery.cpp:269`), so a second performer of the port that keeps an
answer in its slot and a request in hand takes that margin away.

## 5. Fairness

- `CanBus`: weak fairness of the backend's steps and of the port giving a result for its slot: the backend loop
  is periodic and drivers have a transmit timeout. A stream
  that answers `repeat` again and again answers `success` again and again: every exchange of several pages has a last one. Nothing is
  assumed about gates, nor about answers: the timeouts are what brings a message back.
- `TaskController`: strong fairness of a run in which no callback calls back and no phase waits. This is an
  assumption about the tasks (no callback waits for ever), not about the controller.
- `DevAgent`: weak fairness of the steps of `poll` and of the clock; strong fairness of quest answers. Nothing is assumed about the device.
- `AppTree`: weak fairness of the program's steps and of the loop; strong fairness of each node completing startup and
  shutdown: no node answers `resume` for ever. A stop is never assumed.
- `BurstBoard`: weak fairness of the main loop and of each `loopA()`, which are periodic; weak fairness of a reading of the
  protection that finds the supply fine, and strong fairness of each startup delegate leaving the slot: the properties say what
  happens when supply and delegates are in order sometime.
- `VarFlow`: weak fairness of the client's query and confirmation and of the device's loop. A query is enabled only while the agent is in the
  exchange, so nothing is assumed of an agent that is out of it, and `RequestsEnd` promises it nothing. That one in the exchange is asked holds on a
  board whose other agents leave it its turns and when the streams before this one do not hold the agent's turn for ever
  (`CanBus` says of the first what the round guarantees). Nothing is assumed of frames: a request ends because its repeats do. The program may have asked for all it wants, so deadlock is not checked.
- `Snapshots`: weak fairness of the backend's steps, of the tick, of the bus ending a request and of the device's loop; strong
  fairness of a request for an update reaching the device and of each page reaching the reader that asks for it: what is sent
  again and again arrives sometime. `KeepsDelivering` is about steady installations only: a device that is slower than the bus may
  drop every request for an update.

## 6. Proofs

All leaves are checked by SMT, Zenon and, for temporal steps, LS4.

**CanBus** (`CanBus_proofs`), for every number of agents, sizes, receive bound and setting of the flags.
`IInv = TypeOK /\ LayersAgree /\ OneOwed /\ ScanIsFree`. `LayersAgree` alone is not inductive: that the bus is free
while it scans (`ScanIsFree`) is what makes a new message meet no old one, and `OneOwed` needs both. Theorems
`TypeCorrect`, `LayersAlwaysAgree`, `OneAlwaysOwed`; `PacketAlwaysMatches` on ports without own view; `ImplementsSafety`: each
step is a step of `BusTransaction` or a stutter. `AnswersAreFresh` adds `FreshInv`: on a timely installation at most one answer is
on its way, it is that of the message on the bus, and when the message has left none is. `NothingPending` is its heart: a timeout
fires only when no answer is on its way, so none outlives its request. The run has one frame on the receive side, the theorem any
number. Its hypothesis `~OwnView` is needed: a port that reports its own frames ends an exchange by its echo, and the answer
then meets the next exchange (TLC shows it with `OwnView = TRUE` and `MaxRx = 2`). `TurnAlwaysComes` is the safety half of
`EveryAgentServed`: `Ahead(a)`, the turns before that of `a`, never grows while `a` waits with its gate open and falls with every turn another agent ends. It says nothing of
an agent whose gate is shut when the round comes by: that one is passed over, and may be again (section 7).

**TaskController** (`TaskController_proofs`), for every set of tasks. One lemma per method says that it keeps
`Good` (types, and every task but the running one stopped); actions compose them. Theorems `TypeCorrect`, `OneActive`, `HandsOver`,
`PendingAlwaysStops`.

**AppTree** (`AppTree_proofs`), for every tree. There is no induction over the tree: `Upward(n)` is the least set closed under
`owner_` that holds `n`, so a set of nodes closed under `owner_` that misses the root is empty (`WholeTree`). The invariant says in
which combinations of states an owner and its child can be. Theorems `TypeCorrect`, `SubtreeAlwaysRuns`, `OwnersOutlive` without conditions;
`OrderlyStopsAll` and `OrderlySystemOutlives` when no stop comes during startup, which is what finding 2 shows to be needed.
`WholeTreeAlwaysRuns`: a machine that executes has no node that does not. `AllLiveInOrder` is an action property about each node on its own: it
is started when stopped, stopped when it executes, and never cut short by the panic of another while it executes. The last part rests on
`Calm` (a panic ends the application in the walk that meets it) and on `PanicCutsNone`: the nodes above one that starts up or shuts down
do the same.

**SafeRing** (`SafeRing_proofs`), for every size, word width and block length. `IInv = TypeOK /\ Within`: the writer is ahead of the
reader by at most `Size`, modulo the word. From it the masks give the fill level (`CountIs`) and different cells for different
counters (`SlotsDiffer`). Theorems `TypeCorrect` and `IsBoundedFifo`, the refinement of `BoundedFifo`, both for users that do not
call `try_put` on a full ring (section 7).

**DevAgent** (`DevAgent_proofs`), for every set of control modes. The invariant joins what `TaskController_proofs` keeps of the
controller (`Good`) with: the status shown is the mode that runs (`StatusIsMode`), a control mode is selected from stopped only
(`SelectedFromStopped`), a selected mode has been told to start (`Started`), a lost device is out of the exchange (`Excluded`). Theorems
`TypeCorrect`, `ShowsItsMode`, `LostIsExcluded`, `ControlFromStopped` and `UsesController`: the agent implements
`TaskController`, so the theorems about controllers are about agents. That step is made as well: `Proved == INSTANCE TaskController_proofs WITH ...`
takes the theorems over, `ModesAssumed` discharges the assumption on the tasks, and `OneModeActive` and `ModesHandOver` state them of the
modes. `IdleOnlyByRefusal`: nothing but a refused configuration leaves an agent without a mode while it shows one (section 7). Its invariant `Told` says that a running
mode that was told to stop has a follower, which every method but `terminate()` keeps. `UnrefusedNeverIdle` follows.

**BurstBoard** (`BurstBoard_proofs`), for every number of devices. The invariant follows the list `todo` through the stages of a pass (`Waiting`,
`Releasing`, `Working`, `Halting`): what a stage has written back and what it has read and not yet written. Theorems `TypeCorrect`,
`ConfigIsHeld`, `WorksConfigured`, `ConfigIsKept`, `StartsWhenReleased`, and `FaultsHold`: a device whose own fault stands is idle. The interrupt stops a
device in the step in which it raises its fault; what could break it is a word written back late, with a fault that has gone while the device was
started again. `FaultStored` excludes it: a word to be written is the very next access of the pass, and faults are added by the interrupt only and taken away by the main
loop only, so the word has no fault the device has not. A panic raised by the main loop itself has no such guarantee (finding 3).

**VarFlow** (`VarFlow_proofs`), for every set of names, known or not, all lengths and counts. Beyond types, `Conserved` and `OnePlace` the invariant
says what an answer on its way says of a value (`AllTruthful`) and that answers that confirm a write are no more than writes done (`AcksCounted`), which two
are enough to count since no request is executed behind a posted answer while another is on the bus (`Settled`). Theorems
`TypeCorrect`, `MessagesConserved`, `RequestsInOnePlace`, `ReadsAreOwn`, `AcksArePerformed`. Three more are what the liveness of a request stands on:
`LookupsInOnePlace` (each lookup is linked into the line once or in hand, two lookups of one name stay two, and one that breaks into a variable is put back while it
has tries left), `DeviceNeverSleeps` (no order of the interrupt and the main loop leaves a request with a performer that is not listed), `AnswersMeetTheirSender`
(a lookup may break into the request of a variable at any step, and still whoever takes a message from the bus asked for it in that step, and an answer has
the length he asked for). Whose answer of that length it is it cannot say: a lookup can be brought the value of a variable of two bytes, and a variable of two
bytes a descriptor, which the checks of the query are there for; between two lookups nothing tells the answers apart (finding 4). `OnlyFailedLookupsMislead`
marks off that finding: as long as the GET of every lookup brings an answer to a lookup (`~LookupLost`), every name gets its own index, whatever else is lost,
dropped or late. `Tracked` follows the answer of a lookup: it is in one place of the request, the answer made, the slot and the bus, it is that of the lookup
in hand, and none is left when a lookup ends well.

**Snapshots** (`Snapshots_proofs`), for every size of snapshot and packet and every pool of three or more. That a snapshot is whole is
not inductive by itself. `Posted` says that the answer in the slot is the page the performer stands at, of the memory as it is; `Whole`
says, with `Follows(k, v)`, that once page k - 1 of version v has left, no page k but of v can be in the slot, in the performer's hands or
be made next. That rests on `EnoughFree` (the performer never lacks a message) and on the reader, which gives up at the first answer it did
not expect. `Once` says that a first page is in one place only. Theorems `TypeCorrect`, `MessagesAreKept`, `SnapshotsAreWhole`,
`DeliveredAtMostOnce`, and `SnapshotsAreCurrent`: on a steady drive what completes is the memory's version at that time. `Current` says why: every page ready or in hand is of
the memory as it is, since no update can begin while a steady reader waits for a page.

**Only model-checked**: all liveness, and the fair part of the refinement of `BusTransaction` (liveness and `ENABLED` are beyond the prover). Every safety
property of a passing run is a theorem. **Only proved**, after TLC agreed on the instances of section 4 without spending a run: the `TypeOK`s,
`StatusIsMode`, `Excluded`, `TurnComes`, `SnapshotIsCurrent`, `NeverShort`, `IdleByRefusal`, `NeverIdle` without refusals, `WholeTreeRuns`, `LivesInOrder`,
`LookupOnce`, `NeverSleepsOver`, `MeetsItsSender`, `NameIsItsIndex` while no lookup is lost, and the properties of `TaskController` for the modes of an agent. Induction over data is out of the prover's reach, so the walks of
`AppTree` are stated by sets rather than by recursion; no module declares a RECURSIVE operator.

## 7. Findings and observations

1. `task_stuck`: a process that ends by itself in one run leaves the controller with a dead task, and a selected task never runs
   (`core/robosd_stateflow.cpp:58`), against `doc/robosd++.tex:2413` and its example.
2. `app_early`: a stop during startup shuts the machine down without stopping the modules that had been started
   (`core/robosd_app.cpp:293`), against `doc/robosd++.tex:2772`.
3. `board_panic`: a panic raised in the main loop does not stop a device whose master writes the running mode again in time
   (`burst++/burst.cpp:503`), against `doc/burst++.tex:427`.
4. `var_index`: a late answer to the lookup of one name gives another name its index (`servo/burst_backend.cpp:297`), against
   `doc/burst++.tex:766` and `:819`; it takes a lookup whose GET brought nothing before, or the value of a variable of two bytes that was left in the
   slot, and nothing else has this effect (`OnlyFailedLookupsMislead`).

Observations without a run:

- *Ring*: `try_put()` of `safe_ring_t` compares an unsigned number with `>= 0` and overwrites a full ring
  (`core/robosd_ring_safe_buf.hpp:125`, against `doc/robosd++.tex:2284`); with `TryPutFull = TRUE` in `RingFifo.cfg` TLC shows it.
- *Controller*: a node that is started again while it leaves finishes without reporting it (`core/robosd_stateflow.cpp:157`); a process
  whose `onFinish` asks for another go runs again although another task is selected; `onShutdown` may be announced twice; `command_` has no
  initial value (`core/robosd_stateflow.hpp:38`).
- *Agent*: a quest refused between two modes loses a command and leaves the agent in the exchange with no mode
  (`servo/robosd_frontend.hpp:999`; `INVARIANT NeverIdle` with `AgentModes.cfg` shows it, and nothing else does it: `IdleOnlyByRefusal`); the answer of an older configuration quest completes
  the present one (`:996`); a command written while `do_check_command()` obeys another is wiped with it, unseen (read at `:1026`, wiped at `:1070`).
- *Tree*: a start during the shutdown returns true and only brings the application to its end (`core/robosd_app.cpp:569`).
- *Board*: a panic the interrupt raises while the main loop releases the board's panic is taken off the devices (`burst++/burst.cpp:581`,
  against `doc/burst++.tex:1011`); the halt slot is not run on a panic (doc 472), `switch_to_mode()` does not look at the panic (doc 425) and
  `master_alive()` is never called.
- *Bus*: an agent whose gate is shut whenever the round comes by is passed over each time. Agents of one board share `last_request_us_`, and each
  request of one shuts the gate of all (`servo/robosd_backend.cpp:326`): with A and B of one board and a busy C of another, the pause may always
  end when it is A's turn, and B waits for ever. After one answer that came late every later answer of the same length is that of the request before; a request the bus does not
  support is refused after its identifier was set (`net/robosd_can_flow_bus.cpp:77`); the view of the packet in `:17` is the next frame's when one
  comes while a receiver is armed, which `PacketMatches` rules out for reads that complete.
- *Variables*: a name looked up again before it has its variable gets a second descriptor and a second variable (`servo/burst_backend.cpp:161`);
  a request accepted of an agent that then leaves the exchange stays busy, its repeats unspent, until the agent is back
  (`servo/robosd_backend.cpp:324`); a lookup that takes the value of a variable of two bytes fails by the check of the query and leaves its own answer to the next
  (`servo/burst_backend.cpp:293`). `query_a()` and `post_a()` replace the performer of a busy variable, whose first caller is never answered
  (`servo/robosd_frontend.cpp:177`); the comparison of the read-back value is commented out (`:225`); a GET can be one answer behind after a slow
  answer; `put_answer()` keeps the message when the answer is longer than a packet (`net/robosd_flow.cpp:26`); lookups go before variables, and a
  program that keeps looking names up holds them off.
- *Snapshots*: `page_ < page_count_` makes a page past the end, whose length is an underflow and whose bytes lie behind the snapshot
  (`net/robosd_flow.cpp:378`; the reader never takes it when a packet has more than two bytes); a late answer of another snapshot with the right page
  number would be taken, which is why the bus is a timely one here; a confirmation restarts a stopped datamap
  (`servo/robosd_backend.cpp:801`), for one cycle at most (`FallsSilent`); `start()` touches the timers from the caller's thread without the guard.
- *Signals and timers* (read, not modelled): lists are ascending, so `lo` runs before `hi`, against `doc/robosd++.tex:1858`; the backend
  queue detaches a signal outside the guard and may lose one that is posted again; `start()` with a new period of a running timer keeps the old.

## 8. Not modelled, and why

- Numeric firmware, kinematics and emulators: the states follow measurements; no control a model checker reaches.
- Ports, platforms, peripherals, files, text, logging: input and output, or without a property of the system.
- FreeMASTER: third-party. CANopen and relay: data types and forwarding.
- The backend thread's reading of the tree's state, paths and library loading in `core/robosd_app`.
- Signals, quests, tasks and timers, servo lists, events, the switch between protocols, the goals of `exchange`: in the plan (section 2).
- Most lines of the repository are not its own: the HAL and CMSIS headers of the application templates, the matrix library, generated
  projects and tables make up the bulk of the source tree, next to which the framework's own control is small.

## 9. Running

In this directory: `tlc -config CanBus.cfg MCCanBus` and so on as `PROJECT.json` pairs them; `tlapm CanBus_proofs.tla` for the proofs.
The largest runs take a few minutes with two workers; every property has a mutant of the mapped code in the module that violates it
(definitions marked `Mutant`, never used by a specification).
