----------------------------- MODULE Snapshots -----------------------------
(***************************************************************************)
(* The periodic snapshot of a device, from its memory to the agent's:      *)
(*                                                                         *)
(*   backend::devagent::datamap   servo/robosd_backend.cpp, .hpp: asks for *)
(*     an update (PUT) and reads it page by page (GET), again at each tick *)
(*     of its timer                                                        *)
(*   flow::port, machine::run_, snapshot_proto   net/robosd_flow.cpp, .hpp *)
(*     in the device: one answer ready for the next GET, and after each    *)
(*     GET the page that follows                                           *)
(*                                                                         *)
(* The device works in its main loop; the interrupt serves frames between  *)
(* any two steps of it.  The bus between them brings one request at a time *)
(* to an end; its answers are in time (CanBus), or lost.  start() and      *)
(* stop() come from another thread.  What is copied is abstracted to the   *)
(* version of the snapshot a page was taken from.  Goals, which an agent   *)
(* may send in the place of the request for an update, are left out.       *)
(***************************************************************************)
EXTENDS Integers

CONSTANTS
  Sizes,     \* sizes a snapshot may have (size_, snapshot_.size())
  Max,       \* size_max, max_size(): bytes of a packet
  Word,      \* size_t counts modulo Word
  Pool,      \* messages of the device's port
  Versions,  \* names for the states of the device's memory
  Nothing    \* no message

ASSUME SizeAssumption == Max \in Nat /\ Max > 2 /\ Sizes \subseteq Nat \ {0}
ASSUME WordAssumption == Word \in Nat \ {0} /\ \A n \in Sizes : n + Max < Word
ASSUME PoolAssumption == Pool \in Nat /\ Pool > 2
ASSUME VersionAssumption == Versions \subseteq Nat \ {0}

VARIABLES
  size,      \* of the installation: the size of the snapshot
  steady,    \* of the installation: the drive does not restart and is done
             \* with a request before the next one is made, and a stream that
             \* runs is not started again
  state,     \* datamap::state_
  page,      \* datamap::page_
  attached,  \* wakeup_ is attached to the tick of its timer
  data,      \* data_, page by page: the version it was copied from
  last,      \* history: the version that was complete last
  bus,       \* what has become of the request
  got,       \* the answer to it
  ver,       \* the version in the device's memory
  devPage,   \* snapshot_proto::page_
  request,   \* performer::request_; a put is the one with an in_msg
  pc,        \* where the device's main loop is
  made,      \* the message it is making
  slot,      \* the message in outcomm_
  free       \* messages in pool_

install == <<size, steady>>
host == <<state, page, attached, data, last>>
line == <<bus, got>>
loop == <<ver, devPage, pc, made>>
serve == <<request, slot, free>>
vars == <<install, host, line, loop, serve>>

-----------------------------------------------------------------------------
(* Pages. *)

Paged == size > Max
PageSize == Max - 1

\* snapshot_proto::begin(): page_count_.
PageCount == IF Paged THEN (size + PageSize - 1) \div PageSize ELSE 1
Pages == 0..(PageCount - 1)

\* The bytes that are left from page p on, modulo the word, or a full page.
Len(p) == LET left == (size - p * PageSize) % Word
          IN 1 + IF left > PageSize THEN PageSize ELSE left

\* datamap::query(): the length of the answer it asks for.
Asked == IF Paged THEN Len(page) ELSE size

Message == [page : Nat, len : Nat, ver : Versions \cup {0}]

ASSUME NothingAssumption == Nothing \notin Message

\* A page of the snapshot; one past its end holds nothing of it.
Page(p, v) == [page |-> p, len |-> Len(p), ver |-> IF p \in Pages THEN v ELSE 0]
First(v) == [page |-> 0, len |-> IF Paged THEN Len(0) ELSE size, ver |-> v]

\* The next version is one that nobody has seen.
Used == {ver, last} \cup {data[p] : p \in Pages}
        \cup {m.ver : m \in {slot, made, got} \ {Nothing}}
Fresh(v) == /\ v \in Versions \ Used
            /\ \A u \in Versions : u < v => u \in Used

Init ==
  /\ size \in Sizes /\ steady \in BOOLEAN
  /\ state = "stopped" /\ page = 0 /\ attached = FALSE
  /\ data = [p \in Pages |-> 0] /\ last = 0
  /\ bus = "free" /\ got = Nothing
  /\ ver = 0 /\ devPage = 0 /\ pc = "loop" /\ made = Nothing
  /\ request = "idle" /\ slot = Nothing /\ free = Pool

-----------------------------------------------------------------------------
(* The datamap: start() and stop(), the tick, query() and confirm(). *)

\* Neither asks what the datamap is doing.
Start ==
  /\ steady => ~attached
  /\ state' = "startup" /\ attached' = TRUE
  /\ UNCHANGED <<install, page, data, last, line, loop, serve>>

\* stop() does not touch the request on the bus.
Stop ==
  /\ state' = "stopped" /\ attached' = FALSE
  /\ UNCHANGED <<install, page, data, last, line, loop, serve>>

\* Mutant: stop() leaves wakeup_ with the timer.
TickStays ==
  /\ state \in {"complete", "panic"}
  /\ state' = "startup"
  /\ UNCHANGED <<install, page, attached, data, last, line, loop, serve>>

\* Mutant: a cycle that failed is not begun again.
TickComplete ==
  /\ attached /\ state = "complete"
  /\ state' = "startup"
  /\ UNCHANGED <<install, page, attached, data, last, line, loop, serve>>

\* wakeup: only a cycle that has ended is begun again.
Tick ==
  /\ attached /\ state \in {"complete", "panic"}
  /\ state' = "startup"
  /\ UNCHANGED <<install, page, attached, data, last, line, loop, serve>>

DeviceIsDone == request = "idle" /\ pc = "loop"

Query ==
  /\ bus = "free" /\ (steady => DeviceIsDone)
  /\ \/ state = "startup" /\ page' = 0 /\ bus' = "put"
     \/ state = "get" /\ page' = page /\ bus' = "get"
  /\ UNCHANGED <<install, state, attached, data, last, got, loop, serve>>

\* A PUT that left begins the reading, whatever has happened since.
ConfirmPut ==
  /\ bus = "sent"
  /\ state' = "get" /\ bus' = "free"
  /\ UNCHANGED <<install, page, attached, data, last, got, loop, serve>>

\* Mutant: the page of the answer is not compared.
ExpectedAny == state = "get"
Expected == state = "get" /\ (Paged => got.page = page)

\* The page asked for is copied; the last one completes the snapshot.
ConfirmPage ==
  /\ bus = "got" /\ Expected
  /\ data' = [data EXCEPT ![page] = got.ver]
  /\ IF page + 1 = PageCount
     THEN page' = 0 /\ state' = "complete" /\ last' = got.ver
     ELSE page' = page + 1 /\ UNCHANGED <<state, last>>
  /\ bus' = "free" /\ got' = Nothing
  /\ UNCHANGED <<install, attached, loop, serve>>

\* Everything else is a failure, unless the datamap was stopped.
ConfirmFailed ==
  /\ \/ bus = "refused"
     \/ bus = "got" /\ ~Expected
  /\ state' = IF state = "stopped" THEN state ELSE "panic"
  /\ bus' = "free" /\ got' = Nothing
  /\ UNCHANGED <<install, page, attached, data, last, loop, serve>>

-----------------------------------------------------------------------------
(* The device: frames in the interrupt. *)

\* port_t::on_receive(), port::put() of a PUT: a performer that is busy, or an
\* empty pool, and the request is dropped.
HearPut ==
  /\ bus = "put" /\ bus' = "sent"
  /\ IF free > 0 /\ request = "idle"
     THEN request' = "put" /\ free' = free - 1
     ELSE UNCHANGED <<request, free>>
  /\ UNCHANGED <<install, host, got, loop, slot>>

\* on_receive() of a GET takes the answer; one of the length asked for is sent,
\* and a performer that is idle is told.
Fits == slot # Nothing /\ slot.len = Asked

\* Mutants: the answer stays in the slot; its message is not released.
TakeSlotKeeps ==
  /\ UNCHANGED <<slot, free>>
  /\ request' = IF Fits /\ request = "idle" THEN "get" ELSE request
TakeSlotLeaks ==
  /\ slot' = Nothing /\ free' = free
  /\ request' = IF Fits /\ request = "idle" THEN "get" ELSE request

TakeSlot ==
  /\ slot' = Nothing
  /\ free' = IF slot = Nothing THEN free ELSE free + 1
  /\ request' = IF Fits /\ request = "idle" THEN "get" ELSE request

Answer ==
  /\ bus = "get" /\ Fits
  /\ TakeSlot
  /\ got' = slot /\ bus' = "got"
  /\ UNCHANGED <<install, host, loop>>

\* No answer, or it is lost.
NoAnswer ==
  /\ bus = "get"
  /\ TakeSlot
  /\ bus' = "refused"
  /\ UNCHANGED <<install, host, got, loop>>

\* The request does not reach the device; a PUT may count as sent all the same.
Lost ==
  /\ \/ bus \in {"put", "get"} /\ bus' = "refused"
     \/ bus = "put" /\ bus' = "sent"
  /\ UNCHANGED <<install, host, got, loop, serve>>

-----------------------------------------------------------------------------
(* The device: machine::frontend_poll(), run_() and snapshot_proto. *)

\* performer::msg_query(), and the message is filled, if there is one.
Make(m, p) ==
  IF free > 0
  THEN free' = free - 1 /\ made' = m /\ devPage' = p /\ pc' = "post"
  ELSE pc' = "done" /\ UNCHANGED <<free, made, devPage>>

\* execute() of a PUT: update_and_post().  page_ is set only for pages.
Update ==
  /\ pc = "loop" /\ request = "put"
  /\ \E v \in Versions : Fresh(v) /\ ver' = v
  /\ Make(First(ver'), IF Paged THEN 0 ELSE devPage)
  /\ UNCHANGED <<install, host, line, request, slot>>

\* execute() after a GET: post_page_() of the page that follows, up to the one
\* past the end.
NextPage ==
  /\ pc = "loop" /\ request = "get"
  /\ IF devPage < PageCount
     THEN Make(Page(devPage + 1, ver), devPage + 1)
     ELSE pc' = "done" /\ UNCHANGED <<free, made, devPage>>
  /\ UNCHANGED <<install, host, line, ver, request, slot>>

\* put_answer(): the message takes the slot.
Post ==
  /\ pc = "post" /\ pc' = "done"
  /\ slot' = made /\ made' = Nothing
  /\ free' = IF slot = Nothing THEN free ELSE free + 1
  /\ UNCHANGED <<install, host, line, ver, devPage, request>>

\* run_() releases the request and frees the performer.
Finish ==
  /\ pc = "done" /\ pc' = "loop"
  /\ free' = IF request = "put" THEN free + 1 ELSE free
  /\ request' = "idle"
  /\ UNCHANGED <<install, host, line, ver, devPage, made, slot>>

\* The drive restarts (external): flow::machine::begin().
Restart ==
  /\ ~steady
  /\ ver' = 0 /\ devPage' = 0 /\ pc' = "loop" /\ made' = Nothing
  /\ request' = "idle" /\ slot' = Nothing /\ free' = Pool
  /\ UNCHANGED <<install, host, line>>

-----------------------------------------------------------------------------
Confirm == ConfirmPut \/ ConfirmPage \/ ConfirmFailed
Transfer == HearPut \/ Answer \/ NoAnswer \/ Lost

Next ==
  \/ Start \/ Stop \/ Tick \/ Query
  \/ ConfirmPut \/ ConfirmPage \/ ConfirmFailed
  \/ HearPut \/ Answer \/ NoAnswer \/ Lost
  \/ Update \/ NextPage \/ Post \/ Finish \/ Restart

Spec == Init /\ [][Next]_vars

\* The backend loop asks and confirms, the bus ends every request, the timer
\* ticks and the drive's main loop turns.  What is sent again and again arrives
\* sometime: the request for an update, and each page that answers its request.
Fairness ==
  /\ WF_vars(Tick) /\ WF_vars(Query) /\ WF_vars(Confirm) /\ WF_vars(Transfer)
  /\ WF_vars(Update) /\ WF_vars(NextPage) /\ WF_vars(Post) /\ WF_vars(Finish)
  /\ SF_vars(HearPut)
  /\ \A p \in 0..Max : SF_vars(Answer /\ page = p /\ slot.page = p)

FairSpec == Spec /\ Fairness

-----------------------------------------------------------------------------
(* Properties. *)

TypeOK ==
  /\ size \in Sizes /\ steady \in BOOLEAN
  /\ state \in {"stopped", "startup", "get", "complete", "panic"}
  /\ page \in Pages /\ attached \in BOOLEAN
  /\ data \in [Pages -> Versions \cup {0}] /\ last \in Versions \cup {0}
  /\ bus \in {"free", "put", "get", "sent", "got", "refused"}
  /\ got \in Message \cup {Nothing} /\ made \in Message \cup {Nothing}
  /\ slot \in Message \cup {Nothing}
  /\ ver \in Versions \cup {0} /\ devPage \in Nat
  /\ pc \in {"loop", "post", "done"} /\ request \in {"idle", "get", "put"}
  /\ free \in 0..Pool

\* A snapshot that completes was taken at one moment: all its pages come from
\* one update of the device's memory, whatever was lost, dropped, restarted or
\* left over from an earlier cycle on the way.  Only the page number of an
\* answer tells (datamap::confirm), and nothing tells updates apart.
Completes == state' = "complete" /\ state # "complete"
SnapshotIsWhole ==
  [][Completes => \A p \in Pages : data'[p] = data'[0] /\ data'[p] # 0]_vars

\* No update is delivered twice: what completes is not what completed before.
DeliveredOnce == [][Completes => data'[0] # last]_vars

\* On a steady drive a snapshot is not late: what completes is the version that
\* is in the device's memory then, whatever was lost on the way.  A drive that
\* restarts, or is asked again before it is done, may lag behind.
SnapshotIsCurrent == [][steady /\ Completes => data'[0] = ver]_vars

\* The messages of the device's port are in its pool, in the slot, in the
\* hands of the performer or on the way to them; none gets lost.
Held == (IF slot = Nothing THEN 0 ELSE 1) + (IF made = Nothing THEN 0 ELSE 1)
        + (IF request = "put" THEN 1 ELSE 0)
MessagesKept == free + Held = Pool

\* With the pool its declaration asks for the performer never lacks a message:
\* an update of the memory whose first page could not be posted would be read
\* on from the middle.
NeverShort == (pc = "loop" /\ request # "idle") => free > 0

\* A stream that is stopped for good falls silent for good, although the
\* answer to the request that was on the bus starts it again.
Silent == state \in {"stopped", "complete", "panic"} /\ bus = "free"
FallsSilent == <>[]~attached => <>[]Silent

\* On a steady drive a started stream completes again and again.
KeepsDelivering == (steady /\ attached) ~> (state = "complete" \/ ~attached)
=============================================================================
