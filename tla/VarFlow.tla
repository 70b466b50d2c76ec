------------------------------- MODULE VarFlow -------------------------------
(***************************************************************************)
(* A variable of a device as a program reaches it, from end to end:        *)
(* the names it looks up and the variables it writes and reads             *)
(* (burst_backend.cpp, robosd_backend.cpp: varindex, vartable, ivar), the  *)
(* protocol that makes a PUT and a GET of every request (devagent::proto), *)
(* and in the device the port that keeps one answer for the next GET       *)
(* (robosd_flow.cpp) and burst::var::proto that makes it.  The client runs *)
(* on the backend thread of the servo.  The device executes the request in *)
(* its main loop and serves frames in an interrupt, between any two steps  *)
(* of it.  A PUT is done for the client once its frame has left; a GET     *)
(* fails when the slot is empty or holds an answer of another length.      *)
(* Every lookup makes a descriptor, which owns the variable that comes of  *)
(* it; nothing stops a program from looking the same name up twice.        *)
(* Types and callers on the frontend thread are left out.                  *)
(***************************************************************************)
EXTENDS Naturals, Sequences

CONSTANTS
  Names,      \* names a program looks up; a name stands for its index too
  Known,      \* those the device has
  Length,     \* their lengths in bytes
  Pool,       \* messages of the device's port
  Repeats,    \* repeat_current_max_ of an ivar
  Requeries,  \* requery_count_ of a descriptor
  Lookups,    \* bound: how many lookups the program makes
  Lossy,      \* frames may be lost
  NoName, Nothing

ASSUME PoolAssumption == Pool \in Nat
ASSUME CountAssumption == Repeats \in Nat /\ Requeries \in Nat /\ Lookups \in Nat
ASSUME NameAssumption == NoName \notin Names /\ Known \subseteq Names /\ Lossy \in BOOLEAN
ASSUME LengthAssumption == Length \in [Names -> Nat \ {0}]

Descs == 1..Lookups  \* descriptors in the order they are made, and their variables
NoDesc == 0

VARIABLES
  want,    \* request_: descriptors waiting
  desc,    \* current_descriptor_
  name,    \* the name a descriptor is for, NoName before it is made
  tries,   \* their requery_count_
  index,   \* the index a descriptor was given, NoName before
  queue,   \* vartable::queue_
  cur,     \* vartable::current_
  st,      \* ivar::status_
  rep,     \* ivar::repeat_count_
  step,    \* proto::step_
  exchange,\* the agent is in the exchange (exchabge_enabled)
  reply,   \* what became of the stream's message: Free when there is none
  free,    \* messages in the port's pool
  inMsg,   \* performer::in_msg
  slot,    \* the answer in outcomm_
  listed,  \* the performer is in frontend_list_
  req,     \* performer::request_
  pc,      \* where the device's main loop is
  ans,     \* the answer it has made
  mem,     \* the variables of the device
  seen,    \* history: the values each has had
  unacked  \* history: writes done and not yet confirmed, up to AckCap

clientVars == <<want, desc, name, tries, index, queue, cur, st, rep, step, exchange>>
serveVars == <<free, inMsg, slot, listed, req>>
loopVars == <<pc, ans, mem, seen>>
vars == <<clientVars, reply, serveVars, loopVars, unacked>>

AckCap == 2  \* two answers to writes of one variable may be on their way
Values == Names      \* the name a value belongs to; those of one name are not told apart
Frame(q, n, v) == [q |-> q, ix |-> n, val |-> v]
Frames == [q : {"index", "get"}, ix : Names, val : {Nothing}] \cup [q : {"put"}, ix : Names, val : Values]
Answers == [q : {"index", "get", "put"}, ix : Names, val : Values \cup {Nothing}, ok : BOOLEAN]
ASSUME NothingAssumption == Nothing \notin Frames \cup Answers
Free == [is |-> "free"]
Sent == [is |-> "sent"]
Failed == [is |-> "failed"]
Got(a) == [is |-> "got", a |-> a]
Busy(d) == st[d] \in {"put", "get"}
In(d, line) == \E i \in DOMAIN line : line[i] = d
Distinct(line) == \A i, j \in DOMAIN line : line[i] = line[j] => i = j

TypeOK ==
  /\ want \in Seq(Descs) /\ queue \in Seq(Descs)
  /\ {desc, cur} \subseteq Descs \cup {NoDesc}
  /\ {name, index} \subseteq [Descs -> Names \cup {NoName}]
  /\ tries \in [Descs -> 0..Requeries] /\ rep \in [Descs -> 0..Repeats]
  /\ st \in [Descs -> {"clean", "put", "get", "ready", "panic"}]
  /\ exchange \in BOOLEAN
  /\ step \in {"idle", "put", "get", "desc_put", "desc_get"}
  /\ reply \in {Free, Sent, Failed} \cup {Got(a) : a \in Answers}
  /\ free \in 0..Pool
  /\ inMsg \in Frames \cup {Nothing} /\ slot \in Answers \cup {Nothing}
  /\ listed \in BOOLEAN /\ req \in {"idle", "get", "put"}
  /\ pc \in {"loop", "run", "answer", "post", "done"}
  /\ ans \in Answers \cup {Nothing}
  /\ mem \in [Names -> Values]
  /\ seen \in [Names -> SUBSET Values]
  /\ unacked \in [Names -> 0..AckCap]

Init ==
  /\ want = <<>> /\ desc = NoDesc /\ queue = <<>> /\ cur = NoDesc
  /\ name = [d \in Descs |-> NoName] /\ tries = [d \in Descs |-> Requeries]
  /\ index = [d \in Descs |-> NoName] /\ st = [d \in Descs |-> "clean"]
  /\ rep = [d \in Descs |-> Repeats] /\ step = "idle" /\ reply = Free
  /\ exchange = FALSE
  /\ free = Pool /\ inMsg = Nothing /\ slot = Nothing
  /\ listed = FALSE /\ req = "idle" /\ pc = "loop" /\ ans = Nothing
  /\ mem = [n \in Names |-> n]
  /\ seen = [n \in Names |-> {n}]
  /\ unacked = [n \in Names |-> 0]

-----------------------------------------------------------------------------
(* The device *)

\* port::put(): an idle performer is listed, the message of a busy one goes
\* back to the pool.
Serve(m) ==
  IF req = "idle"
  THEN /\ listed' = TRUE /\ inMsg' = m
       /\ req' = (IF m = Nothing THEN "get" ELSE "put")
  ELSE UNCHANGED <<listed, inMsg, req>>

\* port_t::on_receive() of a PUT: a message of the pool, or none.
OnPut(f) ==
  /\ IF free = 0 THEN UNCHANGED <<listed, inMsg, req>> ELSE Serve(f)
  /\ free' = (IF free > 0 /\ req = "idle" THEN free - 1 ELSE free)
  /\ UNCHANGED slot

\* The bytes of an answer: the header, with a descriptor, or with a value.  The
\* value of a variable of two bytes is as long as a descriptor.
Header == 2
DescSize == Header + 2
Size(a) == CASE a.q = "index" -> DescSize
             [] a.q = "get" -> Header + Length[a.ix]
             [] OTHER -> Header

\* on_receive() of a GET takes the answer; only one of the length asked for is
\* sent and tells the performer.
Fits(size) == slot # Nothing /\ Size(slot) = size

\* Mutant: a message of another length is not released.
OnGetLeaks(size) ==
  /\ IF Fits(size) THEN Serve(Nothing) ELSE UNCHANGED <<listed, inMsg, req>>
  /\ slot' = Nothing
  /\ free' = (IF Fits(size) THEN free + 1 ELSE free)

OnGet(size) ==
  /\ IF Fits(size) THEN Serve(Nothing) ELSE UNCHANGED <<listed, inMsg, req>>
  /\ slot' = Nothing
  /\ free' = (IF slot = Nothing THEN free ELSE free + 1)

\* machine::frontend_poll(), run_() and flow_var_performer::execute(), one step
\* for each stretch the interrupt cannot enter.
Poll ==
  /\ pc = "loop" /\ listed
  /\ listed' = FALSE /\ pc' = "run"
  /\ UNCHANGED <<clientVars, reply, free, inMsg, slot, req, ans, mem, seen, unacked>>

\* Mutant: the header of the answer is made before the write is refused.
ProtoEarlyHeader(ok) ==
  /\ pc = "run" /\ inMsg # Nothing
  /\ LET m == inMsg
         wr == m.q = "put" /\ ok
     IN /\ ok \/ m.q # "get"
        /\ m.q = "index" => (ok <=> m.ix \in Known)
        /\ mem' = (IF wr THEN [mem EXCEPT ![m.ix] = m.val] ELSE mem)
        /\ seen' = (IF wr THEN [seen EXCEPT ![m.ix] = @ \cup {m.val}] ELSE seen)
        /\ unacked' = (IF wr /\ unacked[m.ix] < AckCap
                       THEN [unacked EXCEPT ![m.ix] = @ + 1] ELSE unacked)
        /\ ans' = [q |-> m.q, ix |-> m.ix, ok |-> TRUE,
                   val |-> IF m.q = "get" THEN mem[m.ix] ELSE Nothing]
  /\ pc' = "answer"
  /\ UNCHANGED <<clientVars, reply, serveVars>>

\* burst::var::proto(): a key may be unknown, and the write of a variable that
\* asks for a reconfiguration refused.
Proto(ok) ==
  /\ pc = "run" /\ inMsg # Nothing
  /\ LET m == inMsg
         wr == m.q = "put" /\ ok
     IN /\ ok \/ m.q # "get"
        /\ m.q = "index" => (ok <=> m.ix \in Known)
        /\ mem' = (IF wr THEN [mem EXCEPT ![m.ix] = m.val] ELSE mem)
        /\ seen' = (IF wr THEN [seen EXCEPT ![m.ix] = @ \cup {m.val}] ELSE seen)
        /\ unacked' = (IF wr /\ unacked[m.ix] < AckCap
                       THEN [unacked EXCEPT ![m.ix] = @ + 1] ELSE unacked)
        /\ ans' = [q |-> m.q, ix |-> m.ix, ok |-> ok,
                   val |-> IF m.q = "get" THEN mem[m.ix] ELSE Nothing]
  /\ pc' = "answer"
  /\ UNCHANGED <<clientVars, reply, serveVars>>

\* A performer woken by a GET has nothing to execute.
NoProto ==
  /\ pc = "run" /\ inMsg = Nothing /\ pc' = "done"
  /\ UNCHANGED <<clientVars, reply, serveVars, ans, mem, seen, unacked>>

\* performer::put_answer(): a message of the pool, filled, takes the slot.
QueryMsg ==
  /\ pc = "answer"
  /\ IF free > 0 THEN free' = free - 1 /\ pc' = "post"
                 ELSE free' = free /\ pc' = "done"
  /\ UNCHANGED <<clientVars, reply, inMsg, slot, listed, req, ans, mem, seen, unacked>>
PostAnswer ==
  /\ pc = "post" /\ pc' = "done"
  /\ free' = (IF slot = Nothing THEN free ELSE free + 1)
  /\ slot' = ans
  /\ UNCHANGED <<clientVars, reply, inMsg, listed, req, ans, mem, seen, unacked>>

Finish ==
  /\ pc = "done" /\ pc' = "loop"
  /\ free' = (IF inMsg = Nothing THEN free ELSE free + 1)
  /\ inMsg' = Nothing /\ req' = "idle" /\ ans' = Nothing
  /\ UNCHANGED <<clientVars, reply, slot, listed, mem, seen, unacked>>

Device == Poll \/ (\E ok \in BOOLEAN : Proto(ok)) \/ NoProto \/ QueryMsg \/ PostAnswer \/ Finish

-----------------------------------------------------------------------------
(* The client *)

\* What the bus makes of a message: a PUT leaves and may get lost, a GET may
\* get lost on either way.
Put(f) ==
  \/ reply' = Sent /\ OnPut(f)
  \/ Lossy /\ reply' \in {Sent, Failed} /\ UNCHANGED serveVars
Get(size) ==
  \/ OnGet(size) /\ reply' = (IF Fits(size) THEN Got(slot) ELSE Failed)
  \/ Lossy /\ reply' = Failed /\ (OnGet(size) \/ UNCHANGED serveVars)

\* varindex::query_a() of a name without a variable (find_var): it makes a
\* descriptor, whether or not another one waits for the name.
LookUp(n) ==
  /\ \A e \in Descs : name[e] = n => index[e] = NoName
  /\ \E d \in Descs :
       /\ name[d] = NoName /\ \A e \in Descs : e < d => name[e] # NoName
       /\ name' = [name EXCEPT ![d] = n]
       /\ want' = Append(want, d)
  /\ UNCHANGED <<desc, tries, index, queue, cur, st, rep, step, exchange, reply,
                 serveVars, loopVars, unacked>>

\* ivar::post_a() and query_a() of a variable that is not busy.
Ask(d, op) ==
  /\ index[d] # NoName /\ ~Busy(d)
  /\ st' = [st EXCEPT ![d] = op]
  /\ queue' = Append(queue, d)
  /\ UNCHANGED <<want, desc, name, tries, index, cur, rep, step, exchange, reply,
                 serveVars, loopVars, unacked>>

\* The agent comes into the exchange or is taken out of it.
Exchange ==
  /\ exchange' = ~exchange
  /\ UNCHANGED <<want, desc, name, tries, index, queue, cur, st, rep, step, reply,
                 serveVars, loopVars, unacked>>

\* The descriptor in hand, or the next one; descriptors come before variables.
Wanted == IF desc # NoDesc THEN desc ELSE IF want # <<>> THEN Head(want) ELSE NoDesc
TakeDesc == desc' = Wanted /\ want' = (IF desc = NoDesc THEN Tail(want) ELSE want)

\* descriptor::refuse(): back into the line, or given up.
RefuseDesc(d, line) ==
  /\ want' = (IF tries[d] > 0 THEN Append(line, d) ELSE line)
  /\ tries' = [tries EXCEPT ![d] = IF @ > 0 THEN @ - 1 ELSE @]

\* varindex::query() and proto::reques_desc(), asked only in the exchange.
QueryDesc ==
  /\ exchange /\ reply = Free /\ Wanted # NoDesc
  /\ \/ /\ step = "idle" /\ step' = "desc_put"
        /\ Put(Frame("index", name[Wanted], Nothing))
        /\ TakeDesc /\ UNCHANGED tries
     \/ /\ step = "desc_get" /\ Get(DescSize) /\ TakeDesc
        /\ UNCHANGED <<step, tries>>
     \/ /\ step \notin {"idle", "desc_get"} \* in the middle of a variable
        /\ step' = "idle" /\ desc' = NoDesc
        /\ RefuseDesc(Wanted, IF desc = NoDesc THEN Tail(want) ELSE want)
        /\ UNCHANGED <<reply, serveVars>>
  /\ UNCHANGED <<name, index, queue, cur, st, rep, exchange, loopVars, unacked>>

\* vartable::query() and proto::request().
Current == IF cur # NoDesc THEN cur ELSE IF queue # <<>> THEN Head(queue) ELSE NoDesc
QueryVar ==
  /\ exchange /\ reply = Free /\ Wanted = NoDesc /\ Current # NoDesc
  /\ cur' = Current /\ queue' = (IF cur = NoDesc THEN Tail(queue) ELSE queue)
  /\ \/ /\ step = "idle" /\ step' = "put"
        /\ Put(Frame(st[Current], index[Current],
                     IF st[Current] = "put" THEN name[Current] ELSE Nothing))
     \/ /\ step = "get" /\ UNCHANGED step
        /\ Get(Header + IF st[Current] = "get" THEN Length[index[Current]] ELSE 0)
  /\ UNCHANGED <<want, desc, name, tries, index, st, rep, exchange, loopVars, unacked>>

Done == reply # Free /\ reply' = Free

\* What confirm_desc() checks of a GET: a good answer to a lookup, not to whose.
Described == reply.is = "got" /\ reply.a.ok /\ reply.a.q = "index"

\* varindex::confirm() and proto::confirm_desc() for a descriptor.
ConfirmDesc ==
  /\ Done /\ desc # NoDesc
  /\ \/ /\ reply = Sent /\ step = "desc_put" /\ step' = "desc_get"
        /\ UNCHANGED <<want, desc, tries, index, st, queue>>
     \/ /\ Described /\ step' = "idle" /\ desc' = NoDesc
        /\ index' = [index EXCEPT ![desc] = reply.a.ix]
        /\ st' = [st EXCEPT ![desc] = "get"]    \* descriptor::confirm() reads it
        /\ queue' = Append(queue, desc)
        /\ UNCHANGED <<want, tries>>
     \/ /\ reply # Sent /\ ~Described /\ step' = "idle" /\ desc' = NoDesc
        /\ RefuseDesc(desc, want)
        /\ UNCHANGED <<index, st, queue>>
  /\ UNCHANGED <<name, cur, rep, exchange, serveVars, loopVars, unacked>>

\* Mutant: the index of the answer is not compared.
AcceptsAnyIndex(d) == reply.is = "got" /\ reply.a.ok /\ (st[d] = "get" => reply.a.q = "get")

\* proto::confirm() of a GET: the answer must be good and of this variable.
Accepts(d) ==
  reply.is = "got" /\ reply.a.ok /\ reply.a.ix = index[d] /\ (st[d] = "get" => reply.a.q = "get")

\* vartable::confirm(), ivar::confirm() and refuse().
ConfirmSent ==
  /\ Done /\ desc = NoDesc /\ reply = Sent
  /\ step' = "get"
  /\ UNCHANGED <<want, desc, name, tries, index, queue, cur, st, rep, exchange, serveVars, loopVars, unacked>>

ConfirmVar ==
  /\ Done /\ desc = NoDesc /\ Accepts(cur)
  /\ step' = "idle" /\ cur' = NoDesc
  /\ IF st[cur] = "put"       \* paranoic_put_: what was written is read back
     THEN /\ st' = [st EXCEPT ![cur] = "get"] /\ queue' = Append(queue, cur)
          /\ unacked' = [unacked EXCEPT ![index[cur]] = IF @ > 0 THEN @ - 1 ELSE @]
          /\ UNCHANGED rep
     ELSE /\ st' = [st EXCEPT ![cur] = "ready"]
          /\ rep' = [rep EXCEPT ![cur] = Repeats]
          /\ UNCHANGED <<queue, unacked>>
  /\ UNCHANGED <<want, desc, name, tries, index, exchange, serveVars, loopVars>>

\* Mutant: the repeated request does not get into the queue again.
RefuseVarForgets ==
  /\ Done /\ desc = NoDesc /\ reply # Sent /\ ~Accepts(cur)
  /\ step' = "idle" /\ cur' = NoDesc
  /\ IF rep[cur] > 0
     THEN rep' = [rep EXCEPT ![cur] = @ - 1] /\ UNCHANGED st
     ELSE /\ rep' = [rep EXCEPT ![cur] = Repeats] /\ st' = [st EXCEPT ![cur] = "panic"]
  /\ UNCHANGED <<want, desc, name, tries, index, queue, exchange, serveVars, loopVars, unacked>>

RefuseVar ==
  /\ Done /\ desc = NoDesc /\ reply # Sent /\ ~Accepts(cur)
  /\ step' = "idle" /\ cur' = NoDesc
  /\ IF rep[cur] > 0
     THEN /\ rep' = [rep EXCEPT ![cur] = @ - 1] /\ queue' = Append(queue, cur)
          /\ UNCHANGED st
     ELSE /\ rep' = [rep EXCEPT ![cur] = Repeats] /\ st' = [st EXCEPT ![cur] = "panic"]
          /\ UNCHANGED queue
  /\ UNCHANGED <<want, desc, name, tries, index, exchange, serveVars, loopVars, unacked>>

Query == QueryDesc \/ QueryVar
Confirm == ConfirmDesc \/ ConfirmSent \/ ConfirmVar \/ RefuseVar
Client ==
  \/ Query \/ Confirm \/ Exchange
  \/ \E n \in Names : LookUp(n)
  \/ \E d \in Descs, op \in {"put", "get"} : Ask(d, op)

Next == Device \/ Client
Spec == Init /\ [][Next]_vars
\* While the agent is in the exchange the bus asks its streams again and again,
\* and it confirms what it took; the device's main loop goes on.  Nothing is
\* assumed of an agent out of the exchange: its streams are not asked.
FairSpec == Spec /\ WF_vars(Query) /\ WF_vars(Confirm) /\ WF_vars(Device)

-----------------------------------------------------------------------------
(* Properties *)

\* Every message of the port is in one place: the pool, the performer, the
\* slot, or the answer being made.
One(b) == IF b THEN 1 ELSE 0
Conserved ==
  free + One(inMsg # Nothing) + One(slot # Nothing) + One(pc = "post") = Pool

\* A variable with a request is waiting once or is in hand, and no other is:
\* no request gets lost between the queue, the repeats and the read-back.
OnePlace ==
  /\ Distinct(queue) /\ ~In(cur, queue)
  /\ \A d \in Descs : Busy(d) <=> d = cur \/ In(d, queue)

\* A lookup that has neither an index nor used up its tries is waiting once or
\* in hand, not both, and no other is: two lookups of one name stay two, and a
\* lookup that breaks into a variable is put back, never dropped or doubled.
LookedUp(d) == d = desc \/ In(d, want)
LookupOnce ==
  /\ Distinct(want) /\ ~In(desc, want)
  /\ \A d \in Descs : LookedUp(d) => name[d] # NoName /\ index[d] = NoName
  /\ \A d \in Descs : name[d] # NoName /\ index[d] = NoName /\ tries[d] > 0 => LookedUp(d)

\* How many bytes the one in hand asks for.
Asked == CASE desc # NoDesc -> DescSize
           [] desc = NoDesc /\ st[cur] = "get" -> Header + Length[index[cur]]
           [] OTHER -> Header

\* What the bus brings back meets the one who asked, in the step it asked in
\* and of the length it asked for, although one proto::step_ serves lookups and
\* variables and a lookup may break in at any step: nobody takes the end of a
\* message for that of his own, and decode() finds the bytes it reads.  Whose
\* answer of that length it is, the checks of confirm() and confirm_desc() say.
MeetsItsSender ==
  reply # Free =>
    /\ desc = NoDesc => cur # NoDesc
    /\ step \in IF desc = NoDesc THEN {"put", "get"} ELSE {"desc_put", "desc_get"}
    /\ reply = Sent => step \in {"put", "desc_put"}
    /\ reply.is = "got" => step \in {"get", "desc_get"} /\ Size(reply.a) = Asked

\* The device does not sleep over a request: the performer that has one is
\* listed, or the main loop is at it; and only one of the two.
NeverSleepsOver == IF pc = "loop" THEN listed <=> req # "idle" ELSE ~listed /\ req # "idle"

\* A value read is one the variable of that index has had, whatever answers of
\* earlier requests are left in the device.
ReadsOwn ==
  [][\A d \in Descs : st[d] = "get" /\ st'[d] = "ready"
       => reply.a.val \in seen[index[d]]]_vars

\* A write is taken for done only when the device has done one that was not
\* taken for done before.
AckIsPerformed ==
  [][\A d \in Descs : d = cur /\ st[d] = "put" /\ st'[d] = "get"
       => unacked[index[d]] > 0]_vars

\* Every lookup and every request of a variable ends, in an answer or a refusal,
\* unless the agent leaves the exchange before.
RequestsEnd ==
  \A d \in Descs : Busy(d) \/ LookedUp(d) ~> ~(Busy(d) \/ LookedUp(d)) \/ ~exchange

\* The GET of a lookup brought no answer to a lookup: it or the answer was lost,
\* the device was slow, or a value of two bytes was in the slot.
LookupLost ==
  /\ desc # NoDesc /\ step = "desc_get" /\ reply # Free
  /\ ~(reply.is = "got" /\ reply.a.q = "index")

\* A name is given its own index.
NameIsItsIndex == \A d \in Descs : index[d] \in {name[d], NoName}
===============================================================================
