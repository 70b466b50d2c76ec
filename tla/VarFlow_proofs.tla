---------------------------- MODULE VarFlow_proofs ----------------------------
(***************************************************************************)
(* The safety properties of VarFlow, for all names, lengths and counts:     *)
(* first what the runs check, then that no request is slept over, that an   *)
(* answer is taken in the step and of the length it was asked for, and      *)
(* which lookups alone can go wrong.                                        *)
(***************************************************************************)
EXTENDS VarFlow, TLAPS, SequenceTheorems

\* An idle performer has no message, and the loop is not at work for it.
Working ==
  /\ req = "idle" => inMsg = Nothing /\ ~listed /\ pc = "loop"
  /\ pc \in {"answer", "post"} <=> ans # Nothing /\ pc # "done"
  /\ pc \in {"loop", "run"} => ans = Nothing
  /\ pc # "loop" => ~listed

\* A descriptor waits until it has its index, and only its variable is asked for.
Lines ==
  /\ LookupOnce
  /\ \A d \in Descs : Busy(d) => index[d] # NoName
  /\ \A d \in Descs : index[d] # NoName => name[d] # NoName

\* The stream has a message out for a descriptor or for a variable.
InHand == reply # Free => desc # NoDesc \/ cur # NoDesc

\* What an answer says of a value was true.
Truthful(a) == a # Nothing /\ a.q = "get" => a.val \in seen[a.ix]
AllTruthful ==
  /\ \A n \in Names : mem[n] \in seen[n]
  /\ Truthful(ans) /\ Truthful(slot)
  /\ reply.is = "got" => Truthful(reply.a)

\* The answers on their way that say a write of n is done.
Ack(a, n) == a # Nothing /\ a.q = "put" /\ a.ok /\ a.ix = n
AckReply(n) == reply.is = "got" /\ reply.a.q = "put" /\ reply.a.ok /\ reply.a.ix = n
AcksCounted ==
  \A n \in Names :
    One(Ack(ans, n) /\ pc # "done") + One(Ack(slot, n)) + One(AckReply(n)) <= unacked[n]

\* While an answer is on the bus no request is executed behind a posted one, so
\* that AckCap answers are all there are.
Settled == reply.is = "got" /\ slot # Nothing => pc = "done" \/ inMsg = Nothing

HeaderOfWrite ==
  reply.is = "got" /\ desc = NoDesc /\ cur # NoDesc /\ st[cur] = "put"
    => Size(reply.a) = Header

\* What a program does beside the bus.
Aside ==
  \/ Exchange
  \/ \E n \in Names : LookUp(n)
  \/ \E d \in Descs, op \in {"put", "get"} : Ask(d, op)

IInv ==
  /\ TypeOK /\ Conserved /\ Working
  /\ OnePlace /\ Lines /\ InHand
  /\ AllTruthful /\ AcksCounted /\ HeaderOfWrite
-----------------------------------------------------------------------------
(* Waiting lines. *)

LEMMA NoDescIsNone == NoDesc \notin Descs
BY DEF NoDesc, Descs

\* What joins a line joins it at its end.
LEMMA Joined ==
  ASSUME NEW S, NEW s \in Seq(S), NEW x \in S
  PROVE  /\ Append(s, x) \in Seq(S)
         /\ \A y : In(y, Append(s, x)) <=> y = x \/ In(y, s)
         /\ Distinct(s) /\ ~In(x, s) => Distinct(Append(s, x))
<1> Append(s, x) \in Seq(S) /\ DOMAIN Append(s, x) = 1..Len(s) + 1
    /\ DOMAIN s = 1..Len(s) /\ Len(s) \in Nat
  OBVIOUS
<1> \A i \in 1..Len(s) + 1 : Append(s, x)[i] = IF i = Len(s) + 1 THEN x ELSE s[i]
  OBVIOUS
<1> QED
  BY DEF In, Distinct

\* What leaves it is its head.
LEMMA Left ==
  ASSUME NEW S, NEW s \in Seq(S), s # << >>
  PROVE  /\ Head(s) \in S /\ Tail(s) \in Seq(S) /\ In(Head(s), s)
         /\ \A y : In(y, s) <=> y = Head(s) \/ In(y, Tail(s))
         /\ Distinct(s) => Distinct(Tail(s)) /\ ~In(Head(s), Tail(s))
<1>1. /\ Head(s) \in S /\ Tail(s) \in Seq(S) /\ Len(s) \in Nat \ {0}
      /\ DOMAIN s = 1..Len(s) /\ DOMAIN Tail(s) = 1..Len(s) - 1 /\ Head(s) = s[1]
  OBVIOUS
<1>2. \A i \in 1..Len(s) - 1 : Tail(s)[i] = s[i + 1]
  OBVIOUS
<1>3. In(Head(s), s)
  BY <1>1 DEF In
<1>4. ASSUME NEW y PROVE In(y, s) <=> y = Head(s) \/ In(y, Tail(s))
  <2>1. ASSUME NEW i \in DOMAIN s, s[i] = y PROVE y = Head(s) \/ In(y, Tail(s))
    <3>1. CASE i = 1
      BY <1>1, <2>1, <3>1
    <3>2. CASE i # 1
      <4>1. i - 1 \in 1..Len(s) - 1 /\ Tail(s)[i - 1] = y
        BY <1>1, <1>2, <2>1, <3>2
      <4> QED
        BY <1>1, <4>1 DEF In
    <3> QED
      BY <3>1, <3>2
  <2>2. ASSUME NEW i \in DOMAIN Tail(s), Tail(s)[i] = y PROVE In(y, s)
    <3>1. i + 1 \in DOMAIN s /\ s[i + 1] = y
      BY <1>1, <1>2, <2>2
    <3> QED
      BY <3>1 DEF In
  <2> QED
    BY <2>1, <2>2, <1>3 DEF In
<1>5. Distinct(s) => Distinct(Tail(s)) /\ ~In(Head(s), Tail(s))
  BY <1>1, <1>2 DEF In, Distinct
<1> QED
  BY <1>1, <1>3, <1>4, <1>5
-----------------------------------------------------------------------------
(* The device *)

LEMMA InitInv == Init => IInv
<1> SUFFICES ASSUME Init PROVE IInv
  OBVIOUS
<1>1. TypeOK
  <2>1. mem \in [Names -> Values] /\ seen \in [Names -> SUBSET Values]
    BY DEF Init, Values
  <2>2. tries \in [Descs -> 0..Requeries]
        /\ rep \in [Descs -> 0..Repeats] /\ unacked \in [Names -> 0..AckCap]
        /\ free \in 0..Pool
    BY PoolAssumption, CountAssumption DEF Init, AckCap
  <2>3. /\ want \in Seq(Descs) /\ queue \in Seq(Descs)
        /\ {name, index} \subseteq [Descs -> Names \cup {NoName}]
        /\ st \in [Descs -> {"clean", "put", "get", "ready", "panic"}]
    BY DEF Init
  <2> QED
    BY <2>1, <2>2, <2>3 DEF Init, TypeOK
<1>2. Conserved /\ Working /\ InHand
  BY PoolAssumption DEF Init, Conserved, Working, InHand, One, Free
<1>3. OnePlace /\ Lines
  BY NoDescIsNone DEF Init, OnePlace, Lines, LookupOnce, LookedUp, In, Distinct, Busy
<1>4. AllTruthful /\ AcksCounted /\ HeaderOfWrite
  BY DEF Init, AllTruthful, AcksCounted, HeaderOfWrite, Truthful, Ack, AckReply, One, Free
<1> QED
  BY <1>1, <1>2, <1>3, <1>4 DEF IInv

\* The device at work does not touch what the client knows.
LEMMA ClientSame ==
  ASSUME IInv, UNCHANGED <<clientVars, reply>>
  PROVE  OnePlace' /\ Lines' /\ InHand' /\ HeaderOfWrite'
BY DEF IInv, OnePlace, Lines, LookupOnce, LookedUp, InHand, HeaderOfWrite, clientVars, In, Distinct, Busy, Size

LEMMA PollInv == ASSUME IInv, Poll PROVE IInv'
<1> USE DEF IInv, Poll
<1>1. TypeOK' /\ Conserved' /\ Working'
  BY DEF TypeOK, Conserved, Working, clientVars, One
<1>2. AllTruthful' /\ AcksCounted'
  BY DEF AllTruthful, AcksCounted, Truthful, Ack, AckReply, One, TypeOK
<1> QED
  BY <1>1, <1>2, ClientSame

LEMMA NoProtoInv == ASSUME IInv, NoProto PROVE IInv'
<1> USE DEF IInv, NoProto
<1>1. TypeOK' /\ Conserved' /\ Working'
  BY DEF TypeOK, Conserved, Working, clientVars, serveVars, One
<1>2. AllTruthful' /\ AcksCounted'
  BY DEF AllTruthful, AcksCounted, Working, Truthful, Ack, AckReply, One, TypeOK, serveVars
<1> QED
  BY <1>1, <1>2, ClientSame

LEMMA QueryMsgInv == ASSUME IInv, QueryMsg PROVE IInv'
<1> USE DEF IInv, QueryMsg
<1>1. Conserved' /\ free' \in 0..Pool
  <2>1. free \in 0..Pool /\ pc = "answer"
        /\ free + One(inMsg # Nothing) + One(slot # Nothing) + One(FALSE) = Pool
    BY DEF TypeOK, Conserved
  <2>2. CASE free > 0
    BY <2>1, <2>2, PoolAssumption DEF Conserved, One
  <2>3. CASE ~(free > 0)
    BY <2>1, <2>3, PoolAssumption DEF Conserved, One
  <2> QED
    BY <2>2, <2>3
<1>2. TypeOK'
  BY <1>1 DEF TypeOK, clientVars
<1>3. Working'
  BY DEF Working
<1>4. AllTruthful' /\ AcksCounted'
  BY DEF AllTruthful, AcksCounted, Truthful, Ack, AckReply, One, TypeOK
<1> QED
  BY <1>1, <1>2, <1>3, <1>4, ClientSame

LEMMA PostAnswerInv == ASSUME IInv, PostAnswer PROVE IInv'
<1> USE DEF IInv, PostAnswer
<1>1. ans \in Answers /\ ans # Nothing
  BY DEF TypeOK, Working
<1>2. Conserved' /\ Working' /\ free' \in 0..Pool
  BY <1>1, PoolAssumption DEF TypeOK, Conserved, Working, One
<1>3. TypeOK'
  BY <1>1, <1>2 DEF TypeOK, clientVars
<1>4. AllTruthful' /\ AcksCounted'
  BY DEF AllTruthful, AcksCounted, Truthful, Ack, AckReply, One, TypeOK
<1> QED
  BY <1>2, <1>3, <1>4, ClientSame

LEMMA FinishInv == ASSUME IInv, Finish PROVE IInv'
<1> USE DEF IInv, Finish
<1>1. Conserved' /\ free' \in 0..Pool
  BY PoolAssumption DEF TypeOK, Conserved, One
<1>4. Working'
  BY DEF Working
<1>2. TypeOK'
  BY <1>1 DEF TypeOK, clientVars
<1>3. AllTruthful' /\ AcksCounted'
  BY DEF AllTruthful, AcksCounted, Truthful, Ack, AckReply, One, TypeOK
<1> QED
  BY <1>1, <1>2, <1>3, <1>4, ClientSame

LEMMA ProtoInv == ASSUME IInv, Settled, NEW ok \in BOOLEAN, Proto(ok) PROVE IInv'
<1> USE DEF IInv
<1> DEFINE wr == inMsg.q = "put" /\ ok
<1>1. /\ inMsg \in Frames /\ inMsg.ix \in Names /\ inMsg.q \in {"index", "get", "put"}
      /\ inMsg.q = "put" => inMsg.val \in Values
      /\ inMsg.val \in Values \cup {Nothing}
  BY DEF Proto, TypeOK, Frames
<1>2. /\ mem \in [Names -> Values] /\ seen \in [Names -> SUBSET Values]
      /\ unacked \in [Names -> 0..2]
  BY DEF TypeOK, AckCap
<1>3. mem' \in [Names -> Values] /\ seen' \in [Names -> SUBSET Values]
  <2>1. CASE wr
    <3>1. mem' = [mem EXCEPT ![inMsg.ix] = inMsg.val] /\ inMsg.val \in Values
          /\ seen' = [seen EXCEPT ![inMsg.ix] = @ \cup {inMsg.val}]
      BY <1>1, <2>1 DEF Proto
    <3> QED
      BY <1>1, <1>2, <3>1
  <2>2. CASE ~wr
    BY <1>2, <2>2 DEF Proto
  <2> QED
    BY <2>1, <2>2
<1>4. unacked' \in [Names -> 0..AckCap]
  BY <1>1, <1>2 DEF Proto, AckCap
<1>5. ans' \in Answers /\ ans' # Nothing
  <2>1. inMsg.q = "get" => mem[inMsg.ix] \in Values
    BY <1>1, <1>2
  <2>2. ans' \in Answers
    BY <1>1, <2>1 DEF Proto, Answers
  <2> QED
    BY <2>2, NothingAssumption
<1>6. TypeOK'
  BY <1>3, <1>4, <1>5 DEF TypeOK, Proto, clientVars, serveVars
<1>7. Conserved' /\ Working'
  BY <1>5 DEF Proto, Conserved, Working, serveVars, One
<1>8. AllTruthful'
  <2>1. \A n \in Names : seen[n] \subseteq seen'[n]
    BY <1>1 DEF Proto, TypeOK
  <2>2. \A n \in Names : mem'[n] \in seen'[n]
    BY <1>1 DEF Proto, TypeOK, AllTruthful
  <2>3. Truthful(ans)'
    BY <1>1, <1>2, <2>1, <2>2 DEF Proto, Truthful, AllTruthful
  <2>4. Truthful(slot)' /\ (reply.is = "got" => Truthful(reply.a))'
    BY <2>1 DEF Proto, Truthful, AllTruthful, TypeOK, serveVars, Answers, Got, Free, Sent, Failed
  <2> QED
    BY <2>2, <2>3, <2>4 DEF AllTruthful
<1>9. AcksCounted'
  <2> SUFFICES ASSUME NEW n \in Names
               PROVE (One(Ack(ans, n) /\ pc # "done") + One(Ack(slot, n)) + One(AckReply(n))
                        <= unacked[n])'
    BY DEF AcksCounted
  <2>1. One(Ack(slot, n)) + One(AckReply(n)) <= unacked[n] /\ ans = Nothing /\ unacked[n] \in 0..2
    BY DEF AcksCounted, Working, Proto, Ack, One, TypeOK, AckCap
  <2>5. ~(Ack(slot, n) /\ AckReply(n))
    BY DEF Settled, Proto, Ack, AckReply
  <2>2. slot' = slot /\ reply' = reply
    BY DEF Proto, serveVars
  <2>3. CASE Ack(ans', n)
    <3>1. wr /\ inMsg.ix = n
      BY <2>3 DEF Ack, Proto
    <3>2. unacked'[n] = (IF unacked[n] < 2 THEN unacked[n] + 1 ELSE unacked[n])
      BY <1>1, <3>1 DEF Proto, TypeOK, AckCap
    <3> QED
      BY <2>1, <2>2, <2>5, <3>2 DEF One, Ack, AckReply
  <2>4. CASE ~Ack(ans', n)
    <3>1. unacked'[n] >= unacked[n]
      BY <1>1, <1>2 DEF Proto, AckCap
    <3> QED
      BY <2>1, <2>2, <2>4, <3>1, <1>4 DEF One, Ack, AckReply, AckCap
  <2> QED
    BY <2>3, <2>4
<1> QED
  BY <1>6, <1>7, <1>8, <1>9, ClientSame DEF Proto

-----------------------------------------------------------------------------
(* A message of the client reaches the device, or does not. *)

Replies == {Free, Sent, Failed} \cup {Got(a) : a \in Answers}
Served ==
  /\ free \in 0..Pool /\ inMsg \in Frames \cup {Nothing} /\ slot \in Answers \cup {Nothing}
  /\ listed \in BOOLEAN /\ req \in {"idle", "get", "put"}
  /\ Conserved /\ Working

LEMMA PutArrives ==
  ASSUME IInv, NEW f \in Frames, OnPut(f), UNCHANGED loopVars
  PROVE  Served' /\ slot' = slot
<1> USE DEF IInv
<1>1. /\ free \in 0..Pool /\ f # Nothing /\ slot' = slot /\ pc' = pc /\ ans' = ans
      /\ inMsg \in Frames \cup {Nothing} /\ slot \in Answers \cup {Nothing}
      /\ listed \in BOOLEAN /\ req \in {"idle", "get", "put"}
  BY NothingAssumption DEF TypeOK, OnPut, loopVars
<1>2. CASE free > 0 /\ req = "idle"
  <2>1. free' = free - 1 /\ listed' = TRUE /\ inMsg' = f /\ req' = "put" /\ inMsg = Nothing
    BY <1>1, <1>2 DEF OnPut, Serve, Working
  <2> QED
    BY <1>1, <1>2, <2>1, PoolAssumption DEF Served, Conserved, Working, One
<1>3. CASE ~(free > 0 /\ req = "idle")
  <2>1. UNCHANGED <<free, listed, inMsg, req>>
    BY <1>1, <1>3, PoolAssumption DEF OnPut, Serve
  <2> QED
    BY <1>1, <2>1 DEF Served, Conserved, Working
<1> QED
  BY <1>1, <1>2, <1>3

LEMMA GetArrives ==
  ASSUME IInv, NEW size, OnGet(size), UNCHANGED loopVars
  PROVE  Served' /\ slot' = Nothing
<1> USE DEF IInv
<1>1. /\ free \in 0..Pool /\ slot' = Nothing /\ pc' = pc /\ ans' = ans
      /\ inMsg \in Frames \cup {Nothing} /\ slot \in Answers \cup {Nothing}
      /\ listed \in BOOLEAN /\ req \in {"idle", "get", "put"}
      /\ free' = free + One(slot # Nothing)
  BY DEF TypeOK, OnGet, loopVars, One
<1>2. /\ inMsg' = inMsg /\ listed' \in BOOLEAN /\ req' \in {"idle", "get", "put"}
      /\ Working'
  <2>1. CASE Fits(size) /\ req = "idle"
    BY <1>1, <2>1 DEF OnGet, Serve, Working
  <2>2. CASE ~(Fits(size) /\ req = "idle")
    BY <1>1, <2>2 DEF OnGet, Serve, Working
  <2> QED
    BY <2>1, <2>2
<1>3. Conserved' /\ free' \in 0..Pool
  BY <1>1, <1>2, PoolAssumption DEF Conserved, One
<1> QED
  BY <1>1, <1>2, <1>3 DEF Served

\* What a PUT or a GET leaves behind.
LEMMA PutInv ==
  ASSUME IInv, reply = Free, NEW f \in Frames, Put(f), UNCHANGED <<loopVars, unacked>>
  PROVE  /\ Served' /\ AllTruthful' /\ AcksCounted'
         /\ reply' \in Replies /\ reply' \in {Sent, Failed}
<1>1. Served' /\ slot' = slot
  <2>1. CASE OnPut(f)
    BY <2>1, PutArrives
  <2>2. CASE UNCHANGED serveVars
    BY <2>2 DEF IInv, Served, serveVars, loopVars, TypeOK, Conserved, Working
  <2> QED
    BY <2>1, <2>2 DEF Put
<1>2. reply' \in {Sent, Failed}
  BY DEF Put
<1>3. reply'.is # "got" /\ reply.is # "got"
  BY <1>2 DEF Sent, Failed, Free
<1> QED
  BY <1>1, <1>2, <1>3 DEF IInv, AllTruthful, AcksCounted, AckReply, Truthful, Ack, loopVars, Replies

LEMMA GetInv ==
  ASSUME IInv, reply = Free, NEW size, Get(size), UNCHANGED <<loopVars, unacked>>
  PROVE  /\ Served' /\ AllTruthful' /\ AcksCounted'
         /\ reply' \in Replies /\ reply' # Free /\ reply' # Sent
         /\ reply'.is = "got" => Size(reply'.a) = size
<1> USE DEF IInv
<1>1. Served' /\ slot' \in {slot, Nothing}
  <2>1. CASE OnGet(size)
    BY <2>1, GetArrives
  <2>2. CASE UNCHANGED serveVars
    BY <2>2 DEF Served, serveVars, loopVars, TypeOK, Conserved, Working
  <2> QED
    BY <2>1, <2>2 DEF Get
<1>2. reply.is # "got" /\ Failed.is # "got" /\ Failed # Free /\ Failed # Sent
  BY DEF Free, Failed, Sent
<1>3. CASE reply' = Failed
  <2>1. AllTruthful'
    BY <1>1, <1>2, <1>3 DEF AllTruthful, Truthful, loopVars
  <2>2. ASSUME NEW n \in Names
        PROVE (One(Ack(ans, n) /\ pc # "done") + One(Ack(slot, n)) + One(AckReply(n))
                 <= unacked[n])'
    <3>1. ~AckReply(n)' /\ ~AckReply(n) /\ (Ack(slot, n)' => Ack(slot, n))
      BY <1>1, <1>2, <1>3 DEF AckReply, Ack
    <3>2. unacked[n] \in 0..2
      BY DEF TypeOK, AckCap
    <3> QED
      BY <3>1, <3>2 DEF AcksCounted, Ack, One, loopVars
  <2> QED
    BY <1>1, <1>2, <1>3, <2>1, <2>2 DEF AcksCounted, Replies
<1>4. CASE reply' # Failed
  <2>1. Fits(size) /\ reply' = Got(slot) /\ slot' = Nothing /\ slot \in Answers
    BY <1>4 DEF Get, OnGet, Fits, TypeOK
  <2>2. reply'.is = "got" /\ reply'.a = slot /\ reply' # Free /\ reply' # Sent
    BY <2>1 DEF Got, Free, Sent
  <2>3. AllTruthful'
    BY <2>1, <2>2 DEF AllTruthful, Truthful, loopVars
  <2>4. AcksCounted'
    BY <1>2, <2>1, <2>2 DEF AcksCounted, Ack, AckReply, One, loopVars, Fits, TypeOK, AckCap
  <2> QED
    BY <1>1, <2>1, <2>2, <2>3, <2>4 DEF Fits, Replies
<1> QED
  BY <1>3, <1>4

-----------------------------------------------------------------------------
(* The client *)

\* Nothing of the device moves.
LEMMA DeviceSame ==
  ASSUME IInv, UNCHANGED <<serveVars, loopVars>>
  PROVE  Served'
BY DEF IInv, TypeOK, Served, Conserved, Working, serveVars, loopVars

LEMMA LookUpInv == ASSUME IInv, NEW n \in Names, LookUp(n) PROVE IInv'
<1> USE DEF IInv
<1>1. PICK d \in Descs : /\ name[d] = NoName /\ name' = [name EXCEPT ![d] = n]
                        /\ want' = Append(want, d)
  BY DEF LookUp
<1>2. /\ want \in Seq(Descs) /\ name \in [Descs -> Names \cup {NoName}]
      /\ UNCHANGED <<desc, tries, index, queue, cur, st, step, rep, exchange, reply>>
  BY DEF LookUp, TypeOK
<1>3. index[d] = NoName /\ d # desc /\ ~In(d, want)
  BY <1>1 DEF Lines, LookupOnce, LookedUp
<1>4. /\ want' \in Seq(Descs) /\ \A y : In(y, want') <=> y = d \/ In(y, want)
      /\ Distinct(want)'
  BY <1>1, <1>2, <1>3, Joined DEF Lines, LookupOnce
<1>5. /\ name' \in [Descs -> Names \cup {NoName}]
      /\ \A e \in Descs : name'[e] = IF e = d THEN n ELSE name[e]
  BY <1>1, <1>2
<1>6. Served'
  BY DeviceSame DEF LookUp
<1>7. TypeOK'
  BY <1>2, <1>4, <1>5, <1>6 DEF TypeOK, Served, LookUp, loopVars
<1>8. OnePlace' /\ InHand' /\ HeaderOfWrite'
  BY <1>2 DEF OnePlace, InHand, HeaderOfWrite, Distinct, In, Busy, Size
<1>9. Lines'
  <2>1. desc \in Descs \cup {NoDesc}
    BY DEF TypeOK
  <2>2. ~In(desc, want')
    BY <1>3, <1>4 DEF Lines, LookupOnce
  <2>3. \A e \in Descs : LookedUp(e)' <=> e = d \/ LookedUp(e)
    BY <1>2, <1>4 DEF LookedUp
  <2>4. \A e \in Descs : Busy(e)' <=> Busy(e)
    BY <1>2 DEF Busy
  <2> QED
    BY <1>2, <1>3, <1>4, <1>5, <2>2, <2>3, <2>4, NameAssumption DEF Lines, LookupOnce
<1>10. AllTruthful' /\ AcksCounted'
  BY DEF LookUp, loopVars, serveVars, AllTruthful, AcksCounted, Truthful, Ack, AckReply
<1> QED
  BY <1>6, <1>7, <1>8, <1>9, <1>10 DEF Served

\* The gate does not touch what waits behind it.
LEMMA ExchangeInv == ASSUME IInv, Exchange PROVE IInv'
<1> USE DEF IInv, Exchange
<1>1. Served'
  BY DeviceSame
<1>2. TypeOK'
  BY <1>1 DEF TypeOK, Served, loopVars
<1>3. OnePlace' /\ Lines' /\ InHand' /\ HeaderOfWrite'
  BY DEF OnePlace, Lines, LookupOnce, LookedUp, InHand, HeaderOfWrite, Distinct, In, Busy, Size
<1>4. AllTruthful' /\ AcksCounted'
  BY DEF loopVars, serveVars, AllTruthful, AcksCounted, Truthful, Ack, AckReply
<1> QED
  BY <1>1, <1>2, <1>3, <1>4 DEF Served

LEMMA AskInv == ASSUME IInv, NEW n \in Descs, NEW op \in {"put", "get"}, Ask(n, op) PROVE IInv'
<1> USE DEF IInv
<1>1. /\ queue \in Seq(Descs) /\ queue' = Append(queue, n) /\ index[n] # NoName /\ ~Busy(n)
      /\ st' = [st EXCEPT ![n] = op] /\ st \in [Descs -> {"clean", "put", "get", "ready", "panic"}]
      /\ desc' = desc /\ want' = want /\ index' = index /\ cur' = cur /\ reply' = reply
  BY DEF Ask, TypeOK
<1>2. n # cur /\ ~In(n, queue)
  BY <1>1 DEF OnePlace
<1>3. /\ queue' \in Seq(Descs) /\ \A y : In(y, queue') <=> y = n \/ In(y, queue)
      /\ Distinct(queue)'
  BY <1>1, <1>2, Joined DEF OnePlace
<1>4. Served'
  BY DeviceSame DEF Ask
<1>5. TypeOK'
  <2>1. st' \in [Descs -> {"clean", "put", "get", "ready", "panic"}]
    BY <1>1
  <2> QED
    BY <1>3, <1>4, <2>1 DEF TypeOK, Served, Ask, loopVars
<1>6. \A k \in Descs : Busy(k)' <=> k = n \/ Busy(k)
  BY <1>1 DEF Busy
<1>7. OnePlace'
  BY <1>1, <1>2, <1>3, <1>6 DEF OnePlace
<1>8. Lines' /\ InHand'
  <2>1. \A k \in Descs : LookedUp(k)' <=> LookedUp(k)
    BY <1>1 DEF LookedUp
  <2>2. name' = name /\ tries' = tries
    BY DEF Ask
  <2> QED
    BY <1>1, <1>6, <2>1, <2>2 DEF Lines, LookupOnce, InHand
<1>9. HeaderOfWrite'
  BY <1>1, <1>2 DEF HeaderOfWrite, TypeOK, Size
<1>10. AllTruthful' /\ AcksCounted'
  BY DEF Ask, loopVars, serveVars, AllTruthful, AcksCounted, Truthful, Ack, AckReply
<1> QED
  BY <1>4, <1>5, <1>7, <1>8, <1>9, <1>10 DEF Served

\* A refused descriptor joins the line again or is given up.
LEMMA RefuseDescLine ==
  ASSUME NEW d \in Descs, NEW line \in Seq(Descs), Distinct(line), ~In(d, line),
         tries \in [Descs -> 0..Requeries], RefuseDesc(d, line)
  PROVE  /\ want' \in Seq(Descs) /\ Distinct(want)'
         /\ \A y : In(y, want') => y = d \/ In(y, line)
         /\ \A y : In(y, line) => In(y, want')
         /\ tries' \in [Descs -> 0..Requeries]
         /\ \A e \in Descs : tries'[e] > 0 => tries[e] > 0 /\ (e = d => In(d, want'))
<1>1. want' = (IF tries[d] > 0 THEN Append(line, d) ELSE line)
  BY DEF RefuseDesc
<1>2. /\ want' \in Seq(Descs) /\ \A y : In(y, want') => y = d \/ In(y, line)
      /\ Distinct(want)' /\ \A y : In(y, line) => In(y, want')
      /\ tries[d] > 0 => In(d, want')
  BY <1>1, Joined
<1>3. tries' = [tries EXCEPT ![d] = IF tries[d] > 0 THEN tries[d] - 1 ELSE tries[d]]
  BY DEF RefuseDesc
<1>4. (IF tries[d] > 0 THEN tries[d] - 1 ELSE tries[d]) \in 0..Requeries
  BY CountAssumption
<1>5. /\ tries' \in [Descs -> 0..Requeries]
      /\ \A e \in Descs : tries'[e] > 0 => tries[e] > 0
  BY <1>3, <1>4, CountAssumption
<1> QED
  BY <1>2, <1>5

LEMMA QueryDescInv == ASSUME IInv, QueryDesc PROVE IInv'
<1> USE DEF IInv
<1> DEFINE line == IF desc = NoDesc THEN Tail(want) ELSE want
<1>1. /\ want \in Seq(Descs) /\ desc \in Descs \cup {NoDesc} /\ reply = Free /\ Wanted # NoDesc
      /\ tries \in [Descs -> 0..Requeries]
      /\ UNCHANGED <<name, index, queue, cur, st, rep, exchange>> /\ UNCHANGED <<loopVars, unacked>>
  BY DEF TypeOK, QueryDesc
<1>2. /\ Wanted \in Descs /\ line \in Seq(Descs) /\ Distinct(line) /\ ~In(Wanted, line)
      /\ \A d \in Descs : LookedUp(d) <=> d = Wanted \/ In(d, line)
  <2> USE DEF LookedUp
  <2>1. CASE desc = NoDesc
    <3>1. want # << >> /\ Wanted = Head(want) /\ line = Tail(want)
      BY <1>1, <2>1 DEF Wanted
    <3> QED
      BY <1>1, <2>1, <3>1, Left, NoDescIsNone DEF Lines, LookupOnce
  <2>2. CASE desc # NoDesc
    BY <1>1, <2>2 DEF Wanted, Lines, LookupOnce
  <2>3. QED
    BY <2>1, <2>2
<1>7. name[Wanted] \in Names
  BY <1>2 DEF Lines, LookupOnce, TypeOK
<1>3. /\ Served' /\ AllTruthful' /\ AcksCounted' /\ reply' \in Replies
      /\ tries' \in [Descs -> 0..Requeries] /\ want' \in Seq(Descs)
      /\ desc' \in Descs \cup {NoDesc} /\ Distinct(want)'
      /\ step' \in {"idle", "put", "get", "desc_put", "desc_get"}
      /\ reply' # Free => desc' # NoDesc
      /\ \A d \in Descs : d = desc' \/ In(d, want') => LookedUp(d)
      /\ \A d \in Descs : tries'[d] > 0 =>
           tries[d] > 0 /\ (LookedUp(d) => d = desc' \/ In(d, want'))
      /\ ~In(desc, want)'
      /\ reply' = Free \/ desc' # NoDesc
  <2>1. CASE step = "idle"
    <3>1. Put(Frame("index", name[Wanted], Nothing)) /\ TakeDesc /\ tries' = tries /\ step' = "desc_put"
      BY <2>1 DEF QueryDesc
    <3>2. Frame("index", name[Wanted], Nothing) \in Frames
      BY <1>7 DEF Frame, Frames
    <3>3. desc' = Wanted /\ want' = line
      BY <3>1 DEF TakeDesc
    <3> QED
      BY <1>1, <1>2, <3>1, <3>2, <3>3, PutInv
  <2>2. CASE step = "desc_get"
    <3>1. Get(DescSize) /\ TakeDesc /\ tries' = tries /\ step' = step
      BY <2>2 DEF QueryDesc
    <3>2. desc' = Wanted /\ want' = line
      BY <3>1 DEF TakeDesc
    <3> QED
      BY <1>1, <1>2, <2>2, <3>1, <3>2, GetInv
  <2>3. CASE step \notin {"idle", "desc_get"}
    <3>1. /\ RefuseDesc(Wanted, line) /\ desc' = NoDesc /\ step' = "idle" /\ reply' = reply
          /\ UNCHANGED serveVars
      BY <2>3 DEF QueryDesc
    <3>2. /\ want' \in Seq(Descs) /\ Distinct(want)' /\ tries' \in [Descs -> 0..Requeries]
          /\ \A y : In(y, want') => y = Wanted \/ In(y, line)
          /\ \A y : In(y, line) => In(y, want')
          /\ \A e \in Descs : tries'[e] > 0 => tries[e] > 0 /\ (e = Wanted => In(Wanted, want'))
      BY <1>1, <1>2, <3>1, RefuseDescLine
    <3>3. ~In(NoDesc, want')
      BY <3>2, NoDescIsNone DEF In
    <3>4. Served'
      BY <1>1, <3>1, DeviceSame
    <3>5. AllTruthful' /\ AcksCounted'
      BY <1>1, <3>1 DEF loopVars, serveVars, AllTruthful, AcksCounted, Truthful, Ack, AckReply
    <3> QED
      BY <1>1, <1>2, <3>1, <3>2, <3>3, <3>4, <3>5, NoDescIsNone DEF Replies
  <2> QED
    BY <2>1, <2>2, <2>3
<1>4. TypeOK'
  BY <1>1, <1>3 DEF TypeOK, Served, Replies, loopVars
<1>5. OnePlace' /\ InHand'
  BY <1>1, <1>3 DEF OnePlace, InHand, Distinct, In, Busy
<1>8. Lines'
  <2>1. \A d \in Descs : LookedUp(d)' <=> d = desc' \/ In(d, want')
    BY DEF LookedUp
  <2>2. \A d \in Descs : Busy(d)' <=> Busy(d)
    BY <1>1 DEF Busy
  <2> QED
    BY <1>1, <1>3, <2>1, <2>2 DEF Lines, LookupOnce
<1>6. HeaderOfWrite'
  BY <1>3 DEF HeaderOfWrite, Free
<1> QED
  BY <1>3, <1>4, <1>5, <1>6, <1>8 DEF Served

LEMMA QueryVarInv == ASSUME IInv, QueryVar PROVE IInv'
<1> USE DEF IInv
<1> DEFINE line == IF cur = NoDesc THEN Tail(queue) ELSE queue
<1>1. /\ queue \in Seq(Descs) /\ cur \in Descs \cup {NoDesc} /\ reply = Free /\ Current # NoDesc
      /\ UNCHANGED <<want, desc, name, tries, index, st, rep>> /\ UNCHANGED <<loopVars, unacked>>
      /\ cur' = Current /\ queue' = line /\ Wanted = NoDesc
      /\ index \in [Descs -> Names \cup {NoName}]
  BY DEF TypeOK, QueryVar
<1>2. /\ Current \in Descs /\ line \in Seq(Descs) /\ Distinct(line) /\ ~In(Current, line)
      /\ \A n \in Descs : n = Current \/ In(n, line) <=> n = cur \/ In(n, queue)
  <2>1. CASE cur = NoDesc
    <3>1. queue # << >> /\ Current = Head(queue) /\ line = Tail(queue)
      BY <1>1, <2>1 DEF Current
    <3> QED
      BY <1>1, <2>1, <3>1, Left, NoDescIsNone DEF OnePlace
  <2>2. CASE cur # NoDesc
    BY <1>1, <2>2 DEF Current, OnePlace
  <2> QED
    BY <2>1, <2>2
<1>3. /\ Busy(Current) /\ index[Current] \in Names /\ name[Current] \in Names
  BY <1>1, <1>2 DEF OnePlace, Lines, TypeOK
<1>4. /\ Served' /\ AllTruthful' /\ AcksCounted' /\ reply' \in Replies
      /\ step' \in {"idle", "put", "get", "desc_put", "desc_get"}
      /\ reply'.is = "got" /\ st[Current] = "put" => Size(reply'.a) = Header
  <2>1. CASE step = "idle"
    <3> DEFINE f == Frame(st[Current], index[Current],
                          IF st[Current] = "put" THEN name[Current] ELSE Nothing)
    <3>1. Put(f) /\ step' = "put"
      BY <2>1 DEF QueryVar
    <3>2. f \in Frames
      BY <1>2, <1>3 DEF Frame, Frames, Busy, Values
    <3>3. reply'.is # "got"
      BY <1>1, <3>1, <3>2, PutInv DEF Sent, Failed
    <3> HIDE DEF f
    <3> QED
      BY <1>1, <3>1, <3>2, <3>3, PutInv
  <2>2. CASE step = "get"
    <3> DEFINE size == Header + IF st[Current] = "get" THEN Length[index[Current]] ELSE 0
    <3>1. Get(size) /\ step' = step
      BY <2>2 DEF QueryVar
    <3>2. st[Current] = "put" => size = Header
      BY DEF Header
    <3> HIDE DEF size
    <3> QED
      BY <1>1, <2>2, <3>1, <3>2, GetInv
  <2> QED
    BY <2>1, <2>2 DEF QueryVar
<1>5. TypeOK'
  BY <1>1, <1>2, <1>4 DEF TypeOK, Served, Replies, loopVars, QueryVar
<1>6. OnePlace'
  BY <1>1, <1>2 DEF OnePlace, Busy
<1>7. Lines' /\ InHand'
  BY <1>1, <1>2, NoDescIsNone DEF Lines, LookupOnce, LookedUp, InHand, Distinct, In, Busy
<1>8. HeaderOfWrite'
  BY <1>1, <1>4 DEF HeaderOfWrite
<1> QED
  BY <1>4, <1>5, <1>6, <1>7, <1>8 DEF Served

\* Once an answer is taken nothing of it is left.
LEMMA Taken ==
  ASSUME IInv, reply # Free, reply' = Free, UNCHANGED <<serveVars, loopVars>>
  PROVE  /\ Served' /\ AllTruthful' /\ InHand' /\ HeaderOfWrite'
         /\ unacked' = unacked => AcksCounted'
<1> USE DEF IInv
<1>1. Served'
  BY DeviceSame
<1>2. reply'.is # "got"
  BY DEF Free
<1>3. AllTruthful' /\ InHand' /\ HeaderOfWrite'
  BY <1>2 DEF AllTruthful, InHand, HeaderOfWrite, Truthful, serveVars, loopVars
<1>4. ASSUME unacked' = unacked PROVE AcksCounted'
  <2>1. ASSUME NEW n \in Names
        PROVE (One(Ack(ans, n) /\ pc # "done") + One(Ack(slot, n)) + One(AckReply(n))
                 <= unacked[n])'
    <3>1. ~AckReply(n)' /\ unacked[n] \in 0..2
      BY <1>2 DEF AckReply, TypeOK, AckCap
    <3> QED
      BY <1>4, <3>1 DEF AcksCounted, Ack, One, loopVars, serveVars
  <2> QED
    BY <2>1 DEF AcksCounted
<1> QED
  BY <1>1, <1>3, <1>4

LEMMA ConfirmSentInv == ASSUME IInv, ConfirmSent PROVE IInv'
<1> USE DEF IInv
<1>1. Served' /\ AllTruthful' /\ InHand' /\ HeaderOfWrite' /\ AcksCounted'
  BY Taken DEF ConfirmSent, Done
<1>2. TypeOK'
  BY <1>1 DEF TypeOK, Served, ConfirmSent, Done, loopVars
<1>3. OnePlace' /\ Lines'
  BY DEF ConfirmSent, OnePlace, Lines, LookupOnce, LookedUp, Distinct, In, Busy
<1> QED
  BY <1>1, <1>2, <1>3 DEF Served

LEMMA ConfirmDescInv == ASSUME IInv, ConfirmDesc PROVE IInv'
<1> USE DEF IInv
<1>1. /\ Served' /\ AllTruthful' /\ InHand' /\ HeaderOfWrite' /\ AcksCounted'
  BY Taken DEF ConfirmDesc, Done
<1>2. /\ desc \in Descs /\ want \in Seq(Descs) /\ queue \in Seq(Descs)
      /\ tries \in [Descs -> 0..Requeries] /\ index \in [Descs -> Names \cup {NoName}]
      /\ st \in [Descs -> {"clean", "put", "get", "ready", "panic"}]
      /\ reply' = Free /\ UNCHANGED <<name, cur, rep, exchange, loopVars, unacked>>
  BY DEF TypeOK, ConfirmDesc, Done
<1>3. /\ index[desc] = NoName /\ name[desc] # NoName /\ ~Busy(desc) /\ ~In(desc, want)
      /\ ~In(NoDesc, want) /\ Distinct(want)
  BY <1>2, NoDescIsNone DEF Lines, LookupOnce, LookedUp, In
<1>4. CASE UNCHANGED <<want, desc, tries, index, st, queue>> /\ step' = "desc_get"
  <2>1. TypeOK'
    BY <1>1, <1>2, <1>4 DEF TypeOK, Served, loopVars
  <2>2. OnePlace' /\ Lines'
    BY <1>2, <1>4 DEF OnePlace, Lines, LookupOnce, LookedUp, Distinct, In, Busy
  <2> QED
    BY <1>1, <2>1, <2>2 DEF Served
<1>5. ASSUME Described, desc' = NoDesc, index' = [index EXCEPT ![desc] = reply.a.ix],
             st' = [st EXCEPT ![desc] = "get"], queue' = Append(queue, desc),
             UNCHANGED <<want, tries>>, step' = "idle"
      PROVE  IInv'
  <2>1. reply.a.ix \in Names
    BY <1>5 DEF Described, TypeOK, Free, Sent, Failed, Got, Answers
  <2>2. desc # cur /\ ~In(desc, queue)
    BY <1>2, <1>3 DEF OnePlace
  <2>3. /\ queue' \in Seq(Descs) /\ \A y : In(y, queue') <=> y = desc \/ In(y, queue)
        /\ Distinct(queue)'
    BY <1>2, <1>5, <2>2, Joined DEF OnePlace
  <2>4. TypeOK'
    <3>1. /\ index' \in [Descs -> Names \cup {NoName}]
          /\ st' \in [Descs -> {"clean", "put", "get", "ready", "panic"}]
      BY <1>2, <1>5, <2>1
    <3> QED
      BY <1>1, <1>2, <1>5, <2>3, <3>1 DEF TypeOK, Served, loopVars
  <2>5. \A k \in Descs : Busy(k)' <=> k = desc \/ Busy(k)
    BY <1>2, <1>5 DEF Busy
  <2>6. OnePlace'
    BY <1>2, <2>2, <2>3, <2>5 DEF OnePlace
  <2>7. Lines'
    <3>1. \A k \in Descs : k # desc => index'[k] = index[k]
      BY <1>2, <1>5
    <3>2. index'[desc] # NoName
      BY <1>2, <1>5, <2>1, NameAssumption
    <3>3. \A k \in Descs : LookedUp(k)' <=> In(k, want)
      BY <1>5, NoDescIsNone DEF LookedUp
    <3>4. \A k \in Descs : LookedUp(k) <=> k = desc \/ In(k, want)
      BY DEF LookedUp
    <3> QED
      BY <1>2, <1>3, <1>5, <2>5, <3>1, <3>2, <3>3, <3>4 DEF Lines, LookupOnce
  <2> QED
    BY <1>1, <2>4, <2>6, <2>7 DEF Served
<1>6. ASSUME desc' = NoDesc, RefuseDesc(desc, want), UNCHANGED <<index, st, queue>>,
             step' = "idle"
      PROVE  IInv'
  <2>1. /\ want' \in Seq(Descs) /\ Distinct(want)' /\ tries' \in [Descs -> 0..Requeries]
        /\ \A y : In(y, want') => y = desc \/ In(y, want)
        /\ \A y : In(y, want) => In(y, want')
        /\ \A e \in Descs : tries'[e] > 0 => tries[e] > 0 /\ (e = desc => In(desc, want'))
    BY <1>2, <1>3, <1>6, RefuseDescLine
  <2>2. ~In(NoDesc, want')
    BY <2>1, NoDescIsNone DEF In
  <2>3. TypeOK'
    BY <1>1, <1>2, <1>6, <2>1 DEF TypeOK, Served, loopVars
  <2>4. OnePlace'
    BY <1>2, <1>6 DEF OnePlace, Distinct, In, Busy
  <2>5. Lines'
    <3>1. \A k \in Descs : LookedUp(k)' <=> In(k, want')
      BY <1>6, NoDescIsNone DEF LookedUp
    <3>2. \A k \in Descs : LookedUp(k) <=> k = desc \/ In(k, want)
      BY DEF LookedUp
    <3>3. \A k \in Descs : Busy(k)' <=> Busy(k)
      BY <1>6 DEF Busy
    <3> QED
      BY <1>2, <1>3, <1>6, <2>1, <2>2, <3>1, <3>2, <3>3 DEF Lines, LookupOnce
  <2> QED
    BY <1>1, <2>3, <2>4, <2>5 DEF Served
<1> QED
  BY <1>4, <1>5, <1>6 DEF ConfirmDesc

LEMMA RefuseVarInv == ASSUME IInv, RefuseVar PROVE IInv'
<1> USE DEF IInv
<1>1. /\ Served' /\ AllTruthful' /\ InHand' /\ HeaderOfWrite' /\ AcksCounted'
  BY Taken DEF RefuseVar, Done
<1>2. /\ cur \in Descs /\ queue \in Seq(Descs) /\ reply' = Free /\ cur' = NoDesc
      /\ rep \in [Descs -> 0..Repeats] /\ step' = "idle"
      /\ st \in [Descs -> {"clean", "put", "get", "ready", "panic"}]
      /\ UNCHANGED <<want, desc, name, tries, index, exchange, loopVars, unacked>>
  BY DEF TypeOK, RefuseVar, Done, InHand
<1>3. Busy(cur) /\ ~In(cur, queue) /\ ~In(NoDesc, queue)
  BY <1>2, NoDescIsNone DEF OnePlace, In
<1>4. CASE rep[cur] > 0
  <2>1. /\ rep' = [rep EXCEPT ![cur] = @ - 1] /\ queue' = Append(queue, cur) /\ st' = st
    BY <1>4 DEF RefuseVar
  <2>2. /\ queue' \in Seq(Descs) /\ \A y : In(y, queue') <=> y = cur \/ In(y, queue)
        /\ Distinct(queue)'
    BY <1>2, <1>3, <2>1, Joined DEF OnePlace
  <2>3. rep' \in [Descs -> 0..Repeats]
    <3>1. rep[cur] - 1 \in 0..Repeats
      BY <1>2, <1>4, CountAssumption
    <3> QED
      BY <1>2, <2>1, <3>1
  <2>4. TypeOK'
    BY <1>1, <1>2, <2>1, <2>2, <2>3 DEF TypeOK, Served, loopVars
  <2>5. OnePlace'
    BY <1>2, <1>3, <2>1, <2>2, NoDescIsNone DEF OnePlace, Busy
  <2>6. Lines'
    BY <1>2, <2>1 DEF Lines, LookupOnce, LookedUp, Distinct, In, Busy
  <2> QED
    BY <1>1, <2>4, <2>5, <2>6 DEF Served
<1>5. CASE ~(rep[cur] > 0)
  <2>1. /\ rep' = [rep EXCEPT ![cur] = Repeats] /\ queue' = queue
        /\ st' = [st EXCEPT ![cur] = "panic"]
    BY <1>5 DEF RefuseVar
  <2>2. /\ rep' \in [Descs -> 0..Repeats]
        /\ st' \in [Descs -> {"clean", "put", "get", "ready", "panic"}]
    BY <1>2, <2>1, CountAssumption
  <2>3. \A k \in Descs : Busy(k)' <=> k # cur /\ Busy(k)
    BY <1>2, <2>1 DEF Busy
  <2>4. TypeOK'
    BY <1>1, <1>2, <2>1, <2>2 DEF TypeOK, Served, loopVars
  <2>5. OnePlace'
    BY <1>2, <1>3, <2>1, <2>3, NoDescIsNone DEF OnePlace, In, Distinct
  <2>6. Lines'
    BY <1>2, <2>3 DEF Lines, LookupOnce, LookedUp, Distinct, In
  <2> QED
    BY <1>1, <2>4, <2>5, <2>6 DEF Served
<1> QED
  BY <1>4, <1>5

\* The answer that confirms a write says that it was done.
LEMMA WriteAcked ==
  ASSUME IInv, reply # Free, desc = NoDesc, st[cur] = "put", Accepts(cur)
  PROVE  AckReply(index[cur])
<1>1. cur \in Descs /\ reply.is = "got" /\ reply.a.ok /\ reply.a.ix = index[cur]
  BY DEF IInv, InHand, TypeOK, Accepts
<1>2. Size(reply.a) = Header
  BY <1>1, NoDescIsNone DEF IInv, HeaderOfWrite
<1>3. reply.a.q \in {"index", "get", "put"} /\ reply.a.ix \in Names
  BY <1>1 DEF IInv, TypeOK, Free, Sent, Failed, Got, Answers
<1>4. Length[reply.a.ix] \in Nat \ {0}
  BY <1>3, LengthAssumption
<1> QED
  BY <1>1, <1>2, <1>3, <1>4 DEF Size, AckReply, Header, DescSize

LEMMA ConfirmVarInv == ASSUME IInv, ConfirmVar PROVE IInv'
<1> USE DEF IInv
<1>1. /\ Served' /\ AllTruthful' /\ InHand' /\ HeaderOfWrite'
      /\ unacked' = unacked => AcksCounted'
  BY Taken DEF ConfirmVar, Done
<1>2. /\ cur \in Descs /\ queue \in Seq(Descs) /\ reply' = Free /\ cur' = NoDesc
      /\ rep \in [Descs -> 0..Repeats] /\ step' = "idle" /\ unacked \in [Names -> 0..2]
      /\ st \in [Descs -> {"clean", "put", "get", "ready", "panic"}]
      /\ UNCHANGED <<want, desc, name, tries, index, exchange, serveVars, loopVars>>
  BY DEF TypeOK, ConfirmVar, Done, InHand, AckCap
<1>3. Busy(cur) /\ ~In(cur, queue) /\ ~In(NoDesc, queue) /\ index[cur] \in Names
  <2>1. ~In(NoDesc, queue)
    BY <1>2, NoDescIsNone DEF In
  <2> QED
    BY <1>2, <2>1 DEF OnePlace, Lines, LookupOnce, LookedUp, TypeOK
<1>4. CASE st[cur] = "put"
  <2>1. /\ st' = [st EXCEPT ![cur] = "get"] /\ queue' = Append(queue, cur) /\ rep' = rep
        /\ unacked' = [unacked EXCEPT ![index[cur]] = IF @ > 0 THEN @ - 1 ELSE @]
    BY <1>4 DEF ConfirmVar
  <2>2. /\ queue' \in Seq(Descs) /\ \A y : In(y, queue') <=> y = cur \/ In(y, queue)
        /\ Distinct(queue)'
    BY <1>2, <1>3, <2>1, Joined DEF OnePlace
  <2>3. /\ st' \in [Descs -> {"clean", "put", "get", "ready", "panic"}]
        /\ unacked' \in [Names -> 0..2]
    BY <1>2, <1>3, <2>1
  <2>4. TypeOK'
    BY <1>1, <1>2, <2>1, <2>2, <2>3 DEF TypeOK, Served, loopVars, AckCap
  <2>5. \A k \in Descs : Busy(k)' <=> Busy(k)
    BY <1>2, <1>4, <2>1 DEF Busy
  <2>6. OnePlace'
    BY <1>2, <1>3, <2>2, <2>5, NoDescIsNone DEF OnePlace
  <2>7. Lines'
    BY <1>2, <2>5 DEF Lines, LookupOnce, LookedUp, Distinct, In
  <2>8. AcksCounted'
    <3>1. AckReply(index[cur])
      BY <1>4, WriteAcked DEF ConfirmVar, Done
    <3>2. ASSUME NEW n \in Names
          PROVE (One(Ack(ans, n) /\ pc # "done") + One(Ack(slot, n)) + One(AckReply(n))
                   <= unacked[n])'
      <4>1. ~AckReply(n)' /\ (AckReply(n) <=> n = index[cur])
        BY <1>2, <3>1 DEF AckReply, Free
      <4>2. One(Ack(ans, n) /\ pc # "done") + One(Ack(slot, n)) + One(AckReply(n)) <= unacked[n]
        BY DEF AcksCounted
      <4>3. unacked[n] \in 0..2
        BY <1>2
      <4>4. One(Ack(ans, n) /\ pc # "done")' = One(Ack(ans, n) /\ pc # "done")
            /\ One(Ack(slot, n))' = One(Ack(slot, n))
        BY <1>2 DEF One, Ack, serveVars, loopVars
      <4>5. CASE n = index[cur]
        <5>1. unacked'[n] = (IF unacked[n] > 0 THEN unacked[n] - 1 ELSE unacked[n])
          BY <1>2, <1>3, <2>1, <4>5
        <5> QED
          BY <4>1, <4>2, <4>3, <4>4, <4>5, <5>1 DEF One
      <4>6. CASE n # index[cur]
        <5>1. unacked'[n] = unacked[n]
          BY <1>2, <1>3, <2>1, <4>6
        <5> QED
          BY <4>1, <4>2, <4>3, <4>4, <4>6, <5>1 DEF One
      <4> QED
        BY <4>5, <4>6
    <3> QED
      BY <3>2 DEF AcksCounted
  <2> QED
    BY <1>1, <2>4, <2>6, <2>7, <2>8 DEF Served
<1>5. CASE st[cur] # "put"
  <2>1. /\ st' = [st EXCEPT ![cur] = "ready"] /\ rep' = [rep EXCEPT ![cur] = Repeats]
        /\ UNCHANGED <<queue, unacked>>
    BY <1>5 DEF ConfirmVar
  <2>2. /\ rep' \in [Descs -> 0..Repeats]
        /\ st' \in [Descs -> {"clean", "put", "get", "ready", "panic"}]
    BY <1>2, <2>1, CountAssumption
  <2>3. \A k \in Descs : Busy(k)' <=> k # cur /\ Busy(k)
    BY <1>2, <2>1 DEF Busy
  <2>4. TypeOK'
    BY <1>1, <1>2, <2>1, <2>2 DEF TypeOK, Served, loopVars
  <2>5. OnePlace'
    BY <1>2, <1>3, <2>1, <2>3, NoDescIsNone DEF OnePlace, In, Distinct
  <2>6. Lines'
    BY <1>2, <2>3 DEF Lines, LookupOnce, LookedUp, Distinct, In
  <2> QED
    BY <1>1, <2>1, <2>4, <2>5, <2>6 DEF Served
<1> QED
  BY <1>4, <1>5

-----------------------------------------------------------------------------
(* Theorems *)

LEMMA SettledStep == IInv /\ Settled /\ [Next]_vars => Settled'
<1> SUFFICES ASSUME IInv, Settled, [Next]_vars PROVE Settled'
  OBVIOUS
<1>1. CASE Device
  BY <1>1 DEF Device, Poll, Proto, NoProto, QueryMsg, PostAnswer, Finish, clientVars, serveVars,
    Settled
<1>2. CASE Query
  <2>1. reply = Free
    BY <1>2 DEF Query, QueryDesc, QueryVar
  <2>2. CASE \E size : Get(size)
    BY <2>2 DEF Get, OnGet, Settled, Failed
  <2>3. CASE (\E f : Put(f)) \/ reply' = reply
    BY <2>1, <2>3 DEF Put, Settled, Sent, Failed, Free
  <2> QED
    BY <1>2, <2>2, <2>3 DEF Query, QueryDesc, QueryVar
<1>3. CASE Confirm
  <2>1. reply' = Free
    BY <1>3 DEF Confirm, ConfirmDesc, ConfirmSent, ConfirmVar, RefuseVar, Done
  <2> QED
    BY <2>1 DEF Settled, Free
<1>4. CASE Aside \/ UNCHANGED vars
  BY <1>4 DEF Aside, Exchange, LookUp, Ask, Settled, vars, serveVars, loopVars
<1> QED
  BY <1>1, <1>2, <1>3, <1>4 DEF Next, Client, Aside

LEMMA NextInv == IInv /\ Settled /\ [Next]_vars => IInv'
<1> SUFFICES ASSUME IInv, Settled, [Next]_vars PROVE IInv'
  OBVIOUS
<1>1. CASE Device
  BY <1>1, PollInv, ProtoInv, NoProtoInv, QueryMsgInv, PostAnswerInv, FinishInv DEF Device
<1>2. CASE Client
  BY <1>2, QueryDescInv, QueryVarInv, ConfirmDescInv, ConfirmSentInv, ConfirmVarInv,
     RefuseVarInv, LookUpInv, AskInv, ExchangeInv DEF Client, Query, Confirm
<1>3. CASE UNCHANGED vars
  <2>1. Served'
    BY <1>3, DeviceSame DEF vars
  <2>2. TypeOK'
    BY <1>3, <2>1 DEF IInv, TypeOK, Served, vars, clientVars, loopVars
  <2>3. AllTruthful' /\ AcksCounted'
    BY <1>3 DEF IInv, vars, loopVars, serveVars, AllTruthful, AcksCounted, Truthful, Ack, AckReply
  <2> QED
    BY <1>3, <2>1, <2>2, <2>3, ClientSame DEF vars, Served, IInv
<1> QED
  BY <1>1, <1>2, <1>3 DEF Next

\* The inductive invariant: a variable waits in one place, a message of the
\* port is in one place, and every answer still in the device is true.
THEOREM Inductive == Spec => []IInv
<1>1. Init => Settled
  BY DEF Init, Settled, Free
<1> QED
  BY <1>1, InitInv, NextInv, SettledStep, PTL DEF Spec

\* Every variable of the client and of the device keeps its type.
THEOREM TypeCorrect == Spec => []TypeOK
<1>1. IInv => TypeOK
  BY DEF IInv
<1> QED
  BY <1>1, Inductive, PTL

\* No message of the port's pool gets lost or is released twice.
THEOREM MessagesConserved == Spec => []Conserved
<1>1. IInv => Conserved
  BY DEF IInv
<1> QED
  BY <1>1, Inductive, PTL

\* A request is in the queue once or in hand until it ends.
THEOREM RequestsInOnePlace == Spec => []OnePlace
<1>1. IInv => OnePlace
  BY DEF IInv
<1> QED
  BY <1>1, Inductive, PTL

\* What leaves "put" or "get" was confirmed, or refused, as the variable in hand.
LEMMA OnlyConfirmed ==
  ASSUME IInv, [Next]_vars, NEW n \in Descs, Busy(n), st'[n] \in {"ready", "get"}, st'[n] # st[n]
  PROVE  ConfirmVar /\ n = cur
<1>1. st \in [Descs -> {"clean", "put", "get", "ready", "panic"}]
  BY DEF IInv, TypeOK
<1>2. ~Aside
  BY <1>1 DEF Aside, LookUp, Ask, Exchange
<1>3. ~Query /\ ~Device
  BY DEF Query, QueryDesc, QueryVar, Device, Poll, Proto, NoProto, QueryMsg, PostAnswer, Finish,
    clientVars
<1>4. ~ConfirmDesc
  <2>1. desc \in Descs => ~Busy(desc)
    BY DEF IInv, Lines, LookupOnce, LookedUp
  <2> QED
    BY <1>1, <2>1 DEF ConfirmDesc, IInv, TypeOK
<1>5. ~ConfirmSent /\ ~RefuseVar /\ ~UNCHANGED vars
  BY <1>1 DEF ConfirmSent, RefuseVar, vars, clientVars
<1>6. ConfirmVar
  BY <1>2, <1>3, <1>4, <1>5 DEF Next, Client, Confirm, Aside
<1> QED
  BY <1>1, <1>6 DEF ConfirmVar

\* A read gets a value the variable asked for has had, whatever is late or lost.
THEOREM ReadsAreOwn == Spec => ReadsOwn
<1>1. ASSUME IInv, [Next]_vars
      PROVE  \A d \in Descs : st[d] = "get" /\ st'[d] = "ready"
               => reply.a.val \in seen[index[d]]
  <2> SUFFICES ASSUME NEW n \in Descs, st[n] = "get", st'[n] = "ready"
               PROVE reply.a.val \in seen[index[n]]
    OBVIOUS
  <2>1. ConfirmVar /\ n = cur
    BY <1>1, OnlyConfirmed DEF Busy
  <2>2. reply.is = "got" /\ reply.a.ix = index[n] /\ reply.a.q = "get"
    BY <2>1 DEF ConfirmVar, Accepts
  <2>3. reply.a \in Answers
    BY <1>1, <2>2 DEF IInv, TypeOK, Free, Sent, Failed, Got
  <2> QED
    BY <1>1, <2>2, <2>3, NothingAssumption DEF IInv, AllTruthful, Truthful
<1>2. IInv /\ [Next]_vars =>
        [\A d \in Descs : st[d] = "get" /\ st'[d] = "ready"
           => reply.a.val \in seen[index[d]]]_vars
  BY <1>1
<1> QED
  BY <1>2, Inductive, PTL DEF Spec, ReadsOwn

\* A write is confirmed by an answer to a write the device has done.
THEOREM AcksArePerformed == Spec => AckIsPerformed
<1>1. ASSUME IInv, [Next]_vars
      PROVE  \A d \in Descs : d = cur /\ st[d] = "put" /\ st'[d] = "get"
               => unacked[index[d]] > 0
  <2> SUFFICES ASSUME NEW n \in Descs, st[n] = "put", st'[n] = "get", n = cur
               PROVE unacked[index[n]] > 0
    OBVIOUS
  <2>1. ConfirmVar /\ Busy(n)
    BY <1>1, OnlyConfirmed DEF Busy
  <2>2. AckReply(index[n])
    BY <1>1, <2>1, WriteAcked DEF ConfirmVar, Done
  <2>3. index[n] \in Names /\ unacked[index[n]] \in 0..2
    BY <1>1, <2>1 DEF IInv, Lines, LookupOnce, LookedUp, TypeOK, AckCap
  <2> QED
    BY <1>1, <2>2, <2>3 DEF IInv, AcksCounted, One
<1>2. IInv /\ [Next]_vars =>
        [\A d \in Descs : d = cur /\ st[d] = "put" /\ st'[d] = "get"
           => unacked[index[d]] > 0]_vars
  BY <1>1
<1> QED
  BY <1>2, Inductive, PTL DEF Spec, AckIsPerformed

-----------------------------------------------------------------------------
(* Who waits for what. *)

\* However often a name is looked up: every lookup is waiting once or in hand,
\* never both, and with tries left it is not dropped.
THEOREM LookupsInOnePlace == Spec => []LookupOnce
<1>1. IInv => LookupOnce
  BY DEF IInv, Lines
<1> QED
  BY <1>1, Inductive, PTL

\* A request that waits for the main loop has the performer in the list.
Awake == pc = "loop" /\ req # "idle" => listed

LEMMA ServeAwakes ==
  ASSUME Awake, NEW m, Serve(m), pc' = pc
  PROVE  Awake'
BY DEF Awake, Serve

\* Whatever becomes of a frame, the performer is not left asleep.
LEMMA FrameAwakes ==
  ASSUME Awake, pc' = pc,
         \/ \E f : OnPut(f)
         \/ \E size : OnGet(size)
         \/ UNCHANGED serveVars
  PROVE  Awake'
<1>1. (\E m : Serve(m)) \/ UNCHANGED <<listed, req>>
  BY DEF OnPut, OnGet, serveVars
<1> QED
  BY <1>1, ServeAwakes DEF Awake

LEMMA AwakeStep == IInv /\ Awake /\ [Next]_vars => Awake'
<1> SUFFICES ASSUME IInv, Awake, [Next]_vars PROVE Awake'
  OBVIOUS
<1>1. CASE Device
  BY <1>1 DEF Device, Poll, Proto, NoProto, QueryMsg, PostAnswer, Finish, serveVars, Awake
<1>2. CASE QueryDesc \/ QueryVar
  <2>1. /\ pc' = pc
        /\ (\E f : Put(f)) \/ (\E size : Get(size)) \/ UNCHANGED serveVars
    BY <1>2 DEF QueryDesc, QueryVar, loopVars
  <2> QED
    BY <2>1, FrameAwakes DEF Put, Get
<1>3. CASE Confirm \/ Aside
           \/ UNCHANGED vars
  BY <1>3 DEF Confirm, ConfirmDesc, ConfirmSent, ConfirmVar, RefuseVar, Aside, LookUp,
    Ask, Exchange, vars, serveVars, loopVars, Awake
<1> QED
  BY <1>1, <1>2, <1>3 DEF Next, Client, Query, Aside

\* The device never sleeps over a request, wherever the interrupt falls into its
\* main loop.
THEOREM DeviceNeverSleeps == Spec => []NeverSleepsOver
<1>1. Init => Awake
  BY DEF Init, Awake
<1>2. IInv /\ Awake => NeverSleepsOver
  BY DEF IInv, Working, Awake, NeverSleepsOver, TypeOK
<1> QED
  BY <1>1, <1>2, AwakeStep, Inductive, PTL DEF Spec

-----------------------------------------------------------------------------
(* What comes back. *)

\* A message sent for a descriptor.
LEMMA DescMeets == ASSUME IInv, QueryDesc PROVE MeetsItsSender'
<1>1. reply = Free /\ Wanted # NoDesc /\ UNCHANGED <<loopVars, unacked>>
  BY DEF QueryDesc
<1>2. TakeDesc => desc' # NoDesc
  BY <1>1 DEF TakeDesc
<1>3. CASE step = "idle"
  <2>1. step' = "desc_put" /\ Put(Frame("index", name[Wanted], Nothing)) /\ TakeDesc
    BY <1>3 DEF QueryDesc
  <2>2. reply' \in {Sent, Failed}
    BY <2>1 DEF Put
  <2> QED
    BY <1>2, <2>1, <2>2 DEF MeetsItsSender, Sent, Failed
<1>4. CASE step = "desc_get"
  <2>1. step' = "desc_get" /\ Get(DescSize) /\ TakeDesc
    BY <1>4 DEF QueryDesc
  <2>2. reply' # Sent /\ (reply'.is = "got" => Size(reply'.a) = DescSize)
    BY <1>1, <2>1, GetInv
  <2>3. Asked' = DescSize
    BY <1>2, <2>1 DEF Asked, DescSize
  <2> QED
    BY <1>2, <2>1, <2>2, <2>3 DEF MeetsItsSender, Size
<1>5. CASE step \notin {"idle", "desc_get"}
  BY <1>1, <1>5 DEF QueryDesc, MeetsItsSender
<1> QED
  BY <1>3, <1>4, <1>5

\* A message sent for a variable.
LEMMA VarMeets == ASSUME IInv, QueryVar PROVE MeetsItsSender'
<1>1. /\ reply = Free /\ Wanted = NoDesc /\ Current # NoDesc /\ UNCHANGED <<loopVars, unacked>>
      /\ cur' = Current /\ desc' = desc /\ UNCHANGED <<st, index>>
  BY DEF QueryVar
<1>2. desc' = NoDesc /\ cur' # NoDesc
  BY <1>1 DEF Wanted
<1>3. CASE step = "idle"
  <2>1. step' = "put" /\ \E f : Put(f)
    BY <1>3 DEF QueryVar
  <2>2. reply' \in {Sent, Failed}
    BY <2>1 DEF Put
  <2> QED
    BY <1>2, <2>1, <2>2 DEF MeetsItsSender, Sent, Failed
<1>4. CASE step = "get"
  <2> DEFINE size == Header + IF st[Current] = "get" THEN Length[index[Current]] ELSE 0
  <2>1. step' = "get" /\ Get(size)
    BY <1>4 DEF QueryVar
  <2>2. size = Asked'
    BY <1>1, <1>2 DEF Asked, Header
  <2> HIDE DEF size
  <2>3. reply' # Sent /\ (reply'.is = "got" => Size(reply'.a) = size)
    BY <1>1, <2>1, GetInv
  <2>4. Size(reply'.a) = Size(reply.a)'
    BY DEF Size
  <2> QED
    BY <1>2, <2>1, <2>2, <2>3, <2>4 DEF MeetsItsSender
<1> QED
  BY <1>3, <1>4 DEF QueryVar

\* Who waits for an answer keeps the length he asked for.
LEMMA AskedSame ==
  ASSUME IInv, MeetsItsSender, UNCHANGED <<reply, desc, cur, step, index>>,
         desc = NoDesc /\ cur # NoDesc => st'[cur] = st[cur]
  PROVE  MeetsItsSender'
<1>1. reply # Free => Asked' = Asked
  <2>1. CASE desc # NoDesc
    BY <2>1 DEF Asked
  <2>2. CASE desc = NoDesc
    BY <2>2 DEF Asked, MeetsItsSender
  <2> QED
    BY <2>1, <2>2
<1> QED
  BY <1>1 DEF MeetsItsSender, Size

LEMMA MeetsStep == IInv /\ MeetsItsSender /\ [Next]_vars => MeetsItsSender'
<1> SUFFICES ASSUME IInv, MeetsItsSender, [Next]_vars PROVE MeetsItsSender'
  OBVIOUS
<1>1. CASE Device \/ UNCHANGED vars \/ Exchange \/ \E n \in Names : LookUp(n)
  <2>1. UNCHANGED <<reply, desc, cur, step, index, st>>
    BY <1>1 DEF Device, Poll, Proto, NoProto, QueryMsg, PostAnswer, Finish, LookUp, Exchange,
      vars, clientVars
  <2> QED
    BY <2>1, AskedSame
<1>2. ASSUME NEW d \in Descs, NEW op \in {"put", "get"}, Ask(d, op) PROVE MeetsItsSender'
  <2>1. UNCHANGED <<reply, desc, cur, step, index>> /\ st' = [st EXCEPT ![d] = op] /\ ~Busy(d)
    BY <1>2 DEF Ask
  <2>2. cur \in Descs => Busy(cur)
    BY DEF IInv, OnePlace
  <2>3. cur # NoDesc => cur # d /\ st'[cur] = st[cur]
    BY <2>1, <2>2 DEF IInv, TypeOK
  <2> QED
    BY <2>1, <2>3, AskedSame
<1>3. CASE Confirm
  BY <1>3 DEF Confirm, ConfirmDesc, ConfirmSent, ConfirmVar, RefuseVar, Done, MeetsItsSender
<1>4. CASE QueryDesc \/ QueryVar
  BY <1>4, DescMeets, VarMeets
<1> QED
  BY <1>1, <1>2, <1>3, <1>4 DEF Next, Client, Query

\* Lookups and variables share one step of the protocol: who takes a message from
\* the bus asked for it in that step, and an answer has the length he asked for
\* (proto::request, reques_desc, confirm, confirm_desc).
THEOREM AnswersMeetTheirSender == Spec => []MeetsItsSender
<1>1. Init => MeetsItsSender
  BY DEF Init, MeetsItsSender
<1> QED
  BY <1>1, MeetsStep, Inductive, PTL DEF Spec

-----------------------------------------------------------------------------
(* Which lookups can mislead. *)

\* Where the answer to a lookup can be on its way.
IsIndex(m) == m # Nothing /\ m.q = "index"
Pending == IsIndex(inMsg) /\ pc \in {"loop", "run"}
Made == IsIndex(ans) /\ pc \in {"answer", "post"}
Posted == IsIndex(slot)
Come == reply.is = "got" /\ reply.a.q = "index"

\* It is in one place, and is that of the lookup in hand.
Tracked ==
  /\ desc # NoDesc <=> step \in {"desc_put", "desc_get"}
  /\ step = "desc_put" => reply # Free
  /\ Pending => desc # NoDesc /\ inMsg.ix = name[desc]
  /\ Made => desc # NoDesc /\ ans.ix = name[desc]
  /\ Posted => desc # NoDesc /\ slot.ix = name[desc] /\ ~Pending /\ ~Made
  /\ Come => desc # NoDesc /\ reply.a.ix = name[desc] /\ ~Pending /\ ~Made /\ ~Posted
  /\ step = "desc_put" /\ reply = Failed => ~Pending /\ ~Made /\ ~Posted

\* Nothing of it moves.
LEMMA SameTracked ==
  ASSUME Tracked, UNCHANGED <<desc, step, reply, inMsg, slot, pc, ans>>,
         desc # NoDesc => name'[desc] = name[desc]
  PROVE  Tracked'
BY DEF Tracked, Pending, Made, Posted, Come, IsIndex

\* The device takes a request to its answer and the answer to its slot.
LEMMA DeviceTracks == ASSUME IInv, Tracked, Device PROVE Tracked'
<1> USE DEF Tracked, Pending, Made, Posted, Come, IsIndex
<1>1. Device => UNCHANGED <<desc, name, step, reply>>
  BY DEF Device, Poll, Proto, NoProto, QueryMsg, PostAnswer, Finish, clientVars
<1>2. CASE Poll
  BY <1>1, <1>2 DEF Poll, Device
<1>3. ASSUME NEW ok \in BOOLEAN, Proto(ok) PROVE Tracked'
  <2>1. /\ pc = "run" /\ pc' = "answer" /\ inMsg # Nothing /\ UNCHANGED <<inMsg, slot>>
        /\ ans'.q = inMsg.q /\ ans'.ix = inMsg.ix
    BY <1>3 DEF Proto, serveVars
  <2> QED
    BY <1>1, <2>1
<1>4. CASE NoProto
  BY <1>1, <1>4 DEF NoProto, serveVars
<1>5. CASE QueryMsg
  BY <1>1, <1>5 DEF QueryMsg
<1>6. CASE PostAnswer
  BY <1>1, <1>6 DEF PostAnswer
<1>7. CASE Finish
  BY <1>1, <1>7 DEF Finish
<1> QED
  BY <1>2, <1>3, <1>4, <1>5, <1>6, <1>7 DEF Device

\* A PUT brings the device its request, or nothing.
LEMMA PutTracks ==
  ASSUME IInv, NEW f, Put(f)
  PROVE  /\ reply' \in {Sent, Failed} /\ slot' = slot
         /\ inMsg' \in {inMsg, f} /\ (reply' = Failed => inMsg' = inMsg)
BY DEF Put, OnPut, Serve, serveVars, Sent, Failed

\* A GET takes the answer out of the slot, and may bring it.
LEMMA GetTracks ==
  ASSUME IInv, NEW size, Get(size)
  PROVE  /\ slot' \in {slot, Nothing} /\ inMsg' \in {inMsg, Nothing}
         /\ \/ reply' = Failed
            \/ slot # Nothing /\ reply' = Got(slot) /\ slot' = Nothing
BY DEF Get, OnGet, Serve, serveVars, Fits

LEMMA QueryDescTracks == ASSUME IInv, Tracked, QueryDesc PROVE Tracked'
<1>1. /\ reply = Free /\ Wanted # NoDesc /\ UNCHANGED <<name, pc, ans>>
  BY DEF QueryDesc, loopVars
<1>2. CASE step = "idle"
  <2>1. /\ step' = "desc_put" /\ Put(Frame("index", name[Wanted], Nothing)) /\ desc' = Wanted
    BY <1>2 DEF QueryDesc, TakeDesc
  <2>2. ~Pending /\ ~Made /\ ~Posted
    BY <1>2 DEF Tracked
  <2>3. /\ reply' \in {Sent, Failed} /\ slot' = slot
        /\ inMsg' = inMsg \/ (inMsg' = Frame("index", name[Wanted], Nothing) /\ reply' # Failed)
    BY <2>1, PutTracks
  <2>4. ~Made' /\ ~Posted' /\ ~Come' /\ reply' # Free
    BY <1>1, <2>2, <2>3 DEF Made, Posted, Come, IsIndex, Sent, Failed, Free
  <2>5. Pending' => inMsg'.ix = name[Wanted] /\ reply' # Failed
    BY <1>1, <2>2, <2>3 DEF Pending, IsIndex, Frame
  <2> QED
    BY <1>1, <2>1, <2>4, <2>5 DEF Tracked
<1>3. CASE step = "desc_get"
  <2>1. step' = "desc_get" /\ Get(DescSize) /\ desc # NoDesc /\ desc' = desc
    BY <1>3 DEF QueryDesc, TakeDesc, Tracked, Wanted
  <2>2. /\ slot' \in {slot, Nothing} /\ inMsg' \in {inMsg, Nothing}
        /\ \/ reply' = Failed
           \/ slot # Nothing /\ reply' = Got(slot) /\ slot' = Nothing
    BY <2>1, GetTracks
  <2>3. (Pending' => Pending /\ inMsg' = inMsg) /\ (Made' <=> Made) /\ (Posted' => Posted /\ slot' = slot)
    BY <1>1, <2>2 DEF Pending, Made, Posted, IsIndex
  <2>4. CASE ~Come'
    BY <1>1, <2>1, <2>3, <2>4 DEF Tracked
  <2>5. CASE Come'
    <3>1. slot # Nothing /\ reply' = Got(slot) /\ slot' = Nothing
      BY <2>2, <2>5 DEF Come, Failed
    <3>2. reply'.a = slot /\ Posted /\ ~Posted'
      BY <2>5, <3>1 DEF Come, Got, Posted, IsIndex
    <3> QED
      BY <1>1, <2>1, <2>3, <3>2 DEF Tracked
  <2> QED
    BY <2>4, <2>5
<1>4. CASE step \notin {"idle", "desc_get"}
  <2>1. /\ step' = "idle" /\ desc' = NoDesc /\ reply' = Free /\ UNCHANGED <<inMsg, slot>>
    BY <1>1, <1>4 DEF QueryDesc, serveVars
  <2>2. desc = NoDesc
    BY <1>1, <1>4 DEF Tracked
  <2> QED
    BY <1>1, <2>1, <2>2 DEF Tracked, Pending, Made, Posted, Come, IsIndex, Free
<1> QED
  BY <1>2, <1>3, <1>4

LEMMA QueryVarTracks == ASSUME IInv, Tracked, QueryVar PROVE Tracked'
<1>1. /\ Wanted = NoDesc /\ Current # NoDesc /\ UNCHANGED <<name, pc, ans, desc>>
  BY DEF QueryVar, loopVars
<1>2. desc = NoDesc /\ ~Pending /\ ~Made /\ ~Posted
  BY <1>1 DEF Wanted, Tracked
<1>3. Current \in Descs /\ Busy(Current)
  <2>1. queue \in Seq(Descs) /\ cur \in Descs \cup {NoDesc}
    BY DEF IInv, TypeOK
  <2>2. CASE cur # NoDesc
    BY <2>1, <2>2 DEF IInv, OnePlace, Current
  <2>3. CASE cur = NoDesc
    <3>1. queue # <<>> /\ Current = Head(queue)
      BY <1>1, <2>3 DEF Current
    <3> QED
      BY <2>1, <3>1, Left DEF IInv, OnePlace
  <2> QED
    BY <2>2, <2>3
<1>4. CASE step = "idle"
  <2> DEFINE f == Frame(st[Current], index[Current],
                        IF st[Current] = "put" THEN name[Current] ELSE Nothing)
  <2>1. step' = "put" /\ Put(f)
    BY <1>4 DEF QueryVar
  <2>2. f.q # "index"
    BY <1>3 DEF Frame, Busy
  <2> HIDE DEF f
  <2>3. reply' \in {Sent, Failed} /\ slot' = slot /\ inMsg' \in {inMsg, f}
    BY <2>1, PutTracks
  <2>4. ~Pending' /\ ~Made' /\ ~Posted' /\ ~Come'
    BY <1>1, <1>2, <2>2, <2>3 DEF Pending, Made, Posted, Come, IsIndex, Sent, Failed
  <2> QED
    BY <1>1, <1>2, <2>1, <2>4 DEF Tracked
<1>5. CASE step = "get"
  <2>1. step' = "get" /\ \E size : Get(size)
    BY <1>5 DEF QueryVar
  <2>2. /\ slot' \in {slot, Nothing} /\ inMsg' \in {inMsg, Nothing}
        /\ reply' = Failed \/ (reply' = Got(slot) /\ slot # Nothing)
    BY <2>1, GetTracks
  <2>3. ~Pending' /\ ~Made' /\ ~Posted'
    BY <1>1, <1>2, <2>2 DEF Pending, Made, Posted, IsIndex
  <2>4. ~Come'
    BY <1>2, <2>2 DEF Posted, Come, IsIndex, Got, Failed
  <2> QED
    BY <1>1, <1>2, <2>1, <2>3, <2>4 DEF Tracked
<1> QED
  BY <1>4, <1>5 DEF QueryVar

\* The client takes an answer: the one to a lookup was the last of it.
LEMMA ConfirmTracks ==
  ASSUME IInv, MeetsItsSender, Tracked, ~LookupLost, NameIsItsIndex, Confirm
  PROVE  Tracked' /\ NameIsItsIndex'
<1>1. reply # Free /\ reply' = Free /\ UNCHANGED <<name, inMsg, slot, pc, ans>>
  BY DEF Confirm, ConfirmDesc, ConfirmSent, ConfirmVar, RefuseVar, Done, serveVars, loopVars
<1>2. /\ Pending' <=> Pending /\ inMsg' = inMsg
      /\ Made' <=> Made /\ ans' = ans
      /\ Posted' <=> Posted /\ slot' = slot
      /\ ~Come'
  BY <1>1 DEF Pending, Made, Posted, Come, IsIndex, Free
<1>3. CASE desc = NoDesc
  <2>1. desc' = NoDesc /\ step' \in {"idle", "get"} /\ index' = index
    BY <1>3 DEF Confirm, ConfirmDesc, ConfirmSent, ConfirmVar, RefuseVar
  <2> QED
    BY <1>1, <1>2, <1>3, <2>1 DEF Tracked, NameIsItsIndex
<1>4. CASE desc # NoDesc
  <2>1. ConfirmDesc /\ desc \in Descs
    BY <1>4 DEF Confirm, ConfirmSent, ConfirmVar, RefuseVar, IInv, TypeOK
  <2>2. CASE reply = Sent
    <3>1. step = "desc_put" /\ step' = "desc_get" /\ desc' = desc /\ index' = index
      BY <2>1, <2>2 DEF ConfirmDesc, Described, Sent
    <3> QED
      BY <1>1, <1>2, <3>1, <1>4 DEF Tracked, NameIsItsIndex
  <2>3. CASE reply # Sent
    <3>1. /\ step' = "idle" /\ desc' = NoDesc
          /\ \/ Described /\ index' = [index EXCEPT ![desc] = reply.a.ix]
             \/ index' = index
      BY <2>1, <2>3 DEF ConfirmDesc
    <3>2. ~Pending /\ ~Made /\ ~Posted
      <4>1. CASE step = "desc_get"
        BY <1>1, <1>4, <4>1 DEF LookupLost, Come, Tracked
      <4>2. CASE step # "desc_get"
        <5>1. step = "desc_put" /\ reply = Failed
          BY <1>1, <1>4, <2>3, <4>2 DEF Tracked, MeetsItsSender, IInv, TypeOK, Got
        <5> QED
          BY <5>1 DEF Tracked
      <4> QED
        BY <4>1, <4>2
    <3>3. Described => reply.a.ix = name[desc]
      BY DEF Described, Tracked, Come
    <3>4. NameIsItsIndex'
      BY <1>1, <2>1, <3>1, <3>3 DEF NameIsItsIndex, IInv, TypeOK
    <3> QED
      BY <1>2, <3>1, <3>2, <3>4 DEF Tracked
  <2> QED
    BY <2>2, <2>3
<1> QED
  BY <1>3, <1>4

\* A new lookup is another one than that in hand, and has no index.
LEMMA LookUpTracks ==
  ASSUME IInv, Tracked, NameIsItsIndex, NEW n \in Names, LookUp(n)
  PROVE  Tracked' /\ NameIsItsIndex'
<1>1. PICK d \in Descs : name[d] = NoName /\ name' = [name EXCEPT ![d] = n]
  BY DEF LookUp
<1>2. UNCHANGED <<desc, index, step, reply, inMsg, slot, pc, ans>>
  BY DEF LookUp, serveVars, loopVars
<1>3. index[d] = NoName /\ desc # d
  BY <1>1 DEF IInv, Lines, LookupOnce, LookedUp
<1>4. \A e \in Descs : name'[e] = IF e = d THEN n ELSE name[e]
  BY <1>1 DEF IInv, TypeOK
<1>5. Tracked'
  BY <1>2, <1>3, <1>4, SameTracked DEF IInv, TypeOK
<1> QED
  BY <1>2, <1>3, <1>4, <1>5 DEF NameIsItsIndex

LEMMA TrackedStep ==
  IInv /\ MeetsItsSender /\ Tracked /\ NameIsItsIndex /\ ~LookupLost /\ [Next]_vars
    => Tracked' /\ NameIsItsIndex'
<1> SUFFICES ASSUME IInv, MeetsItsSender, Tracked, NameIsItsIndex, ~LookupLost, [Next]_vars
             PROVE  Tracked' /\ NameIsItsIndex'
  OBVIOUS
<1>1. CASE Confirm
  BY <1>1, ConfirmTracks
<1>2. CASE \E n \in Names : LookUp(n)
  BY <1>2, LookUpTracks
<1>3. CASE Device \/ QueryDesc \/ QueryVar
  <2>1. UNCHANGED <<index, name>>
    BY <1>3 DEF Device, Poll, Proto, NoProto, QueryMsg, PostAnswer, Finish,
      QueryDesc, QueryVar, clientVars
  <2>2. Tracked'
    BY <1>3, DeviceTracks, QueryDescTracks, QueryVarTracks
  <2> QED
    BY <2>1, <2>2 DEF NameIsItsIndex
<1>4. CASE Exchange \/ (\E d \in Descs, op \in {"put", "get"} : Ask(d, op)) \/ UNCHANGED vars
  <2>1. UNCHANGED <<index, name>> /\ UNCHANGED <<desc, step, reply, inMsg, slot, pc, ans>>
    BY <1>4 DEF Exchange, Ask, vars, clientVars, serveVars, loopVars
  <2>2. Tracked'
    BY <2>1, SameTracked
  <2> QED
    BY <2>1, <2>2 DEF NameIsItsIndex
<1> QED
  BY <1>1, <1>2, <1>3, <1>4 DEF Next, Client, Query

\* As long as the GET of every lookup brings an answer to a lookup, every name is
\* given its own index, whatever else is lost, dropped, repeated or late and
\* however often a name is looked up.  The wrong index has no other cause than a
\* GET that brought nothing, or the value of a variable of two bytes, while the
\* answer was still to come (varindex::confirm, proto::confirm_desc).
THEOREM OnlyFailedLookupsMislead == Spec /\ []~LookupLost => []NameIsItsIndex
<1>1. Init => Tracked /\ NameIsItsIndex
  BY DEF Init, Tracked, NameIsItsIndex, Pending, Made, Posted, Come, IsIndex, Free
<1> QED
  BY <1>1, TrackedStep, Inductive, AnswersMeetTheirSender, PTL DEF Spec
===============================================================================
