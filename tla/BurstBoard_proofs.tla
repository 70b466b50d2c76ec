-------------------------- MODULE BurstBoard_proofs --------------------------
(***************************************************************************)
(* Proofs about BurstBoard, for any number of devices and startup          *)
(* delegates.  The frontend is torn apart into memory accesses and the     *)
(* interrupt may come between any two, so the invariant says what the      *)
(* accesses still to be made can do: in which stage the board is, which    *)
(* bits a pending word holds, and which devices are still to be told.      *)
(***************************************************************************)
EXTENDS BurstBoard, TLAPS, SequenceTheorems

Dos == {"raise", "clear", "mask", "store", "release", "ready", "halted", "perform",
        "poll", "protect", "expire", "expireDev"}

\* What an access of the frontend looks like.
Ops == {o \in [do : Dos, at : 0..N, bits : SUBSET (Flags \cup Bits)] :
          /\ o.bits \subseteq (IF o.at = Board THEN Flags ELSE Bits)
          /\ o.do = "raise" => o.bits = {"config"} \/ o.bits = {"temp"} \/ o.bits = {"board"}
          /\ o.do = "clear" => o.at = Board /\ (o.bits = {"config"} \/ o.bits = {"temp"})
          /\ o.do = "mask" /\ o.at = Board => "config" \notin o.bits
          /\ o.do \in {"expireDev", "perform"} => o.at # Board}

Has(do) == \E i \in DOMAIN todo : todo[i].do = do

\* The config panic on the board, and what comes of it on every device.
OnBoard == "config" \in panic[Board]
OnDevs == \A d \in Devs : "board" \in panic[d]

\* The pass ends with flow::frontend_poll() and frontend_protection_(), and the
\* change of the status comes right before them.
Ordered ==
  \A i \in DOMAIN todo :
    /\ todo[i].do = "protect" => i = Len(todo)
    /\ todo[i].do = "poll" => i + 1 = Len(todo) /\ todo[i + 1].do = "protect"
    /\ todo[i].do \in {"ready", "halted"} =>
         i + 2 = Len(todo) /\ todo[i + 1].do = "poll" /\ todo[i + 2].do = "protect"

\* An access that cannot take the config panic away.
Keeps(o) ==
  /\ o.do = "store" => (IF o.at = Board THEN "config" ELSE "board") \in o.bits
  /\ o.do = "mask" => "board" \notin o.bits
  /\ o.do = "clear" => "config" \notin o.bits

\* An access that cannot bring it back.
Spares(o) == o.do \in {"store", "raise"} /\ o.at = Board => "config" \notin o.bits

\* The board waits for its startup or its configuration.
Waiting ==
  status # "normal" /\ ~Has("ready")
    => /\ OnBoard /\ OnDevs
       /\ ~Has("halted")
       /\ \A i \in DOMAIN todo : Keeps(todo[i])

\* The board is being released.
Releasing ==
  Has("ready") =>
    /\ status # "normal" /\ ~Has("halted")
    /\ \A i \in DOMAIN todo :
         /\ Spares(todo[i]) /\ todo[i].do # "raise"
         /\ todo[i].do = "clear" => i = 1
    /\ OnBoard => /\ OnDevs
                  /\ todo[1].do \in {"clear", "store"} /\ todo[1].at = Board
                  /\ todo[1].do = "clear" => todo[1].bits = {"config"}

\* The board works.
Working ==
  status = "normal" /\ ~Has("halted")
    => ~OnBoard /\ \A i \in DOMAIN todo : Spares(todo[i])

\* The device will get the board's panic before the status changes.
Told(d) ==
  \/ "board" \in panic[d]
  \/ \E i \in DOMAIN todo :
       todo[i].at = d /\ todo[i].do \in {"raise", "store"} /\ "board" \in todo[i].bits

\* Where the board's panic is on its way to the devices.
Telling ==
  \/ todo[1] = Op("raise", Board, {"config"}) /\ ~OnBoard
  \/ /\ todo[1].do = "store" /\ todo[1].at = Board
     /\ ~OnBoard
     /\ \A d \in Devs : \E i \in DOMAIN todo :
          todo[i].at = d /\ todo[i].do = "raise" /\ "board" \in todo[i].bits
  \/ OnBoard /\ \A d \in Devs : Told(d)

\* The board is being held.
Halting ==
  Has("halted") =>
    /\ status = "normal"
    /\ \A i \in DOMAIN todo :
         /\ Keeps(todo[i])
         /\ todo[i].do \notin {"clear", "mask", "release", "expire", "expireDev"}
    /\ Telling

\* What the startup slot and the variables that ask for it have come to.
Configured ==
  /\ status \in {"normal", "configure"} \/ Has("ready") => startup = {}
  /\ status # "configure" \/ Has("ready") => ~reconfig

\* The words of the panics.
Words(p) ==
  /\ p \in [0..N -> SUBSET (Flags \cup Bits)]
  /\ p[Board] \subseteq Flags
  /\ \A d \in Devs : p[d] \subseteq Bits

Typed ==
  /\ status \in Statuses /\ command \in {"none", "configure"}
  /\ reconfig \in BOOLEAN /\ startup \subseteq Startups
  /\ Words(panic)
  /\ mode \in [Devs -> ModeIds] /\ action \in [Devs -> Wanted \cup {"idle"}]
  /\ todo \in Seq(Ops)

IInv == Typed /\ Ordered /\ Waiting /\ Releasing /\ Working /\ Halting /\ Configured

-----------------------------------------------------------------------------
(* The list of accesses *)

LEMMA OpsAre ==
  ASSUME NEW o \in Ops
  PROVE  /\ o.do \in Dos /\ o.at \in 0..N
         /\ o.bits \subseteq (IF o.at = Board THEN Flags ELSE Bits)
         /\ o.bits \subseteq Flags \cup Bits
         /\ o.do = "raise" => o.bits = {"config"} \/ o.bits = {"temp"} \/ o.bits = {"board"}
         /\ o.do = "clear" => o.at = Board /\ (o.bits = {"config"} \/ o.bits = {"temp"})
         /\ o.do = "mask" /\ o.at = Board => "config" \notin o.bits
         /\ o.do \in {"expireDev", "perform"} => o.at # Board
BY DEF Ops

LEMMA TypedIsTypeOK == ASSUME Typed PROVE TypeOK
<1>1. \A i \in DOMAIN todo : todo[i] \in Ops
  BY DEF Typed
<1>2. \A i \in DOMAIN todo :
        /\ todo[i].at \in 0..N
        /\ todo[i].bits \subseteq (IF todo[i].at = Board THEN Flags ELSE Bits)
  BY <1>1, OpsAre
<1> QED
  BY <1>2 DEF Typed, TypeOK, Words

LEMMA First ==
  ASSUME Typed, todo # <<>>
  PROVE  /\ Head(todo) = todo[1] /\ 1 \in DOMAIN todo /\ todo[1] \in Ops
         /\ DOMAIN todo = 1..Len(todo) /\ Len(todo) \in Nat /\ Len(todo) >= 1
         /\ Tail(todo) \in Seq(Ops) /\ Len(Tail(todo)) = Len(todo) - 1
         /\ \A i \in 1..Len(todo) - 1 : Tail(todo)[i] = todo[i + 1]
BY HeadTailProperties DEF Typed

\* What is left to do after the first access became `more'.
LEMMA Advance ==
  ASSUME Typed, Ordered, todo # <<>>, NEW more \in Seq(Ops),
         todo' = more \o Tail(todo),
         \A i \in DOMAIN more : more[i].do \notin {"protect", "poll", "ready", "halted"}
  PROVE  /\ todo' \in Seq(Ops) /\ Ordered'
         /\ Len(todo') = Len(more) + Len(todo) - 1
         /\ \A i \in DOMAIN todo' :
              \/ \E k \in DOMAIN more : i = k /\ todo'[i] = more[k]
              \/ \E j \in DOMAIN todo : j # 1 /\ i = j - 1 + Len(more) /\ todo'[i] = todo[j]
         /\ \A k \in DOMAIN more : k \in DOMAIN todo' /\ todo'[k] = more[k]
         /\ \A j \in DOMAIN todo : j # 1 => \E i \in DOMAIN todo' : todo'[i] = todo[j]
         /\ \A do \in {"ready", "halted"} :
              todo[1].do # do => (Has(do)' <=> Has(do))
<1> DEFINE t == Tail(todo)
<1>1. /\ t \in Seq(Ops) /\ Len(t) \in Nat /\ Len(t) = Len(todo) - 1 /\ Len(todo) \in Nat
      /\ \A i \in 1..Len(todo) - 1 : t[i] = todo[i + 1]
      /\ DOMAIN todo = 1..Len(todo) /\ DOMAIN more = 1..Len(more) /\ Len(more) \in Nat
  BY First DEF Typed
<1>2. /\ todo' \in Seq(Ops) /\ Len(todo') = Len(more) + Len(todo) - 1
      /\ DOMAIN todo' = 1..Len(more) + Len(todo) - 1
      /\ \A i \in 1..Len(more) + Len(todo) - 1 :
           todo'[i] = IF i <= Len(more) THEN more[i] ELSE t[i - Len(more)]
  BY <1>1, ConcatProperties
<1>3. \A i \in DOMAIN todo' :
        \/ \E k \in DOMAIN more : i = k /\ todo'[i] = more[k]
        \/ \E j \in DOMAIN todo : j # 1 /\ i = j - 1 + Len(more) /\ todo'[i] = todo[j]
  <2>1. ASSUME NEW i \in DOMAIN todo', i <= Len(more)
        PROVE  i \in DOMAIN more /\ todo'[i] = more[i]
    BY <1>1, <1>2, <2>1
  <2>2. ASSUME NEW i \in DOMAIN todo', ~(i <= Len(more))
        PROVE  \E j \in DOMAIN todo : j # 1 /\ i = j - 1 + Len(more) /\ todo'[i] = todo[j]
    <3>1. i - Len(more) + 1 \in DOMAIN todo /\ i - Len(more) + 1 # 1
          /\ i - Len(more) \in 1..Len(todo) - 1 /\ i = (i - Len(more) + 1) - 1 + Len(more)
      BY <1>1, <1>2, <2>2
    <3>2. todo'[i] = t[i - Len(more)] /\ t[i - Len(more)] = todo[i - Len(more) + 1]
      BY <1>1, <1>2, <2>2, <3>1
    <3> QED
      BY <3>1, <3>2
  <2> QED
    BY <2>1, <2>2
<1>4. \A k \in DOMAIN more : k \in DOMAIN todo' /\ todo'[k] = more[k]
  BY <1>1, <1>2, First
<1>5. \A j \in DOMAIN todo : j # 1 =>
        j - 1 + Len(more) \in DOMAIN todo' /\ todo'[j - 1 + Len(more)] = todo[j]
  <2> SUFFICES ASSUME NEW j \in 1..Len(todo), j # 1
               PROVE j - 1 + Len(more) \in DOMAIN todo' /\ todo'[j - 1 + Len(more)] = todo[j]
    BY <1>1
  <2>1. j - 1 + Len(more) \in 1..Len(more) + Len(todo) - 1 /\ j - 1 \in 1..Len(todo) - 1
        /\ ~(j - 1 + Len(more) <= Len(more))
    BY <1>1
  <2>2. todo'[j - 1 + Len(more)] = t[j - 1] /\ t[j - 1] = todo[j]
    BY <1>1, <1>2, <2>1
  <2> QED
    BY <1>2, <2>1, <2>2
<1>6. Ordered'
  <2> SUFFICES ASSUME NEW i \in DOMAIN todo'
      PROVE /\ todo'[i].do = "protect" => i = Len(todo')
            /\ todo'[i].do = "poll" => i + 1 = Len(todo') /\ todo'[i + 1].do = "protect"
            /\ todo'[i].do \in {"ready", "halted"} =>
                 i + 2 = Len(todo') /\ todo'[i + 1].do = "poll" /\ todo'[i + 2].do = "protect"
    BY DEF Ordered
  <2>1. CASE \E k \in DOMAIN more : i = k /\ todo'[i] = more[k]
    BY <2>1
  <2>2. CASE \E j \in DOMAIN todo : j # 1 /\ i = j - 1 + Len(more) /\ todo'[i] = todo[j]
    <3>1. PICK j \in DOMAIN todo : j # 1 /\ i = j - 1 + Len(more) /\ todo'[i] = todo[j]
      BY <2>2
    <3>2. \A n \in {1, 2} : j + n \in DOMAIN todo =>
             todo'[i + n] = todo[j + n]
      <4> SUFFICES ASSUME NEW n \in {1, 2}, j + n \in DOMAIN todo
                   PROVE todo'[i + n] = todo[j + n]
        OBVIOUS
      <4>1. j + n # 1 /\ (j + n) - 1 + Len(more) = i + n
        BY <1>1, <3>1
      <4> QED
        BY <1>5, <4>1
    <3>3. /\ todo[j].do = "protect" => j = Len(todo)
          /\ todo[j].do = "poll" => j + 1 = Len(todo) /\ todo[j + 1].do = "protect"
          /\ todo[j].do \in {"ready", "halted"} =>
               j + 2 = Len(todo) /\ todo[j + 1].do = "poll" /\ todo[j + 2].do = "protect"
      BY DEF Ordered
    <3>4. todo[j].do = "protect" => i = Len(todo')
      BY <1>1, <1>2, <3>1, <3>3
    <3>5. todo[j].do = "poll" => i + 1 = Len(todo') /\ j + 1 \in DOMAIN todo
      BY <1>1, <1>2, <3>1, <3>3
    <3>6. todo[j].do \in {"ready", "halted"} =>
            i + 2 = Len(todo') /\ j + 1 \in DOMAIN todo /\ j + 2 \in DOMAIN todo
      BY <1>1, <1>2, <3>1, <3>3
    <3> QED
      BY <3>1, <3>2, <3>3, <3>4, <3>5, <3>6
  <2> QED
    BY <1>3, <2>1, <2>2
<1>7. ASSUME NEW do \in {"ready", "halted"}, todo[1].do # do
      PROVE  Has(do)' <=> Has(do)
  <2>1. ASSUME NEW i \in DOMAIN todo', todo'[i].do = do
        PROVE  \E j \in DOMAIN todo : todo[j].do = do
    <3>1. \A k \in DOMAIN more : more[k].do # do
      OBVIOUS
    <3> QED
      BY <1>3, <2>1, <3>1
  <2>2. ASSUME NEW j \in DOMAIN todo, todo[j].do = do
        PROVE  \E i \in DOMAIN todo' : todo'[i].do = do
    BY <1>5, <1>7, <2>2
  <2> QED
    BY <2>1, <2>2 DEF Has
<1> QED
  BY <1>2, <1>3, <1>4, <1>5, <1>6, <1>7

\* The lists that take the place of an access.
LEMMA EachDevIs ==
  ASSUME NEW do \in {"raise", "expireDev", "mask"}, NEW b \in {{}, {"board"}},
         do = "raise" => b # {}
  PROVE  /\ EachDev(do, b) \in Seq(Ops) /\ Len(EachDev(do, b)) = N
         /\ DOMAIN EachDev(do, b) = Devs
         /\ \A d \in Devs : EachDev(do, b)[d] = Op(do, d, b)
<1>1. \A d \in Devs : Op(do, d, b) \in Ops
  BY NAssumption DEF Ops, Op, Dos, Devs, Bits, Flags, Board
<1>2. EachDev(do, b) \in [1..N -> Ops]
  BY <1>1 DEF EachDev, Devs
<1> QED
  BY <1>2, NAssumption DEF EachDev, Devs

LEMMA OneIs ==
  ASSUME NEW o \in Ops
  PROVE  <<o>> \in Seq(Ops) /\ Len(<<o>>) = 1 /\ <<o>>[1] = o /\ DOMAIN <<o>> = {1}
OBVIOUS

\* One access before a list.
LEMMA Before ==
  ASSUME NEW o \in Ops, NEW s \in Seq(Ops)
  PROVE  /\ <<o>> \o s \in Seq(Ops) /\ Len(<<o>> \o s) = Len(s) + 1
         /\ (<<o>> \o s)[1] = o /\ 1 \in DOMAIN (<<o>> \o s)
         /\ \A i \in DOMAIN (<<o>> \o s) :
              (<<o>> \o s)[i] = o \/ \E j \in DOMAIN s : (<<o>> \o s)[i] = s[j]
         /\ \A j \in DOMAIN s : j + 1 \in DOMAIN (<<o>> \o s) /\ (<<o>> \o s)[j + 1] = s[j]
<1> DEFINE r == <<o>> \o s
<1>1. /\ Len(s) \in Nat /\ DOMAIN s = 1..Len(s) /\ r \in Seq(Ops)
      /\ Len(r) = Len(s) + 1 /\ DOMAIN r = 1..Len(s) + 1
      /\ \A i \in 1..Len(s) + 1 : r[i] = IF i <= 1 THEN o ELSE s[i - 1]
  BY ConcatProperties, OneIs
<1>2. r[1] = o /\ 1 \in DOMAIN r
  BY <1>1
<1>3. \A i \in DOMAIN r : r[i] = o \/ \E j \in DOMAIN s : r[i] = s[j]
  <2> SUFFICES ASSUME NEW i \in 1..Len(s) + 1, i # 1
               PROVE  \E j \in DOMAIN s : r[i] = s[j]
    BY <1>1, <1>2
  <2>1. i - 1 \in DOMAIN s /\ r[i] = s[i - 1]
    BY <1>1
  <2> QED
    BY <2>1
<1>4. \A j \in DOMAIN s : j + 1 \in DOMAIN r /\ r[j + 1] = s[j]
  BY <1>1
<1> QED
  BY <1>1, <1>2, <1>3, <1>4

\* The accesses that are not followed by a change of the panic words.
LEMMA Becomes ==
  ASSUME IInv, todo # <<>>, NEW more \in Seq(Ops),
         todo' = more \o Tail(todo),
         \A i \in DOMAIN more : more[i].do \notin {"protect", "poll", "ready", "halted"},
         todo[1].do \notin {"ready", "halted"},
         UNCHANGED <<status, panic>>,
         Waiting /\ status # "normal" /\ ~Has("ready") =>
           \A k \in DOMAIN more : Keeps(more[k]),
         Has("ready") =>
           /\ \A k \in DOMAIN more : Spares(more[k]) /\ more[k].do \notin {"raise", "clear"}
           /\ OnBoard => more # <<>> /\ more[1].do = "store" /\ more[1].at = Board,
         status = "normal" /\ ~Has("halted") => \A k \in DOMAIN more : Spares(more[k]),
         Has("halted") =>
           /\ \A k \in DOMAIN more :
                Keeps(more[k])
                /\ more[k].do \notin {"clear", "mask", "release", "expire", "expireDev"}
           /\ Telling'
  PROVE  todo' \in Seq(Ops) /\ Ordered' /\ Waiting' /\ Releasing' /\ Working' /\ Halting'
         /\ (Has("ready")' <=> Has("ready"))
<1>1. /\ todo' \in Seq(Ops) /\ Ordered'
      /\ \A i \in DOMAIN todo' :
           \/ \E k \in DOMAIN more : i = k /\ todo'[i] = more[k]
           \/ \E j \in DOMAIN todo : j # 1 /\ i = j - 1 + Len(more) /\ todo'[i] = todo[j]
      /\ \A k \in DOMAIN more : k \in DOMAIN todo' /\ todo'[k] = more[k]
      /\ Has("ready")' <=> Has("ready")
      /\ Has("halted")' <=> Has("halted")
  BY Advance DEF IInv
<1>2. (OnBoard' <=> OnBoard) /\ (OnDevs' <=> OnDevs)
  BY DEF OnBoard, OnDevs
<1>3. Waiting'
  <2> SUFFICES ASSUME status # "normal", ~Has("ready")
               PROVE \A i \in DOMAIN todo' : Keeps(todo'[i])
    BY <1>1, <1>2 DEF IInv, Waiting
  <2>1. (\A k \in DOMAIN more : Keeps(more[k])) /\ \A j \in DOMAIN todo : Keeps(todo[j])
    BY DEF IInv, Waiting
  <2> QED
    BY <1>1, <2>1
<1>4. Releasing'
  <2> SUFFICES ASSUME Has("ready")
      PROVE /\ \A i \in DOMAIN todo' :
                 /\ Spares(todo'[i]) /\ todo'[i].do # "raise"
                 /\ todo'[i].do = "clear" => i = 1
            /\ OnBoard => todo'[1].do = "store" /\ todo'[1].at = Board
    BY <1>1, <1>2 DEF IInv, Releasing
  <2>1. \A j \in DOMAIN todo : Spares(todo[j]) /\ todo[j].do # "raise"
                               /\ (todo[j].do = "clear" => j = 1)
    BY DEF IInv, Releasing
  <2>2. \A i \in DOMAIN todo' :
          /\ Spares(todo'[i]) /\ todo'[i].do # "raise"
          /\ todo'[i].do = "clear" => i = 1
    BY <1>1, <2>1
  <2>3. OnBoard => 1 \in DOMAIN more
      <3>1. ASSUME OnBoard PROVE more # <<>>
      BY <3>1
    <3>2. more # <<>> => Len(more) \in Nat /\ Len(more) # 0 /\ DOMAIN more = 1..Len(more)
      BY EmptySeq
    <3> QED
      BY <3>1, <3>2
  <2> QED
    BY <1>1, <2>2, <2>3
<1>5. Working'
  <2> SUFFICES ASSUME status = "normal", ~Has("halted")
               PROVE \A i \in DOMAIN todo' : Spares(todo'[i])
    BY <1>1, <1>2 DEF IInv, Working
  <2>1. (\A k \in DOMAIN more : Spares(more[k])) /\ \A j \in DOMAIN todo : Spares(todo[j])
    BY DEF IInv, Working
  <2> QED
    BY <1>1, <2>1
<1>6. Halting'
  <2> SUFFICES ASSUME Has("halted")
      PROVE \A i \in DOMAIN todo' :
              Keeps(todo'[i])
              /\ todo'[i].do \notin {"clear", "mask", "release", "expire", "expireDev"}
    BY <1>1 DEF IInv, Halting
  <2>1. \A j \in DOMAIN todo :
          Keeps(todo[j])
          /\ todo[j].do \notin {"clear", "mask", "release", "expire", "expireDev"}
    BY DEF IInv, Halting
  <2> QED
    BY <1>1, <2>1
<1> QED
  BY <1>1, <1>3, <1>4, <1>5, <1>6

-----------------------------------------------------------------------------
(* The frontend *)

\* What is known of the access at hand.
LEMMA AtHand ==
  ASSUME IInv, NEW do \in Dos, Does(do)
  PROVE  /\ todo # <<>> /\ todo[1].do = do /\ Here = todo[1].at /\ Mask = todo[1].bits
         /\ 1 \in DOMAIN todo /\ todo[1] \in Ops
         /\ Here \in 0..N /\ Mask \subseteq (IF Here = Board THEN Flags ELSE Bits)
         /\ panic[Here] \subseteq (IF Here = Board THEN Flags ELSE Bits)
<1>1. todo # <<>> /\ Typed
  BY DEF IInv, Does
<1>2. /\ Head(todo) = todo[1] /\ 1 \in DOMAIN todo /\ todo[1] \in Ops
  BY <1>1, First
<1>3. todo[1].at \in 0..N /\ todo[1].bits \subseteq (IF todo[1].at = Board THEN Flags ELSE Bits)
  BY <1>2, OpsAre
<1>4. panic[todo[1].at] \subseteq (IF todo[1].at = Board THEN Flags ELSE Bits)
  BY <1>1, <1>3 DEF Typed, Words, Devs, Board
<1> QED
  BY <1>1, <1>2, <1>3, <1>4 DEF Does, Here, Mask

LEMMA StoreOp ==
  ASSUME NEW a \in 0..N, NEW b, b \subseteq (IF a = Board THEN Flags ELSE Bits)
  PROVE  /\ Op("store", a, b) \in Ops
         /\ Op("store", a, b).do = "store" /\ Op("store", a, b).at = a
         /\ Op("store", a, b).bits = b
BY DEF Op, Ops, Dos

\* A word read, its new value to be written.
LEMMA ClearInv == ASSUME IInv, Clear PROVE IInv'
<1>1. /\ todo # <<>> /\ todo[1].do = "clear" /\ Here = todo[1].at /\ Mask = todo[1].bits
      /\ 1 \in DOMAIN todo /\ todo[1] \in Ops /\ Here \in 0..N
      /\ panic[Here] \subseteq (IF Here = Board THEN Flags ELSE Bits)
  BY AtHand DEF Clear, Dos
<1>2. Here = Board /\ (Mask = {"config"} \/ Mask = {"temp"})
  BY <1>1, OpsAre
<1> DEFINE o == Op("store", Board, panic[Board] \ Mask)
<1>3. o \in Ops /\ o.do = "store" /\ o.at = Board /\ o.bits = panic[Board] \ Mask
  BY <1>1, <1>2, StoreOp
<1> HIDE DEF o
<1> DEFINE more == IF Mask \cap panic[Here] = {} THEN <<>> ELSE <<o>>
<1>4. more \in Seq(Ops) /\ \A k \in DOMAIN more : k = 1 /\ more[1] = o
  BY <1>3, OneIs
<1>5. todo' = more \o Tail(todo)
  BY <1>2 DEF Clear, Then, o
<1>6. UNCHANGED <<board, panic, mode, action>>
  BY DEF Clear
<1>7. ASSUME status # "normal", ~Has("ready") PROVE Keeps(o)
  <2>1. OnBoard /\ Keeps(todo[1])
    BY <1>1, <1>7 DEF IInv, Waiting
  <2> QED
    BY <1>1, <1>2, <1>3, <2>1 DEF Keeps, OnBoard
<1>8. ASSUME Has("ready")
      PROVE Spares(o) /\ (OnBoard => Mask \cap panic[Here] # {})
  <2>1. OnBoard => Mask = {"config"}
    BY <1>1, <1>8 DEF IInv, Releasing
  <2> QED
    BY <1>2, <1>3, <2>1 DEF Spares, OnBoard
<1>9. ASSUME status = "normal", ~Has("halted") PROVE Spares(o)
  BY <1>3, <1>9 DEF IInv, Working, Spares, OnBoard
<1>10. ~Has("halted")
  BY <1>1 DEF IInv, Halting
<1>11. more # <<>> => 1 \in DOMAIN more
  BY OneIs, <1>3
<1> HIDE DEF more
<1>12. Has("ready") /\ OnBoard => more # <<>>
  BY <1>8, OneIs, <1>3 DEF more
<1>13. todo' \in Seq(Ops) /\ Ordered' /\ Waiting' /\ Releasing' /\ Working' /\ Halting'
       /\ (Has("ready")' <=> Has("ready"))
  <2>1. \A k \in DOMAIN more : more[k] = o
    BY <1>4
  <2>2. more # <<>> => more[1] = o
    BY <1>4, <1>11
  <2>3. UNCHANGED <<status, panic>>
    BY <1>6 DEF board
  <2>4. \A k \in DOMAIN more : more[k].do \notin {"protect", "poll", "ready", "halted"}
    BY <1>3, <2>1
  <2>5. Waiting /\ status # "normal" /\ ~Has("ready") => \A k \in DOMAIN more : Keeps(more[k])
    BY <1>7, <2>1
  <2>6. Has("ready") =>
           /\ \A k \in DOMAIN more : Spares(more[k]) /\ more[k].do \notin {"raise", "clear"}
           /\ OnBoard => more # <<>> /\ more[1].do = "store" /\ more[1].at = Board
    BY <1>3, <1>8, <1>12, <2>1, <2>2
  <2>7. status = "normal" /\ ~Has("halted") => \A k \in DOMAIN more : Spares(more[k])
    BY <1>9, <2>1
  <2> QED
    BY <1>1, <1>4, <1>5, <1>10, <2>3, <2>4, <2>5, <2>6, <2>7, Becomes
<1> QED
  BY <1>6, <1>13 DEF IInv, Typed, Configured, board

LEMMA RaiseInv == ASSUME IInv, Raise PROVE IInv'
<1>1. /\ todo # <<>> /\ todo[1].do = "raise" /\ Here = todo[1].at /\ Mask = todo[1].bits
      /\ 1 \in DOMAIN todo /\ todo[1] \in Ops /\ Here \in 0..N
      /\ Mask \subseteq (IF Here = Board THEN Flags ELSE Bits)
      /\ panic[Here] \subseteq (IF Here = Board THEN Flags ELSE Bits)
  BY AtHand DEF Raise, Dos
<1>2. Mask = {"config"} \/ Mask = {"temp"} \/ Mask = {"board"}
  BY <1>1, OpsAre
<1> DEFINE o == Op("store", Here, panic[Here] \cup Mask)
           p == Op("perform", Here, {})
           tell == IF Here = Board THEN EachDev("raise", {"board"}) ELSE <<p>>
           more == IF Mask \subseteq panic[Here] THEN <<>> ELSE <<o>> \o tell
<1>3. o \in Ops /\ o.do = "store" /\ o.at = Here /\ o.bits = panic[Here] \cup Mask
  BY <1>1, StoreOp
<1>4. Here # Board => p \in Ops
  BY <1>1 DEF Op, Ops, Dos
<1>5. /\ tell \in Seq(Ops)
      /\ \A k \in DOMAIN tell : tell[k].do \in {"raise", "perform"} /\ tell[k].at # Board
      /\ Here = Board => \A d \in Devs : \E k \in DOMAIN tell :
           tell[k].do = "raise" /\ tell[k].at = d /\ "board" \in tell[k].bits
  <2>1. CASE Here = Board
    <3>1. /\ tell \in Seq(Ops) /\ DOMAIN tell = Devs
          /\ \A d \in Devs : tell[d] = Op("raise", d, {"board"})
      BY <2>1, EachDevIs
    <3> HIDE DEF tell
    <3> QED
      BY <2>1, <3>1, NAssumption DEF Op, Devs, Board
  <2>2. CASE Here # Board
    BY <2>2, <1>4, OneIs DEF Op
  <2> QED
    BY <2>1, <2>2
<1> HIDE DEF o, p, tell
<1>6. /\ more \in Seq(Ops)
      /\ \A k \in DOMAIN more :
           more[k] = o \/ (more[k].do \in {"raise", "perform"} /\ more[k].at # Board)
      /\ ~(Mask \subseteq panic[Here]) =>
           /\ 1 \in DOMAIN more /\ more[1] = o
           /\ Here = Board => \A d \in Devs : \E k \in DOMAIN more :
                more[k].do = "raise" /\ more[k].at = d /\ "board" \in more[k].bits
  <2>1. CASE Mask \subseteq panic[Here]
    BY <2>1
  <2>2. CASE ~(Mask \subseteq panic[Here])
    <3>1. /\ more \in Seq(Ops) /\ more[1] = o /\ 1 \in DOMAIN more
          /\ \A i \in DOMAIN more : more[i] = o \/ \E j \in DOMAIN tell : more[i] = tell[j]
          /\ \A j \in DOMAIN tell : j + 1 \in DOMAIN more /\ more[j + 1] = tell[j]
      BY <1>3, <1>5, <2>2, Before
    <3> HIDE DEF more
    <3>2. ASSUME Here = Board, NEW d \in Devs
          PROVE  \E k \in DOMAIN more :
                   more[k].do = "raise" /\ more[k].at = d /\ "board" \in more[k].bits
      <4>1. PICK k \in DOMAIN tell :
              tell[k].do = "raise" /\ tell[k].at = d /\ "board" \in tell[k].bits
        BY <1>5, <3>2
      <4> QED
        BY <3>1, <4>1
    <3> QED
      BY <1>5, <3>1, <3>2
  <2> QED
    BY <2>1, <2>2
<1>7. todo' = more \o Tail(todo)
  BY DEF Raise, Then, o, p, tell
<1> HIDE DEF more
<1>8. UNCHANGED <<board, panic, mode, action>>
  BY DEF Raise
<1>9. ~Has("ready")
  BY <1>1 DEF IInv, Releasing
<1>10. ASSUME status # "normal" PROVE Keeps(o)
  <2>1. OnBoard /\ OnDevs
    BY <1>9, <1>10 DEF IInv, Waiting
  <2> QED
    BY <1>1, <1>3, <2>1 DEF Keeps, OnBoard, OnDevs, Devs, Board
<1>11. ASSUME status = "normal", ~Has("halted") PROVE Spares(o)
  <2>1. ~OnBoard /\ Spares(todo[1])
    BY <1>1, <1>11 DEF IInv, Working
  <2> QED
    BY <1>1, <1>3, <2>1 DEF Spares, OnBoard
<1>12. ASSUME Has("halted") PROVE Keeps(o) /\ Telling'
  <2>1. /\ todo' \in Seq(Ops)
        /\ \A k \in DOMAIN more : k \in DOMAIN todo' /\ todo'[k] = more[k]
        /\ \A j \in DOMAIN todo : j # 1 => \E i \in DOMAIN todo' : todo'[i] = todo[j]
    BY <1>1, <1>3, <1>6, <1>7, Advance DEF IInv
  <2>2. OnBoard' <=> OnBoard
    BY <1>8 DEF OnBoard
  <2>3. CASE todo[1] = Op("raise", Board, {"config"}) /\ ~OnBoard
    <3>1. Here = Board /\ Mask = {"config"} /\ ~(Mask \subseteq panic[Here])
      BY <1>1, <2>3 DEF OnBoard, Op
    <3>2. todo'[1] = o /\ \A d \in Devs : \E k \in DOMAIN todo' :
            todo'[k].at = d /\ todo'[k].do = "raise" /\ "board" \in todo'[k].bits
      <4>1. ASSUME NEW d \in Devs
            PROVE  \E k \in DOMAIN todo' :
                     todo'[k].at = d /\ todo'[k].do = "raise" /\ "board" \in todo'[k].bits
        <5>1. PICK k \in DOMAIN more :
                more[k].do = "raise" /\ more[k].at = d /\ "board" \in more[k].bits
          BY <1>6, <3>1
        <5> QED
          BY <2>1, <5>1
      <4> QED
        BY <1>6, <2>1, <3>1, <4>1
    <3> QED
      BY <1>3, <2>2, <2>3, <3>1, <3>2 DEF Telling, Keeps
  <2>4. CASE OnBoard /\ \A d \in Devs : Told(d)
    <3>1. Keeps(o)
      BY <1>1, <1>2, <1>3, <2>4 DEF Keeps, OnBoard, Bits, Flags, Board
    <3>2. ASSUME NEW d \in Devs PROVE Told(d)'
      <4>1. CASE "board" \in panic[d]
        BY <1>8, <4>1 DEF Told
      <4>2. CASE "board" \notin panic[d]
        <5>1. PICK i \in DOMAIN todo :
                todo[i].at = d /\ todo[i].do \in {"raise", "store"} /\ "board" \in todo[i].bits
          BY <2>4, <4>2 DEF Told
        <5>2. CASE i # 1
          BY <2>1, <5>1, <5>2 DEF Told
        <5>3. CASE i = 1
          <6>1. Here = d /\ "board" \in Mask /\ ~(Mask \subseteq panic[Here])
            BY <1>1, <4>2, <5>1, <5>3
          <6>2. 1 \in DOMAIN todo' /\ todo'[1] = o
            BY <1>6, <2>1, <6>1
          <6> QED
            BY <1>3, <6>1, <6>2 DEF Told
        <5> QED
          BY <5>2, <5>3
      <4> QED
        BY <4>1, <4>2
    <3> QED
      BY <2>2, <2>4, <3>1, <3>2 DEF Telling
  <2> QED
    BY <1>1, <1>12, <2>3, <2>4 DEF IInv, Halting, Telling
<1>13. todo' \in Seq(Ops) /\ Ordered' /\ Waiting' /\ Releasing' /\ Working' /\ Halting'
       /\ (Has("ready")' <=> Has("ready"))
  <2>1. UNCHANGED <<status, panic>>
    BY <1>8 DEF board
  <2>2. \A k \in DOMAIN more : more[k].do \in {"store", "raise", "perform"}
    BY <1>3, <1>6
  <2>3. Keeps(o) => \A k \in DOMAIN more : Keeps(more[k])
    BY <1>3, <1>6 DEF Keeps
  <2>4. Spares(o) => \A k \in DOMAIN more : Spares(more[k])
    BY <1>3, <1>6 DEF Spares
  <2>5. \A k \in DOMAIN more : more[k].do \notin {"protect", "poll", "ready", "halted"}
    BY <2>2
  <2>6. Waiting /\ status # "normal" /\ ~Has("ready") => \A k \in DOMAIN more : Keeps(more[k])
    BY <1>10, <2>3
  <2>7. status = "normal" /\ ~Has("halted") => \A k \in DOMAIN more : Spares(more[k])
    BY <1>11, <2>4
  <2>8. Has("halted") =>
           /\ \A k \in DOMAIN more :
                Keeps(more[k])
                /\ more[k].do \notin {"clear", "mask", "release", "expire", "expireDev"}
           /\ Telling'
    BY <1>12, <2>2, <2>3
  <2> QED
    BY <1>1, <1>6, <1>7, <1>9, <2>1, <2>5, <2>6, <2>7, <2>8, Becomes
<1> QED
  BY <1>8, <1>13 DEF IInv, Typed, Configured, board

LEMMA MaskOutInv == ASSUME IInv, MaskOut PROVE IInv'
<1>1. /\ todo # <<>> /\ todo[1].do = "mask" /\ Here = todo[1].at /\ Mask = todo[1].bits
      /\ 1 \in DOMAIN todo /\ todo[1] \in Ops /\ Here \in 0..N
      /\ panic[Here] \subseteq (IF Here = Board THEN Flags ELSE Bits)
  BY AtHand DEF MaskOut, Dos
<1> DEFINE o == Op("store", Here, panic[Here] \ Mask)
<1>2. o \in Ops /\ o.do = "store" /\ o.at = Here /\ o.bits = panic[Here] \ Mask
  BY <1>1, StoreOp
<1>3. todo' = <<o>> \o Tail(todo) /\ UNCHANGED <<board, panic, mode, action>>
  BY DEF MaskOut, Then
<1> HIDE DEF o
<1>4. <<o>> \in Seq(Ops) /\ <<o>> # <<>> /\ <<o>>[1] = o /\ \A k \in DOMAIN <<o>> : <<o>>[k] = o
  BY <1>2, OneIs
<1>5. ~Has("halted")
  BY <1>1 DEF IInv, Halting
<1>6. ASSUME status # "normal", ~Has("ready") PROVE Keeps(o)
  <2>1. OnBoard /\ OnDevs /\ Keeps(todo[1])
    BY <1>1, <1>6 DEF IInv, Waiting
  <2>2. Here = Board => "config" \notin Mask
    BY <1>1, OpsAre
  <2> QED
    BY <1>1, <1>2, <2>1, <2>2 DEF Keeps, OnBoard, OnDevs, Devs, Board
<1>7. Has("ready") => ~OnBoard
  BY <1>1 DEF IInv, Releasing
<1>8. ~OnBoard => Spares(o)
  BY <1>1, <1>2 DEF Spares, OnBoard
<1>9. status = "normal" => ~OnBoard
  BY <1>5 DEF IInv, Working
<1>10. todo' \in Seq(Ops) /\ Ordered' /\ Waiting' /\ Releasing' /\ Working' /\ Halting'
       /\ (Has("ready")' <=> Has("ready"))
  <2> DEFINE more == <<o>>
  <2>1. more \in Seq(Ops) /\ todo' = more \o Tail(todo) /\ \A k \in DOMAIN more : more[k] = o
    BY <1>3, <1>4
  <2> HIDE DEF more
  <2>2. UNCHANGED <<status, panic>>
    BY <1>3 DEF board
  <2>3. \A k \in DOMAIN more : more[k].do \notin {"protect", "poll", "ready", "halted"}
    BY <1>2, <2>1
  <2>4. Waiting /\ status # "normal" /\ ~Has("ready") => \A k \in DOMAIN more : Keeps(more[k])
    BY <1>6, <2>1
  <2>5. Has("ready") =>
           /\ \A k \in DOMAIN more : Spares(more[k]) /\ more[k].do \notin {"raise", "clear"}
           /\ OnBoard => more # <<>> /\ more[1].do = "store" /\ more[1].at = Board
    BY <1>2, <1>7, <1>8, <2>1
  <2>6. status = "normal" /\ ~Has("halted") => \A k \in DOMAIN more : Spares(more[k])
    BY <1>8, <1>9, <2>1
  <2> QED
    BY <1>1, <1>5, <2>1, <2>2, <2>3, <2>4, <2>5, <2>6, Becomes
<1> QED
  BY <1>3, <1>10 DEF IInv, Typed, Configured, board

LEMMA ReleaseDevsInv == ASSUME IInv, ReleaseDevs PROVE IInv'
<1>1. todo # <<>> /\ todo[1].do = "release" /\ 1 \in DOMAIN todo /\ todo[1] \in Ops
  BY AtHand DEF ReleaseDevs, Dos
<1> DEFINE more == IF panic[Board] = {} THEN EachDev("mask", {"board"}) ELSE <<>>
<1>2. todo' = more \o Tail(todo) /\ UNCHANGED <<board, panic, mode, action>>
  BY DEF ReleaseDevs, Then
<1>3. more \in Seq(Ops) /\ \A k \in DOMAIN more : more[k].do = "mask"
  <2> DEFINE masks == EachDev("mask", {"board"})
  <2>1. /\ masks \in Seq(Ops) /\ DOMAIN masks = Devs
        /\ \A d \in Devs : masks[d] = Op("mask", d, {"board"})
    BY EachDevIs
  <2> HIDE DEF masks
  <2>2. \A d \in DOMAIN masks : masks[d].do = "mask"
    BY <2>1 DEF Op
  <2> QED
    BY <2>1, <2>2 DEF masks
<1>4. OnBoard => more = <<>>
  BY DEF OnBoard
<1> HIDE DEF more
<1>5. ~Has("halted") /\ (Has("ready") => ~OnBoard)
  BY <1>1 DEF IInv, Halting, Releasing
<1>6. todo' \in Seq(Ops) /\ Ordered' /\ Waiting' /\ Releasing' /\ Working' /\ Halting'
      /\ (Has("ready")' <=> Has("ready"))
  <2>1. UNCHANGED <<status, panic>>
    BY <1>2 DEF board
  <2>2. \A k \in DOMAIN more : Spares(more[k]) /\ more[k].do \notin {"raise", "clear"}
                              /\ more[k].do \notin {"protect", "poll", "ready", "halted"}
    BY <1>3 DEF Spares
  <2>3. Waiting /\ status # "normal" /\ ~Has("ready") => \A k \in DOMAIN more : Keeps(more[k])
    BY <1>4 DEF Waiting
  <2> QED
    BY <1>1, <1>2, <1>3, <1>5, <2>1, <2>2, <2>3, Becomes
<1> QED
  BY <1>2, <1>6 DEF IInv, Typed, Configured, board

LEMMA PerformInv == ASSUME IInv, Perform PROVE IInv'
<1>1. /\ todo # <<>> /\ todo[1].do = "perform" /\ Here = todo[1].at
      /\ 1 \in DOMAIN todo /\ todo[1] \in Ops /\ Here \in 0..N
  BY AtHand DEF Perform, Dos
<1>2. todo' = <<>> \o Tail(todo) /\ UNCHANGED <<board, panic, mode>>
      /\ action' = [action EXCEPT ![Here] = "idle"]
  BY DEF Perform, Then
<1>3. Here \in Devs
  BY <1>1, OpsAre DEF Devs, Board
<1>4. Has("ready") => ~OnBoard
  BY <1>1 DEF IInv, Releasing
<1>5. ASSUME Has("halted") PROVE Telling'
  <2>1. OnBoard /\ \A d \in Devs : Told(d)
    BY <1>1, <1>5 DEF IInv, Halting, Telling, Op
  <2>2. \A j \in DOMAIN todo : j # 1 => \E i \in DOMAIN todo' : todo'[i] = todo[j]
    <3>1. <<>> \in Seq(Ops) /\ \A i \in DOMAIN <<>> : FALSE
      OBVIOUS
    <3> QED
      BY <1>1, <1>2, <3>1, Advance DEF IInv
  <2>3. \A d \in Devs : Told(d)'
    BY <1>1, <1>2, <2>1, <2>2 DEF Told
  <2> QED
    BY <1>2, <2>1, <2>3 DEF Telling, OnBoard
<1>6. todo' \in Seq(Ops) /\ Ordered' /\ Waiting' /\ Releasing' /\ Working' /\ Halting'
      /\ (Has("ready")' <=> Has("ready"))
  <2>1. UNCHANGED <<status, panic>>
    BY <1>2 DEF board
  <2> DEFINE more == <<>>
  <2>2. more \in Seq(Ops) /\ DOMAIN more = {} /\ todo' = more \o Tail(todo)
    BY <1>2
  <2> HIDE DEF more
  <2> QED
    BY <1>1, <1>4, <1>5, <2>1, <2>2, Becomes
<1> QED
  BY <1>2, <1>3, <1>6 DEF IInv, Typed, Configured, board

LEMMA PollInv == ASSUME IInv, Poll PROVE IInv'
<1>1. todo # <<>> /\ todo[1].do = "poll" /\ 1 \in DOMAIN todo /\ todo[1] \in Ops
  BY AtHand DEF Poll, Dos
<1>2. todo' = <<>> \o Tail(todo) /\ UNCHANGED <<status, startup, panic, mode, action>>
  BY DEF Poll, Then
<1>3. ~Has("ready") /\ ~Has("halted")
  BY <1>1, First DEF IInv, Ordered, Has
<1>4. todo' \in Seq(Ops) /\ Ordered' /\ Waiting' /\ Releasing' /\ Working' /\ Halting'
      /\ (Has("ready")' <=> Has("ready"))
  <2> DEFINE more == <<>>
  <2>1. more \in Seq(Ops) /\ DOMAIN more = {} /\ todo' = more \o Tail(todo)
    BY <1>2
  <2> HIDE DEF more
  <2> QED
    BY <1>1, <1>2, <1>3, <2>1, Becomes
<1>5. /\ command' \in {"none", "configure"} /\ reconfig' \in BOOLEAN
      /\ reconfig' = reconfig \/ status = "configure"
  BY DEF Poll, IInv, Typed
<1> QED
  BY <1>2, <1>3, <1>4, <1>5 DEF IInv, Typed, Configured

\* Accesses that may come at any time of a pass.
CalmOps ==
  {o \in Ops : /\ Keeps(o) /\ Spares(o)
               /\ o.do \in {"raise", "clear", "mask", "release", "expire", "expireDev"}}

\* An access that only makes room for such accesses.
CalmStep ==
  /\ todo # <<>> /\ todo[1].do \in {"protect", "expire", "expireDev"}
  /\ UNCHANGED <<board, panic, mode, action>>
  /\ \E more \in Seq(CalmOps) :
       /\ todo' = more \o Tail(todo)
       /\ todo[1].do # "protect" =>
            \A k \in DOMAIN more : more[k].do \in {"mask", "release"}

LEMMA CalmInv == ASSUME IInv, CalmStep PROVE IInv'
<1> PICK more \in Seq(CalmOps) :
           /\ todo' = more \o Tail(todo)
           /\ todo[1].do # "protect" =>
                \A k \in DOMAIN more : more[k].do \in {"mask", "release"}
  BY DEF CalmStep
<1> USE DEF CalmStep
<1>1. more \in Seq(Ops) /\ \A k \in DOMAIN more : more[k] \in CalmOps
  BY DEF CalmOps
<1>2. 1 \in DOMAIN todo
  BY First DEF IInv
<1>3. ~Has("halted") /\ (Has("ready") => ~OnBoard /\ todo[1].do # "protect")
  <2>1. CASE todo[1].do = "protect"
    <3>1. Len(todo) = 1 /\ DOMAIN todo = 1..Len(todo)
      BY <1>2, <2>1, First DEF IInv, Ordered
    <3> QED
      BY <2>1, <3>1 DEF Has
  <2>2. CASE todo[1].do # "protect"
    BY <1>2, <2>2 DEF IInv, Halting, Releasing
  <2> QED
    BY <2>1, <2>2
<1>4. todo' \in Seq(Ops) /\ Ordered' /\ Waiting' /\ Releasing' /\ Working' /\ Halting'
      /\ (Has("ready")' <=> Has("ready"))
  <2>1. UNCHANGED <<status, panic>>
    BY DEF board
  <2>2. \A k \in DOMAIN more : Keeps(more[k]) /\ Spares(more[k])
                              /\ more[k].do \notin {"protect", "poll", "ready", "halted"}
    BY <1>1 DEF CalmOps
  <2>3. todo[1].do # "protect" => \A k \in DOMAIN more : more[k].do \notin {"raise", "clear"}
    OBVIOUS
  <2> QED
    BY <1>1, <1>3, <2>1, <2>2, <2>3, Becomes
<1> QED
  BY <1>4 DEF IInv, Typed, Configured, board

\* The reset after the timeout and what it is made of.
LEMMA ExpireIsCalm == ASSUME IInv, Expire PROVE CalmStep
<1>1. todo # <<>> /\ todo[1].do = "expire" /\ panic[Board] \subseteq Flags
  BY AtHand DEF Expire, Dos, IInv, Typed, Words
<1> DEFINE m == Op("mask", Board, panic[Board] \ Lasting)
           r == Step("release")
           more == IF panic[Board] = {} THEN <<>> ELSE <<m, r>>
<1>2. todo' = more \o Tail(todo) /\ UNCHANGED <<board, panic, mode, action>>
  BY DEF Expire, Then
<1>3. m \in Ops /\ m.do = "mask" /\ Keeps(m) /\ Spares(m)
  BY <1>1, NAssumption DEF Op, Ops, Dos, Lasting, Keeps, Spares, Flags, Bits, Board
<1>4. r \in Ops /\ r.do = "release" /\ Keeps(r) /\ Spares(r)
  BY NAssumption DEF Step, Op, Ops, Dos, Keeps, Spares, Board
<1> HIDE DEF m, r
<1>5. more \in Seq(CalmOps) /\ \A k \in DOMAIN more : more[k].do \in {"mask", "release"}
  <2>1. m \in CalmOps /\ r \in CalmOps
    BY <1>3, <1>4 DEF CalmOps
  <2>2. CASE panic[Board] = {}
    BY <2>2
  <2>3. CASE panic[Board] # {}
    <3>1. more = <<m, r>>
      BY <2>3
    <3> QED
      BY <1>3, <1>4, <2>1, <3>1
  <2> QED
    BY <2>2, <2>3
<1> QED
  BY <1>1, <1>2, <1>5 DEF CalmStep

LEMMA ExpireDevIsCalm == ASSUME IInv, ExpireDev PROVE CalmStep
<1>1. /\ todo # <<>> /\ todo[1].do = "expireDev" /\ Here \in 0..N /\ Here # Board
      /\ panic[Here] \subseteq Bits
  <2>1. /\ todo # <<>> /\ todo[1].do = "expireDev" /\ todo[1] \in Ops /\ Here = todo[1].at
        /\ Here \in 0..N /\ panic[Here] \subseteq (IF Here = Board THEN Flags ELSE Bits)
    BY AtHand DEF ExpireDev, Dos
  <2> QED
    BY <2>1, OpsAre
<1> DEFINE m == Op("mask", Here, panic[Here] \ {"board"})
           more == IF panic[Here] = {} THEN <<>> ELSE <<m>>
<1>2. todo' = more \o Tail(todo) /\ UNCHANGED <<board, panic, mode, action>>
  BY DEF ExpireDev, Then
<1>3. m \in Ops /\ m.do = "mask" /\ Keeps(m) /\ Spares(m)
  BY <1>1 DEF Op, Ops, Dos, Keeps, Spares
<1> HIDE DEF m
<1>4. more \in Seq(CalmOps) /\ \A k \in DOMAIN more : more[k].do \in {"mask", "release"}
  <2>1. m \in CalmOps
    BY <1>3 DEF CalmOps
  <2>2. CASE panic[Here] = {}
    BY <2>2
  <2>3. CASE panic[Here] # {}
    <3>1. more = <<m>>
      BY <2>3
    <3> QED
      BY <1>3, <2>1, <3>1
  <2> QED
    BY <2>2, <2>3
<1> QED
  BY <1>1, <1>2, <1>4 DEF CalmStep

LEMMA ProtectIsCalm ==
  ASSUME IInv, NEW t \in Temps, NEW expired \in BOOLEAN, Protect(t, expired)
  PROVE  CalmStep
<1>1. todo # <<>> /\ todo[1].do = "protect"
  BY AtHand DEF Protect, Dos
<1> DEFINE first == CASE t = "hot" -> <<Op("raise", Board, {"temp"})>>
                      [] t = "cool" /\ panic[Board] # {} -> ResetBoard("temp")
                      [] OTHER -> <<>>
           last == IF expired THEN <<Step("expire")>> \o EachDev("expireDev", {}) ELSE <<>>
<1>2. todo' = (first \o last) \o Tail(todo) /\ UNCHANGED <<board, panic, mode, action>>
  BY DEF Protect, Then
<1>3. first \in Seq(CalmOps)
  <2>1. Op("raise", Board, {"temp"}) \in CalmOps /\ Op("clear", Board, {"temp"}) \in CalmOps
        /\ Step("release") \in CalmOps
    BY NAssumption DEF CalmOps, Step, Op, Ops, Dos, Keeps, Spares, Flags, Bits, Board
  <2>2. ResetBoard("temp") \in Seq(CalmOps)
    BY <2>1 DEF ResetBoard
  <2> QED
    BY <2>1, <2>2
<1>4. last \in Seq(CalmOps)
  <2>1. Step("expire") \in CalmOps
    BY NAssumption DEF CalmOps, Step, Op, Ops, Dos, Keeps, Spares, Board
  <2>2. \A d \in Devs : Op("expireDev", d, {}) \in CalmOps
    BY NAssumption DEF CalmOps, Op, Ops, Dos, Keeps, Spares, Board, Devs
  <2>3. EachDev("expireDev", {}) \in Seq(CalmOps)
    <3>1. EachDev("expireDev", {}) \in [1..N -> CalmOps]
      BY <2>2 DEF EachDev, Devs
    <3> QED
      BY <3>1, NAssumption
  <2> QED
    BY <2>1, <2>3
<1> HIDE DEF first, last
<1> DEFINE more == first \o last
<1>5. more \in Seq(CalmOps) /\ todo' = more \o Tail(todo)
  BY <1>2, <1>3, <1>4, ConcatProperties
<1> HIDE DEF more
<1> QED
  BY <1>1, <1>2, <1>5 DEF CalmStep

LEMMA ReadyInv == ASSUME IInv, Ready PROVE IInv'
<1>1. todo # <<>> /\ todo[1].do = "ready" /\ 1 \in DOMAIN todo
  BY AtHand DEF Ready, Dos
<1>2. todo' = Tail(todo) /\ status' = "normal"
      /\ UNCHANGED <<command, reconfig, startup, panic, mode, action>>
  <2>1. todo' = <<>> \o Tail(todo) /\ Tail(todo) \in Seq(Ops)
    BY First DEF Ready, Then, IInv, Does
  <2> QED
    BY <2>1 DEF Ready
<1>3. todo[2].do = "poll" /\ todo[3].do = "protect" /\ Len(todo) = 3
      /\ DOMAIN todo = {1, 2, 3}
  <2>1. Len(todo) = 3 /\ todo[2].do = "poll" /\ todo[3].do = "protect"
    BY <1>1, First DEF IInv, Ordered
  <2> QED
    BY <1>1, <2>1, First DEF IInv
<1>4. todo' \in Seq(Ops) /\ Len(todo') = 2 /\ DOMAIN todo' = {1, 2}
      /\ todo'[1] = todo[2] /\ todo'[2] = todo[3]
  <2>1. todo' \in Seq(Ops) /\ Len(todo') = 2 /\ todo'[1] = todo[1 + 1] /\ todo'[2] = todo[2 + 1]
    BY <1>1, <1>2, <1>3, First DEF IInv
  <2> QED
    BY <2>1
<1>5. Has("ready") /\ ~Has("ready")' /\ ~Has("halted")'
  BY <1>1, <1>3, <1>4 DEF Has
<1>6. ~OnBoard /\ startup = {} /\ ~reconfig
  BY <1>1, <1>5 DEF IInv, Releasing, Configured
<1>7. Typed'
  BY <1>2, <1>4 DEF IInv, Typed, Statuses
<1>8. Ordered'
  BY <1>3, <1>4 DEF Ordered
<1>9. Working'
  BY <1>2, <1>3, <1>4, <1>6 DEF Working, Spares, OnBoard
<1> QED
  BY <1>2, <1>5, <1>6, <1>7, <1>8, <1>9 DEF IInv, Waiting, Releasing, Halting, Configured

LEMMA HaltedInv == ASSUME IInv, Halted PROVE IInv'
<1>1. todo # <<>> /\ todo[1].do = "halted" /\ 1 \in DOMAIN todo
  BY AtHand DEF Halted, Dos
<1>2. todo' = Tail(todo) /\ status' = "configure"
      /\ UNCHANGED <<command, reconfig, startup, panic, mode, action>>
  <2>1. todo' = <<>> \o Tail(todo) /\ Tail(todo) \in Seq(Ops)
    BY First DEF Halted, Then, IInv, Does
  <2> QED
    BY <2>1 DEF Halted
<1>3. todo[2].do = "poll" /\ todo[3].do = "protect" /\ Len(todo) = 3
      /\ DOMAIN todo = {1, 2, 3}
  <2>1. Len(todo) = 3 /\ todo[2].do = "poll" /\ todo[3].do = "protect"
    BY <1>1, First DEF IInv, Ordered
  <2> QED
    BY <1>1, <2>1, First DEF IInv
<1>4. todo' \in Seq(Ops) /\ Len(todo') = 2 /\ DOMAIN todo' = {1, 2}
      /\ todo'[1] = todo[2] /\ todo'[2] = todo[3]
  <2>1. todo' \in Seq(Ops) /\ Len(todo') = 2 /\ todo'[1] = todo[1 + 1] /\ todo'[2] = todo[2 + 1]
    BY <1>1, <1>2, <1>3, First DEF IInv
  <2> QED
    BY <2>1
<1>5. Has("halted") /\ ~Has("ready")' /\ ~Has("halted")'
  BY <1>1, <1>3, <1>4 DEF Has
<1>6. OnBoard /\ OnDevs /\ status = "normal"
  <2>1. OnBoard /\ (\A d \in Devs : Told(d)) /\ status = "normal"
    BY <1>1, <1>5 DEF IInv, Halting, Telling, Op
  <2>2. \A i \in DOMAIN todo : todo[i].do \notin {"raise", "store"}
    BY <1>1, <1>3
  <2> QED
    BY <2>1, <2>2 DEF Told, OnDevs
<1>7. startup = {}
  BY <1>6 DEF IInv, Configured
<1>8. Typed'
  BY <1>2, <1>4 DEF IInv, Typed, Statuses
<1>9. Ordered'
  BY <1>3, <1>4 DEF Ordered
<1>10. Waiting'
  BY <1>2, <1>3, <1>4, <1>5, <1>6 DEF Waiting, Keeps, OnBoard, OnDevs
<1> QED
  BY <1>2, <1>5, <1>7, <1>8, <1>9, <1>10 DEF IInv, Working, Releasing, Halting, Configured

LEMMA StoreInv == ASSUME IInv, Store PROVE IInv'
<1>1. /\ todo # <<>> /\ todo[1].do = "store" /\ Here = todo[1].at /\ Mask = todo[1].bits
      /\ 1 \in DOMAIN todo /\ todo[1] \in Ops /\ Here \in 0..N
      /\ Mask \subseteq (IF Here = Board THEN Flags ELSE Bits)
  BY AtHand DEF Store, Dos
<1>2. /\ todo' = <<>> \o Tail(todo) /\ UNCHANGED <<board, mode, action>>
      /\ panic' = [panic EXCEPT ![Here] = Mask]
  BY DEF Store, Then
<1>3. /\ todo' \in Seq(Ops) /\ Ordered'
      /\ \A i \in DOMAIN todo' :
           \E j \in DOMAIN todo : j # 1 /\ i = j - 1 /\ todo'[i] = todo[j]
      /\ \A j \in DOMAIN todo : j # 1 => \E i \in DOMAIN todo' : todo'[i] = todo[j]
      /\ Has("ready")' <=> Has("ready")
      /\ Has("halted")' <=> Has("halted")
  <2> DEFINE more == <<>>
  <2>1. more \in Seq(Ops) /\ DOMAIN more = {} /\ todo' = more \o Tail(todo) /\ Len(more) = 0
    BY <1>2
  <2> HIDE DEF more
  <2>2. /\ todo' \in Seq(Ops) /\ Ordered'
        /\ \A i \in DOMAIN todo' :
             \E j \in DOMAIN todo : j # 1 /\ i = j - 1 + Len(more) /\ todo'[i] = todo[j]
        /\ \A j \in DOMAIN todo : j # 1 => \E i \in DOMAIN todo' : todo'[i] = todo[j]
        /\ Has("ready")' <=> Has("ready")
        /\ Has("halted")' <=> Has("halted")
    BY <1>1, <2>1, Advance DEF IInv
  <2>3. \A j \in DOMAIN todo : j - 1 + Len(more) = j - 1
    <3>1. DOMAIN todo = 1..Len(todo) /\ Len(todo) \in Nat
      BY <1>1, First DEF IInv
    <3> QED
      BY <2>1, <3>1
  <2>4. \A i \in DOMAIN todo' :
          \E j \in DOMAIN todo : j # 1 /\ i = j - 1 /\ todo'[i] = todo[j]
    BY <2>2, <2>3
  <2> QED
    BY <2>2, <2>4
<1>4. Words(panic) /\ DOMAIN panic = 0..N
  BY DEF IInv, Typed, Words
<1>5. Words(panic)'
  BY <1>1, <1>2, <1>4 DEF Words, Devs, Board
<1>6. Typed'
  BY <1>2, <1>3, <1>5 DEF IInv, Typed, board
<1>7. OnBoard' <=> IF Here = Board THEN "config" \in Mask ELSE OnBoard
  BY <1>1, <1>2, <1>4, NAssumption DEF OnBoard, Board
<1>8. \A d \in Devs : "board" \in panic'[d] <=>
                        IF Here = d THEN "board" \in Mask ELSE "board" \in panic[d]
  BY <1>1, <1>2, <1>4 DEF Devs
<1>9. ASSUME Keeps(todo[1])
      PROVE  (OnBoard => OnBoard') /\ (Here = Board => OnBoard')
             /\ \A d \in Devs : Here = d \/ "board" \in panic[d] => "board" \in panic'[d]
  BY <1>1, <1>7, <1>8, <1>9 DEF Keeps, Devs, Board
<1>10. status' = status /\ startup' = startup /\ reconfig' = reconfig
  BY <1>2 DEF board
<1>11. Waiting'
  <2> SUFFICES ASSUME status # "normal", ~Has("ready")
               PROVE  OnBoard' /\ OnDevs' /\ ~Has("halted")
                      /\ \A i \in DOMAIN todo' : Keeps(todo'[i])
    BY <1>3, <1>10 DEF Waiting
  <2>1. OnBoard /\ OnDevs /\ ~Has("halted") /\ \A j \in DOMAIN todo : Keeps(todo[j])
    BY DEF IInv, Waiting
  <2>2. OnBoard' /\ \A d \in Devs : "board" \in panic'[d]
    BY <1>1, <1>9, <2>1 DEF OnDevs
  <2> QED
    BY <1>3, <2>1, <2>2 DEF OnDevs
<1>12. Releasing'
  <2> SUFFICES ASSUME Has("ready") PROVE Releasing'
    BY <1>3 DEF Releasing
  <2>1. /\ status # "normal" /\ ~Has("halted")
        /\ \A j \in DOMAIN todo : Spares(todo[j]) /\ todo[j].do # "raise"
                                  /\ (todo[j].do = "clear" => j = 1)
        /\ OnBoard => Here = Board
    BY <1>1 DEF IInv, Releasing
  <2>2. ~OnBoard'
    BY <1>1, <1>7, <2>1 DEF Spares
  <2>3. \A i \in DOMAIN todo' : Spares(todo'[i]) /\ todo'[i].do # "raise"
                                /\ todo'[i].do # "clear"
    BY <1>3, <2>1
  <2> QED
    BY <1>3, <1>10, <2>1, <2>2, <2>3 DEF Releasing
<1>13. Working'
  <2> SUFFICES ASSUME status = "normal", ~Has("halted")
               PROVE  ~OnBoard' /\ \A i \in DOMAIN todo' : Spares(todo'[i])
    BY <1>3, <1>10 DEF Working
  <2>1. ~OnBoard /\ \A j \in DOMAIN todo : Spares(todo[j])
    BY DEF IInv, Working
  <2>2. ~OnBoard'
    BY <1>1, <1>7, <2>1 DEF Spares
  <2> QED
    BY <1>3, <2>1, <2>2
<1>14. Halting'
  <2> SUFFICES ASSUME Has("halted") PROVE Halting'
    BY <1>3 DEF Halting
  <2>1. /\ status = "normal" /\ Telling
        /\ \A j \in DOMAIN todo :
             /\ Keeps(todo[j])
             /\ todo[j].do \notin {"clear", "mask", "release", "expire", "expireDev"}
    BY DEF IInv, Halting
  <2>2. OnBoard'
    BY <1>1, <1>9, <2>1 DEF Telling, Op
  <2>3. ASSUME NEW d \in Devs PROVE Told(d)'
    <3>1. CASE "board" \in panic[d] \/ Here = d
      BY <1>1, <1>9, <2>1, <3>1 DEF Told
    <3>2. CASE "board" \notin panic[d] /\ Here # d
      <4>1. \E i \in DOMAIN todo :
              todo[i].at = d /\ todo[i].do \in {"raise", "store"} /\ "board" \in todo[i].bits
        BY <1>1, <2>1, <3>2 DEF Telling, Told, Op
      <4>2. PICK i \in DOMAIN todo :
              todo[i].at = d /\ todo[i].do \in {"raise", "store"} /\ "board" \in todo[i].bits
        BY <4>1
      <4>3. i # 1
        BY <1>1, <3>2, <4>2
      <4> QED
        BY <1>3, <4>2, <4>3 DEF Told
    <3> QED
      BY <3>1, <3>2
  <2>4. \A i \in DOMAIN todo' :
          Keeps(todo'[i])
          /\ todo'[i].do \notin {"clear", "mask", "release", "expire", "expireDev"}
    BY <1>3, <2>1
  <2> QED
    BY <1>10, <2>1, <2>2, <2>3, <2>4 DEF Halting, Telling
<1> QED
  BY <1>3, <1>6, <1>10, <1>11, <1>12, <1>13, <1>14 DEF IInv, Configured

\* The lists a pass begins with.
LEMMA PairAndOne ==
  ASSUME NEW a \in Ops, NEW b \in Ops, NEW c \in Ops
  PROVE  <<a, b>> \o <<c>> = <<a, b, c>>
<1> DEFINE s == <<a, b>>
           t == <<c>>
           u == <<a, b, c>>
<1>1. s \in Seq(Ops) /\ t \in Seq(Ops) /\ u \in Seq(Ops)
      /\ Len(s) = 2 /\ Len(t) = 1 /\ Len(u) = 3
      /\ s[1] = a /\ s[2] = b
      /\ t[1] = c
      /\ u[1] = a /\ u[2] = b /\ u[3] = c
  OBVIOUS
<1> HIDE DEF s, t, u
<1>2. s \o t \in Seq(Ops) /\ Len(s \o t) = 3
      /\ \A i \in 1..3 : (s \o t)[i] = IF i <= 2 THEN s[i] ELSE t[i - 2]
  <2>1. s \o t \in Seq(Ops) /\ Len(s \o t) = Len(s) + Len(t)
        /\ \A i \in 1..Len(s) + Len(t) : (s \o t)[i] = IF i <= Len(s) THEN s[i] ELSE t[i - Len(s)]
    BY <1>1, ConcatProperties
  <2>2. Len(s) + Len(t) = 3
    BY <1>1
  <2> QED
    BY <1>1, <2>1, <2>2
<1>3. \A i \in 1..3 : (s \o t)[i] = u[i]
  BY <1>1, <1>2
<1>4. s \o t = u
  BY <1>1, <1>2, <1>3, SeqEqual
<1> QED
  BY <1>4 DEF s, t, u

LEMMA PairAndPair ==
  ASSUME NEW a \in Ops, NEW b \in Ops, NEW c \in Ops, NEW d \in Ops
  PROVE  <<a, b>> \o <<c, d>> = <<a, b, c, d>>
<1> DEFINE s == <<a, b>>
           t == <<c, d>>
           u == <<a, b, c, d>>
<1>1. s \in Seq(Ops) /\ t \in Seq(Ops) /\ u \in Seq(Ops)
      /\ Len(s) = 2 /\ Len(t) = 2 /\ Len(u) = 4
      /\ s[1] = a /\ s[2] = b
      /\ t[1] = c /\ t[2] = d
      /\ u[1] = a /\ u[2] = b /\ u[3] = c /\ u[4] = d
  OBVIOUS
<1> HIDE DEF s, t, u
<1>2. s \o t \in Seq(Ops) /\ Len(s \o t) = 4
      /\ \A i \in 1..4 : (s \o t)[i] = IF i <= 2 THEN s[i] ELSE t[i - 2]
  <2>1. s \o t \in Seq(Ops) /\ Len(s \o t) = Len(s) + Len(t)
        /\ \A i \in 1..Len(s) + Len(t) : (s \o t)[i] = IF i <= Len(s) THEN s[i] ELSE t[i - Len(s)]
    BY <1>1, ConcatProperties
  <2>2. Len(s) + Len(t) = 4
    BY <1>1
  <2> QED
    BY <1>1, <2>1, <2>2
<1>3. \A i \in 1..4 : (s \o t)[i] = u[i]
  BY <1>1, <1>2
<1>4. s \o t = u
  BY <1>1, <1>2, <1>3, SeqEqual
<1> QED
  BY <1>4 DEF s, t, u

LEMMA ThreeAndPair ==
  ASSUME NEW a \in Ops, NEW b \in Ops, NEW c \in Ops, NEW d \in Ops, NEW e \in Ops
  PROVE  <<a, b, c>> \o <<d, e>> = <<a, b, c, d, e>>
<1> DEFINE s == <<a, b, c>>
           t == <<d, e>>
           u == <<a, b, c, d, e>>
<1>1. s \in Seq(Ops) /\ t \in Seq(Ops) /\ u \in Seq(Ops)
      /\ Len(s) = 3 /\ Len(t) = 2 /\ Len(u) = 5
      /\ s[1] = a /\ s[2] = b /\ s[3] = c
      /\ t[1] = d /\ t[2] = e
      /\ u[1] = a /\ u[2] = b /\ u[3] = c /\ u[4] = d /\ u[5] = e
  OBVIOUS
<1> HIDE DEF s, t, u
<1>2. s \o t \in Seq(Ops) /\ Len(s \o t) = 5
      /\ \A i \in 1..5 : (s \o t)[i] = IF i <= 3 THEN s[i] ELSE t[i - 3]
  <2>1. s \o t \in Seq(Ops) /\ Len(s \o t) = Len(s) + Len(t)
        /\ \A i \in 1..Len(s) + Len(t) : (s \o t)[i] = IF i <= Len(s) THEN s[i] ELSE t[i - Len(s)]
    BY <1>1, ConcatProperties
  <2>2. Len(s) + Len(t) = 5
    BY <1>1
  <2> QED
    BY <1>1, <2>1, <2>2
<1>3. \A i \in 1..5 : (s \o t)[i] = u[i]
  BY <1>1, <1>2
<1>4. s \o t = u
  BY <1>1, <1>2, <1>3, SeqEqual
<1> QED
  BY <1>4 DEF s, t, u

\* A pass begins: the new list is one of four.
LEMMA SwitchInv == ASSUME IInv, Switch PROVE IInv'
<1>1. todo = <<>> /\ UNCHANGED <<panic, mode, action>>
  BY DEF Switch
<1>2. ~Has("ready") /\ ~Has("halted")
  BY <1>1 DEF Has
<1>3. /\ status # "normal" => OnBoard /\ OnDevs
      /\ status = "normal" => ~OnBoard
  BY <1>2 DEF IInv, Waiting, Working
<1> DEFINE cl == Op("clear", Board, {"config"})
           re == Step("release")
           ready == Step("ready")
           raise == Op("raise", Board, {"config"})
           halted == Step("halted")
           poll == Step("poll")
           protect == Step("protect")
<1>4. /\ cl \in Ops /\ re \in Ops /\ ready \in Ops /\ raise \in Ops /\ halted \in Ops
      /\ poll \in Ops /\ protect \in Ops
  BY NAssumption DEF Step, Op, Ops, Dos, Flags, Bits, Board
<1>5. /\ cl.do = "clear" /\ cl.at = Board /\ cl.bits = {"config"}
      /\ re.do = "release" /\ ready.do = "ready" /\ halted.do = "halted"
      /\ raise.do = "raise" /\ raise.at = Board /\ raise.bits = {"config"}
      /\ poll.do = "poll" /\ protect.do = "protect"
  BY DEF Step, Op
<1>6. /\ Rest = <<poll, protect>>
      /\ Release \o Rest = <<cl, re, ready, poll, protect>>
      /\ <<Op("raise", Board, {"config"}), Step("halted")>> \o Rest
           = <<raise, halted, poll, protect>>
  <2>1. Rest = <<poll, protect>> /\ Release = <<cl, re>> \o <<ready>>
        /\ raise = Op("raise", Board, {"config"}) /\ halted = Step("halted")
    BY DEF Rest, Release, ResetBoard
  <2> HIDE DEF cl, re, ready, raise, halted, poll, protect
  <2>2. <<cl, re>> \o <<ready>> = <<cl, re, ready>>
    BY <1>4, PairAndOne
  <2>3. <<cl, re, ready>> \o <<poll, protect>> = <<cl, re, ready, poll, protect>>
    BY <1>4, ThreeAndPair
  <2>4. <<raise, halted>> \o <<poll, protect>> = <<raise, halted, poll, protect>>
    BY <1>4, PairAndPair
  <2> QED
    BY <2>1, <2>2, <2>3, <2>4
<1>7. raise = Op("raise", Board, {"config"})
  OBVIOUS
<1> HIDE DEF cl, re, ready, raise, halted, poll, protect
<1>8. ASSUME todo' = <<poll, protect>>, status' # "normal" => OnBoard /\ OnDevs,
             status' = "normal" => ~OnBoard
      PROVE  /\ todo' \in Seq(Ops) /\ Ordered' /\ Waiting' /\ Releasing' /\ Working' /\ Halting'
             /\ ~Has("ready")'
  <2>1. todo' \in Seq(Ops) /\ Len(todo') = 2 /\ DOMAIN todo' = {1, 2} /\ todo'[1] = poll
        /\ todo'[2] = protect
    BY <1>4, <1>8
  <2>2. ~Has("ready")' /\ ~Has("halted")'
    BY <1>5, <2>1 DEF Has
  <2>3. \A i \in DOMAIN todo' : Keeps(todo'[i]) /\ Spares(todo'[i])
    BY <1>5, <2>1 DEF Keeps, Spares
  <2>4. (OnBoard' <=> OnBoard) /\ (OnDevs' <=> OnDevs)
    BY <1>1 DEF OnBoard, OnDevs
  <2> QED
    BY <1>5, <1>8, <2>1, <2>2, <2>3, <2>4 DEF Ordered, Waiting, Releasing, Working, Halting
<1>9. ASSUME todo' = <<cl, re, ready, poll, protect>>, status' # "normal", OnDevs
      PROVE  /\ todo' \in Seq(Ops) /\ Ordered' /\ Waiting' /\ Releasing' /\ Working' /\ Halting'
  <2>1. todo' \in Seq(Ops) /\ Len(todo') = 5 /\ DOMAIN todo' = {1, 2, 3, 4, 5} /\ todo'[1] = cl
        /\ todo'[2] = re /\ todo'[3] = ready /\ todo'[4] = poll /\ todo'[5] = protect
    BY <1>4, <1>9
  <2>2. Has("ready")' /\ ~Has("halted")'
    BY <1>5, <2>1 DEF Has
  <2>3. OnDevs'
    BY <1>1, <1>9 DEF OnDevs
  <2>4. Releasing'
    BY <1>5, <1>9, <2>1, <2>2, <2>3 DEF Releasing, Spares
  <2>5. Ordered'
    BY <1>5, <2>1 DEF Ordered
  <2> QED
    BY <1>9, <2>1, <2>2, <2>4, <2>5 DEF Waiting, Working, Halting
<1>10. ASSUME todo' = <<raise, halted, poll, protect>>, status' = "normal", ~OnBoard
       PROVE  /\ todo' \in Seq(Ops) /\ Ordered' /\ Waiting' /\ Releasing' /\ Working' /\ Halting'
              /\ ~Has("ready")'
  <2>1. todo' \in Seq(Ops) /\ Len(todo') = 4 /\ DOMAIN todo' = {1, 2, 3, 4} /\ todo'[1] = raise
        /\ todo'[2] = halted /\ todo'[3] = poll /\ todo'[4] = protect
    BY <1>4, <1>10
  <2>2. Has("halted")' /\ ~Has("ready")'
    BY <1>5, <2>1 DEF Has
  <2>3. Telling'
    BY <1>1, <1>7, <1>10, <2>1 DEF Telling, OnBoard
  <2>4. Halting'
    BY <1>5, <1>10, <2>1, <2>3 DEF Halting, Keeps
  <2>5. Ordered'
    BY <1>5, <2>1 DEF Ordered
  <2> QED
    BY <1>10, <2>1, <2>2, <2>4, <2>5 DEF Waiting, Working, Releasing
<1>11. CASE \E done \in SUBSET startup : Startuped(done)
  <2>1. PICK done \in SUBSET startup : Startuped(done)
    BY <1>11
  <2>2. status = "startuped" /\ reconfig = FALSE /\ startup' \subseteq startup /\ reconfig' = reconfig
    BY <2>1 DEF Startuped, RunStartup, IInv, Configured
  <2>3. CASE startup' = {} /\ WaitConfig
    <3>1. status' = "configure" /\ command' = "configure" /\ todo' = <<poll, protect>>
      BY <1>6, <2>1, <2>3 DEF Startuped
    <3> QED
      BY <1>1, <1>3, <1>8, <2>2, <2>3, <3>1 DEF IInv, Typed, Configured, Statuses
  <2>4. CASE startup' = {} /\ ~WaitConfig
    <3>1. status' = status /\ command' = command /\ todo' = <<cl, re, ready, poll, protect>>
      BY <1>6, <2>1, <2>4 DEF Startuped
    <3> QED
      BY <1>1, <1>3, <1>9, <2>2, <2>4, <3>1 DEF IInv, Typed, Configured
  <2>5. CASE startup' # {}
    <3>1. status' = status /\ command' = command /\ todo' = <<poll, protect>>
      BY <1>6, <2>1, <2>5 DEF Startuped
    <3> QED
      BY <1>1, <1>3, <1>8, <2>2, <3>1 DEF IInv, Typed, Configured
  <2> QED
    BY <2>3, <2>4, <2>5
<1>12. CASE \E done \in SUBSET startup : Restart(done)
  <2>1. PICK done \in SUBSET startup : Restart(done)
    BY <1>12
  <2>2. status = "restart" /\ reconfig = FALSE /\ startup' \subseteq startup
        /\ UNCHANGED <<status, command, reconfig>>
    BY <2>1 DEF Restart, RunStartup, IInv, Configured
  <2>3. CASE startup' = {}
    <3>1. todo' = <<cl, re, ready, poll, protect>>
      BY <1>6, <2>1, <2>3 DEF Restart
    <3> QED
      BY <1>1, <1>3, <1>9, <2>2, <2>3, <3>1 DEF IInv, Typed, Configured
  <2>4. CASE startup' # {}
    <3>1. todo' = <<poll, protect>>
      BY <1>6, <2>1, <2>4 DEF Restart
    <3> QED
      BY <1>1, <1>3, <1>8, <2>2, <3>1 DEF IInv, Typed, Configured
  <2> QED
    BY <2>3, <2>4
<1>13. CASE Configure
  <2>1. status = "configure" /\ startup = {} /\ command' = command
    BY <1>13 DEF Configure, IInv, Configured
  <2>2. CASE command # "configure" /\ reconfig
    <3>1. reconfig' = FALSE /\ startup' = Startups /\ status' = "restart"
          /\ todo' = <<poll, protect>>
      BY <1>6, <1>13, <2>2 DEF Configure
    <3> QED
      BY <1>1, <1>3, <1>8, <2>1, <3>1 DEF IInv, Typed, Configured, Statuses
  <2>3. CASE command = "configure"
    <3>1. UNCHANGED <<reconfig, startup, status>> /\ todo' = <<poll, protect>>
      BY <1>6, <1>13, <2>3 DEF Configure
    <3> QED
      BY <1>1, <1>3, <1>8, <2>1, <3>1 DEF IInv, Typed, Configured
  <2>4. CASE command # "configure" /\ ~reconfig
    <3>1. UNCHANGED <<reconfig, startup, status>> /\ todo' = <<cl, re, ready, poll, protect>>
      BY <1>6, <1>13, <2>4 DEF Configure
    <3> QED
      BY <1>1, <1>3, <1>9, <2>1, <2>4, <3>1 DEF IInv, Typed, Configured
  <2> QED
    BY <2>2, <2>3, <2>4
<1>14. CASE Normal
  <2>1. status = "normal" /\ UNCHANGED <<status, command, reconfig, startup>>
    BY <1>14 DEF Normal, board
  <2>2. CASE command = "configure"
    <3>1. todo' = <<raise, halted, poll, protect>>
      BY <1>6, <1>14, <2>2 DEF Normal
    <3> QED
      BY <1>1, <1>3, <1>10, <2>1, <3>1 DEF IInv, Typed, Configured
  <2>3. CASE command # "configure"
    <3>1. todo' = <<poll, protect>>
      BY <1>6, <1>14, <2>3 DEF Normal
    <3> QED
      BY <1>1, <1>3, <1>8, <2>1, <3>1 DEF IInv, Typed, Configured
  <2> QED
    BY <2>2, <2>3
<1> QED
  BY <1>11, <1>12, <1>13, <1>14 DEF Switch

LEMMA FrontendInv == ASSUME IInv, Frontend PROVE IInv'
BY SwitchInv, ReadyInv, HaltedInv, RaiseInv, ClearInv, MaskOutInv, StoreInv, ReleaseDevsInv,
   PerformInv, PollInv, CalmInv, ExpireIsCalm, ExpireDevIsCalm, ProtectIsCalm DEF Frontend

-----------------------------------------------------------------------------
(* The backend *)

\* The interrupt leaves the config panic as it is, and with it the devices'.
LEMMA RaisedKeeps ==
  ASSUME NEW p, Words(p), NEW f \in Flags \ {"config"}
  PROVE  /\ Words(Raised(p, f))
         /\ "config" \in Raised(p, f)[Board] <=> "config" \in p[Board]
         /\ \A d \in Devs : "board" \in p[d] => "board" \in Raised(p, f)[d]
<1>1. \A t \in 0..N : t = Board \/ t \in Devs
  BY NAssumption DEF Devs, Board
<1>2. Devs \subseteq 0..N /\ Board \in 0..N /\ Board \notin Devs
  BY NAssumption DEF Devs, Board
<1>3. CASE f \in p[Board]
  BY <1>3 DEF Raised
<1>4. CASE f \notin p[Board]
  <2>1. Raised(p, f) = [t \in 0..N |-> p[t] \cup {IF t = Board THEN f ELSE "board"}]
    BY <1>4 DEF Raised
  <2>2. /\ Raised(p, f)[Board] = p[Board] \cup {f}
        /\ \A d \in Devs : Raised(p, f)[d] = p[d] \cup {"board"}
    BY <1>2, <2>1
  <2>3. \A t \in 0..N : p[t] \cup {IF t = Board THEN f ELSE "board"} \in SUBSET (Flags \cup Bits)
    BY DEF Words, Bits
  <2>4. Raised(p, f) \in [0..N -> SUBSET (Flags \cup Bits)]
    BY <2>1, <2>3
  <2>5. Words(Raised(p, f))
    BY <2>2, <2>4 DEF Words, Bits
  <2> QED
    BY <2>2, <2>5
<1> QED
  BY <1>3, <1>4

LEMMA ResetKeeps ==
  ASSUME NEW p, Words(p), NEW f \in Flags \ {"config"}
  PROVE  /\ Words(Reset(p, f))
         /\ "config" \in Reset(p, f)[Board] <=> "config" \in p[Board]
         /\ "config" \in p[Board] => \A d \in Devs : "board" \in p[d] => "board" \in Reset(p, f)[d]
<1>1. Devs \subseteq 0..N /\ Board \in 0..N /\ Board \notin Devs
  BY NAssumption DEF Devs, Board
<1> DEFINE left == p[Board] \ {f}
           new(t) == CASE t = Board -> left
                       [] t # Board /\ left = {} -> p[t] \ {"board"}
                       [] OTHER -> p[t]
<1>2. Reset(p, f) = [t \in 0..N |-> new(t)]
  BY DEF Reset
<1>3. \A t \in 0..N : new(t) \in SUBSET (Flags \cup Bits) /\ new(t) \subseteq p[t]
  BY DEF Words
<1>4. new(Board) = left /\ (left # {} => \A d \in Devs : new(d) = p[d])
  BY <1>1
<1> HIDE DEF new
<1> QED
  BY <1>1, <1>2, <1>3, <1>4 DEF Words

LEMMA BackendInv ==
  ASSUME IInv, UNCHANGED <<board, todo>>, Words(panic'),
         mode' \in [Devs -> ModeIds], action' \in [Devs -> Wanted \cup {"idle"}],
         OnBoard' <=> OnBoard,
         OnBoard => \A d \in Devs : "board" \in panic[d] => "board" \in panic'[d]
  PROVE  IInv'
<1>1. UNCHANGED <<status, command, reconfig, startup, todo>>
  BY DEF board
<1>2. OnBoard => (OnDevs => OnDevs') /\ \A d \in Devs : Told(d) => Told(d)'
  BY <1>1 DEF OnDevs, Told
<1>3. /\ Has("ready")' <=> Has("ready")
      /\ Has("halted")' <=> Has("halted")
  BY <1>1 DEF Has
<1>4. Typed' /\ Ordered' /\ Configured'
  BY <1>1, <1>3 DEF IInv, Typed, Ordered, Configured
<1>5. Waiting' /\ Releasing' /\ Working'
  BY <1>1, <1>2, <1>3 DEF IInv, Waiting, Releasing, Working
<1>6. Telling => Telling'
  BY <1>1, <1>2 DEF Telling
<1>7. Halting'
  BY <1>1, <1>3, <1>6 DEF IInv, Halting
<1> QED
  BY <1>4, <1>5, <1>7 DEF IInv

\* Stop() leaves the types alone.
LEMMA StopTyped ==
  ASSUME Typed, NEW S, Stop(S)
  PROVE  mode' \in [Devs -> ModeIds] /\ action' \in [Devs -> Wanted \cup {"idle"}]
BY DEF Typed, Stop, ModeIds

\* A handler of the interrupt raises and resets other flags than the config
\* panic; while that is there no reset is the last.
LEMMA RealtimeKeeps ==
  ASSUME Words(panic), NEW s \in Supplies, NEW over \in BOOLEAN, RealtimeProtection(s, over)
  PROVE  /\ Words(panic')
         /\ OnBoard' <=> OnBoard
         /\ OnBoard => \A d \in Devs : "board" \in panic[d] => "board" \in panic'[d]
<1> DEFINE p1 == IF s = "low" THEN Reset(panic, "over") ELSE panic
           p2 == IF s = "fine" THEN p1 ELSE Raised(p1, s)
           p3 == CASE s = "over" -> Reset(p2, "low")
                   [] s = "fine" -> Reset(Reset(p2, "over"), "low")
                   [] OTHER -> p2
           p4 == IF over THEN Raised(p3, "current") ELSE p3
           Kept(p) == /\ Words(p)
                      /\ "config" \in p[Board] <=> "config" \in panic[Board]
                      /\ "config" \in panic[Board] =>
                           \A d \in Devs : "board" \in panic[d] => "board" \in p[d]
<1>1. panic' = p4
  BY DEF RealtimeProtection
<1>2. s \in {"fine", "over", "low"}
  BY ReadingAssumption
<1>3. {"over", "low", "current"} \subseteq Flags \ {"config"}
  BY DEF Flags
<1>4. Kept(panic)
  OBVIOUS
<1>5. Kept(p1)
  BY <1>3, <1>4, ResetKeeps
<1> HIDE DEF p1
<1>6. Kept(p2)
  BY <1>2, <1>3, <1>5, RaisedKeeps
<1> HIDE DEF p2
<1>7. \A f \in {"over", "low"} : Kept(Reset(p2, f))
  BY <1>3, <1>6, ResetKeeps
<1>8. Kept(p3)
  <2>1. Kept(Reset(Reset(p2, "over"), "low"))
    <3> DEFINE q == Reset(p2, "over")
    <3>1. Kept(q)
      BY <1>7
    <3> HIDE DEF q
    <3>2. Kept(Reset(q, "low"))
      BY <1>3, <3>1, ResetKeeps
    <3> QED
      BY <3>2 DEF q
  <2> QED
    BY <1>2, <1>6, <1>7, <2>1
<1> HIDE DEF p3
<1>9. Kept(p4)
  BY <1>3, <1>8, RaisedKeeps
<1> HIDE DEF p4
<1> QED
  BY <1>1, <1>9 DEF OnBoard

LEMMA RealtimeInv ==
  ASSUME IInv, NEW s \in Supplies, NEW over \in BOOLEAN, RealtimeProtection(s, over)
  PROVE  IInv'
<1>1. UNCHANGED <<board, todo>> /\ \E S \in SUBSET Devs : Stop(S)
  BY DEF RealtimeProtection, Reached
<1>2. mode' \in [Devs -> ModeIds] /\ action' \in [Devs -> Wanted \cup {"idle"}]
  BY <1>1, StopTyped DEF IInv
<1> QED
  BY <1>1, <1>2, RealtimeKeeps, BackendInv DEF IInv, Typed

LEMMA FaultInv == ASSUME IInv, NEW d \in Devs, Fault(d) PROVE IInv'
<1>1. /\ panic' = [panic EXCEPT ![d] = @ \cup {"fault"}] /\ Stop({d})
      /\ UNCHANGED <<board, todo>>
  BY DEF Fault
<1>2. Words(panic) /\ d \in 0..N /\ d # Board
  BY NAssumption DEF IInv, Typed, Devs, Board
<1>3. Words(panic') /\ panic'[Board] = panic[Board]
      /\ \A e \in Devs : "board" \in panic[e] => "board" \in panic'[e]
  BY <1>1, <1>2, NAssumption DEF Words, Devs, Board, Bits
<1> QED
  BY <1>1, <1>3, StopTyped, BackendInv DEF IInv, OnBoard

LEMMA LoopAInv == ASSUME IInv, NEW d \in Devs, LoopA(d) PROVE IInv'
<1>1. UNCHANGED <<board, todo, panic>>
  BY DEF LoopA
<1>2. mode' \in [Devs -> ModeIds] /\ action' \in [Devs -> Wanted \cup {"idle"}]
  <2>1. CASE Stop({d})
    BY <2>1, StopTyped DEF IInv
  <2>2. CASE ~Stop({d})
    BY <2>2 DEF LoopA, IInv, Typed, ModeIds
  <2> QED
    BY <2>1, <2>2
<1> QED
  BY <1>1, <1>2, BackendInv DEF IInv, Typed, OnBoard

LEMMA CommandInv == ASSUME IInv, NEW d \in Devs, NEW m \in Wanted, Command(d, m) PROVE IInv'
<1>1. UNCHANGED <<board, todo, panic, mode>> /\ action' \in [Devs -> Wanted \cup {"idle"}]
  BY DEF Command, IInv, Typed
<1> QED
  BY <1>1, BackendInv DEF IInv, Typed, OnBoard

-----------------------------------------------------------------------------
(* The theorems *)

LEMMA InitInv == ASSUME Init PROVE IInv
<1>1. Devs \subseteq 0..N /\ Board \in 0..N /\ Board \notin Devs
  BY NAssumption DEF Devs, Board
<1>2. /\ panic[Board] = {"config"} /\ \A d \in Devs : panic[d] = {"board"}
      /\ panic \in [0..N -> SUBSET (Flags \cup Bits)]
  <2>1. panic = [t \in 0..N |-> IF t = Board THEN {"config"} ELSE {"board"}]
    BY DEF Init
  <2>2. \A t \in 0..N :
          (IF t = Board THEN {"config"} ELSE {"board"}) \in SUBSET (Flags \cup Bits)
    BY DEF Flags, Bits
  <2> QED
    BY <1>1, <2>1, <2>2
<1>3. Words(panic) /\ OnBoard /\ OnDevs
  BY <1>2 DEF Words, Flags, Bits, OnBoard, OnDevs
<1>4. ~Has("ready") /\ ~Has("halted") /\ DOMAIN todo = {} /\ todo \in Seq(Ops)
  BY DEF Init, Has
<1> QED
  BY <1>3, <1>4 DEF Init, IInv, Typed, Statuses, ModeIds, Ordered, Waiting, Releasing,
     Working, Halting, Configured

LEMMA NextInv == ASSUME IInv, [Next]_vars PROVE IInv'
<1>1. CASE Backend
  <2>1. CASE Protection
    BY <2>1, RealtimeInv, ReadingAssumption DEF Protection
  <2>2. CASE \E d \in Devs : Fault(d) \/ LoopA(d)
    BY <2>2, FaultInv, LoopAInv
  <2>3. CASE \E d \in Devs, m \in Wanted : Command(d, m)
    BY <2>3, CommandInv
  <2> QED
    BY <1>1, <2>1, <2>2, <2>3 DEF Backend
<1>2. CASE UNCHANGED vars
  BY <1>2, BackendInv DEF vars, board, IInv, Typed, OnBoard
<1> QED
  BY <1>1, <1>2, FrontendInv DEF Next

\* The invariant holds for any number of devices and startup delegates
\* (board::frontend_loop and backend_loop, burst++/burst.cpp).
THEOREM Inductive == Spec => []IInv
<1> QED
  BY InitInv, NextInv, PTL DEF Spec

\* The types of the board and of what its main loop has still to do.
THEOREM TypeCorrect == Spec => []TypeOK
<1> QED
  BY Inductive, TypedIsTypeOK, PTL DEF IInv

\* A board that waits for its startup or its configuration holds its devices
\* between two passes, whatever the interrupt did to the panic words.
THEOREM ConfigIsHeld == Spec => []ConfigHeld
<1>1. IInv => ConfigHeld
  <2> SUFFICES ASSUME IInv, todo = <<>>, status # "normal"
               PROVE  OnBoard /\ OnDevs
    BY DEF ConfigHeld, OnBoard, OnDevs
  <2>1. ~Has("ready")
    BY DEF Has
  <2> QED
    BY <2>1 DEF IInv, Waiting
<1> QED
  BY <1>1, Inductive, PTL

\* The normal work of a board follows the end of its startup slot.
THEOREM WorksConfigured == Spec => []ReadyIsConfigured
<1>1. IInv => ReadyIsConfigured
  BY DEF IInv, Configured, ReadyIsConfigured
<1> QED
  BY <1>1, Inductive, PTL

\* Only the access of ready_() takes the config panic away.
LEMMA KeptStep ==
  ASSUME IInv, [Next]_vars, OnBoard, ~OnBoard'
  PROVE  status # "normal" /\ startup = {} /\ ~reconfig
<1>1. ASSUME NEW s \in Supplies, NEW over \in BOOLEAN, RealtimeProtection(s, over)
      PROVE  FALSE
  BY <1>1, RealtimeKeeps DEF IInv, Typed
<1>2. CASE Store
  <2>1. /\ todo # <<>> /\ todo[1].do = "store" /\ Here = todo[1].at /\ Mask = todo[1].bits
        /\ 1 \in DOMAIN todo /\ Here \in 0..N
    BY <1>2, AtHand DEF Store, Dos
  <2>2. panic' = [panic EXCEPT ![Here] = Mask]
    BY <1>2 DEF Store
  <2>3. Here = Board /\ "config" \notin Mask
    BY <2>1, <2>2 DEF OnBoard, IInv, Typed, Words
  <2>4. ~Keeps(todo[1])
    BY <2>1, <2>3 DEF Keeps
  <2>5. Has("ready")
    BY <2>1, <2>4 DEF IInv, Waiting, Working, Halting
  <2> QED
    BY <2>5 DEF IInv, Releasing, Configured
<1>3. ASSUME panic'[Board] = panic[Board] PROVE FALSE
  BY <1>3 DEF OnBoard
<1>4. CASE Frontend /\ ~Store
  <2>1. panic' = panic
    BY <1>4 DEF Frontend, Switch, Ready, Halted, Raise, Clear, MaskOut, ReleaseDevs, Perform,
       Poll, Expire, ExpireDev, Protect
  <2> QED
    BY <1>3, <2>1
<1>5. CASE Backend
  <2>1. CASE Protection
    BY <1>1, <2>1, ReadingAssumption DEF Protection, IInv, Typed
  <2>2. CASE \E d \in Devs : Fault(d) \/ LoopA(d)
    <3>1. PICK d \in Devs : Fault(d) \/ LoopA(d)
      BY <2>2
    <3>2. d # Board
      BY NAssumption DEF Devs, Board
    <3>3. panic'[Board] = panic[Board]
      <4>1. CASE Fault(d)
        BY <3>2, <4>1 DEF Fault, IInv, Typed, Words
      <4>2. CASE LoopA(d)
        BY <4>2 DEF LoopA
      <4> QED
        BY <3>1, <4>1, <4>2
    <3> QED
      BY <1>3, <3>3
  <2>3. CASE \E d \in Devs, m \in Wanted : Command(d, m)
    BY <1>3, <2>3 DEF Command
  <2> QED
    BY <1>5, <2>1, <2>2, <2>3 DEF Backend
<1>6. CASE UNCHANGED vars
  BY <1>3, <1>6 DEF vars
<1> QED
  BY <1>2, <1>4, <1>5, <1>6 DEF Next

\* The config panic goes away only after the startup slot.
THEOREM ConfigIsKept == Spec => ConfigKept
<1>1. IInv /\ [Next]_vars
        => [ "config" \in panic[Board] /\ "config" \notin panic'[Board]
               => status # "normal" /\ startup = {} /\ ~reconfig]_vars
  BY KeptStep DEF OnBoard
<1> QED
  BY <1>1, Inductive, PTL DEF Spec, ConfigKept

\* No device leaves idle while the board waits: dev::loopA() looks at the words
\* in an interrupt that may come in the middle of any change of them.
LEMMA StartsStep ==
  ASSUME IInv, [Next]_vars, NEW d \in Devs, mode[d] = "idle", mode'[d] # "idle"
  PROVE  status = "normal" \/ ~OnBoard
<1>1. mode \in [Devs -> ModeIds]
  BY DEF IInv, Typed
<1>2. \E e \in Devs : LoopA(e) /\ ~Stop({e})
  <2>1. ASSUME NEW S, Stop(S) PROVE FALSE
    BY <1>1, <2>1 DEF Stop
  <2>2. mode' # mode
    OBVIOUS
  <2>3. CASE Frontend
    BY <2>2, <2>3 DEF Frontend, Switch, Ready, Halted, Raise, Clear, MaskOut, Store,
       ReleaseDevs, Perform, Poll, Expire, ExpireDev, Protect
  <2>4. CASE Backend
    BY <2>1, <2>2, <2>4 DEF Backend, Protection, RealtimeProtection, Fault, Command
  <2> QED
    BY <2>2, <2>3, <2>4 DEF Next, vars
<1>3. PICK e \in Devs : LoopA(e) /\ ~Stop({e})
  BY <1>2
<1>4. e = d /\ panic[d] = {}
  BY <1>1, <1>3 DEF LoopA, Held
<1>5. ~OnDevs
  BY <1>4 DEF OnDevs
<1> QED
  BY <1>5 DEF IInv, Waiting, Releasing

\* See StartsStep.
THEOREM StartsWhenReleased == Spec => StartsReleased
<1>1. IInv /\ [Next]_vars
        => [\A d \in Devs : mode[d] = "idle" /\ mode'[d] # "idle"
              => status = "normal" \/ "config" \notin panic[Board]]_vars
  BY StartsStep DEF OnBoard
<1> QED
  BY <1>1, Inductive, PTL DEF Spec, StartsReleased
-----------------------------------------------------------------------------
(* A device with a fault of its own *)

\* A word to be written is the next access, and no fault comes with it that the
\* device does not have at the moment: faults are added by the backend alone and
\* taken away by the main loop alone.
FaultStored ==
  \A i \in DOMAIN todo : todo[i].do = "store" =>
    i = 1 /\ ("fault" \in todo[i].bits => "fault" \in panic[todo[i].at])

\* An access that makes room for no word, or for one read from the panics.
LEMMA StoresFirst ==
  ASSUME IInv, FaultStored, todo # <<>>, NEW more \in Seq(Ops),
         todo' = more \o Tail(todo),
         \A k \in DOMAIN more :
           /\ more[k].do \notin {"protect", "poll", "ready", "halted"}
           /\ more[k].do = "store" =>
                k = 1 /\ ("fault" \in more[k].bits => "fault" \in panic'[more[k].at])
  PROVE  FaultStored'
<1>1. \A i \in DOMAIN todo' :
        \/ \E k \in DOMAIN more : i = k /\ todo'[i] = more[k]
        \/ \E j \in DOMAIN todo : j # 1 /\ i = j - 1 + Len(more) /\ todo'[i] = todo[j]
  BY Advance DEF IInv
<1>2. \A j \in DOMAIN todo : j # 1 => todo[j].do # "store"
  BY DEF FaultStored
<1> QED
  BY <1>1, <1>2 DEF FaultStored

\* A word that was read keeps or loses the fault it had.
LEMMA RaiseStores == ASSUME IInv, FaultStored, Raise PROVE FaultStored'
<1>1. /\ todo # <<>> /\ todo[1].do = "raise" /\ Here = todo[1].at /\ Mask = todo[1].bits
      /\ todo[1] \in Ops /\ Here \in 0..N
      /\ Mask \subseteq (IF Here = Board THEN Flags ELSE Bits)
      /\ panic[Here] \subseteq (IF Here = Board THEN Flags ELSE Bits)
  BY AtHand DEF Raise, Dos
<1>2. "fault" \notin Mask
  BY <1>1, OpsAre
<1> DEFINE o == Op("store", Here, panic[Here] \cup Mask)
           p == Op("perform", Here, {})
           tell == IF Here = Board THEN EachDev("raise", {"board"}) ELSE <<p>>
           more == IF Mask \subseteq panic[Here] THEN <<>> ELSE <<o>> \o tell
<1>3. o \in Ops /\ o.do = "store" /\ o.at = Here /\ o.bits = panic[Here] \cup Mask
  BY <1>1, StoreOp
<1>4. tell \in Seq(Ops) /\ \A k \in DOMAIN tell : tell[k].do \in {"raise", "perform"}
  <2>1. CASE Here = Board
    <3>1. /\ tell \in Seq(Ops) /\ DOMAIN tell = Devs
          /\ \A d \in Devs : tell[d] = Op("raise", d, {"board"})
      BY <2>1, EachDevIs
    <3> HIDE DEF tell
    <3> QED
      BY <3>1 DEF Op
  <2>2. CASE Here # Board
    <3>1. p \in Ops /\ p.do = "perform"
      BY <1>1, <2>2 DEF Op, Ops, Dos
    <3> HIDE DEF p
    <3> QED
      BY <2>2, <3>1, OneIs
  <2> QED
    BY <2>1, <2>2
<1>5. todo' = more \o Tail(todo) /\ UNCHANGED panic
  BY DEF Raise, Then
<1> HIDE DEF o, p, tell
<1>6. /\ more \in Seq(Ops)
      /\ \A k \in DOMAIN more :
           (k = 1 /\ more[k] = o) \/ more[k].do \in {"raise", "perform"}
  <2>1. CASE Mask \subseteq panic[Here]
    BY <2>1
  <2>2. CASE ~(Mask \subseteq panic[Here])
    <3>1. more = <<o>> \o tell
      BY <2>2
    <3>2. <<o>> \in Seq(Ops) /\ Len(<<o>>) = 1 /\ tell \in Seq(Ops) /\ Len(tell) \in Nat
          /\ DOMAIN tell = 1..Len(tell)
      BY <1>3, <1>4, OneIs
    <3>3. /\ more \in Seq(Ops) /\ DOMAIN more = 1..1 + Len(tell) /\ more[1] = o
          /\ \A k \in 2..1 + Len(tell) : more[k] = tell[k - 1]
      <4> DEFINE s == <<o>>
      <4>1. s \in Seq(Ops) /\ Len(s) = 1 /\ s[1] = o
        BY <3>2
      <4> HIDE DEF s
      <4>2. /\ s \o tell \in Seq(Ops) /\ Len(s \o tell) = 1 + Len(tell)
            /\ \A k \in 1..1 + Len(tell) :
                 (s \o tell)[k] = IF k <= 1 THEN s[k] ELSE tell[k - 1]
        <5>1. /\ s \o tell \in Seq(Ops) /\ Len(s \o tell) = Len(s) + Len(tell)
              /\ \A k \in 1..Len(s) + Len(tell) :
                   (s \o tell)[k] = IF k <= Len(s) THEN s[k] ELSE tell[k - Len(s)]
          BY <3>2, <4>1, ConcatProperties
        <5> QED
          BY <4>1, <5>1
      <4>3. more = s \o tell
        BY <3>1 DEF s
      <4> HIDE DEF more
      <4> QED
        BY <3>2, <4>1, <4>2, <4>3
    <3> HIDE DEF more
    <3> QED
      BY <1>4, <3>2, <3>3
  <2> QED
    BY <2>1, <2>2
<1> HIDE DEF more
<1>7. \A k \in DOMAIN more :
        /\ more[k].do \notin {"protect", "poll", "ready", "halted"}
        /\ more[k].do = "store" =>
             k = 1 /\ ("fault" \in more[k].bits => "fault" \in panic'[more[k].at])
  BY <1>2, <1>3, <1>5, <1>6
<1> QED
  BY <1>1, <1>5, <1>6, <1>7, StoresFirst

LEMMA MaskStores == ASSUME IInv, FaultStored, Clear \/ MaskOut PROVE FaultStored'
<1>1. /\ todo # <<>> /\ Here \in 0..N
      /\ panic[Here] \subseteq (IF Here = Board THEN Flags ELSE Bits)
  BY AtHand DEF Clear, MaskOut, Dos
<1> DEFINE o == Op("store", Here, panic[Here] \ Mask)
<1>2. o \in Ops /\ o.do = "store" /\ o.at = Here /\ o.bits = panic[Here] \ Mask
  BY <1>1, StoreOp
<1>3. UNCHANGED panic
  BY DEF Clear, MaskOut
<1>4. \E more \in {<<>>, <<o>>} : todo' = more \o Tail(todo)
  BY DEF Clear, MaskOut, Then
<1> HIDE DEF o
<1>5. PICK more \in {<<>>, <<o>>} : todo' = more \o Tail(todo)
  BY <1>4
<1>6. more \in Seq(Ops) /\ \A k \in DOMAIN more : k = 1 /\ more[k] = o
  <2>1. CASE more = <<>>
    BY <2>1
  <2>2. CASE more = <<o>>
    BY <1>2, <2>2, OneIs
  <2> QED
    BY <1>5, <2>1, <2>2
<1> QED
  BY <1>1, <1>2, <1>3, <1>5, <1>6, StoresFirst

\* The other accesses make room for no word.
LEMMA OthersStore ==
  ASSUME IInv, FaultStored,
         Ready \/ Halted \/ Perform \/ Poll \/ Store \/ ReleaseDevs \/ CalmStep
  PROVE  FaultStored'
<1>1. todo # <<>>
  BY DEF Ready, Halted, Perform, Poll, Store, ReleaseDevs, CalmStep, Does
<1>2. \E more \in Seq(Ops) :
        /\ todo' = more \o Tail(todo)
        /\ \A k \in DOMAIN more :
             more[k].do \notin {"store", "protect", "poll", "ready", "halted"}
  <2>1. CASE Ready \/ Halted \/ Perform \/ Poll \/ Store
    <3> DEFINE none == <<>>
    <3>1. none \in Seq(Ops) /\ DOMAIN none = {} /\ todo' = none \o Tail(todo)
      BY <2>1 DEF Ready, Halted, Perform, Poll, Store, Then
    <3> QED
      BY <3>1
  <2>2. CASE ReleaseDevs
    <3> DEFINE masks == EachDev("mask", {"board"})
               none == <<>>
    <3>1. /\ masks \in Seq(Ops) /\ DOMAIN masks = Devs
          /\ \A d \in Devs : masks[d] = Op("mask", d, {"board"})
      BY EachDevIs
    <3>2. none \in Seq(Ops) /\ DOMAIN none = {}
      OBVIOUS
    <3>3. todo' = masks \o Tail(todo) \/ todo' = none \o Tail(todo)
      BY <2>2 DEF ReleaseDevs, Then
    <3> HIDE DEF masks, none
    <3>4. \A d \in DOMAIN masks : masks[d].do = "mask"
      BY <3>1 DEF Op
    <3> QED
      BY <3>1, <3>2, <3>3, <3>4
  <2>3. CASE CalmStep
    <3>1. PICK more \in Seq(CalmOps) : todo' = more \o Tail(todo)
      BY <2>3 DEF CalmStep
    <3>2. more \in Seq(Ops) /\ \A k \in DOMAIN more : more[k] \in CalmOps
      BY DEF CalmOps
    <3>3. \A k \in DOMAIN more :
            more[k].do \notin {"store", "protect", "poll", "ready", "halted"}
      BY <3>2 DEF CalmOps
    <3> QED
      BY <3>1, <3>2, <3>3
  <2> QED
    BY <2>1, <2>2, <2>3
<1> QED
  BY <1>1, <1>2, StoresFirst

\* Nor does the begin of a pass.
LEMMA SwitchStores == ASSUME Switch PROVE FaultStored'
<1> DEFINE Plain == {o \in Ops : o.do # "store"}
<1>1. /\ Op("clear", Board, {"config"}) \in Plain /\ Op("raise", Board, {"config"}) \in Plain
      /\ \A do \in Dos : do \in {"release", "ready", "halted", "poll", "protect"} =>
           Step(do) \in Plain
  BY NAssumption DEF Step, Op, Ops, Dos, Flags, Bits, Board
<1>2. /\ Step("release") \in Plain /\ Step("ready") \in Plain /\ Step("halted") \in Plain
      /\ Step("poll") \in Plain /\ Step("protect") \in Plain
  BY <1>1 DEF Dos
<1> HIDE DEF Plain
<1>3. /\ Rest \in Seq(Plain) /\ Release \o Rest \in Seq(Plain)
      /\ <<Op("raise", Board, {"config"}), Step("halted")>> \o Rest \in Seq(Plain)
  BY <1>1, <1>2 DEF Rest, Release, ResetBoard
<1>4. todo' \in Seq(Plain)
  <2>1. \/ todo' = Rest
        \/ todo' = Release \o Rest
        \/ todo' = <<Op("raise", Board, {"config"}), Step("halted")>> \o Rest
    BY DEF Switch, Startuped, Restart, Configure, Normal
  <2> QED
    BY <1>3, <2>1
<1>5. \A i \in DOMAIN todo' : todo'[i] \in Plain
  BY <1>4
<1> QED
  BY <1>5 DEF FaultStored, Plain

\* The panics of the board leave the faults alone.
LEMMA RealtimeFaults ==
  ASSUME NEW s \in Supplies, NEW over \in BOOLEAN, RealtimeProtection(s, over), NEW d \in Devs
  PROVE  "fault" \in panic'[d] <=> "fault" \in panic[d]
<1> DEFINE Same(p) == "fault" \in p[d] <=> "fault" \in panic[d]
<1>1. d \in 0..N /\ d # Board
  BY NAssumption DEF Devs, Board
<1>2. ASSUME NEW p, NEW f, Same(p) PROVE Same(Raised(p, f)) /\ Same(Reset(p, f))
  <2>1. Raised(p, f)[d] = p[d] \/ Raised(p, f)[d] = p[d] \cup {"board"}
    BY <1>1 DEF Raised
  <2>2. Reset(p, f)[d] = p[d] \/ Reset(p, f)[d] = p[d] \ {"board"}
    BY <1>1 DEF Reset
  <2> QED
    BY <1>2, <2>1, <2>2
<1> DEFINE p1 == IF s = "low" THEN Reset(panic, "over") ELSE panic
           p2 == IF s = "fine" THEN p1 ELSE Raised(p1, s)
           p3 == CASE s = "over" -> Reset(p2, "low")
                   [] s = "fine" -> Reset(Reset(p2, "over"), "low")
                   [] OTHER -> p2
           p4 == IF over THEN Raised(p3, "current") ELSE p3
<1>3. panic' = p4
  BY DEF RealtimeProtection
<1> HIDE DEF Same
<1>4. Same(panic)
  BY DEF Same
<1>5. Same(p1)
  BY <1>2, <1>4
<1> HIDE DEF p1
<1>6. Same(p2)
  BY <1>2, <1>5
<1> HIDE DEF p2
<1>7. Same(Reset(p2, "low")) /\ Same(Reset(Reset(p2, "over"), "low"))
  BY <1>2, <1>6
<1>8. Same(p3)
  BY <1>6, <1>7
<1> HIDE DEF p3
<1>9. Same(p4)
  BY <1>2, <1>8
<1> QED
  BY <1>3, <1>9 DEF Same

\* Stop() only takes devices to idle.
LEMMA StopIdles ==
  ASSUME Typed, NEW S, Stop(S), NEW d \in Devs
  PROVE  /\ mode[d] = "idle" => mode'[d] = "idle"
         /\ d \in S => mode'[d] = "idle"
BY DEF Typed, Stop

LEMMA FaultStep ==
  ASSUME IInv, FaultStored, FaultHolds, [Next]_vars
  PROVE  FaultStored' /\ FaultHolds'
<1>1. IInv /\ FaultStored /\ FaultHolds /\ Typed /\ DOMAIN panic = 0..N
  BY DEF IInv, Typed, Words
<1>2. CASE UNCHANGED <<panic, mode, todo>>
  BY <1>1, <1>2 DEF FaultStored, FaultHolds
<1>3. CASE Frontend
  <2>1. FaultStored'
    BY <1>1, <1>3, SwitchStores, RaiseStores, MaskStores, OthersStore,
       ExpireIsCalm, ExpireDevIsCalm, ProtectIsCalm DEF Frontend
  <2>2. FaultHolds'
    <3>1. CASE Store
      <4>1. /\ 1 \in DOMAIN todo /\ todo[1].do = "store" /\ Here = todo[1].at
            /\ Mask = todo[1].bits
        BY <1>1, <3>1, AtHand DEF Store, Dos
      <4>2. panic' = [panic EXCEPT ![Here] = Mask] /\ UNCHANGED mode
        BY <3>1 DEF Store
      <4>3. "fault" \in Mask => "fault" \in panic[Here]
        BY <1>1, <4>1 DEF FaultStored
      <4>4. \A d \in Devs : "fault" \in panic'[d] => "fault" \in panic[d]
        BY <1>1, <4>2, <4>3
      <4> QED
        BY <1>1, <4>2, <4>4 DEF FaultHolds
    <3>2. CASE ~Store
      <4>1. UNCHANGED <<panic, mode>>
        BY <1>3, <3>2 DEF Frontend, Switch, Ready, Halted, Raise, Clear, MaskOut, ReleaseDevs,
           Perform, Poll, Expire, ExpireDev, Protect
      <4> QED
        BY <1>1, <4>1 DEF FaultHolds
    <3> QED
      BY <3>1, <3>2
  <2> QED
    BY <2>1, <2>2
<1>4. CASE Protection
  <2>1. PICK s \in Supplies, over \in BOOLEAN : RealtimeProtection(s, over)
    BY <1>4, ReadingAssumption DEF Protection
  <2>2. UNCHANGED todo /\ \E S : Stop(S)
    BY <2>1 DEF RealtimeProtection
  <2>3. \A d \in Devs : mode[d] = "idle" => mode'[d] = "idle"
    BY <1>1, <2>2, StopIdles
  <2>4. \A d \in Devs : "fault" \in panic'[d] <=> "fault" \in panic[d]
    BY <2>1, RealtimeFaults
  <2>5. FaultHolds'
    BY <1>1, <2>3, <2>4 DEF FaultHolds
  <2>6. FaultStored'
    <3>1. \A i \in DOMAIN todo : todo[i].at \in 0..N /\ (todo[i].at = Board => "fault" \notin todo[i].bits)
      <4>1. \A i \in DOMAIN todo : todo[i] \in Ops
        BY <1>1 DEF Typed
      <4> QED
        BY <4>1, OpsAre DEF Flags
    <3>2. \A i \in DOMAIN todo : todo[i].at \in Devs \/ todo[i].at = Board
      BY <3>1 DEF Devs, Board
    <3> QED
      BY <1>1, <2>2, <2>4, <3>1, <3>2 DEF FaultStored
  <2> QED
    BY <2>5, <2>6
<1>5. ASSUME NEW d \in Devs, Fault(d) PROVE FaultStored' /\ FaultHolds'
  <2>1. panic' = [panic EXCEPT ![d] = @ \cup {"fault"}] /\ Stop({d}) /\ UNCHANGED todo
    BY <1>5 DEF Fault
  <2>2. \A e \in Devs : (mode[e] = "idle" => mode'[e] = "idle") /\ (e = d => mode'[e] = "idle")
    BY <1>1, <2>1, StopIdles
  <2>3. d \in DOMAIN panic
    BY <1>1, NAssumption DEF Devs
  <2>4. /\ \A e \in Devs : e # d => panic'[e] = panic[e]
        /\ \A e : "fault" \in panic[e] => "fault" \in panic'[e]
    BY <2>1, <2>3
  <2> QED
    BY <1>1, <2>1, <2>2, <2>4 DEF FaultStored, FaultHolds
<1>6. ASSUME NEW d \in Devs, LoopA(d) PROVE FaultStored' /\ FaultHolds'
  <2>1. UNCHANGED <<panic, todo>>
    BY <1>6 DEF LoopA
  <2>2. \A e \in Devs : "fault" \in panic[e] /\ mode[e] = "idle" => mode'[e] = "idle"
    <3>1. CASE Stop({d})
      BY <1>1, <3>1, StopIdles
    <3>2. CASE panic[d] = {} /\ \E m : mode' = [mode EXCEPT ![d] = m]
      BY <1>1, <3>2 DEF Typed
    <3> QED
      BY <1>6, <3>1, <3>2 DEF LoopA, Held
  <2> QED
    BY <1>1, <2>1, <2>2 DEF FaultStored, FaultHolds
<1> QED
  BY <1>2, <1>3, <1>4, <1>5, <1>6 DEF Next, Backend, Command, vars

\* A device whose own fault stands is idle (dev::raise_panic and dev::loopA,
\* burst++/burst.cpp), wherever the interrupt falls between two accesses of the
\* main loop to the panic words.
THEOREM FaultsHold == Spec => []FaultHolds
<1>1. Init => FaultStored /\ FaultHolds
  BY DEF Init, FaultStored, FaultHolds
<1>2. IInv /\ FaultStored /\ FaultHolds /\ [Next]_vars => FaultStored' /\ FaultHolds'
  BY FaultStep
<1> QED
  BY <1>1, <1>2, Inductive, PTL DEF Spec
=============================================================================
