------------------------------ MODULE SafeRing ------------------------------
(***************************************************************************)
(* The ring buffer safe_ring_t of core/robosd_ring_safe_buf.hpp.  Two      *)
(* counters of machine words only grow; an index is a counter's low bits,  *)
(* and the fill level is the low bits, one more, of their difference.      *)
(* Every public method holds the guard, so it is one step.  ring_t and     *)
(* ring (core, net) share this arithmetic.                                 *)
(***************************************************************************)
EXTENDS Integers, Sequences, FiniteSetsExt

CONSTANTS
  Values,
  Garbage,    \* what the memory held before
  Size,       \* SIZE, a power of two: the masks are remainders
  Word,       \* the numbers a size_t holds, a power of two above 2 * Size
  MaxBlock,   \* bound: the longest block written or read at once
  TryPutFull  \* try_put() is called on a full ring, too

ASSUME RingAssumption ==
  /\ Size \in Nat \ {0} /\ Word \in Nat \ {0} /\ Word % (2 * Size) = 0
  /\ Garbage \notin Values /\ MaxBlock \in Nat
  /\ TryPutFull \in BOOLEAN

Blocks == UNION {[1..n -> Values] : n \in 0..MaxBlock}

VARIABLES
  data,        \* _data
  readCount,   \* _readCount
  writeCount,  \* _writeCount
  out          \* what the last get() or try_get() returned

vars == <<data, readCount, writeCount, out>>

TypeOK ==
  /\ data \in [0..Size - 1 -> Values \cup {Garbage}]
  /\ readCount \in 0..Word - 1 /\ writeCount \in 0..Word - 1
  /\ out \in Seq(Values \cup {Garbage})

\* clear_()
Init ==
  /\ data = [i \in 0..Size - 1 |-> Garbage]
  /\ readCount = 0 /\ writeCount = 0
  /\ out = <<>>

-----------------------------------------------------------------------------

Slot(count) == count % Size

\* Mutant: the difference is cut to the bits of an index.
CountOfIndexBits == ((writeCount - readCount) % Word) % Size

\* The fill level.
Count == ((writeCount - readCount) % Word) % (2 * Size)

Available == Count # 0

\* Unsigned: a ring filled beyond its size has room for a whole word.
Space == (Size - Count) % Word

\* The memory after the values of a block were written one by one.
Filled(block) ==
  [i \in DOMAIN data |->
     LET here == {k \in DOMAIN block : Slot(writeCount + k - 1) = i} IN
     IF here = {} THEN data[i] ELSE block[Max(here)]]

\* The n values a reader finds.
Found(n) == [k \in 1..n |-> data[Slot(readCount + k - 1)]]

\* put(): the whole block or nothing.
Put(block) ==
  /\ Len(block) <= Space
  /\ data' = Filled(block)
  /\ writeCount' = (writeCount + Len(block)) % Word
  /\ UNCHANGED <<readCount, out>>

\* get(): at most n values.
Get(n) ==
  LET got == IF n < Count THEN n ELSE Count IN
  /\ out' = Found(got)
  /\ readCount' = (readCount + got) % Word
  /\ UNCHANGED <<data, writeCount>>

\* try_put(): its guard, space_() >= 0, holds of every unsigned number.
TryPut(v) ==
  /\ Space > 0 \/ TryPutFull
  /\ Space >= 0
  /\ data' = Filled(<<v>>)
  /\ writeCount' = (writeCount + 1) % Word
  /\ UNCHANGED <<readCount, out>>

TryGet ==
  /\ Available
  /\ out' = Found(1)
  /\ readCount' = (readCount + 1) % Word
  /\ UNCHANGED <<data, writeCount>>

Next ==
  \/ \E block \in Blocks : Put(block)
  \/ \E n \in 0..MaxBlock : Get(n)
  \/ \E v \in Values : TryPut(v)
  \/ TryGet

Spec == Init /\ [][Next]_vars

-----------------------------------------------------------------------------
(* Properties. *)

Fifo == INSTANCE BoundedFifo WITH queue <- Found(Count), taken <- out

\* The ring is a bounded queue: nothing is lost, doubled or reordered, also
\* when the counters wrap around, and no reader sees memory never written.
IsFifo == Fifo!Spec

=============================================================================
