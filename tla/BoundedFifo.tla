----------------------------- MODULE BoundedFifo -----------------------------
(* What the ring buffers of core/ promise: a queue of at most Size values,   *)
(* blocks that enter whole or not at all, values that leave once, in order.  *)
EXTENDS Naturals, Sequences

CONSTANTS Values, Size

VARIABLES
  queue,   \* the values put and not yet taken
  taken    \* what the last reader got

vars == <<queue, taken>>

Init == queue = <<>> /\ taken = <<>>

Put(block) ==
  /\ Len(queue) + Len(block) <= Size
  /\ queue' = queue \o block
  /\ UNCHANGED taken

Take(n) ==
  /\ n <= Len(queue)
  /\ taken' = SubSeq(queue, 1, n)
  /\ queue' = SubSeq(queue, n + 1, Len(queue))

\* A block of any length that could fit enters; the reader gets what is there.
Next ==
  \/ \E n \in 0..Size : \E block \in [1..n -> Values] : Put(block)
  \/ \E n \in 0..Size : Take(n)

Spec == Init /\ [][Next]_vars
=============================================================================
