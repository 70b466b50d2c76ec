--------------------------- MODULE SafeRing_proofs ---------------------------
(***************************************************************************)
(* SafeRing implements BoundedFifo for every size and every word, as long  *)
(* as try_put() is not called on a full ring.  Nothing of it rests on the  *)
(* counters being small: they are equal modulo the word to positions that  *)
(* only grow, and a window of Size positions has Size different slots.     *)
(***************************************************************************)
EXTENDS SafeRing, TLAPS

-----------------------------------------------------------------------------
(* Remainders *)

\* A number is its quotient and its remainder.
LEMMA DivMod ==
  ASSUME NEW n \in Nat \ {0}, NEW a \in Int
  PROVE  /\ a % n \in 0..n - 1 /\ a \div n \in Int
         /\ a = n * (a \div n) + (a % n)
BY SMT

\* A multiple of n is 0 or at least n away from it.
LEMMA MultipleGap ==
  ASSUME NEW n \in Nat \ {0}, NEW d \in Int, d # 0
  PROVE  n * d >= n \/ n * d <= -n
<1>1. CASE d >= 1
  <2>1. n * d = n + n * (d - 1)
    BY <1>1, SMT
  <2>2. n * (d - 1) >= 0
    BY <1>1, SMT
  <2> QED
    BY <2>1, <2>2, SMT
<1>2. CASE d <= -1
  <2>1. n * d = -n - n * (-d - 1)
    BY <1>2, SMT
  <2>2. n * (-d - 1) >= 0
    BY <1>2, SMT
  <2> QED
    BY <2>1, <2>2, SMT
<1> QED
  BY <1>1, <1>2, SMT

\* The remainder is unique.
LEMMA ModUnique ==
  ASSUME NEW n \in Nat \ {0}, NEW q \in Int, NEW r \in 0..n - 1
  PROVE  (n * q + r) % n = r
<1> DEFINE a == n * q + r
<1> DEFINE d == q - (a \div n)
<1>1. a \in Int
  BY SMT
<1>2. /\ a % n \in 0..n - 1 /\ a \div n \in Int
      /\ a = n * (a \div n) + (a % n)
  BY <1>1, DivMod
<1>3. n * d = (a % n) - r
  BY <1>2, SMT
<1>4. d = 0
  <2> SUFFICES ASSUME d # 0 PROVE FALSE
    OBVIOUS
  <2>1. d \in Int
    BY <1>2
  <2>2. n * d >= n \/ n * d <= -n
    BY <2>1, MultipleGap
  <2> QED
    BY <2>2, <1>3, <1>2, SMT
<1>5. n * d = 0
  BY <1>4, SMT
<1> QED
  BY <1>5, <1>3, <1>2, SMT

\* A small number is its own remainder.
LEMMA ModSmall ==
  ASSUME NEW n \in Nat \ {0}, NEW r \in 0..n - 1
  PROVE  r % n = r
<1>1. (n * 0 + r) % n = r
  BY ModUnique
<1>2. n * 0 + r = r
  BY SMT
<1> QED
  BY <1>1, <1>2

\* Multiples of n do not count.
LEMMA ModShift ==
  ASSUME NEW n \in Nat \ {0}, NEW q \in Int, NEW a \in Int
  PROVE  (n * q + a) % n = a % n
<1>1. /\ a % n \in 0..n - 1 /\ a \div n \in Int
      /\ a = n * (a \div n) + (a % n)
  BY DivMod
<1>2. n * q + a = n * (q + (a \div n)) + (a % n)
  BY <1>1, SMT
<1>3. q + (a \div n) \in Int
  BY <1>1, SMT
<1>4. \A u \in Int : \A r \in 0..n - 1 : (n * u + r) % n = r
  BY ModUnique
<1>5. (n * (q + (a \div n)) + (a % n)) % n = a % n
  BY <1>1, <1>3, <1>4, Zenon
<1> QED
  BY <1>2, <1>5, Zenon

\* A sum may be reduced modulo a multiple of m on the way.
LEMMA ModSum ==
  ASSUME NEW m \in Nat \ {0}, NEW p \in Nat \ {0}, NEW w \in Nat \ {0}, w = m * p,
         NEW a \in Int, NEW b \in Int
  PROVE  ((a % w) + b) % m = (a + b) % m
<1>1. PICK q \in Int : \E r \in Int : r = a % w /\ a = w * q + r
  BY DivMod
<1>2. PICK r \in Int : r = a % w /\ a = w * q + r
  BY <1>1
<1>3. w * q = m * (p * q) /\ p * q \in Int
  BY SMT
<1>4. a + b = m * (p * q) + (r + b) /\ r + b \in Int
  BY <1>2, <1>3, SMT
<1>5. \A u \in Int : \A c \in Int : (m * u + c) % m = c % m
  BY ModShift
<1>6. (m * (p * q) + (r + b)) % m = (r + b) % m
  BY <1>3, <1>4, <1>5, Zenon
<1> QED
  BY <1>2, <1>4, <1>6, Zenon

\* Numbers of one remainder that are less than n apart are equal.
LEMMA ModClose ==
  ASSUME NEW n \in Nat \ {0}, NEW a \in Int, NEW b \in Int,
         a % n = b % n, a - b < n, b - a < n
  PROVE  a = b
<1> DEFINE d == (a \div n) - (b \div n)
<1>1. /\ a \div n \in Int /\ a = n * (a \div n) + (a % n) /\ a % n \in Int
      /\ b \div n \in Int /\ b = n * (b \div n) + (b % n)
  BY DivMod
<1>2. a - b = n * d
  BY <1>1, SMT
<1>3. d = 0
  <2> SUFFICES ASSUME d # 0 PROVE FALSE
    OBVIOUS
  <2>1. d \in Int
    BY <1>1
  <2>2. n * d >= n \/ n * d <= -n
    BY <2>1, MultipleGap
  <2> QED
    BY <2>2, <1>2, SMT
<1>4. n * d = 0
  BY <1>3, SMT
<1> QED
  BY <1>2, <1>4, SMT

-----------------------------------------------------------------------------
(* Counters and slots *)

\* The word holds every index and every fill level some times over.
LEMMA WordIs ==
  \E p \in Nat \ {0} : Word = Size * p /\ Word >= 2 * Size
<1>1. /\ Size \in Nat \ {0} /\ Word \in Nat \ {0} /\ Word % (2 * Size) = 0
      /\ 2 * Size \in Nat \ {0}
  BY RingAssumption, SMT
<1>2. PICK n \in Nat \ {0} : n = 2 * Size
  BY <1>1
<1>3. PICK q \in Int : Word = n * q + (Word % n)
  <2>1. Word \in Int
    BY <1>1, SMT
  <2>2. Word \div n \in Int /\ Word = n * (Word \div n) + (Word % n)
    BY <2>1, DivMod, Zenon
  <2> QED
    BY <2>2, Zenon
<1>4. Word = n * q
  BY <1>1, <1>2, <1>3, SMT
<1>5. q # 0
  BY <1>1, <1>4, SMT
<1>6. n * q >= n
  BY <1>1, <1>4, <1>5, MultipleGap, SMT
<1>7. q >= 1
  <2> SUFFICES ASSUME q <= 0 PROVE FALSE
    BY SMT
  <2>1. n * (-q) >= 0
    BY SMT
  <2> QED
    BY <1>1, <1>4, <2>1, SMT
<1>8. Word = Size * (2 * q) /\ 2 * q \in Nat \ {0}
  BY <1>1, <1>2, <1>4, <1>7, SMT
<1> QED
  BY <1>2, <1>4, <1>6, <1>8, SMT

\* A slot is the same for a counter and for the position it stands for.
LEMMA SlotOfPosition ==
  ASSUME NEW a \in Int, NEW b \in Int
  PROVE  Slot((a % Word) + b) = Slot(a + b)
<1>1. PICK p \in Nat \ {0} : Word = Size * p
  BY WordIs
<1>2. Size \in Nat \ {0}
  BY RingAssumption
<1>3. Word \in Nat \ {0}
  BY RingAssumption
<1>4. ((a % Word) + b) % Size = (a + b) % Size
  BY <1>1, <1>2, <1>3, ModSum, Zenon
<1> QED
  BY <1>4 DEF Slot

\* The counter after two steps.
LEMMA CounterSum ==
  ASSUME NEW a \in Int, NEW b \in Int
  PROVE  ((a % Word) + b) % Word = (a + b) % Word
<1>1. Word \in Nat \ {0} /\ Word = Word * 1
  BY RingAssumption, SMT
<1>2. 1 \in Nat \ {0}
  BY SMT
<1> QED
  BY <1>1, <1>2, ModSum, Zenon

\* The fill level is how far the writer is ahead, as long as that is no more
\* than the size.
LEMMA Ahead ==
  ASSUME NEW r \in Int, NEW c \in 0..Size
  PROVE  ((((r + c) % Word) - r) % Word) % (2 * Size) = c
<1>1. Size \in Nat \ {0} /\ Word \in Nat \ {0} /\ 2 * Size \in Nat \ {0}
  BY RingAssumption, SMT
<1>2. Word >= 2 * Size
  BY WordIs
<1>3. ((((r + c) % Word) + (-r)) % Word) = ((r + c) + (-r)) % Word
  BY CounterSum
<1>4. (r + c) + (-r) = c /\ c \in 0..Word - 1 /\ c \in 0..(2 * Size) - 1
  BY <1>1, <1>2, SMT
<1>5. c % Word = c /\ c % (2 * Size) = c
  BY <1>1, <1>4, ModSmall
<1>6. (r + c) % Word \in Int
  BY <1>1, DivMod
<1>7. ((r + c) % Word) - r = ((r + c) % Word) + (-r)
  BY <1>6, SMT
<1> QED
  BY <1>3, <1>4, <1>5, <1>7

\* What the proofs need of the constants.
LEMMA SizesAre ==
  /\ Size \in Nat \ {0} /\ Word \in Nat \ {0} /\ Word > Size
  /\ \A a \in Int : a % Word \in 0..Word - 1 /\ Slot(a) \in 0..Size - 1
<1>1. Size \in Nat \ {0} /\ Word \in Nat \ {0}
  BY RingAssumption
<1>2. Word >= 2 * Size
  BY WordIs
<1>3. \A a \in Int : a % Word \in 0..Word - 1 /\ a % Size \in 0..Size - 1
  BY <1>1, DivMod
<1> QED
  BY <1>1, <1>2, <1>3, SMT DEF Slot

-----------------------------------------------------------------------------
(* The invariant *)

\* The writer is ahead of the reader by no more than the size.
Within == \E c \in 0..Size : writeCount = (readCount + c) % Word
IInv == TypeOK /\ Within

\* Under the invariant the fill level is the lead of the writer.
LEMMA CountIs ==
  ASSUME NEW r \in Int, NEW c \in 0..Size, NEW w \in Int, w = (r + c) % Word
  PROVE  ((w - r) % Word) % (2 * Size) = c
BY Ahead

\* The fill level is what the reader is behind.
LEMMA Lead ==
  ASSUME IInv
  PROVE  /\ readCount \in 0..Word - 1 /\ Count \in 0..Size
         /\ writeCount = (readCount + Count) % Word
<1>1. PICK c \in 0..Size : writeCount = (readCount + c) % Word
  BY DEF IInv, Within
<1>2. readCount \in Int /\ writeCount \in Int /\ readCount \in 0..Word - 1
  BY SizesAre, SMT DEF IInv, TypeOK
<1>3. Count = c
  BY <1>1, <1>2, CountIs, Zenon DEF Count
<1> QED
  BY <1>1, <1>2, <1>3

\* The counters as numbers.
LEMMA CountersAre ==
  ASSUME IInv
  PROVE  /\ readCount \in Int /\ writeCount \in Int
         /\ Count \in Int /\ 0 <= Count /\ Count <= Size /\ Size \in Int /\ Size > 0
<1>1. Size \in Nat \ {0} /\ Count \in 0..Size /\ Word \in Nat \ {0}
  BY Lead, SizesAre, Zenon
<1>2. readCount \in 0..Word - 1 /\ writeCount \in 0..Word - 1
  BY DEF IInv, TypeOK
<1> QED
  BY <1>1, <1>2, SMT

\* The room is the rest of the size: the unsigned difference does not wrap.
LEMMA SpaceIs ==
  ASSUME IInv
  PROVE  Space = Size - Count
<1>1. Count \in 0..Size /\ Size \in Nat \ {0} /\ Word \in Nat \ {0} /\ Word > Size
  BY Lead, SizesAre
<1>2. Size - Count \in 0..Word - 1
  BY <1>1, SMT
<1> QED
  BY <1>1, <1>2, ModSmall, Zenon DEF Space

\* A function on 1..n is a sequence of length n.
LEMMA FunctionIsSeq ==
  ASSUME NEW V, NEW n \in Nat, NEW f \in [1..n -> V]
  PROVE  f \in Seq(V) /\ Len(f) = n
BY SMT

\* What a reader of the memory d finds from position r on.
FoundFrom(d, r, n) == [k \in 1..n |-> d[Slot(r + k - 1)]]

\* It is a sequence of n values of the memory.
LEMMA Window ==
  ASSUME NEW V, NEW d \in [0..Size - 1 -> V], NEW r \in Int, NEW n \in Nat
  PROVE  FoundFrom(d, r, n) \in Seq(V) /\ Len(FoundFrom(d, r, n)) = n
<1>1. ASSUME NEW k \in 1..n PROVE d[Slot(r + k - 1)] \in V
  <2>1. r + k - 1 \in Int
    BY SMT
  <2>2. Slot(r + k - 1) \in 0..Size - 1
    BY <2>1, SizesAre
  <2> QED
    BY <2>2
<1> DEFINE f == [k \in 1..n |-> d[Slot(r + k - 1)]]
<1>2. f \in [1..n -> V]
  BY <1>1
<1> HIDE DEF f
<1>3. f \in Seq(V) /\ Len(f) = n
  BY <1>2, FunctionIsSeq
<1> QED
  BY <1>3 DEF f, FoundFrom

\* The same of the ring's own memory and reader.
LEMMA FoundIs ==
  ASSUME IInv, NEW n \in 0..Size
  PROVE  /\ Found(n) \in Seq(Values \cup {Garbage}) /\ Len(Found(n)) = n
         /\ \A k \in 1..n : Found(n)[k] = data[Slot(readCount + k - 1)]
<1>1. n \in Nat /\ readCount \in Int
  BY CountersAre, SMT
<1>2. data \in [0..Size - 1 -> Values \cup {Garbage}]
  BY DEF IInv, TypeOK
<1>3. Found(n) = FoundFrom(data, readCount, n)
  BY DEF Found, FoundFrom
<1>4. Found(n) \in Seq(Values \cup {Garbage}) /\ Len(Found(n)) = n
  <2>1. /\ FoundFrom(data, readCount, n) \in Seq(Values \cup {Garbage})
        /\ Len(FoundFrom(data, readCount, n)) = n
    BY <1>1, <1>2, Window
  <2> QED
    BY <1>3, <2>1
<1> QED
  BY <1>4 DEF Found

\* Two of a window of Size positions have different slots.
LEMMA SlotsDiffer ==
  ASSUME NEW a \in Int, NEW b \in Int, Slot(a) = Slot(b), a - b < Size, b - a < Size
  PROVE  a = b
BY SizesAre, ModClose DEF Slot

\* A cleared ring is an empty queue.
LEMMA InitInv == ASSUME Init PROVE IInv /\ Fifo!Init
<1>1. TypeOK
  BY SizesAre, SMT DEF Init, TypeOK
<1>2. 0 \in 0..Size /\ readCount = 0 /\ writeCount = 0 /\ 0 \in 0..Word - 1
  BY SizesAre, SMT DEF Init
<1>3. (0 + 0) % Word = 0
  <2>1. 0 % Word = 0
    BY <1>2, SizesAre, ModSmall
  <2> QED
    BY <2>1, SMT
<1>4. Within
  BY <1>2, <1>3 DEF Within
<1>5. IInv
  BY <1>1, <1>4 DEF IInv
<1>6. Count = 0
  BY <1>2, <1>3, CountIs, SMT DEF Count
<1>7. Found(Count) = <<>>
  BY <1>2, <1>5, <1>6, FoundIs
<1> QED
  BY <1>5, <1>7 DEF Init, Fifo!Init

-----------------------------------------------------------------------------
(* Writing *)

\* The slot of the k-th value written is that of its position in the queue.
LEMMA WriteSlot ==
  ASSUME IInv, NEW k \in Int
  PROVE  Slot(writeCount + k - 1) = Slot(readCount + Count + k - 1)
<1>1. /\ readCount \in Int /\ Count \in Int /\ writeCount = (readCount + Count) % Word
      /\ writeCount \in Int
  BY Lead, CountersAre
<1> DEFINE a == readCount + Count
           b == k - 1
<1>2. a \in Int /\ b \in Int
  BY <1>1, SMT
<1>3. Slot((a % Word) + b) = Slot(a + b)
  BY <1>2, SlotOfPosition
<1>4. writeCount + k - 1 = (a % Word) + b
  BY <1>1, SMT
<1>5. readCount + Count + k - 1 = a + b
  BY <1>1, SMT
<1> QED
  BY <1>3, <1>4, <1>5

\* A slot gets the one value of the block that is written to it, if any.
LEMMA FilledAt ==
  ASSUME IInv, NEW block \in Seq(Values), Len(block) <= Size, NEW i \in 0..Size - 1
  PROVE  \/ \E k \in 1..Len(block) :
              Slot(writeCount + k - 1) = i /\ Filled(block)[i] = block[k]
         \/ /\ \A k \in 1..Len(block) : Slot(writeCount + k - 1) # i
            /\ Filled(block)[i] = data[i]
<1> DEFINE here == {k \in DOMAIN block : Slot(writeCount + k - 1) = i}
<1>1. DOMAIN block = 1..Len(block) /\ Len(block) \in Nat
  BY SMT
<1>2. DOMAIN data = 0..Size - 1
  BY DEF IInv, TypeOK
<1>3. Filled(block)[i] = IF here = {} THEN data[i] ELSE block[Max(here)]
  BY <1>2 DEF Filled
<1>4. CASE here = {}
  BY <1>1, <1>3, <1>4
<1>5. CASE here # {}
  <2>1. PICK k \in here : TRUE
    BY <1>5
  <2>2. k \in 1..Len(block) /\ Slot(writeCount + k - 1) = i /\ k \in Int
    BY <1>1, <2>1, SMT
  <2>3. ASSUME NEW j \in here PROVE j = k
    <3>1. j \in 1..Len(block) /\ Slot(writeCount + j - 1) = i
      BY <1>1
    <3>2. writeCount \in Int /\ Size \in Int
      BY CountersAre
    <3>3. writeCount + j - 1 = writeCount + k - 1
      <4> DEFINE a == writeCount + j - 1
                 b == writeCount + k - 1
      <4>1. a \in Int /\ b \in Int /\ a - b < Size /\ b - a < Size
        BY <1>1, <2>2, <3>1, <3>2, SMT
      <4>2. Slot(a) = Slot(b)
        BY <2>2, <3>1
      <4> HIDE DEF a, b
      <4>3. a = b
        BY <4>1, <4>2, SlotsDiffer
      <4> QED
        BY <4>3 DEF a, b
    <3> QED
      BY <2>2, <3>1, <3>2, <3>3, SMT
  <2>4. here = {k}
    BY <2>1, <2>3
  <2>5. Max({k}) = k
    BY <2>2, SMT DEF Max
  <2>6. Filled(block)[i] = block[k]
    BY <1>3, <2>4, <2>5
  <2> QED
    BY <2>2, <2>6
<1> QED
  BY <1>4, <1>5

\* The memory keeps its type.
LEMMA FilledType ==
  ASSUME IInv, NEW block \in Seq(Values), Len(block) <= Size
  PROVE  Filled(block) \in [0..Size - 1 -> Values \cup {Garbage}]
<1>1. DOMAIN data = 0..Size - 1 /\ DOMAIN Filled(block) = DOMAIN data
  BY DEF IInv, TypeOK, Filled
<1>2. ASSUME NEW i \in 0..Size - 1 PROVE Filled(block)[i] \in Values \cup {Garbage}
  <2>1. \A k \in 1..Len(block) : block[k] \in Values
    BY SMT
  <2>2. data[i] \in Values \cup {Garbage}
    BY DEF IInv, TypeOK
  <2> QED
    BY <2>1, <2>2, FilledAt
<1>3. Filled(block) = [i \in 0..Size - 1 |-> Filled(block)[i]]
  BY <1>1 DEF Filled
<1> QED
  BY <1>2, <1>3

\* The values waiting stay, those written follow them.
LEMMA FilledFound ==
  ASSUME IInv, NEW block \in Seq(Values), Len(block) <= Size - Count,
         NEW k \in 1..Count + Len(block)
  PROVE  Filled(block)[Slot(readCount + k - 1)]
           = IF k <= Count THEN data[Slot(readCount + k - 1)] ELSE block[k - Count]
<1> DEFINE n == Len(block)
           at == readCount + k - 1
<1>1. /\ readCount \in Int /\ Count \in Int /\ 0 <= Count /\ Size \in Int
      /\ n \in Nat /\ n <= Size /\ k \in Int /\ at \in Int
  <2>1. readCount \in Int /\ Count \in Int /\ 0 <= Count /\ Size \in Int
    BY CountersAre
  <2>2. n \in Nat
    BY SMT
  <2> QED
    BY <2>1, <2>2, SMT
<1>2. Slot(at) \in 0..Size - 1
  BY <1>1, SizesAre
<1>3. ASSUME NEW j \in 1..n, Slot(writeCount + j - 1) = Slot(at)
      PROVE  k = Count + j
  <2> DEFINE b == readCount + Count + j - 1
  <2>1. b \in Int /\ at - b < Size /\ b - at < Size
    BY <1>1, SMT
  <2>2. Slot(b) = Slot(at)
    BY <1>3, WriteSlot
  <2>3. at = b
    <3> HIDE DEF at, b
    <3> QED
      BY <1>1, <2>1, <2>2, SlotsDiffer
  <2> QED
    BY <1>1, <2>3, SMT
<1>4. \/ \E j \in 1..n : Slot(writeCount + j - 1) = Slot(at) /\ Filled(block)[Slot(at)] = block[j]
      \/ /\ \A j \in 1..n : Slot(writeCount + j - 1) # Slot(at)
         /\ Filled(block)[Slot(at)] = data[Slot(at)]
  BY <1>1, <1>2, FilledAt
<1>5. CASE k <= Count
  <2>1. \A j \in 1..n : Slot(writeCount + j - 1) # Slot(at)
    BY <1>1, <1>3, <1>5, SMT
  <2> QED
    BY <1>4, <1>5, <2>1
<1>6. CASE ~(k <= Count)
  <2>1. k - Count \in 1..n /\ readCount + Count + (k - Count) - 1 = at
    BY <1>1, <1>6, SMT
  <2>2. Slot(writeCount + (k - Count) - 1) = Slot(at)
    BY <2>1, WriteSlot, SMT
  <2>3. PICK j \in 1..n : Slot(writeCount + j - 1) = Slot(at) /\ Filled(block)[Slot(at)] = block[j]
    BY <1>4, <2>1, <2>2
  <2>4. j = k - Count
    BY <1>1, <1>3, <2>3, SMT
  <2> QED
    BY <1>6, <2>3, <2>4
<1> QED
  BY <1>5, <1>6

\* Sequences of equal length and elements are equal.
LEMMA SameSequence ==
  ASSUME NEW V, NEW s \in Seq(V), NEW t \in Seq(V), Len(s) = Len(t),
         \A k \in 1..Len(s) : s[k] = t[k]
  PROVE  s = t
BY SMT

\* A block that has room is put at the end of the queue.
LEMMA PutStep ==
  ASSUME IInv, NEW block \in Seq(Values), Len(block) <= Space,
         data' = Filled(block), writeCount' = (writeCount + Len(block)) % Word,
         UNCHANGED <<readCount, out>>
  PROVE  IInv' /\ Fifo!Put(block) /\ Len(block) \in 0..Size
<1> DEFINE n == Len(block)
           V == Values \cup {Garbage}
<1>1. /\ readCount \in Int /\ writeCount \in Int /\ Count \in Int /\ Size \in Int
      /\ 0 <= Count /\ Count <= Size /\ writeCount = (readCount + Count) % Word
  BY CountersAre, Lead
<1>2. n \in Nat /\ n <= Size - Count
  BY SpaceIs, SMT
<1>3. n <= Size /\ Count + n \in 0..Size /\ Count + n \in Nat /\ Count \in 0..Size
  BY <1>1, <1>2, SMT
<1>4. writeCount' = (readCount' + (Count + n)) % Word
  <2>1. (((readCount + Count) % Word) + n) % Word = ((readCount + Count) + n) % Word
    <3>1. readCount + Count \in Int /\ n \in Int
      BY <1>1, <1>2, SMT
    <3> QED
      BY <3>1, CounterSum
  <2>2. (readCount + Count) + n = readCount + (Count + n)
    BY <1>1, <1>2, SMT
  <2> QED
    BY <1>1, <2>1, <2>2
<1>5. TypeOK'
  <2>1. data' \in [0..Size - 1 -> V]
    BY <1>3, FilledType
  <2>2. writeCount' \in 0..Word - 1
    <3>1. writeCount + n \in Int
      BY <1>1, <1>2, SMT
    <3> QED
      BY <3>1, SizesAre
  <2> QED
    BY <2>1, <2>2 DEF IInv, TypeOK
<1>6. Within'
  BY <1>3, <1>4 DEF Within
<1>7. Count' = Count + n
  <2>1. readCount' \in Int /\ writeCount' \in Int
    BY <1>1, <1>5, SizesAre, SMT DEF TypeOK
  <2>2. ((writeCount' - readCount') % Word) % (2 * Size) = Count + n
    BY <1>3, <1>4, <2>1, CountIs, Zenon
  <2>3. Count' = ((writeCount' - readCount') % Word) % (2 * Size)
    BY DEF Count
  <2> QED
    BY <2>2, <2>3, Zenon
<1>8. Found(Count)' = FoundFrom(data', readCount, Count + n)
  BY <1>7 DEF Found, FoundFrom, Slot
<1>9. Found(Count)' = Found(Count) \o block
  <2> DEFINE f == FoundFrom(data', readCount, Count + n)
             g == Found(Count) \o block
  <2>1. f \in Seq(V) /\ Len(f) = Count + n
    <3>1. data' \in [0..Size - 1 -> V]
      BY <1>5 DEF TypeOK
    <3> QED
      BY <1>1, <1>3, <3>1, Window, Zenon
  <2>2. Found(Count) \in Seq(V) /\ Len(Found(Count)) = Count /\ block \in Seq(V)
    BY <1>3, FoundIs, SMT
  <2>3. /\ g \in Seq(V) /\ Len(g) = Count + n
        /\ \A k \in 1..Count + n :
             g[k] = IF k <= Count THEN Found(Count)[k] ELSE block[k - Count]
    BY <1>1, <1>2, <2>2, SMT
  <2>4. ASSUME NEW k \in 1..Count + n PROVE f[k] = g[k]
    <3>1. f[k] = Filled(block)[Slot(readCount + k - 1)]
      BY DEF FoundFrom
    <3>2. Filled(block)[Slot(readCount + k - 1)]
            = IF k <= Count THEN data[Slot(readCount + k - 1)] ELSE block[k - Count]
      BY <1>2, FilledFound
    <3>3. k <= Count => Found(Count)[k] = data[Slot(readCount + k - 1)]
      <4>1. k <= Count => k \in 1..Count
        BY <1>1, SMT
      <4> QED
        BY <1>3, <4>1, FoundIs, Zenon
    <3> QED
      BY <2>3, <3>1, <3>2, <3>3
  <2> HIDE DEF f, g
  <2>5. f = g
    BY <2>1, <2>3, <2>4, SameSequence
  <2> QED
    BY <1>8, <2>5 DEF f, g
<1>10. Len(Found(Count)) + Len(block) <= Size
  BY <1>1, <1>2, <1>3, FoundIs, SMT
<1>11. Fifo!Put(block)
  BY <1>9, <1>10 DEF Fifo!Put
<1> QED
  BY <1>2, <1>3, <1>5, <1>6, <1>11, SMT DEF IInv

-----------------------------------------------------------------------------
(* Reading *)

\* What there is up to n values leaves the queue at its front.
LEMMA GetStep ==
  ASSUME IInv, NEW got \in 0..Count,
         out' = Found(got), readCount' = (readCount + got) % Word,
         UNCHANGED <<data, writeCount>>
  PROVE  IInv' /\ Fifo!Take(got) /\ got \in 0..Size
<1> DEFINE V == Values \cup {Garbage}
           left == Count - got
<1>1. /\ readCount \in Int /\ writeCount \in Int /\ Count \in Int /\ Size \in Int
      /\ 0 <= Count /\ Count <= Size /\ writeCount = (readCount + Count) % Word
  BY CountersAre, Lead
<1>2. /\ got \in Int /\ got \in 0..Size /\ left \in 0..Size /\ left \in Nat
      /\ Count \in 0..Size /\ readCount + got \in Int
  BY <1>1, SMT
<1> HIDE DEF left
<1>3. readCount' \in 0..Word - 1 /\ readCount' \in Int /\ writeCount' \in Int
  BY <1>1, <1>2, SizesAre, SMT
<1>4. writeCount' = (readCount' + left) % Word
  <2>1. (((readCount + got) % Word) + left) % Word = ((readCount + got) + left) % Word
    <3>1. left \in Int
      BY <1>2, SMT
    <3> QED
      BY <1>2, <3>1, CounterSum
  <2>2. (readCount + got) + left = readCount + Count
    BY <1>1, <1>2, SMT DEF left
  <2> QED
    BY <1>1, <2>1, <2>2
<1>5. TypeOK'
  <2>1. Found(got) \in Seq(V)
    BY <1>2, FoundIs
  <2> QED
    BY <1>3, <2>1 DEF IInv, TypeOK
<1>6. Within'
  BY <1>2, <1>4 DEF Within
<1>7. Count' = left
  <2>1. ((writeCount' - readCount') % Word) % (2 * Size) = left
    <3>1. left \in 0..Size /\ readCount' \in Int /\ writeCount' \in Int
      BY <1>2, <1>3
    <3> QED
      BY <1>4, <3>1, CountIs, Zenon
  <2>2. Count' = ((writeCount' - readCount') % Word) % (2 * Size)
    BY DEF Count
  <2> QED
    BY <2>1, <2>2, Zenon
<1>8. Found(Count)' = FoundFrom(data, readCount', left)
  BY <1>7 DEF Found, FoundFrom, Slot
<1>9. ASSUME NEW k \in Int
      PROVE  Slot(readCount' + k - 1) = Slot(readCount + (got + k) - 1)
  <2> DEFINE a == readCount + got
             b == k - 1
  <2>1. a \in Int /\ b \in Int
    BY <1>1, <1>2, SMT
  <2>2. Slot((a % Word) + b) = Slot(a + b)
    BY <2>1, SlotOfPosition
  <2>3. readCount' + k - 1 = (a % Word) + b
    BY <1>3, SMT
  <2>4. readCount + (got + k) - 1 = a + b
    BY <1>1, <1>2, SMT
  <2> QED
    BY <2>2, <2>3, <2>4
<1>10. Found(Count) \in Seq(V) /\ Len(Found(Count)) = Count
  BY <1>2, FoundIs
<1>11. Found(Count)' = SubSeq(Found(Count), got + 1, Count)
  <2> DEFINE f == FoundFrom(data, readCount', left)
             g == SubSeq(Found(Count), got + 1, Count)
  <2>1. f \in Seq(V) /\ Len(f) = left
    <3>1. data \in [0..Size - 1 -> V]
      BY DEF IInv, TypeOK
    <3> QED
      BY <1>1, <1>2, <3>1, <1>3, Window, Zenon
  <2>2. /\ g \in Seq(V) /\ Len(g) = left
        /\ \A k \in 1..left : g[k] = Found(Count)[got + k]
    BY <1>1, <1>2, <1>10, SMT DEF left
  <2>3. ASSUME NEW k \in 1..left PROVE f[k] = g[k]
    <3>0. f[k] = data[Slot(readCount' + k - 1)]
      BY DEF FoundFrom
    <3>1. k \in Int /\ got + k \in 1..Count
      BY <1>1, <1>2, SMT DEF left
    <3>2. Found(Count)[got + k] = data[Slot(readCount + (got + k) - 1)]
      BY <1>2, <3>1, FoundIs
    <3> QED
      BY <1>9, <2>2, <3>0, <3>1, <3>2
  <2> HIDE DEF f, g
  <2>4. f = g
    BY <2>1, <2>2, <2>3, SameSequence
  <2> QED
    BY <1>8, <2>4 DEF f, g
<1>12. Found(got) = SubSeq(Found(Count), 1, got)
  <2> DEFINE g == SubSeq(Found(Count), 1, got)
  <2>1. Found(got) \in Seq(V) /\ Len(Found(got)) = got
    BY <1>2, FoundIs
  <2>2. /\ g \in Seq(V) /\ Len(g) = got
        /\ \A k \in 1..got : g[k] = Found(Count)[k]
    BY <1>1, <1>2, <1>10, SMT
  <2>3. ASSUME NEW k \in 1..got PROVE Found(got)[k] = g[k]
    <3>1. k \in 1..Count
      BY <1>1, <1>2, SMT
    <3> QED
      BY <1>2, <2>2, <3>1, FoundIs
  <2> HIDE DEF g
  <2>4. Found(got) = g
    BY <2>1, <2>2, <2>3, SameSequence
  <2> QED
    BY <2>4 DEF g
<1>13. got <= Len(Found(Count))
  BY <1>1, <1>10, SMT
<1>14. Fifo!Take(got)
  BY <1>10, <1>11, <1>12, <1>13 DEF Fifo!Take
<1> QED
  BY <1>2, <1>5, <1>6, <1>14 DEF IInv

-----------------------------------------------------------------------------
(* The theorems: try_put() is not called on a full ring. *)

\* Every step of the ring is one of the queue.
LEMMA NextInv ==
  ASSUME IInv, TryPutFull = FALSE, [Next]_vars
  PROVE  IInv' /\ [Fifo!Next]_(Fifo!vars)
<1>1. ASSUME NEW block \in Blocks, Put(block)
      PROVE  IInv' /\ Fifo!Next
  <2>1. block \in Seq(Values)
    BY RingAssumption, SMT DEF Blocks
  <2>2. IInv' /\ Fifo!Put(block) /\ Len(block) \in 0..Size
    BY <1>1, <2>1, PutStep DEF Put
  <2>3. block \in [1..Len(block) -> Values]
    BY <2>1, SMT
  <2> QED
    BY <2>2, <2>3 DEF Fifo!Next
<1>2. ASSUME NEW v \in Values, TryPut(v)
      PROVE  IInv' /\ Fifo!Next
  <2>1. <<v>> \in Seq(Values) /\ Len(<<v>>) = 1
    BY SMT
  <2>2. Space \in Int
    BY SpaceIs, CountersAre, SMT
  <2>3. Len(<<v>>) <= Space
    BY <1>2, <2>1, <2>2, SMT DEF TryPut
  <2>4. IInv' /\ Fifo!Put(<<v>>) /\ Len(<<v>>) \in 0..Size
    BY <1>2, <2>1, <2>3, PutStep DEF TryPut
  <2>5. <<v>> \in [1..Len(<<v>>) -> Values]
    BY <2>1, SMT
  <2> QED
    BY <2>4, <2>5 DEF Fifo!Next
<1>3. ASSUME NEW n \in 0..MaxBlock, Get(n)
      PROVE  IInv' /\ Fifo!Next
  <2> DEFINE got == IF n < Count THEN n ELSE Count
  <2>1. got \in 0..Count
    <3>1. n \in Int /\ 0 <= n /\ Count \in Int /\ 0 <= Count
      BY RingAssumption, CountersAre, SMT
    <3> QED
      BY <3>1, SMT
  <2>2. out' = Found(got) /\ readCount' = (readCount + got) % Word
        /\ UNCHANGED <<data, writeCount>>
    BY <1>3 DEF Get
  <2> HIDE DEF got
  <2>3. IInv' /\ Fifo!Take(got) /\ got \in 0..Size
    BY <2>1, <2>2, GetStep
  <2> QED
    BY <2>3 DEF Fifo!Next
<1>4. CASE TryGet
  <2>1. 1 \in 0..Count
    BY <1>4, CountersAre, SMT DEF TryGet, Available
  <2>2. IInv' /\ Fifo!Take(1) /\ 1 \in 0..Size
    BY <1>4, <2>1, GetStep DEF TryGet
  <2> QED
    BY <2>2 DEF Fifo!Next
<1>5. CASE UNCHANGED vars
  <2>1. IInv'
    BY <1>5 DEF vars, IInv, TypeOK, Within
  <2>2. UNCHANGED Fifo!vars
    BY <1>5 DEF vars, Fifo!vars, Found, Count, Slot
  <2> QED
    BY <2>1, <2>2
<1> QED
  BY <1>1, <1>2, <1>3, <1>4, <1>5 DEF Next

\* The counters stay words and the ring keeps its cells (clear_, put_, get_ of
\* core/robosd_ring_safe_buf.hpp).
THEOREM TypeCorrect == TryPutFull = FALSE /\ Spec => []TypeOK
<1>1. TryPutFull = FALSE /\ Init => IInv
  BY InitInv
<1>2. TryPutFull = FALSE /\ IInv /\ [Next]_vars => IInv'
  BY NextInv
<1>3. CASE TryPutFull = FALSE
  <2>1. Spec => []IInv
    BY <1>1, <1>2, <1>3, PTL DEF Spec
  <2>2. IInv => TypeOK
    BY DEF IInv
  <2> QED
    BY <2>1, <2>2, PTL
<1> QED
  BY <1>3

\* For every size and every word the ring is a bounded queue: nothing is lost,
\* doubled or reordered when the counters wrap around, and no reader sees
\* memory never written (put, get, try_put, try_get of safe_ring_t).
THEOREM IsBoundedFifo == TryPutFull = FALSE => (Spec => IsFifo)
<1> SUFFICES ASSUME TryPutFull = FALSE PROVE Spec => IsFifo
  OBVIOUS
<1>1. Init => IInv /\ Fifo!Init
  BY InitInv
<1>2. IInv /\ [Next]_vars => IInv' /\ [Fifo!Next]_(Fifo!vars)
  BY NextInv
<1> QED
  BY <1>1, <1>2, PTL DEF Spec, IsFifo, Fifo!Spec
=============================================================================
