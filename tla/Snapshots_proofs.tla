-------------------------- MODULE Snapshots_proofs --------------------------
(***************************************************************************)
(* Proofs about Snapshots, for every size of the snapshot, packet and pool: *)
(* every message of the device's port is accounted for, a snapshot that     *)
(* completes is of one version, on a steady drive of the present one, and   *)
(* no version completes twice.                                              *)
(***************************************************************************)
EXTENDS Snapshots, TLAPS

-----------------------------------------------------------------------------
(* The inductive invariant. *)

\* Where the main loop of the device is.
Working ==
  /\ pc \in {"loop", "done"} <=> made = Nothing
  /\ pc # "loop" => request # "idle"
  /\ (request = "get" /\ pc # "done") => slot = Nothing

\* A page of the snapshot holds a version of it.  Where there are no pages,
\* only the snapshot has the length that is asked for.
Sound(m) ==
  m # Nothing =>
    /\ m.page <= PageCount
    /\ m.page < PageCount => m.ver # 0
    /\ (~Paged /\ m.len = size) => m.page = 0

Holds ==
  /\ Sound(slot) /\ Sound(made) /\ Sound(got)
  /\ (slot # Nothing \/ made # Nothing \/ request = "get") => ver # 0
  /\ devPage <= PageCount
  /\ bus = "got" <=> got # Nothing
  /\ (bus = "got" /\ ~Paged) => got.len = size

\* Once it is posted, the answer is the page the performer stands at, of the
\* memory as it is.
Stands(m) ==
  (Paged /\ m # Nothing) =>
    m.page = devPage /\ (devPage < PageCount => m.ver = ver)

Posted ==
  /\ request = "idle" \/ pc = "done" => Stands(slot)
  /\ Stands(made)
  /\ (Paged /\ request = "put" /\ made # Nothing) => devPage = 0

\* After page k - 1 of version v has left, page k can only be of version v.
Follows(k, v) ==
  (Paged /\ k < PageCount) =>
    /\ (slot # Nothing /\ slot.page = k) => slot.ver = v
    /\ (made # Nothing /\ made.page = k) => made.ver = v
    /\ (request = "get" /\ pc = "loop" /\ devPage + 1 = k) => ver = v

\* What has been read is of one version, and so is what will be.
Reading == state = "get" /\ page # 0
Whole ==
  /\ Reading => data[0] # 0 /\ \A p \in 0..(page - 1) : data[p] = data[0]
  /\ (Reading /\ bus \in {"free", "get"}) => Follows(page, data[0])
  /\ bus = "got" => Follows(got.page + 1, got.ver)
  /\ (Reading /\ bus = "got" /\ got.page = page) => got.ver = data[0]
  /\ bus \in {"put", "sent"} => page = 0

IInv == TypeOK /\ MessagesKept /\ Working /\ Holds /\ Posted /\ Whole

\* The first page of a version is in one place only, and the version that
\* completed last is in none.
Begins(m, v) == m # Nothing /\ m.page = 0 /\ m.ver = v
Differ(m, n) == ~(m # Nothing /\ n # Nothing /\ m.page = 0 /\ n.page = 0 /\ m.ver = n.ver)
Once ==
  /\ Differ(slot, made) /\ Differ(slot, got) /\ Differ(made, got)
  /\ Reading => /\ ~Begins(slot, data[0]) /\ ~Begins(made, data[0])
                /\ ~Begins(got, data[0]) /\ data[0] # last
  /\ ~Begins(slot, last) /\ ~Begins(made, last) /\ ~Begins(got, last)

-----------------------------------------------------------------------------
(* Pages. *)

\* There is a page at least, and one only where there are no pages.
LEMMA PageFacts ==
  ASSUME size \in Sizes
  PROVE  /\ PageCount \in Nat \ {0}
         /\ ~Paged => PageCount = 1
         /\ Pages = 0..(PageCount - 1) /\ Pages \subseteq Nat /\ 0 \in Pages
<1>1. size \in Nat \ {0} /\ Max \in Nat /\ Max > 2
  BY SizeAssumption
<1>2. CASE Paged
  <2> DEFINE s == PageSize
             n == size + s - 1
  <2>1. s \in Nat \ {0} /\ n \in Nat /\ n >= s
    BY <1>1, <1>2 DEF PageSize, Paged
  <2> HIDE DEF s, n
  <2>2. n \div s \in Nat \ {0}
    BY <2>1
  <2> QED
    BY <1>2, <2>2 DEF PageCount, Pages, s, n
<1>3. CASE ~Paged
  BY <1>3 DEF PageCount, Pages
<1> QED
  BY <1>2, <1>3

\* The length of a page is a length; without pages, that of a page past the
\* end is never the one asked for.
LEMMA LenFacts ==
  ASSUME size \in Sizes, NEW p \in Nat
  PROVE  Len(p) \in Nat /\ (~Paged => Len(1) # size)
<1>1. /\ size \in Nat \ {0} /\ Max \in Nat /\ Max > 2
      /\ Word \in Nat \ {0} /\ size + Max < Word
  BY SizeAssumption, WordAssumption
<1>2. \A x \in Int : x % Word \in 0..(Word - 1)
  BY <1>1
<1>3. size - p * PageSize \in Int /\ PageSize \in Nat
  BY <1>1 DEF PageSize
<1>4. Len(p) \in Nat
  BY <1>1, <1>2, <1>3 DEF Len
<1>5. ASSUME ~Paged PROVE Len(1) # size
  <2>1. CASE size >= PageSize
    <3>1. (size - 1 * PageSize) % Word = size - PageSize
      BY <1>1, <1>5, <2>1 DEF PageSize, Paged
    <3> QED
      BY <1>1, <1>5, <2>1, <3>1 DEF Len, PageSize, Paged
  <2>2. CASE size < PageSize
    <3>1. size - 1 * PageSize + Word \in 0..(Word - 1)
      BY <1>1, <2>2 DEF PageSize
    <3>2. (size - 1 * PageSize) % Word = size - PageSize + Word
      BY <1>1, <3>1 DEF PageSize
    <3> QED
      BY <1>1, <2>2, <3>2 DEF Len, PageSize
  <2> QED
    BY <2>1, <2>2, <1>1 DEF PageSize
<1> QED
  BY <1>4, <1>5

\* What depends on the installation does not change with a step.
LEMMA Installed ==
  ASSUME UNCHANGED install
  PROVE  /\ size' = size /\ steady' = steady
         /\ PageCount' = PageCount /\ Pages' = Pages /\ Paged' = Paged
BY DEF install, PageCount, Pages, Paged, PageSize

\* Every step leaves the installation alone.
LEMMA Steps == [Next]_vars => UNCHANGED install
BY DEF vars, Next, Start, Stop, Tick, Query, ConfirmPut, ConfirmPage,
  ConfirmFailed, HearPut, Answer, NoAnswer, Lost, Update, NextPage, Post,
  Finish, Restart, install

\* The pages that are made are messages.
LEMMA MadeFacts ==
  ASSUME size \in Sizes, NEW p \in Nat, NEW v \in Versions \cup {0}
  PROVE  /\ First(v) \in Message /\ First(v).page = 0 /\ First(v).ver = v
         /\ Page(p, v) \in Message /\ Page(p, v).page = p
         /\ Page(p, v).len = Len(p)
         /\ Page(p, v).ver = IF p < PageCount THEN v ELSE 0
         /\ First(v) # Nothing /\ Page(p, v) # Nothing
<1>1. Len(0) \in Nat /\ Len(p) \in Nat /\ size \in Nat
  BY LenFacts, SizeAssumption
<1>2. p \in Pages <=> p < PageCount
  BY PageFacts
<1> QED
  BY <1>1, <1>2, NothingAssumption DEF First, Page, Message

-----------------------------------------------------------------------------
(* Every step keeps the invariant. *)

\* Types, and what is on its way stays a message.
LEMMA TypeStep ==
  ASSUME IInv, [Next]_vars
  PROVE  TypeOK'
<1> USE DEF IInv, TypeOK, MessagesKept, Held, Working, Holds, install, host,
  line, loop, serve
<1>0. TypeOK /\ size \in Sizes /\ UNCHANGED <<install, PageCount, Pages, Paged>>
  BY Steps, Installed DEF IInv, TypeOK
<1>1. CASE Start
  BY <1>0, <1>1 DEF Start
<1>2. CASE Stop
  BY <1>0, <1>2 DEF Stop
<1>3. CASE Tick
  BY <1>0, <1>3 DEF Tick
<1>4. CASE Query
  BY <1>0, <1>4, PageFacts DEF Query, DeviceIsDone
<1>5. CASE ConfirmPut
  BY <1>0, <1>5 DEF ConfirmPut
<1>6. CASE ConfirmPage
  <2>1. got \in Message /\ page \in Pages /\ page \in Nat
    BY <1>0, <1>6, PageFacts DEF ConfirmPage
  <2>2. page' \in Pages
    <3>1. CASE page + 1 = PageCount
      BY <3>1, <1>0, <1>6, PageFacts DEF ConfirmPage
    <3>2. CASE page + 1 # PageCount
      <4>1. PageCount \in Nat \ {0} /\ page \in 0..(PageCount - 1)
        BY <1>0, <2>1, PageFacts
      <4>2. page + 1 \in 0..(PageCount - 1)
        BY <3>2, <4>1
      <4>3. page' = page + 1
        BY <3>2, <1>6 DEF ConfirmPage
      <4> QED
        BY <1>0, <4>2, <4>3, PageFacts
    <3> QED
      BY <3>1, <3>2
  <2>3. got.ver \in Versions \cup {0}
    BY <2>1 DEF Message
  <2>4. data' \in [Pages -> Versions \cup {0}] /\ last' \in Versions \cup {0}
    BY <1>0, <2>1, <2>3, <1>6 DEF ConfirmPage
  <2> QED
    BY <1>0, <2>2, <2>4, <1>6 DEF ConfirmPage
<1>7. CASE ConfirmFailed
  BY <1>0, <1>7 DEF ConfirmFailed, Expected
<1>8. CASE HearPut
  BY <1>0, <1>8 DEF HearPut
<1>9. CASE Answer
  BY <1>0, <1>9 DEF Answer, TakeSlot, Fits, Asked
<1>10. CASE NoAnswer
  BY <1>0, <1>10 DEF NoAnswer, TakeSlot, Fits, Asked
<1>11. CASE Lost
  BY <1>0, <1>11 DEF Lost
<1>12. CASE Update
  BY <1>0, <1>12, MadeFacts, VersionAssumption DEF Update, Make, Fresh, Used
<1>13. CASE NextPage
  BY <1>0, <1>13, PageFacts, MadeFacts DEF NextPage, Make
<1>14. CASE Post
  BY <1>0, <1>14 DEF Post
<1>15. CASE Finish
  BY <1>0, <1>15 DEF Finish
<1>16. CASE Restart
  BY <1>0, <1>16 DEF Restart
<1>17. CASE UNCHANGED vars
  BY <1>0, <1>17 DEF vars
<1> QED
  BY <1>1, <1>2, <1>3, <1>4, <1>5, <1>6, <1>7, <1>8, <1>9, <1>10, <1>11,
    <1>12, <1>13, <1>14, <1>15, <1>16, <1>17 DEF Next

\* A message that leaves one place is in the next.
LEMMA KeptStep ==
  ASSUME IInv, [Next]_vars
  PROVE  MessagesKept'
<1> USE DEF IInv, TypeOK, MessagesKept, Held, Working, install, host, line,
  loop, serve
<1>0. TypeOK /\ size \in Sizes /\ UNCHANGED <<install, PageCount, Pages, Paged>>
  BY Steps, Installed DEF IInv, TypeOK
<1>1. CASE Start
  BY <1>0, <1>1 DEF Start
<1>2. CASE Stop
  BY <1>0, <1>2 DEF Stop
<1>3. CASE Tick
  BY <1>0, <1>3 DEF Tick
<1>4. CASE Query
  BY <1>0, <1>4 DEF Query, DeviceIsDone
<1>5. CASE ConfirmPut
  BY <1>0, <1>5 DEF ConfirmPut
<1>6. CASE ConfirmPage
  BY <1>0, <1>6 DEF ConfirmPage, Expected
<1>7. CASE ConfirmFailed
  BY <1>0, <1>7 DEF ConfirmFailed, Expected
<1>8. CASE HearPut
  <2>1. CASE free > 0 /\ request = "idle"
    BY <1>0, <2>1, <1>8, PoolAssumption DEF HearPut
  <2>2. CASE ~(free > 0 /\ request = "idle")
    BY <1>0, <2>2, <1>8 DEF HearPut
  <2> QED
    BY <2>1, <2>2
<1>9. CASE Answer
  BY <1>0, <1>9 DEF Answer, TakeSlot, Fits, Asked
<1>10. CASE NoAnswer
  BY <1>0, <1>10 DEF NoAnswer, TakeSlot, Fits, Asked
<1>11. CASE Lost
  BY <1>0, <1>11 DEF Lost
<1>12. CASE Update
  <2>1. PICK v \in Versions : ver' = v
    BY <1>12 DEF Update
  <2>2. First(ver') # Nothing
    BY <1>0, <2>1, MadeFacts
  <2>3. made = Nothing
    BY <1>12 DEF Update
  <2>4. CASE free > 0
    BY <1>0, <2>2, <2>3, <2>4, <1>12 DEF Update, Make
  <2>5. CASE ~(free > 0)
    BY <1>0, <2>5, <1>12 DEF Update, Make
  <2> QED
    BY <2>4, <2>5
<1>13. CASE NextPage
  <2>1. Page(devPage + 1, ver) # Nothing
    BY <1>0, MadeFacts
  <2>2. made = Nothing
    BY <1>13 DEF NextPage
  <2>3. CASE devPage < PageCount /\ free > 0
    BY <1>0, <2>1, <2>2, <2>3, <1>13 DEF NextPage, Make
  <2>4. CASE ~(devPage < PageCount /\ free > 0)
    BY <1>0, <2>4, <1>13 DEF NextPage, Make
  <2> QED
    BY <2>3, <2>4
<1>14. CASE Post
  BY <1>0, <1>14 DEF Post
<1>15. CASE Finish
  BY <1>0, <1>15 DEF Finish
<1>16. CASE Restart
  BY <1>0, <1>16 DEF Restart
<1>17. CASE UNCHANGED vars
  BY <1>0, <1>17 DEF vars
<1> QED
  BY <1>1, <1>2, <1>3, <1>4, <1>5, <1>6, <1>7, <1>8, <1>9, <1>10, <1>11,
    <1>12, <1>13, <1>14, <1>15, <1>16, <1>17 DEF Next

\* What is made is posted before the next request is looked at.
LEMMA WorkingStep ==
  ASSUME IInv, [Next]_vars
  PROVE  Working'
<1> USE DEF IInv, TypeOK, Working, install, host, line, loop, serve
<1>0. TypeOK /\ size \in Sizes /\ UNCHANGED <<install, PageCount, Pages, Paged>>
  BY Steps, Installed DEF IInv, TypeOK
<1>1. CASE Start
  BY <1>0, <1>1 DEF Start
<1>2. CASE Stop
  BY <1>0, <1>2 DEF Stop
<1>3. CASE Tick
  BY <1>0, <1>3 DEF Tick
<1>4. CASE Query
  BY <1>0, <1>4 DEF Query, DeviceIsDone
<1>5. CASE ConfirmPut
  BY <1>0, <1>5 DEF ConfirmPut
<1>6. CASE ConfirmPage
  BY <1>0, <1>6 DEF ConfirmPage, Expected
<1>7. CASE ConfirmFailed
  BY <1>0, <1>7 DEF ConfirmFailed, Expected
<1>8. CASE HearPut
  BY <1>0, <1>8 DEF HearPut
<1>9. CASE Answer
  BY <1>0, <1>9 DEF Answer, TakeSlot, Fits, Asked
<1>10. CASE NoAnswer
  BY <1>0, <1>10 DEF NoAnswer, TakeSlot, Fits, Asked
<1>11. CASE Lost
  BY <1>0, <1>11 DEF Lost
<1>12. CASE Update
  <2>1. PICK v \in Versions : ver' = v
    BY <1>12 DEF Update
  <2>2. First(ver') # Nothing
    BY <1>0, <2>1, MadeFacts
  <2> QED
    BY <1>0, <2>2, <1>12 DEF Update, Make
<1>13. CASE NextPage
  <2>1. Page(devPage + 1, ver) # Nothing
    BY <1>0, MadeFacts
  <2> QED
    BY <1>0, <2>1, <1>13 DEF NextPage, Make
<1>14. CASE Post
  BY <1>0, <1>14 DEF Post
<1>15. CASE Finish
  BY <1>0, <1>15 DEF Finish
<1>16. CASE Restart
  BY <1>0, <1>16 DEF Restart
<1>17. CASE UNCHANGED vars
  BY <1>0, <1>17 DEF vars
<1> QED
  BY <1>1, <1>2, <1>3, <1>4, <1>5, <1>6, <1>7, <1>8, <1>9, <1>10, <1>11,
    <1>12, <1>13, <1>14, <1>15, <1>16, <1>17 DEF Next

\* The performer never lacks a message.
LEMMA EnoughFree == IInv => NeverShort
BY PoolAssumption DEF IInv, TypeOK, MessagesKept, Held, Working, NeverShort

\* A page is made from a memory that was updated.
LEMMA HoldsStep ==
  ASSUME IInv, [Next]_vars
  PROVE  Holds'
<1> USE DEF IInv, TypeOK, Working, Holds, Sound, install, host, line, loop,
  serve
<1>0. TypeOK /\ size \in Sizes /\ UNCHANGED <<install, PageCount, Pages, Paged>>
  BY Steps, Installed DEF IInv, TypeOK
<1>1. CASE Start
  BY <1>0, <1>1 DEF Start
<1>2. CASE Stop
  BY <1>0, <1>2 DEF Stop
<1>3. CASE Tick
  BY <1>0, <1>3 DEF Tick
<1>4. CASE Query
  BY <1>0, <1>4 DEF Query, DeviceIsDone
<1>5. CASE ConfirmPut
  BY <1>0, <1>5 DEF ConfirmPut
<1>6. CASE ConfirmPage
  BY <1>0, <1>6 DEF ConfirmPage, Expected
<1>7. CASE ConfirmFailed
  BY <1>0, <1>7 DEF ConfirmFailed, Expected
<1>8. CASE HearPut
  BY <1>0, <1>8 DEF HearPut
<1>9. CASE Answer
  BY <1>0, <1>9 DEF Answer, TakeSlot, Fits, Asked
<1>10. CASE NoAnswer
  BY <1>0, <1>10 DEF NoAnswer, TakeSlot, Fits, Asked
<1>11. CASE Lost
  BY <1>0, <1>11 DEF Lost
<1>12. CASE Update
  BY <1>0, <1>12, PageFacts, MadeFacts, VersionAssumption DEF Update, Make,
    Fresh, Used
<1>13. CASE NextPage
  <2> DEFINE m == Page(devPage + 1, ver)
  <2>1. /\ m # Nothing /\ m.page = devPage + 1 /\ m.len = Len(devPage + 1)
        /\ m.ver = IF devPage + 1 < PageCount THEN ver ELSE 0
    BY <1>0, MadeFacts
  <2>2. PageCount \in Nat \ {0} /\ (~Paged => PageCount = 1)
    BY <1>0, PageFacts
  <2>3. ver # 0 /\ devPage \in Nat /\ devPage <= PageCount
    BY <1>13 DEF NextPage
  <2>4. CASE devPage < PageCount /\ free > 0
    <3>1. ~Paged => m.len # size
      BY <1>0, <2>1, <2>2, <2>3, <2>4, LenFacts
    <3> HIDE DEF m
    <3>2. Sound(m)
      BY <2>1, <2>2, <2>3, <2>4, <3>1
    <3>3. made' = m /\ devPage' = devPage + 1 /\ UNCHANGED <<slot, got, ver, request, bus>>
      BY <2>4, <1>13 DEF NextPage, Make, m
    <3>4. Sound(made)' /\ Sound(slot)' /\ Sound(got)'
      BY <1>0, <3>2, <3>3
    <3> QED
      BY <1>0, <2>2, <2>3, <2>4, <3>3, <3>4
  <2>5. CASE ~(devPage < PageCount /\ free > 0)
    BY <1>0, <2>5, <1>13 DEF NextPage, Make
  <2> QED
    BY <2>4, <2>5
<1>14. CASE Post
  BY <1>0, <1>14 DEF Post
<1>15. CASE Finish
  BY <1>0, <1>15 DEF Finish
<1>16. CASE Restart
  BY <1>0, <1>16, PageFacts DEF Restart
<1>17. CASE UNCHANGED vars
  BY <1>0, <1>17 DEF vars
<1> QED
  BY <1>1, <1>2, <1>3, <1>4, <1>5, <1>6, <1>7, <1>8, <1>9, <1>10, <1>11,
    <1>12, <1>13, <1>14, <1>15, <1>16, <1>17 DEF Next

\* What is posted is the page the performer stands at.
LEMMA PostedStep ==
  ASSUME IInv, [Next]_vars
  PROVE  Posted'
<1> USE DEF IInv, TypeOK, Working, Holds, Sound, Posted, Stands, NeverShort,
  install, host, line, loop, serve
<1>0. TypeOK /\ size \in Sizes /\ UNCHANGED <<install, PageCount, Pages, Paged>>
  BY Steps, Installed DEF IInv, TypeOK
<1>1. CASE Start
  BY <1>0, <1>1 DEF Start
<1>2. CASE Stop
  BY <1>0, <1>2 DEF Stop
<1>3. CASE Tick
  BY <1>0, <1>3 DEF Tick
<1>4. CASE Query
  BY <1>0, <1>4 DEF Query, DeviceIsDone
<1>5. CASE ConfirmPut
  BY <1>0, <1>5 DEF ConfirmPut
<1>6. CASE ConfirmPage
  BY <1>0, <1>6 DEF ConfirmPage, Expected
<1>7. CASE ConfirmFailed
  BY <1>0, <1>7 DEF ConfirmFailed, Expected
<1>8. CASE HearPut
  BY <1>0, <1>8 DEF HearPut
<1>9. CASE Answer
  BY <1>0, <1>9 DEF Answer, TakeSlot, Fits, Asked
<1>10. CASE NoAnswer
  BY <1>0, <1>10 DEF NoAnswer, TakeSlot, Fits, Asked
<1>11. CASE Lost
  BY <1>0, <1>11 DEF Lost
<1>12. CASE Update
  BY <1>0, <1>12, MadeFacts, EnoughFree DEF Update, Make, Fresh, Used
<1>13. CASE NextPage
  BY <1>0, <1>13, PageFacts, MadeFacts, EnoughFree DEF NextPage, Make
<1>14. CASE Post
  BY <1>0, <1>14 DEF Post
<1>15. CASE Finish
  BY <1>0, <1>15 DEF Finish
<1>16. CASE Restart
  BY <1>0, <1>16 DEF Restart
<1>17. CASE UNCHANGED vars
  BY <1>0, <1>17 DEF vars
<1> QED
  BY <1>1, <1>2, <1>3, <1>4, <1>5, <1>6, <1>7, <1>8, <1>9, <1>10, <1>11,
    <1>12, <1>13, <1>14, <1>15, <1>16, <1>17 DEF Next

\* A GET moves reader and performer on together, or the reader gives up.
LEMMA WholeStep ==
  ASSUME IInv, [Next]_vars
  PROVE  Whole'
<1> USE DEF IInv, TypeOK, Working, Holds, Sound, Posted, Stands, NeverShort,
  Whole, Follows, Reading, install, host, line, loop, serve
<1>0. TypeOK /\ size \in Sizes /\ UNCHANGED <<install, PageCount, Pages, Paged>>
  BY Steps, Installed DEF IInv, TypeOK
<1>1. CASE Start
  BY <1>0, <1>1 DEF Start
<1>2. CASE Stop
  BY <1>0, <1>2 DEF Stop
<1>3. CASE Tick
  BY <1>0, <1>3 DEF Tick
<1>4. CASE Query
  BY <1>0, <1>4 DEF Query, DeviceIsDone
<1>5. CASE ConfirmPut
  BY <1>0, <1>5 DEF ConfirmPut
<1>6. CASE ConfirmPage
  <2>1. /\ got \in Message /\ page \in 0..(PageCount - 1) /\ PageCount \in Nat \ {0}
        /\ got.page \in Nat /\ data \in [0..(PageCount - 1) -> Versions \cup {0}]
        /\ state = "get" /\ bus' = "free" /\ (~Paged => PageCount = 1)
        /\ data' = [data EXCEPT ![page] = got.ver]
    BY <1>0, <1>6, PageFacts DEF ConfirmPage, Expected, Message
  <2>2. CASE page + 1 = PageCount
    BY <2>2, <2>1, <1>6 DEF ConfirmPage
  <2>3. CASE page + 1 # PageCount
    <3>1. Paged /\ got.page = page /\ page' = page + 1 /\ state' = "get"
      BY <2>1, <2>3, <1>6 DEF ConfirmPage, Expected
    <3>2. got.ver # 0 /\ (page # 0 => data[0] = got.ver)
      BY <2>1, <3>1, <1>6 DEF ConfirmPage
    <3>3. page # 0 => \A p \in 0..(page - 1) : data[p] = got.ver
      BY <2>1, <3>2
    <3>7. \A p \in 0..page : data'[p] = got.ver
      <4> HIDE DEF IInv
      <4>1. ASSUME NEW p \in 0..page PROVE data'[p] = got.ver
        <5>1. CASE p = page
          BY <2>1, <5>1
        <5>2. CASE p # page
          BY <2>1, <3>3, <5>2
        <5> QED
          BY <5>1, <5>2
      <4> QED
        BY <4>1
    <3>4. data'[0] = got.ver /\ 0 \in 0..page
      BY <2>1, <3>7
    <3>5. Follows(page + 1, got.ver)
      BY <3>1, <1>6 DEF ConfirmPage
    <3>6. UNCHANGED <<slot, made, ver, devPage, request, pc>>
      BY <1>6 DEF ConfirmPage
    <3>8. ASSUME NEW k, NEW w, Follows(k, w) PROVE Follows(k, w)'
      BY <1>0, <3>6, <3>8
    <3>9. data'[0] = got.ver /\ page' - 1 = page /\ got.ver # 0
      BY <2>1, <3>1, <3>2, <3>4
    <3>10. Follows(page, data[0])'
      BY <3>1, <3>5, <3>8, <3>9
    <3> HIDE DEF IInv, Follows, Sound
    <3> QED
      BY <2>1, <3>1, <3>7, <3>9, <3>10
  <2> QED
    BY <2>2, <2>3
<1>7. CASE ConfirmFailed
  BY <1>0, <1>7 DEF ConfirmFailed, Expected
<1>8. CASE HearPut
  BY <1>0, <1>8 DEF HearPut
<1>9. CASE Answer
  <2>1. /\ slot \in Message /\ slot # Nothing /\ slot.page \in Nat
        /\ page \in 0..(PageCount - 1) /\ PageCount \in Nat \ {0}
        /\ ~Paged => PageCount = 1
        /\ devPage \in Nat
    BY <1>0, <1>9, PageFacts DEF Answer, Fits, Message
  <2>2. /\ got' = slot /\ slot' = Nothing /\ bus = "get" /\ bus' = "got"
        /\ request' = IF request = "idle" THEN "get" ELSE request
        /\ UNCHANGED <<state, page, data, made, ver, devPage, pc>>
    BY <1>9 DEF Answer, TakeSlot
  <2>3. (Reading /\ slot.page = page) => slot.ver = data[0]
    BY <2>1, <2>2
  <2>4. (Paged /\ made # Nothing) => made.page = 0
    BY <1>0, <2>1
  <2>5. (Paged /\ request' = "get" /\ pc = "loop") =>
          devPage = slot.page /\ (devPage < PageCount => ver = slot.ver)
    BY <1>0, <2>1, <2>2
  <2>6. Follows(got.page + 1, got.ver)'
    <3> HIDE DEF IInv
    <3> QED
      BY <1>0, <2>1, <2>2, <2>4, <2>5
  <2> QED
    BY <1>0, <2>1, <2>2, <2>3, <2>6
<1>10. CASE NoAnswer
  BY <1>0, <1>10 DEF NoAnswer, TakeSlot, Fits, Asked
<1>11. CASE Lost
  BY <1>0, <1>11 DEF Lost
<1>12. CASE Update
  <2>1. PICK v \in Versions : ver' = v
    BY <1>12 DEF Update
  <2>2. First(ver') # Nothing /\ First(ver').page = 0
    BY <1>0, <2>1, MadeFacts
  <2>3. made' = First(ver') /\ pc' = "post" /\ UNCHANGED <<slot, request, state, page, data, bus, got>>
    BY <1>0, <1>12, EnoughFree DEF Update, Make
  <2>4. page \in Nat /\ (got # Nothing => got.page \in Nat)
    BY <1>0, PageFacts DEF Message
  <2>5. ASSUME NEW k \in Nat, k # 0, NEW w, Follows(k, w) PROVE Follows(k, w)'
    BY <1>0, <2>2, <2>3, <2>5
  <2> QED
    BY <1>0, <2>2, <2>3, <2>4
<1>13. CASE NextPage
  BY <1>0, <1>13, PageFacts, MadeFacts DEF NextPage, Make
<1>14. CASE Post
  BY <1>0, <1>14 DEF Post
<1>15. CASE Finish
  BY <1>0, <1>15 DEF Finish
<1>16. CASE Restart
  BY <1>0, <1>16 DEF Restart
<1>17. CASE UNCHANGED vars
  BY <1>0, <1>17 DEF vars
<1> QED
  BY <1>1, <1>2, <1>3, <1>4, <1>5, <1>6, <1>7, <1>8, <1>9, <1>10, <1>11,
    <1>12, <1>13, <1>14, <1>15, <1>16, <1>17 DEF Next

\* A first page is moved on, never copied.
LEMMA OnceStep ==
  ASSUME IInv, Once, [Next]_vars
  PROVE  Once'
<1> USE DEF IInv, TypeOK, Working, Holds, Sound, Whole, Reading, Once, Differ,
  Begins, install, host, line, loop, serve
<1>0. TypeOK /\ size \in Sizes /\ UNCHANGED <<install, PageCount, Pages, Paged>>
  BY Steps, Installed DEF IInv, TypeOK
<1>1. CASE Start
  BY <1>0, <1>1 DEF Start
<1>2. CASE Stop
  BY <1>0, <1>2 DEF Stop
<1>3. CASE Tick
  BY <1>0, <1>3 DEF Tick
<1>4. CASE Query
  BY <1>0, <1>4 DEF Query, DeviceIsDone
<1>5. CASE ConfirmPut
  BY <1>0, <1>5 DEF ConfirmPut
<1>6. CASE ConfirmPage
  BY <1>0, <1>6 DEF ConfirmPage, Expected
<1>7. CASE ConfirmFailed
  BY <1>0, <1>7 DEF ConfirmFailed, Expected
<1>8. CASE HearPut
  BY <1>0, <1>8 DEF HearPut
<1>9. CASE Answer
  BY <1>0, <1>9 DEF Answer, TakeSlot, Fits, Asked
<1>10. CASE NoAnswer
  BY <1>0, <1>10 DEF NoAnswer, TakeSlot, Fits, Asked
<1>11. CASE Lost
  BY <1>0, <1>11 DEF Lost
<1>12. CASE Update
  BY <1>0, <1>12, PageFacts, MadeFacts DEF Update, Make, Fresh, Used
<1>13. CASE NextPage
  BY <1>0, <1>13, MadeFacts DEF NextPage, Make
<1>14. CASE Post
  BY <1>0, <1>14 DEF Post
<1>15. CASE Finish
  BY <1>0, <1>15 DEF Finish
<1>16. CASE Restart
  BY <1>0, <1>16 DEF Restart
<1>17. CASE UNCHANGED vars
  BY <1>0, <1>17 DEF vars
<1> QED
  BY <1>1, <1>2, <1>3, <1>4, <1>5, <1>6, <1>7, <1>8, <1>9, <1>10, <1>11,
    <1>12, <1>13, <1>14, <1>15, <1>16, <1>17 DEF Next

LEMMA InitInvariant == Init => IInv /\ Once
<1> SUFFICES ASSUME Init PROVE IInv /\ Once
  OBVIOUS
<1>1. PageCount \in Nat \ {0} /\ 0 \in Pages
  BY PageFacts DEF Init
<1>2. TypeOK
  <2>1. free \in 0..Pool /\ devPage \in Nat
    BY PoolAssumption DEF Init
  <2>2. page \in Pages /\ data \in [Pages -> Versions \cup {0}]
    BY <1>1 DEF Init
  <2> QED
    BY <2>1, <2>2 DEF Init, TypeOK
<1>4. MessagesKept
  BY PoolAssumption DEF Init, MessagesKept, Held
<1>3. Working /\ Holds /\ Posted /\ Whole /\ Once
  BY <1>1 DEF Init, Working, Holds, Sound, Posted, Stands, Whole, Reading,
    Once, Differ, Begins
<1> QED
  BY <1>2, <1>3, <1>4 DEF IInv

\* The invariant is inductive.
THEOREM Invariant == Spec => [](IInv /\ Once)
<1>1. IInv /\ Once /\ [Next]_vars => (IInv /\ Once)'
  BY TypeStep, KeptStep, WorkingStep, HoldsStep, PostedStep, WholeStep,
    OnceStep DEF IInv
<1> QED
  BY <1>1, InitInvariant, PTL DEF Spec

-----------------------------------------------------------------------------
(* What is proved of the snapshots. *)

\* Every variable keeps its type: no page is asked for or copied that the
\* snapshot does not have, and the pool never holds more than it was given.
THEOREM TypeCorrect == Spec => []TypeOK
BY Invariant, PTL DEF IInv

\* No message of the device's port gets lost, and the performer always finds
\* one, with the three messages that PoolAssumption asks for.
THEOREM MessagesAreKept == Spec => [](MessagesKept /\ NeverShort)
<1>1. IInv => MessagesKept /\ NeverShort
  BY EnoughFree DEF IInv
<1> QED
  BY <1>1, Invariant, PTL

\* The step that completes a snapshot copies its last page, and that page is of
\* the version of all the others.
LEMMA Completing ==
  ASSUME IInv, Once, [Next]_vars, Completes
  PROVE  /\ \A p \in Pages : data'[p] = data'[0] /\ data'[p] # 0
         /\ data'[0] # last
         /\ data'[0] = got.ver /\ bus = "got" /\ got.page < PageCount
<1> USE DEF install, host, line, loop, serve
<1>1. ConfirmPage
  BY DEF Next, vars, Completes, Start, Stop, Tick, Query, ConfirmPut,
    ConfirmFailed, HearPut, Answer, NoAnswer, Lost, Update, NextPage, Post,
    Finish, Restart
<1>2. /\ size \in Sizes /\ got \in Message /\ got # Nothing
      /\ page \in Pages /\ data \in [Pages -> Versions \cup {0}]
  BY <1>1 DEF IInv, TypeOK, Holds, ConfirmPage
<1>3. /\ PageCount \in Nat \ {0} /\ (~Paged => PageCount = 1)
      /\ Pages = 0..(PageCount - 1)
  BY <1>2, PageFacts
<1>4. /\ state = "get" /\ page + 1 = PageCount
      /\ data' = [data EXCEPT ![page] = got.ver]
  BY <1>1 DEF ConfirmPage, Expected, Completes
<1>5. got.page \in Nat /\ (Paged => got.page = page)
  BY <1>1, <1>2 DEF ConfirmPage, Expected, Message
<1>6. ~Paged => got.page = 0
  BY <1>1, <1>2 DEF IInv, Holds, Sound, ConfirmPage
<1>7. got.page = page
  BY <1>2, <1>3, <1>4, <1>5, <1>6
<1>8. got.ver # 0 /\ (page = 0 => got.ver # last)
  BY <1>2, <1>3, <1>4, <1>7 DEF IInv, Holds, Sound, Once, Begins
<1>9. page # 0 =>
        /\ \A p \in 0..(page - 1) : data[p] = got.ver
        /\ data[0] = got.ver /\ data[0] # last
  BY <1>1, <1>4, <1>7 DEF IInv, Whole, Reading, Once, ConfirmPage
<1>10. ASSUME NEW p \in Pages PROVE data'[p] = got.ver
  <2>1. CASE p = page
    BY <1>2, <1>4, <2>1
  <2>2. CASE p # page
    BY <1>2, <1>3, <1>4, <1>9, <2>2
  <2> QED
    BY <2>1, <2>2
<1>11. data'[0] = got.ver
  BY <1>3, <1>10
<1>12. bus = "got" /\ got.page < PageCount
  <2>1. bus = "got"
    BY <1>1 DEF ConfirmPage
  <2>2. page < PageCount
    BY <1>2, <1>3
  <2> QED
    BY <1>7, <2>1, <2>2
<1> QED
  BY <1>8, <1>9, <1>10, <1>11, <1>12

\* A snapshot that completes was taken at one moment, for every size.
THEOREM SnapshotsAreWhole == Spec => SnapshotIsWhole
<1>1. IInv /\ Once /\ [Next]_vars =>
        [Completes => \A p \in Pages : data'[p] = data'[0] /\ data'[p] # 0]_vars
  BY Completing
<1> QED
  BY <1>1, Invariant, PTL DEF Spec, SnapshotIsWhole

\* No update of the memory is delivered twice.
THEOREM DeliveredAtMostOnce == Spec => DeliveredOnce
<1>1. IInv /\ Once /\ [Next]_vars => [Completes => data'[0] # last]_vars
  BY Completing
<1> QED
  BY <1>1, Invariant, PTL DEF Spec, DeliveredOnce

-----------------------------------------------------------------------------
(* What completes on a steady drive. *)

\* The page that is ready is of the memory as it is, but between an update and
\* the posting of its first page; and there is no update while a steady reader
\* waits for a page or has one in hand.
Current ==
  /\ (made # Nothing /\ made.page < PageCount) => made.ver = ver
  /\ (slot # Nothing /\ slot.page < PageCount /\ pc # "post") => slot.ver = ver
  /\ (steady /\ bus \in {"put", "get", "got"}) => request # "put"
  /\ (steady /\ bus = "got" /\ got.page < PageCount) => got.ver = ver

LEMMA CurrentStep ==
  ASSUME IInv, Current, [Next]_vars
  PROVE  Current'
<1> USE DEF IInv, TypeOK, Working, Holds, NeverShort, Current, install, host, line,
  loop, serve
<1>0. TypeOK /\ size \in Sizes /\ UNCHANGED <<install, PageCount, Pages, Paged>>
      /\ steady' = steady
  BY Steps, Installed DEF IInv, TypeOK
<1>1. CASE Start
  BY <1>0, <1>1 DEF Start
<1>2. CASE Stop
  BY <1>0, <1>2 DEF Stop
<1>3. CASE Tick
  BY <1>0, <1>3 DEF Tick
<1>4. CASE Query
  BY <1>0, <1>4 DEF Query, DeviceIsDone
<1>5. CASE ConfirmPut
  BY <1>0, <1>5 DEF ConfirmPut
<1>6. CASE ConfirmPage
  BY <1>0, <1>6 DEF ConfirmPage, Expected
<1>7. CASE ConfirmFailed
  BY <1>0, <1>7 DEF ConfirmFailed, Expected
<1>8. CASE HearPut
  BY <1>0, <1>8 DEF HearPut
<1>9. CASE Answer
  BY <1>0, <1>9 DEF Answer, TakeSlot, Fits, Asked
<1>10. CASE NoAnswer
  BY <1>0, <1>10 DEF NoAnswer, TakeSlot, Fits, Asked
<1>11. CASE Lost
  BY <1>0, <1>11 DEF Lost
<1>12. CASE Update
  BY <1>0, <1>12, MadeFacts, EnoughFree DEF Update, Make
<1>13. CASE NextPage
  BY <1>0, <1>13, PageFacts, MadeFacts DEF NextPage, Make
<1>14. CASE Post
  BY <1>0, <1>14 DEF Post
<1>15. CASE Finish
  BY <1>0, <1>15 DEF Finish
<1>16. CASE Restart
  BY <1>0, <1>16 DEF Restart
<1>17. CASE UNCHANGED vars
  BY <1>0, <1>17 DEF vars
<1> QED
  BY <1>1, <1>2, <1>3, <1>4, <1>5, <1>6, <1>7, <1>8, <1>9, <1>10, <1>11,
    <1>12, <1>13, <1>14, <1>15, <1>16, <1>17 DEF Next

\* On a steady drive what completes is what the device's memory holds
\* (datamap::confirm, snapshot_proto::execute).
THEOREM SnapshotsAreCurrent == Spec => SnapshotIsCurrent
<1>1. Init => Current
  BY DEF Init, Current
<1>2. IInv /\ Current /\ [Next]_vars => Current'
  BY CurrentStep
<1>3. IInv /\ Once /\ Current /\ [Next]_vars =>
        [steady /\ Completes => data'[0] = ver]_vars
  BY Completing DEF Current
<1> QED
  BY <1>1, <1>2, <1>3, Invariant, PTL DEF Spec, SnapshotIsCurrent
=============================================================================
