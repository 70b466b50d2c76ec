---------------------------- MODULE AppTree_proofs ----------------------------
(***************************************************************************)
(* Proofs about the life of an application, for every tree of nodes.       *)
(*                                                                         *)
(* No induction over the tree is needed: Upward(n) is the least set closed *)
(* under owner_ that contains n, so a set that is closed under owner_ and  *)
(* does not contain the root is empty.                                     *)
(***************************************************************************)
EXTENDS AppTree, TLAPS

-----------------------------------------------------------------------------
(* The tree. *)

\* Upward(n) is closed under owner_ and contains n.
LEMMA UpwardClosed ==
  ASSUME NEW n \in Nodes
  PROVE  /\ n \in Upward(n)
         /\ Upward(n) \subseteq Nodes
         /\ \A m \in Upward(n) \ {Root} : Parent[m] \in Upward(n)
<1>1. ASSUME NEW m \in Upward(n) \ {Root}, NEW A \in SUBSET Nodes, n \in A, UpClosed(A)
      PROVE  Parent[m] \in A
  BY <1>1 DEF Upward, UpClosed
<1>2. \A m \in Upward(n) \ {Root} : m \in Nodes /\ Parent[m] \in Nodes
  BY TreeAssumption DEF Upward
<1>3. QED
  BY <1>1, <1>2 DEF Upward

\* Upward(n) is the least such set.
LEMMA UpwardLeast ==
  ASSUME NEW n \in Nodes, NEW A \in SUBSET Nodes, n \in A,
         \A m \in A \ {Root} : Parent[m] \in A
  PROVE  Upward(n) \subseteq A
BY DEF Upward, UpClosed

\* Above n are n itself and what is above its owner.
LEMMA UpwardStep ==
  ASSUME NEW n \in Nodes \ {Root}
  PROVE  /\ Parent[n] \in Nodes
         /\ Upward(n) = {n} \cup Upward(Parent[n])
<1>1. Parent[n] \in Nodes
  BY TreeAssumption
<1>2. Upward(n) \subseteq {n} \cup Upward(Parent[n])
  <2>1. \A m \in ({n} \cup Upward(Parent[n])) \ {Root} :
          Parent[m] \in {n} \cup Upward(Parent[n])
    BY <1>1, UpwardClosed
  <2>2. {n} \cup Upward(Parent[n]) \in SUBSET Nodes
    BY <1>1, UpwardClosed
  <2>3. QED
    BY <2>1, <2>2, UpwardLeast
<1>3. Upward(Parent[n]) \subseteq Upward(n)
  <2>1. Parent[n] \in Upward(n) /\ Upward(n) \in SUBSET Nodes
    BY UpwardClosed
  <2>2. QED
    BY <1>1, <2>1, UpwardClosed, UpwardLeast
<1>4. QED
  BY <1>1, <1>2, <1>3, UpwardClosed

\* Only the root is above the root.
LEMMA UpwardRoot == Root \in Nodes /\ Upward(Root) = {Root}
<1>1. Root \in Nodes
  BY TreeAssumption
<1>2. Upward(Root) \subseteq {Root}
  BY <1>1, UpwardLeast
<1>3. QED
  BY <1>1, <1>2, UpwardClosed

\* What holds of the root and passes from owners to children holds of all nodes.
LEMMA WholeTree ==
  ASSUME NEW A \in SUBSET Nodes, Root \in A,
         \A n \in Nodes \ {Root} : Parent[n] \in A => n \in A
  PROVE  A = Nodes
<1>1. SUFFICES ASSUME NEW n \in Nodes, n \notin A PROVE FALSE
  OBVIOUS
<1>2. \A m \in (Nodes \ A) \ {Root} : Parent[m] \in Nodes \ A
  BY TreeAssumption
<1>3. Upward(n) \subseteq Nodes \ A
  BY <1>1, <1>2, UpwardLeast
<1>4. QED
  BY <1>3, TreeAssumption

-----------------------------------------------------------------------------
(* The inductive invariant. *)

\* The children of a node that starts up or executes have gone at least as far,
\* those of a node that shuts down have been told to stop as well.
InStepOf(t) ==
  \A n \in Nodes \ {Root} :
    /\ t[Parent[n]] = "startup" => t[n] \in {"startup", "execute"}
    /\ t[Parent[n]] = "execute" => t[n] = "execute"
    /\ t[Parent[n]] = "shutdown" => t[n] # "execute"

InStep == InStepOf(st)

\* An application that is to be started is stopped everywhere.
Fresh ==
  /\ phase = "loaded" => ~terminated /\ \A n \in Nodes : st[n] = "stopped"
  /\ phase = "running" /\ ~terminated /\ st[Root] = "stopped" =>
       \A n \in Nodes : st[n] = "stopped"

\* While the machine comes up or executes, so does every node.
AllUp ==
  phase = "running" /\ st[Root] \in {"startup", "execute"} =>
    \A n \in Nodes : st[n] \in {"startup", "execute"}

IInv == TypeOK /\ InStep /\ Fresh /\ AllUp /\ NoneOutlivesOwner

LEMMA InitInv == Init => IInv
BY TreeAssumption
   DEF Init, IInv, TypeOK, States, InStep, InStepOf, Fresh, AllUp, NoneOutlivesOwner, Running

\* A panic of p reaches the root and whatever is between.
LEMMA PanicInStep ==
  ASSUME NEW t \in [Nodes -> States], NEW p \in Nodes, InStepOf(t)
  PROVE  /\ Panicked(t, p) \in [Nodes -> States]
         /\ InStepOf(Panicked(t, p))
         /\ Panicked(t, p)[Root] = "panic"
         /\ \A n \in Nodes : Panicked(t, p)[n] \in {"panic", t[n]}
<1>1. Root \in Nodes /\ Root \in Upward(p)
  BY TreeAssumption
<1>2. \A n \in Nodes \ {Root} : Parent[n] \in Nodes /\ (n \in Upward(p) => Parent[n] \in Upward(p))
  BY TreeAssumption, UpwardClosed
<1>3. QED
  BY <1>1, <1>2 DEF Panicked, States, InStepOf

\* A turn to the states t keeps the invariant when t keeps its parts.
LEMMA TurnInv ==
  ASSUME IInv, NEW t \in [Nodes -> States], Turn(t), system' \in BOOLEAN, InStepOf(t),
         t[Root] \in {"startup", "execute"} => \A n \in Nodes : t[n] \in {"startup", "execute"},
         \A n \in Nodes \ {Root} :
           t[n] \in {"execute", "shutdown"} => t[Parent[n]] \in Running \cup {"panic"}
  PROVE  IInv'
<1>1. /\ st' = t /\ phase' = "running" /\ req' = req
      /\ terminated' = (t[Root] \in {"panic", "clean", "stopped"})
  BY DEF Turn
<1>2. TypeOK'
  BY <1>1 DEF IInv, TypeOK
<1>3. InStep'
  BY <1>1 DEF InStep, InStepOf
<1>4. Fresh'
  BY <1>1 DEF Fresh
<1>5. AllUp'
  BY <1>1 DEF AllUp
<1>6. NoneOutlivesOwner'
  BY <1>1 DEF NoneOutlivesOwner
<1>7. QED
  BY <1>2, <1>3, <1>4, <1>5, <1>6 DEF IInv

LEMMA StartInv == IInv /\ TurnStart => IInv'
<1> SUFFICES ASSUME IInv, TurnStart PROVE IInv'
  OBVIOUS
<1> DEFINE t == [n \in Nodes |-> "startup"]
<1>1. Turn(t) /\ system' \in BOOLEAN
  BY DEF TurnStart, IInv, TypeOK
<1>2. t \in [Nodes -> States] /\ InStepOf(t)
  BY TreeAssumption DEF States, InStepOf
<1>3. \A n \in Nodes : t[n] = "startup"
  OBVIOUS
<1> HIDE DEF t
<1>4. QED
  BY <1>1, <1>2, <1>3, TurnInv

LEMMA StartFailsInv ==
  ASSUME IInv, NEW f \in Nodes, NEW D \in SUBSET Nodes, TurnStartFails(f, D)
  PROVE  IInv'
<1> DEFINE t == [n \in Nodes |-> IF n \in D THEN "startup" ELSE st[n]]
<1>1. Turn(t) /\ system' \in BOOLEAN
  BY DEF TurnStartFails, IInv, TypeOK
<1>2. \A n \in Nodes : st[n] = "stopped"
  BY DEF TurnStartFails, Turn, IInv, Fresh
<1>3. Root \notin D
  BY TreeAssumption DEF TurnStartFails, BrokenOff
<1>4. \A n \in Nodes : t[n] = IF n \in D THEN "startup" ELSE "stopped"
  BY <1>2
<1>5. \A n \in Nodes \ {Root} : Parent[n] \in Nodes /\ (Parent[n] \in D => n \in D)
  BY TreeAssumption DEF TurnStartFails, BrokenOff, Children
<1>6. t \in [Nodes -> States]
  BY DEF IInv, TypeOK, States
<1> HIDE DEF t
<1>7. InStepOf(t)
  BY <1>4, <1>5 DEF InStepOf
<1>8. t[Root] = "stopped" /\ \A n \in Nodes : t[n] \notin {"execute", "shutdown"}
  BY <1>3, <1>4, TreeAssumption
<1>9. QED
  BY <1>1, <1>6, <1>7, <1>8, TurnInv

\* A pass of do_startup() over the tree.
LEMMA StartupInv ==
  ASSUME IInv, NEW C \in SUBSET Nodes, NEW p \in Nodes \cup {NoNode}, TurnStartup(C, p)
  PROVE  IInv'
<1> DEFINE t == [n \in Nodes |-> IF n \in C THEN "execute" ELSE st[n]]
<1>1. \/ Turn(t)
      \/ p \in Nodes /\ Turn(Panicked(t, p))
  BY DEF TurnStartup, Panics
<1>2. system' \in BOOLEAN
  BY DEF TurnStartup, IInv, TypeOK
<1>3. \A n \in Nodes : st[n] \in {"startup", "execute"}
  BY DEF TurnStartup, Turn, IInv, AllUp
<1>4. \A n \in C : st[n] = "startup" /\ \A c \in Nodes \ {Root} :
        Parent[c] = n /\ st[c] = "startup" => c \in C
  BY DEF TurnStartup, Completes, Children
<1>5. \A n \in Nodes \ {Root} : Parent[n] \in Nodes
  BY TreeAssumption
<1>6. \A n \in Nodes : t[n] = IF n \in C THEN "execute" ELSE st[n]
  OBVIOUS
<1>7. t \in [Nodes -> States]
  BY DEF IInv, TypeOK, States
<1> HIDE DEF t
<1>8. InStepOf(t)
  BY <1>3, <1>4, <1>5, <1>6 DEF IInv, InStep, InStepOf
<1>9. \A n \in Nodes : t[n] \in {"startup", "execute"}
  BY <1>3, <1>6
<1>10. CASE Turn(t)
  BY <1>2, <1>5, <1>7, <1>8, <1>9, <1>10, TurnInv DEF Running
<1>11. CASE p \in Nodes /\ Turn(Panicked(t, p))
  <2> DEFINE u == Panicked(t, p)
  <2>1. /\ u \in [Nodes -> States] /\ InStepOf(u) /\ u[Root] = "panic"
        /\ \A n \in Nodes : u[n] \in {"panic", t[n]}
    BY <1>7, <1>8, <1>11, PanicInStep
  <2>2. \A n \in Nodes : u[n] \in Running \cup {"panic"}
    BY <1>9, <2>1 DEF Running
  <2> HIDE DEF u
  <2>3. Turn(u)
    BY <1>11 DEF u
  <2>4. QED
    BY <1>2, <1>5, <2>1, <2>2, <2>3, TurnInv
<1>12. QED
  BY <1>1, <1>10, <1>11

\* A stop reaches every child that executes below a node it reaches.
LEMMA StopInv == IInv /\ TurnStop => IInv'
<1> SUFFICES ASSUME IInv, TurnStop PROVE IInv'
  OBVIOUS
<1> DEFINE R == Reached({"execute"})
           t == Stopped
<1>1. Turn(t) /\ system' \in BOOLEAN
  BY DEF TurnStop, IInv, TypeOK
<1>2. \A n \in Nodes : st[n] \in {"startup", "execute"}
  BY DEF TurnStop, Turn, IInv, AllUp
<1>3. \A n \in Nodes : t[n] = IF n = Root \/ n \in R THEN "shutdown" ELSE st[n]
  BY DEF Stopped
<1>4. t \in [Nodes -> States]
  BY DEF Stopped, IInv, TypeOK, States
<1>5. ASSUME NEW n \in Nodes \ {Root}
      PROVE  /\ Parent[n] \in Nodes
             /\ n \in R <=> st[n] = "execute" /\ Parent[n] \in R
             /\ n \in R => st[n] = "execute"
  <2>1. Parent[n] \in Nodes /\ Upward(n) = {n} \cup Upward(Parent[n])
    BY UpwardStep
  <2>2. QED
    BY <2>1 DEF Reached
<1>6. Root \in R
  BY UpwardRoot DEF Reached
<1> HIDE DEF R, t
<1>7. InStepOf(t)
  <2> SUFFICES ASSUME NEW n \in Nodes \ {Root}
               PROVE  /\ t[Parent[n]] = "startup" => t[n] \in {"startup", "execute"}
                      /\ t[Parent[n]] = "execute" => t[n] = "execute"
                      /\ t[Parent[n]] = "shutdown" => t[n] # "execute"
    BY DEF InStepOf
  <2>1. /\ st[Parent[n]] = "startup" => st[n] \in {"startup", "execute"}
        /\ st[Parent[n]] = "execute" => st[n] = "execute"
    BY DEF IInv, InStep, InStepOf
  <2>2. CASE Parent[n] \in R
    BY <1>2, <1>3, <1>5, <1>6, <2>2
  <2>3. CASE Parent[n] \notin R
    BY <1>2, <1>3, <1>5, <1>6, <2>1, <2>3
  <2>4. QED
    BY <2>2, <2>3
<1>8. t[Root] = "shutdown" /\ \A n \in Nodes : t[n] \in Running
  BY <1>2, <1>3, <1>6, UpwardRoot DEF Running
<1>9. QED
  BY <1>1, <1>4, <1>5, <1>7, <1>8, TurnInv

\* A pass of do_shutdown() over the tree.
LEMMA ShutdownInv ==
  ASSUME IInv, NEW C \in SUBSET Nodes, NEW p \in Nodes \cup {NoNode}, TurnShutdown(C, p)
  PROVE  IInv'
<1> DEFINE t == [n \in Nodes |-> IF n \in C THEN "stopped" ELSE st[n]]
<1>1. \/ Turn(t)
      \/ p \in Nodes /\ Turn(Panicked(t, p))
  BY DEF TurnShutdown, Panics
<1>2. system' \in BOOLEAN /\ st[Root] = "shutdown" /\ phase = "running"
  BY DEF TurnShutdown, Turn
<1>3. \A n \in C : st[n] = "shutdown" /\ \A c \in Nodes \ {Root} :
        Parent[c] = n /\ st[c] = "shutdown" => c \in C
  BY DEF TurnShutdown, Completes, Children
<1>4. \A n \in Nodes \ {Root} : Parent[n] \in Nodes
  BY TreeAssumption
<1>5. \A n \in Nodes : t[n] = IF n \in C THEN "stopped" ELSE st[n]
  OBVIOUS
<1>6. t \in [Nodes -> States]
  BY DEF IInv, TypeOK, States
<1> HIDE DEF t
<1>7. InStepOf(t)
  BY <1>3, <1>4, <1>5 DEF IInv, InStep, InStepOf
<1>8. \A n \in Nodes \ {Root} :
        t[n] \in {"execute", "shutdown"} => t[Parent[n]] \in Running \cup {"panic"}
  <2> SUFFICES ASSUME NEW n \in Nodes \ {Root}, t[n] \in {"execute", "shutdown"}
               PROVE  t[Parent[n]] \in Running \cup {"panic"}
    OBVIOUS
  <2>1. n \notin C /\ st[n] = t[n]
    BY <1>5
  <2>2. st[Parent[n]] \in Running \cup {"panic"}
    BY <1>2, <2>1 DEF IInv, NoneOutlivesOwner
  <2>3. Parent[n] \notin C
    BY <1>3, <2>1 DEF IInv, InStep, InStepOf
  <2>4. QED
    BY <1>4, <1>5, <2>2, <2>3
<1>9. t[Root] \in {"shutdown", "stopped"}
  BY <1>2, <1>5, UpwardRoot
<1>10. CASE Turn(t)
  BY <1>2, <1>6, <1>7, <1>8, <1>9, <1>10, TurnInv
<1>11. CASE p \in Nodes /\ Turn(Panicked(t, p))
  <2> DEFINE u == Panicked(t, p)
  <2>1. /\ u \in [Nodes -> States] /\ InStepOf(u) /\ u[Root] = "panic"
        /\ \A n \in Nodes : u[n] \in {"panic", t[n]}
    BY <1>6, <1>7, <1>11, PanicInStep
  <2> HIDE DEF u
  <2>2. \A n \in Nodes \ {Root} :
          u[n] \in {"execute", "shutdown"} => u[Parent[n]] \in Running \cup {"panic"}
    BY <1>4, <1>8, <2>1
  <2>3. Turn(u)
    BY <1>11 DEF u
  <2>4. QED
    BY <1>2, <2>1, <2>2, <2>3, TurnInv
<1>12. QED
  BY <1>1, <1>10, <1>11

\* clean() cannot pass a node that is up, so the nodes below one keep their states.
LEMMA FinishInv == IInv /\ Finish => IInv'
<1> SUFFICES ASSUME IInv, Finish PROVE IInv'
  OBVIOUS
<1> DEFINE R == Reached({"stopped", "loading"}) \cup Children(Root)
<1>1. \A n \in Nodes : st'[n] = IF n \in R THEN "clean" ELSE st[n]
  BY DEF Finish
<1>2. \A n \in Reached({"stopped", "loading"}) \ {Root} : st[n] \in {"stopped", "loading"}
  BY UpwardClosed DEF Reached
<1>3. Root \in R
  BY UpwardRoot DEF Reached
<1>4. \A n \in Children(Root) : Parent[n] = Root
  BY DEF Children
<1>5. \A n \in Nodes \ {Root} : Parent[n] \in Nodes
  BY TreeAssumption
<1>6. TypeOK'
  BY DEF Finish, IInv, TypeOK, States
<1>7. InStep'
  <2> SUFFICES ASSUME NEW n \in Nodes \ {Root}
               PROVE  /\ st'[Parent[n]] = "startup" => st'[n] \in {"startup", "execute"}
                      /\ st'[Parent[n]] = "execute" => st'[n] = "execute"
                      /\ st'[Parent[n]] = "shutdown" => st'[n] # "execute"
    BY DEF InStep, InStepOf
  <2>1. /\ st[Parent[n]] = "startup" => st[n] \in {"startup", "execute"}
        /\ st[Parent[n]] = "execute" => st[n] = "execute"
        /\ st[Parent[n]] = "shutdown" => st[n] # "execute"
    BY DEF IInv, InStep, InStepOf
  <2>2. CASE Parent[n] \in R
    BY <1>1, <1>5, <2>2
  <2>3. CASE Parent[n] \notin R
    <3>1. n \in R => st[n] \in {"stopped", "loading"}
      BY <1>2, <1>3, <1>4, <2>3
    <3>2. st'[Parent[n]] = st[Parent[n]]
      BY <1>1, <1>5, <2>3
    <3> HIDE DEF R
    <3>3. QED
      BY <1>1, <2>1, <3>1, <3>2
  <2>4. QED
    BY <2>2, <2>3
<1>8. Fresh' /\ AllUp' /\ NoneOutlivesOwner'
  BY DEF Finish, Fresh, AllUp, NoneOutlivesOwner
<1>9. QED
  BY <1>6, <1>7, <1>8 DEF IInv

LEMMA BeginInv == IInv /\ Begin => IInv'
BY TreeAssumption
   DEF Begin, IInv, TypeOK, States, InStep, InStepOf, Fresh, AllUp, NoneOutlivesOwner, Running

LEMMA BeginFailsInv ==
  ASSUME IInv, NEW f \in Nodes, NEW D \in SUBSET Nodes, BeginFails(f, D)
  PROVE  IInv'
<1>1. \A n \in Nodes : st'[n] \in {"stopped", "loading", "clean"}
  BY DEF BeginFails
<1>2. \A n \in Nodes \ {Root} : Parent[n] \in Nodes
  BY TreeAssumption
<1>3. TypeOK'
  BY DEF BeginFails, IInv, TypeOK, States
<1>4. InStep'
  BY <1>1, <1>2 DEF InStep, InStepOf
<1>5. Fresh' /\ AllUp' /\ NoneOutlivesOwner'
  BY DEF BeginFails, Fresh, AllUp, NoneOutlivesOwner
<1>6. QED
  BY <1>3, <1>4, <1>5 DEF IInv

\* Requests leave the nodes alone.
LEMMA RequestInv ==
  IInv /\ (RequestStart \/ RequestStartFails \/ RequestStop \/ TurnIdle \/ UNCHANGED vars) => IInv'
<1> SUFFICES ASSUME IInv, RequestStart \/ RequestStartFails \/ RequestStop \/ TurnIdle
                          \/ UNCHANGED vars
             PROVE  IInv'
  OBVIOUS
<1>1. st' = st /\ TypeOK'
  BY DEF RequestStart, RequestStartFails, RequestStop, TurnIdle, Turn, vars, IInv, TypeOK
<1>2. InStep'
  BY <1>1 DEF IInv, InStep, InStepOf
<1>3. Root \in Nodes
  BY TreeAssumption
<1>4. Fresh'
  BY <1>1, <1>3
     DEF RequestStart, RequestStartFails, RequestStop, TurnIdle, Turn, vars, IInv, Fresh
<1>5. CASE phase = "loaded"
  <2>1. \A n \in Nodes : st'[n] = "stopped"
    BY <1>1, <1>5 DEF IInv, Fresh
  <2>2. QED
    BY <1>1, <1>2, <1>3, <1>4, <2>1 DEF IInv, AllUp, NoneOutlivesOwner
<1>6. CASE phase # "loaded"
  <2>1. phase' = phase
    BY <1>6 DEF RequestStart, RequestStartFails, RequestStop, TurnIdle, Turn, vars
  <2>2. QED
    BY <1>1, <1>2, <1>4, <2>1 DEF IInv, AllUp, NoneOutlivesOwner
<1>7. QED
  BY <1>5, <1>6

LEMMA NextInv == IInv /\ [Next]_vars => IInv'
<1> SUFFICES ASSUME IInv, [Next]_vars PROVE IInv'
  OBVIOUS
<1>1. CASE Begin
  BY <1>1, BeginInv
<1>2. ASSUME NEW f \in Nodes, NEW D \in SUBSET Nodes, BeginFails(f, D) PROVE IInv'
  BY <1>2, BeginFailsInv
<1>3. CASE RequestStart \/ RequestStartFails \/ RequestStop \/ TurnIdle \/ UNCHANGED vars
  BY <1>3, RequestInv
<1>4. CASE Finish
  BY <1>4, FinishInv
<1>5. CASE TurnStart
  BY <1>5, StartInv
<1>6. ASSUME NEW f \in Nodes, NEW D \in SUBSET Nodes, TurnStartFails(f, D) PROVE IInv'
  BY <1>6, StartFailsInv
<1>7. ASSUME NEW C \in SUBSET Nodes, NEW p \in Nodes \cup {NoNode}, TurnStartup(C, p)
      PROVE  IInv'
  BY <1>7, StartupInv
<1>8. CASE TurnStop
  BY <1>8, StopInv
<1>9. ASSUME NEW C \in SUBSET Nodes, NEW p \in Nodes \cup {NoNode}, TurnShutdown(C, p)
      PROVE  IInv'
  BY <1>9, ShutdownInv
<1>10. CASE Ended
  BY <1>10, RequestInv DEF Ended
<1>11. QED
  BY <1>1, <1>2, <1>3, <1>4, <1>5, <1>6, <1>7, <1>8, <1>9, <1>10 DEF Next, Loop

\* The inductive invariant holds always.
THEOREM Inductive == Spec => []IInv
BY InitInv, NextInv, PTL DEF Spec

\* The variables keep their types.
THEOREM TypeCorrect == Spec => []TypeOK
<1>1. IInv => TypeOK
  BY DEF IInv
<1>2. QED
  BY <1>1, Inductive, PTL

\* In every tree and with any answers of its nodes, a node executes only on top
\* of children that execute.
THEOREM SubtreeAlwaysRuns == Spec => []SubtreeRuns
<1>1. IInv => SubtreeRuns
  BY DEF IInv, InStep, InStepOf, SubtreeRuns
<1>2. QED
  BY <1>1, Inductive, PTL

\* In every tree, no node is up below an owner that has been stopped.
THEOREM OwnersOutlive == Spec => []NoneOutlivesOwner
<1>1. IInv => NoneOutlivesOwner
  BY DEF IInv
<1>2. QED
  BY <1>1, Inductive, PTL

-----------------------------------------------------------------------------
(* An orderly stop: none is asked for while the application starts up. *)

\* The system runs until the machine has shut down; once it shuts down, the
\* nodes below a stopped one are stopped.
Orderly ==
  /\ phase = "running" /\ ~terminated => system
  /\ phase = "running" /\ st[Root] = "startup" => req = "start"
  /\ phase = "running" /\ st[Root] = "shutdown" =>
       /\ \A n \in Nodes : st[n] \in {"shutdown", "stopped"}
       /\ \A n \in Nodes \ {Root} : st[Parent[n]] = "stopped" => st[n] = "stopped"
  /\ AllStopped
  /\ SystemOutlives

\* When the machine executes, all nodes do.
LEMMA AllExecute == IInv /\ st[Root] = "execute" => \A n \in Nodes : st[n] = "execute"
<1> SUFFICES ASSUME IInv, st[Root] = "execute" PROVE \A n \in Nodes : st[n] = "execute"
  OBVIOUS
<1> DEFINE A == {n \in Nodes : st[n] = "execute"}
<1>1. Root \in A /\ A \in SUBSET Nodes
  BY TreeAssumption
<1>2. \A n \in Nodes \ {Root} : Parent[n] \in A => n \in A
  BY DEF IInv, InStep, InStepOf
<1> HIDE DEF A
<1>3. A = Nodes
  BY <1>1, <1>2, WholeTree
<1>4. QED
  BY <1>3 DEF A

\* A stop reaches every node of an application that executes.
LEMMA StopOrderly ==
  ASSUME ~EarlyStop, IInv, Orderly, TurnStop
  PROVE  Orderly'
<1>1. st[Root] = "execute" /\ phase = "running" /\ ~terminated
  BY DEF TurnStop, Turn, Orderly
<1>2. \A n \in Nodes : st[n] = "execute"
  BY <1>1, AllExecute
<1>3. \A n \in Nodes : n \in Reached({"execute"})
  BY <1>2, UpwardClosed DEF Reached
<1>4. \A n \in Nodes : st'[n] = "shutdown"
  BY <1>3 DEF TurnStop, Turn, Stopped
<1>5. system /\ system' = system /\ phase' = "running"
  BY <1>1 DEF TurnStop, Turn, Orderly
<1>6. \A n \in Nodes \ {Root} : Parent[n] \in Nodes
  BY TreeAssumption
<1>7. Root \in Nodes
  BY TreeAssumption
<1>8. QED
  BY <1>4, <1>5, <1>6, <1>7 DEF Orderly, AllStopped, SystemOutlives

\* The machine completes its shutdown when every node has.
LEMMA ShutdownOrderly ==
  ASSUME IInv, Orderly, NEW C \in SUBSET Nodes, NEW p \in Nodes \cup {NoNode},
         TurnShutdown(C, p)
  PROVE  Orderly'
<1> DEFINE t == [n \in Nodes |-> IF n \in C THEN "stopped" ELSE st[n]]
<1>1. /\ phase = "running" /\ st[Root] = "shutdown" /\ ~terminated /\ phase' = "running"
      /\ system' = (Root \notin C) /\ req' = req
      /\ Root \in Nodes
  BY TreeAssumption DEF TurnShutdown, Turn
<1>2. /\ \A n \in Nodes : st[n] \in {"shutdown", "stopped"}
      /\ \A n \in Nodes \ {Root} : st[Parent[n]] = "stopped" => st[n] = "stopped"
  BY <1>1 DEF Orderly
<1>3. \A n \in C : st[n] = "shutdown" /\ \A c \in Nodes \ {Root} :
        Parent[c] = n /\ st[c] = "shutdown" => c \in C
  BY DEF TurnShutdown, Completes, Children
<1>4. \A n \in Nodes \ {Root} : Parent[n] \in Nodes
  BY TreeAssumption
<1>5. \A n \in Nodes : t[n] = IF n \in C THEN "stopped" ELSE st[n]
  OBVIOUS
<1>6. \/ p = NoNode /\ Turn(t)
      \/ p \in Nodes \ (C \cup {Root}) /\ st[p] = "shutdown" /\ Turn(Panicked(t, p))
  BY DEF TurnShutdown, Panics
<1>7. t \in [Nodes -> States]
  BY DEF IInv, TypeOK, States
<1> HIDE DEF t
<1>8. /\ \A n \in Nodes : t[n] \in {"shutdown", "stopped"}
      /\ \A n \in Nodes \ {Root} : t[Parent[n]] = "stopped" => t[n] = "stopped"
  BY <1>2, <1>3, <1>4, <1>5
<1>9. ASSUME Root \in C PROVE \A n \in Nodes : t[n] = "stopped"
  <2> DEFINE A == {n \in Nodes : t[n] = "stopped"}
  <2>1. Root \in A /\ A \in SUBSET Nodes
    BY <1>1, <1>5, <1>9
  <2>2. \A n \in Nodes \ {Root} : Parent[n] \in A => n \in A
    BY <1>8
  <2> HIDE DEF A
  <2>3. A = Nodes
    BY <2>1, <2>2, WholeTree
  <2>4. QED
    BY <2>3 DEF A
<1>10. CASE p = NoNode /\ Turn(t)
  <2>1. st' = t /\ terminated' = (t[Root] \in {"panic", "clean", "stopped"})
    BY <1>10 DEF Turn
  <2>2. CASE Root \in C
    <3>1. \A n \in Nodes : st'[n] = "stopped"
      BY <1>9, <2>1, <2>2
    <3>2. terminated'
      BY <1>1, <2>1, <3>1
    <3>3. QED
      BY <1>1, <3>1, <3>2 DEF Orderly, AllStopped, SystemOutlives, Running
  <2>3. CASE Root \notin C
    <3>1. system' /\ st'[Root] = "shutdown"
      BY <1>1, <1>5, <2>1, <2>3
    <3>2. QED
      BY <1>1, <1>8, <2>1, <3>1 DEF Orderly, AllStopped, SystemOutlives
  <2>4. QED
    BY <2>2, <2>3
<1>11. CASE p \in Nodes \ (C \cup {Root}) /\ st[p] = "shutdown" /\ Turn(Panicked(t, p))
  <2>1. InStepOf(t)
    BY <1>4, <1>8 DEF InStepOf
  <2>2. Panicked(t, p)[Root] = "panic"
    BY <1>7, <1>11, <2>1, PanicInStep
  <2>3. st'[Root] = "panic" /\ terminated'
    BY <1>11, <2>2 DEF Turn
  <2>4. Root \notin C
    <3>1. t[p] = "shutdown"
      BY <1>5, <1>11
    <3>2. QED
      BY <1>9, <1>11, <3>1
  <2>5. system'
    BY <1>1, <2>4
  <2>6. QED
    BY <2>3, <2>5 DEF Orderly, AllStopped, SystemOutlives
<1>12. QED
  BY <1>6, <1>10, <1>11

LEMMA NextOrderly ==
  ASSUME ~EarlyStop
  PROVE  IInv /\ Orderly /\ [Next]_vars => Orderly'
<1> SUFFICES ASSUME IInv, Orderly, [Next]_vars PROVE Orderly'
  OBVIOUS
<1>1. CASE Begin \/ RequestStartFails \/ Finish \/ Ended
  BY <1>1 DEF Begin, RequestStartFails, Finish, Ended, vars, Orderly, AllStopped, SystemOutlives
<1>2. ASSUME NEW f \in Nodes, NEW D \in SUBSET Nodes, BeginFails(f, D) PROVE Orderly'
  BY <1>2 DEF BeginFails, Orderly, AllStopped, SystemOutlives
<1>3. CASE RequestStart
  <2>1. CASE phase = "loaded"
    <3>1. \A n \in Nodes : st'[n] = "stopped"
      BY <1>3, <2>1 DEF RequestStart, IInv, Fresh
    <3>2. QED
      BY <1>3, <3>1, TreeAssumption
         DEF RequestStart, Orderly, AllStopped, SystemOutlives
  <2>2. CASE phase = "running"
    BY <1>3, <2>2 DEF RequestStart, Orderly, AllStopped, SystemOutlives
  <2>3. QED
    BY <1>3, <2>1, <2>2 DEF RequestStart
<1>4. CASE RequestStop
  BY <1>4 DEF RequestStop, Orderly, AllStopped, SystemOutlives
<1>5. CASE TurnIdle
  BY <1>5 DEF TurnIdle, Turn, Orderly, AllStopped, SystemOutlives
<1>6. CASE TurnStart
  <2>1. /\ phase = "running" /\ ~terminated /\ system /\ system' = system
        /\ req' = "start" /\ Root \in Nodes
        /\ \A n \in Nodes : st'[n] = "startup"
    BY <1>6, TreeAssumption DEF TurnStart, Turn, Orderly
  <2>2. QED
    BY <2>1 DEF Orderly, AllStopped, SystemOutlives
<1>7. ASSUME NEW f \in Nodes, NEW D \in SUBSET Nodes, TurnStartFails(f, D) PROVE Orderly'
  <2>1. /\ phase = "running" /\ ~terminated /\ system /\ system' = system
        /\ req' = "start" /\ Root \in Nodes /\ Root \notin D
        /\ st[Root] = "stopped"
        /\ \A n \in Nodes : st'[n] = IF n \in D THEN "startup" ELSE st[n]
    BY <1>7, TreeAssumption DEF TurnStartFails, BrokenOff, Turn, Orderly
  <2>2. QED
    BY <2>1 DEF Orderly, AllStopped, SystemOutlives
<1>8. ASSUME NEW C \in SUBSET Nodes, NEW p \in Nodes \cup {NoNode}, TurnStartup(C, p)
      PROVE  Orderly'
  <2>1. /\ phase = "running" /\ ~terminated /\ system /\ system' = system
        /\ req' = "start" /\ Root \in Nodes
    BY <1>8, TreeAssumption DEF TurnStartup, Turn, Orderly
  <2>2. \A n \in Nodes : st'[n] \in {"execute", "panic", st[n]}
    BY <1>8 DEF TurnStartup, Turn, Panicked
  <2>3. st[Root] = "startup"
    BY <1>8 DEF TurnStartup
  <2>4. st'[Root] # "shutdown"
    BY <2>1, <2>2, <2>3
  <2>5. QED
    BY <2>1, <2>4 DEF Orderly, AllStopped, SystemOutlives
<1>9. CASE TurnStop
  BY <1>9, StopOrderly
<1>10. ASSUME NEW C \in SUBSET Nodes, NEW p \in Nodes \cup {NoNode}, TurnShutdown(C, p)
       PROVE  Orderly'
  BY <1>10, ShutdownOrderly
<1>11. CASE UNCHANGED vars
  BY <1>11 DEF vars, Orderly, AllStopped, SystemOutlives
<1>12. QED
  BY <1>1, <1>2, <1>3, <1>4, <1>5, <1>6, <1>7, <1>8, <1>9, <1>10, <1>11 DEF Next, Loop

\* In every tree, an application that is never stopped while it starts up has
\* stopped all of its nodes when the machine has shut down.
THEOREM OrderlyStopsAll ==
  ASSUME ~EarlyStop
  PROVE  Spec => []AllStopped
<1>1. Init => Orderly
  BY TreeAssumption DEF Init, Orderly, AllStopped, SystemOutlives
<1>2. IInv /\ Orderly /\ [Next]_vars => Orderly'
  BY NextOrderly
<1>3. Orderly => AllStopped
  BY DEF Orderly
<1>4. QED
  BY <1>1, <1>2, <1>3, Inductive, PTL DEF Spec

\* In every tree, such an application keeps the system until no node needs it.
THEOREM OrderlySystemOutlives ==
  ASSUME ~EarlyStop
  PROVE  Spec => []SystemOutlives
<1>1. Init => Orderly
  BY TreeAssumption DEF Init, Orderly, AllStopped, SystemOutlives
<1>2. IInv /\ Orderly /\ [Next]_vars => Orderly'
  BY NextOrderly
<1>3. Orderly => SystemOutlives
  BY DEF Orderly
<1>4. QED
  BY <1>1, <1>2, <1>3, Inductive, PTL DEF Spec

-----------------------------------------------------------------------------
(* The order of a node's life. *)

\* In every tree the machine does not execute before the last node does.
THEOREM WholeTreeAlwaysRuns == Spec => []WholeTreeRuns
<1>1. IInv => WholeTreeRuns
  BY AllExecute DEF WholeTreeRuns
<1>2. QED
  BY <1>1, Inductive, PTL

\* A panic of any node ends the application in the same walk.
Calm == phase \in {"loaded", "running"} /\ ~terminated => \A n \in Nodes : st[n] # "panic"

LEMMA CalmStep == IInv /\ Calm /\ [Next]_vars => Calm'
<1> SUFFICES ASSUME IInv, Calm, [Next]_vars PROVE Calm'
  OBVIOUS
<1>1. CASE Begin
  BY <1>1 DEF Begin, Calm
<1>2. CASE RequestStart \/ RequestStartFails \/ RequestStop \/ Ended \/ UNCHANGED vars
  BY <1>2 DEF RequestStart, RequestStartFails, RequestStop, Ended, vars, Calm
<1>3. CASE Finish \/ \E f \in Nodes, D \in SUBSET Nodes : BeginFails(f, D)
  BY <1>3 DEF Finish, BeginFails, Calm
<1>4. ASSUME NEW t, Turn(t),
             \A n \in Nodes : t[n] # "panic" \/ t[Root] = "panic" \/ t[n] = st[n]
      PROVE  Calm'
  BY <1>4 DEF Turn, Calm
<1>5. CASE TurnIdle
  BY <1>4, <1>5 DEF TurnIdle
<1>6. CASE TurnStart
  BY <1>4, <1>6 DEF TurnStart
<1>7. CASE TurnStop
  BY <1>4, <1>7 DEF TurnStop, Stopped
<1>8. ASSUME NEW f \in Nodes, NEW D \in SUBSET Nodes, TurnStartFails(f, D) PROVE Calm'
  BY <1>4, <1>8 DEF TurnStartFails
<1>9. ASSUME NEW t, NEW p \in Nodes, Turn(Panicked(t, p)) PROVE Calm'
  <2>1. Root \in Nodes /\ Root \in Upward(p)
    BY TreeAssumption
  <2>2. Panicked(t, p)[Root] = "panic"
    BY <2>1 DEF Panicked
  <2>3. QED
    BY <1>9, <2>2 DEF Turn, Calm
<1>10. ASSUME NEW C \in SUBSET Nodes, NEW p \in Nodes \cup {NoNode},
              TurnStartup(C, p) \/ TurnShutdown(C, p)
       PROVE  Calm'
  <2> DEFINE t(s) == [n \in Nodes |-> IF n \in C THEN s ELSE st[n]]
  <2>1. \/ Turn(t("execute")) \/ Turn(t("stopped"))
        \/ p \in Nodes /\ (Turn(Panicked(t("execute"), p)) \/ Turn(Panicked(t("stopped"), p)))
    BY <1>10 DEF TurnStartup, TurnShutdown, Panics
  <2>2. \A n \in Nodes, s \in {"execute", "stopped"} : t(s)[n] # "panic" \/ t(s)[n] = st[n]
    OBVIOUS
  <2> HIDE DEF t
  <2>3. QED
    BY <1>4, <1>9, <2>1, <2>2
<1>11. QED
  BY <1>1, <1>2, <1>3, <1>5, <1>6, <1>7, <1>8, <1>10 DEF Next, Loop

\* A panic of p, which starts up or shuts down, finds the nodes above it doing
\* the same.
LEMMA PanicCutsNone ==
  ASSUME IInv, Calm, phase = "running", ~terminated,
         NEW s \in {"startup", "shutdown"}, st[Root] = s,
         NEW p \in Nodes, st[p] = s
  PROVE  \A n \in Upward(p) : st[n] = s
<1> DEFINE A == {n \in Nodes : st[n] = s}
<1>1. ASSUME NEW n \in A \ {Root} PROVE Parent[n] \in A
  <2>1. /\ Parent[n] \in Nodes /\ n \in Nodes \ {Root} /\ st[n] = s
        /\ st[Parent[n]] # "panic"
    BY TreeAssumption DEF Calm
  <2>2. st[Parent[n]] # "execute"
    BY <2>1 DEF IInv, InStep, InStepOf
  <2>3. CASE s = "startup"
    BY <2>1, <2>2, <2>3 DEF IInv, AllUp
  <2>4. CASE s = "shutdown"
    <3>1. st[Parent[n]] # "startup"
      BY <2>1, <2>4 DEF IInv, InStep, InStepOf
    <3>2. QED
      BY <2>1, <2>2, <2>4, <3>1 DEF IInv, NoneOutlivesOwner, Running
  <2>5. QED
    BY <2>3, <2>4
<1>2. p \in A /\ A \in SUBSET Nodes
  OBVIOUS
<1>3. \A m \in A : st[m] = s
  OBVIOUS
<1> HIDE DEF A
<1>4. Upward(p) \subseteq A
  BY <1>1, <1>2, UpwardLeast
<1>5. QED
  BY <1>3, <1>4

\* A stop reaches only nodes that execute, and the machine.
LEMMA StopInOrder ==
  ASSUME TurnStop, NEW n \in Nodes, st'[n] # st[n]
  PROVE  st[n] \in ComesFrom(n, st'[n])
<1>1. st' = Stopped /\ st[Root] \in {"startup", "execute"}
  BY DEF TurnStop, Turn
<1>2. st'[n] = "shutdown" /\ (n = Root \/ n \in Reached({"execute"}))
  BY <1>1 DEF Stopped
<1>3. n # Root => st[n] = "execute"
  BY <1>2, UpwardClosed DEF Reached
<1>4. QED
  BY <1>1, <1>2, <1>3 DEF ComesFrom

\* A walk in which nodes complete and one may panic.
LEMMA WalkInOrder ==
  ASSUME IInv, Calm, phase = "running", ~terminated,
         NEW C \in SUBSET Nodes, NEW p \in Nodes \cup {NoNode},
         TurnStartup(C, p) \/ TurnShutdown(C, p),
         NEW n \in Nodes, st'[n] # st[n]
  PROVE  st[n] \in ComesFrom(n, st'[n])
<1> DEFINE t(e) == [m \in Nodes |-> IF m \in C THEN e ELSE st[m]]
<1>1. PICK s \in {"startup", "shutdown"}, e \in {"execute", "stopped"} :
        /\ st[Root] = s /\ Completes(C, s)
        /\ <<s, e>> \in {<<"startup", "execute">>, <<"shutdown", "stopped">>}
        /\ st' = t(e) \/ (p \in Nodes /\ st[p] = s /\ st' = Panicked(t(e), p))
  <2>1. CASE TurnStartup(C, p)
    <3>1. /\ st[Root] = "startup" /\ Completes(C, "startup")
          /\ \/ st' = t("execute")
             \/ p \in Nodes /\ st[p] = "startup" /\ st' = Panicked(t("execute"), p)
      BY <2>1 DEF TurnStartup, Turn, Panics
    <3> HIDE DEF t
    <3>2. QED
      BY <3>1
  <2>2. CASE TurnShutdown(C, p)
    <3>1. /\ st[Root] = "shutdown" /\ Completes(C, "shutdown")
          /\ \/ st' = t("stopped")
             \/ p \in Nodes /\ st[p] = "shutdown" /\ st' = Panicked(t("stopped"), p)
      BY <2>2 DEF TurnShutdown, Turn, Panics
    <3> HIDE DEF t
    <3>2. QED
      BY <3>1
  <2>3. QED
    BY <2>1, <2>2
<1>2. t(e)[n] # st[n] => t(e)[n] = e /\ st[n] = s
  BY <1>1 DEF Completes
<1> HIDE DEF t
<1>3. CASE st' = t(e)
  BY <1>1, <1>2, <1>3 DEF ComesFrom
<1>4. CASE p \in Nodes /\ st[p] = s /\ st' = Panicked(t(e), p)
  <2>1. CASE n \in Upward(p)
    <3>1. st'[n] = "panic" /\ st[n] = s
      BY <1>1, <1>4, <2>1, PanicCutsNone DEF Panicked
    <3>2. QED
      BY <3>1 DEF ComesFrom
  <2>2. CASE n \notin Upward(p)
    BY <1>1, <1>2, <1>4, <2>2 DEF Panicked, ComesFrom
  <2>3. QED
    BY <2>1, <2>2
<1>5. QED
  BY <1>1, <1>3, <1>4

\* The order of a node's life, in one step.
LEMMA NextInOrder ==
  ASSUME IInv, Calm, [Next]_vars, phase = "running", phase' = "running",
         NEW n \in Nodes, st'[n] # st[n]
  PROVE  st[n] \in ComesFrom(n, st'[n])
<1>1. CASE Loop
  <2>1. ~terminated
    BY <1>1 DEF Loop, TurnIdle, TurnStart, TurnStop, TurnStartFails, TurnStartup,
                TurnShutdown, Turn
  <2>2. CASE TurnIdle
    BY <2>2 DEF TurnIdle, Turn
  <2>3. CASE TurnStart \/ \E f \in Nodes, D \in SUBSET Nodes : TurnStartFails(f, D)
    <3>1. st[Root] = "stopped" /\ st'[n] \in {"startup", st[n]}
      BY <2>3 DEF TurnStart, TurnStartFails, Turn
    <3>2. st[n] = "stopped"
      BY <2>1, <3>1 DEF IInv, Fresh
    <3>3. QED
      BY <3>1, <3>2 DEF ComesFrom
  <2>4. CASE TurnStop
    BY <2>4, StopInOrder
  <2>5. ASSUME NEW C \in SUBSET Nodes, NEW p \in Nodes \cup {NoNode},
               TurnStartup(C, p) \/ TurnShutdown(C, p)
        PROVE  st[n] \in ComesFrom(n, st'[n])
    BY <2>1, <2>5, WalkInOrder
  <2>6. QED
    BY <1>1, <2>2, <2>3, <2>4, <2>5 DEF Loop
<1>2. CASE ~Loop
  BY <1>2 DEF Next, vars, Begin, RequestStart, RequestStartFails, RequestStop, Finish, Ended,
              BeginFails
<1>3. QED
  BY <1>1, <1>2

\* In every tree and with any answers of its nodes, each node is called in the
\* order of its life.
THEOREM AllLiveInOrder == Spec => LivesInOrder
<1>1. Init => Calm
  BY DEF Init, Calm
<1>2. IInv /\ Calm /\ [Next]_vars => Calm'
  BY CalmStep
<1>3. IInv /\ Calm /\ [Next]_vars =>
        [phase = "running" /\ phase' = "running" =>
           \A n \in Nodes : st'[n] # st[n] => st[n] \in ComesFrom(n, st'[n])]_vars
  BY NextInOrder
<1>4. QED
  BY <1>1, <1>2, <1>3, Inductive, PTL DEF Spec, LivesInOrder

=============================================================================
