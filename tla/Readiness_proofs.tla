-------------------------- MODULE Readiness_proofs --------------------------
(***************************************************************************)
(* Proofs about the readiness protocol, for every document, every set of   *)
(* callbacks and every finite set of jobs.                                 *)
(*                                                                         *)
(* CountsAgree is inductive once the variables it mentions are typed: a    *)
(* decrease cannot meet a zero counter, because the job that makes it is   *)
(* itself counted on every node it walks over.  NoLostWakeup then follows  *)
(* from "a queue that is not empty hangs off a node with a counter above   *)
(* zero", which the move at zero preserves.                                *)
(*                                                                         *)
(* That no callback is in two places is a second invariant, Apart: what a  *)
(* decrease moves is made of the queues of different nodes, which share    *)
(* none.  The orders of waking are those of the walk: it goes upwards, and *)
(* moves a queue as one piece.                                             *)
(***************************************************************************)
EXTENDS Readiness, NodeQueue_proofs, FiniteSetTheorems

\* The typing the arguments below need; the main queue takes no part in them.
Typed ==
  /\ at \in [Job -> Node]
  /\ held \subseteq Job
  /\ ended \subseteq Job
  /\ count \in [Node -> Nat]
  /\ tcb \in [Node -> Seq(Callback)]

\* A callback is only ever left on a node that is not ready.
QueuedMeansNotReady == \A n \in Node : tcb[n] # <<>> => count[n] > 0

IInv ==
  /\ Typed
  /\ CountsAgree
  /\ QueuedMeansNotReady
  /\ NeverUnderflows
-----------------------------------------------------------------------------
\* The nodes a walk can reach are nodes, and the first of them is its start.
LEMMA AncestorsAreNodes ==
  ASSUME NEW n \in Node
  PROVE  n \in AncestorsOrSelf(n) /\ AncestorsOrSelf(n) \subseteq Node
BY PathAssumption DEF AncestorsOrSelf, ToSet

\* The jobs that hold a node are finitely many.
LEMMA HoldersFinite ==
  ASSUME Typed, NEW n \in Node
  PROVE  IsFiniteSet(Holders(n)) /\ Cardinality(Holders(n)) \in Nat
BY JobAssumption, FS_Subset, FS_CardinalityType DEF Typed, Holders

\* The job that decreases is itself counted on every node it walks over: it
\* never meets a zero.
LEMMA DecreaseSucceeds ==
  ASSUME Typed, CountsAgree, NEW j \in held
  PROVE  ~ DecreaseFails(count, Path[at[j]])
<1> SUFFICES ASSUME NEW m \in AncestorsOrSelf(at[j]), count[m] = 0
             PROVE  FALSE
  BY DEF DecreaseFails, AncestorsOrSelf
<1>1. at[j] \in Node /\ m \in Node
  BY AncestorsAreNodes DEF Typed
<1>2. j \in Holders(m)
  BY DEF Holders
<1>3. Cardinality(Holders(m)) = 0
  BY <1>1 DEF CountsAgree
<1>4. Holders(m) = {}
  BY <1>1, <1>3, HoldersFinite, FS_EmptySet
<1> QED
  BY <1>2, <1>4

\* Increasing: one job more holds the nodes above it, and only those.
LEMMA BeginPreserves ==
  ASSUME IInv, NEW j \in Job, Begin(j)
  PROVE  IInv'
<1> USE DEF IInv
<1>1. at[j] \in Node /\ j \notin held /\ at' = at /\ held' = held \cup {j}
  BY DEF Begin, Typed
<1>2. Typed'
  BY DEF Begin, Typed, Increased
<1>3. CountsAgree'
  <2> SUFFICES ASSUME NEW n \in Node
               PROVE  count'[n] = Cardinality(Holders(n)')
    BY DEF CountsAgree
  <2>1. count[n] = Cardinality(Holders(n)) /\ count[n] \in Nat
    BY DEF CountsAgree, Typed
  <2>2. CASE n \in AncestorsOrSelf(at[j])
    <3>1. Holders(n)' = Holders(n) \cup {j} /\ j \notin Holders(n)
      BY <1>1, <2>2 DEF Holders
    <3>2. Cardinality(Holders(n)') = Cardinality(Holders(n)) + 1
      BY <3>1, HoldersFinite, FS_AddElement
    <3>3. count'[n] = count[n] + 1
      BY <2>2 DEF Begin, Increased, AncestorsOrSelf, Typed
    <3> QED BY <2>1, <3>2, <3>3
  <2>3. CASE n \notin AncestorsOrSelf(at[j])
    <3>1. Holders(n)' = Holders(n)
      BY <1>1, <2>3 DEF Holders
    <3>2. count'[n] = count[n]
      BY <2>3 DEF Begin, Increased, AncestorsOrSelf, Typed
    <3> QED BY <2>1, <3>1, <3>2
  <2> QED BY <2>2, <2>3
<1>4. QueuedMeansNotReady'
  <2> SUFFICES ASSUME NEW n \in Node, tcb'[n] # <<>>
               PROVE  count'[n] > 0
    BY DEF QueuedMeansNotReady
  <2>1. count[n] \in Nat /\ count[n] > 0
    BY DEF Begin, QueuedMeansNotReady, Typed
  <2> QED BY <2>1 DEF Begin, Increased, AncestorsOrSelf, Typed
<1>5. NeverUnderflows'
  BY DEF Begin, NeverUnderflows
<1> QED BY <1>2, <1>3, <1>4, <1>5

\* Decreasing: the job leaves the nodes above it, and the queues of those that
\* nobody holds any more are moved.
LEMMA EndPreserves ==
  ASSUME IInv, NEW j \in Job, End(j)
  PROVE  IInv'
<1> USE DEF IInv
<1>1. at[j] \in Node /\ j \in held /\ at' = at /\ held' = held \ {j}
  BY DEF End, Held, Typed
<1>2. ~ DecreaseFails(count, Path[at[j]])
  BY <1>1, DecreaseSucceeds
<1>3. Walked(count, Path[at[j]]) = AncestorsOrSelf(at[j])
  BY <1>1, <1>2, WholeWalk, PathAssumption DEF Typed, AncestorsOrSelf
<1>4. \A n \in AncestorsOrSelf(at[j]) : n \in Node /\ count[n] > 0
  BY <1>1, <1>2, AncestorsAreNodes DEF DecreaseFails, AncestorsOrSelf, Typed
<1>5. Typed'
  <2>1. count' \in [Node -> Nat]
    BY <1>3, <1>4 DEF End, Decreased, Typed
  <2>2. tcb' \in [Node -> Seq(Callback)]
    BY DEF End, Drained, Typed
  <2> QED BY <2>1, <2>2, <1>1 DEF End, Typed
<1>6. CountsAgree'
  <2> SUFFICES ASSUME NEW n \in Node
               PROVE  count'[n] = Cardinality(Holders(n)')
    BY DEF CountsAgree
  <2>1. count[n] = Cardinality(Holders(n)) /\ count[n] \in Nat
    BY DEF CountsAgree, Typed
  <2>2. CASE n \in AncestorsOrSelf(at[j])
    <3>1. Holders(n)' = Holders(n) \ {j} /\ j \in Holders(n)
      BY <1>1, <2>2 DEF Holders
    <3>2. Cardinality(Holders(n)') = Cardinality(Holders(n)) - 1
      BY <3>1, HoldersFinite, FS_RemoveElement
    <3>3. count'[n] = count[n] - 1
      BY <1>3, <2>2 DEF End, Decreased, Typed
    <3> QED BY <2>1, <3>2, <3>3
  <2>3. CASE n \notin AncestorsOrSelf(at[j])
    <3>1. Holders(n)' = Holders(n)
      BY <1>1, <2>3 DEF Holders
    <3>2. count'[n] = count[n]
      BY <1>3, <2>3 DEF End, Decreased, Typed
    <3> QED BY <2>1, <3>1, <3>2
  <2> QED BY <2>2, <2>3
<1>7. QueuedMeansNotReady'
  <2> SUFFICES ASSUME NEW n \in Node, tcb'[n] # <<>>
               PROVE  count'[n] > 0
    BY DEF QueuedMeansNotReady
  <2>1. tcb'[n] = tcb[n] /\ n \notin Woken(count, Path[at[j]])
    BY DEF End, Drained, Typed
  <2>2. count[n] \in Nat /\ count[n] > 0
    BY <2>1 DEF QueuedMeansNotReady, Typed
  <2>3. n \in Walked(count, Path[at[j]]) => count[n] # 1
    BY <2>1 DEF Woken
  <2> QED BY <2>2, <2>3 DEF End, Decreased, Typed
<1>8. NeverUnderflows'
  BY <1>2 DEF End, NeverUnderflows
<1> QED BY <1>5, <1>6, <1>7, <1>8

\* Waiting: the check of the counter and the push are one step of one call.
LEMMA WaitForPreserves ==
  ASSUME IInv, NEW c \in Callback, NEW n \in Node, WaitFor(c, n)
  PROVE  IInv'
<1> USE DEF IInv
<1>1. UNCHANGED <<at, held, ended, count, failed>>
  BY DEF WaitFor
<1>2. tcb' \in [Node -> Seq(Callback)]
  BY DEF WaitFor, Parked, Typed
<1>3. Typed' /\ NeverUnderflows'
  BY <1>1, <1>2 DEF Typed, NeverUnderflows
<1>4. CountsAgree'
  BY <1>1 DEF CountsAgree, Holders
<1>5. QueuedMeansNotReady'
  <2> SUFFICES ASSUME NEW m \in Node, tcb'[m] # <<>>
               PROVE  count[m] > 0
    BY <1>1 DEF QueuedMeansNotReady
  <2>1. CASE m = n
    BY <2>1 DEF WaitFor
  <2>2. CASE m # n
    BY <2>2 DEF WaitFor, Parked, Typed, QueuedMeansNotReady
  <2> QED BY <2>1, <2>2
<1> QED BY <1>3, <1>4, <1>5

\* The other steps touch the main queue only.
LEMMA MainOnlyPreserves ==
  ASSUME IInv, UNCHANGED <<at, held, ended, count, tcb, failed>>
  PROVE  IInv'
BY DEF IInv, Typed, CountsAgree, Holders, QueuedMeansNotReady, NeverUnderflows

LEMMA InitEstablishes == Init => IInv
<1> SUFFICES ASSUME Init PROVE IInv
  OBVIOUS
<1>1. Typed /\ QueuedMeansNotReady /\ NeverUnderflows
  BY DEF Init, Typed, QueuedMeansNotReady, NeverUnderflows
<1>2. CountsAgree
  <2>1. \A n \in Node : Holders(n) = {}
    BY DEF Init, Holders
  <2> QED BY <2>1, FS_EmptySet DEF Init, CountsAgree
<1> QED BY <1>1, <1>2 DEF IInv

LEMMA NextPreserves == IInv /\ [Next]_vars => IInv'
<1> SUFFICES ASSUME IInv, [Next]_vars PROVE IInv'
  OBVIOUS
<1>1. ASSUME NEW j \in Job, Begin(j) PROVE IInv'
  BY <1>1, BeginPreserves
<1>2. ASSUME NEW j \in Job, End(j) PROVE IInv'
  BY <1>2, EndPreserves
<1>3. ASSUME NEW c \in Callback, Schedule(c) PROVE IInv'
  BY <1>3, MainOnlyPreserves DEF Schedule
<1>4. ASSUME NEW c \in Callback, NEW n \in Node, WaitFor(c, n) PROVE IInv'
  BY <1>4, WaitForPreserves
<1>5. CASE Run
  BY <1>5, MainOnlyPreserves DEF Run
<1>6. CASE UNCHANGED vars
  BY <1>6, MainOnlyPreserves DEF vars
<1> QED BY <1>1, <1>2, <1>3, <1>4, <1>5, <1>6 DEF Next

\* The inductive invariant of the protocol: typing of the counters and of the
\* node queues, exact counters, and queues only on nodes that are not ready.
THEOREM Inductive == Spec => []IInv
BY InitEstablishes, NextPreserves, PTL DEF Spec

\* Every variable keeps its type: in particular what is moved from the node
\* queues into the main queue are callbacks, in the order of one sequence.
THEOREM TypeCorrect == Spec => []TypeOK
<1> DEFINE MainTyped == main \in Seq(Callback) /\ failed \in BOOLEAN
<1>1. Init => MainTyped
  <2>1. <<>> \in Seq(Callback)
    OBVIOUS
  <2> QED BY <2>1 DEF Init
<1>2. ASSUME IInv, MainTyped, [Next]_vars PROVE MainTyped'
  <2>1. ASSUME NEW j \in Job, Begin(j) PROVE MainTyped'
    BY <1>2, <2>1 DEF Begin
  <2>2. ASSUME NEW j \in Job, End(j) PROVE MainTyped'
    <3>1. Moved(count, tcb, Path[at[j]]) \in Seq(Callback)
      BY <1>2, MovedType, PathAssumption DEF IInv, Typed
    <3>2. main' \in Seq(Callback)
      BY <1>2, <2>2, <3>1 DEF End, Joined
    <3>3. failed' \in BOOLEAN
      BY <2>2 DEF End, DecreaseFails
    <3> QED BY <3>2, <3>3
  <2>3. ASSUME NEW c \in Callback, Schedule(c) PROVE MainTyped'
    BY <1>2, <2>3 DEF Schedule
  <2>4. ASSUME NEW c \in Callback, NEW n \in Node, WaitFor(c, n)
        PROVE  MainTyped'
    BY <1>2, <2>4 DEF WaitFor
  <2>5. CASE Run
    BY <1>2, <2>5 DEF Run
  <2>6. CASE UNCHANGED vars
    BY <1>2, <2>6 DEF vars
  <2> QED BY <1>2, <2>1, <2>2, <2>3, <2>4, <2>5, <2>6 DEF Next
<1>3. IInv /\ MainTyped => TypeOK
  BY DEF IInv, Typed, TypeOK
<1> QED BY <1>1, <1>2, <1>3, Inductive, PTL DEF Spec
-----------------------------------------------------------------------------
\* The counter of a node is the number of jobs at work on it or below it, in
\* every document and for any number of jobs (transform.h 424-478).
THEOREM CountersAreExact == Spec => []CountsAgree
<1>1. IInv => CountsAgree
  BY DEF IInv
<1> QED BY <1>1, Inductive, PTL

\* "Can't decrease counter" (transform.h 452-455) is never reported as long as
\* each decrease answers an increase of the same node.
THEOREM NoUnderflow == Spec => []NeverUnderflows
<1>1. IInv => NeverUnderflows
  BY DEF IInv
<1> QED BY <1>1, Inductive, PTL

\* Nobody waits on a node for which nobody is at work (transform.h 460-472).
THEOREM WakeupsAreNotLost == Spec => []NoLostWakeup
<1>1. IInv => NoLostWakeup
  <2> SUFFICES ASSUME IInv, NEW n \in Node, tcb[n] # <<>>, Holders(n) = {}
               PROVE  FALSE
    BY DEF NoLostWakeup
  <2>1. count[n] > 0 /\ count[n] = Cardinality(Holders(n))
    BY DEF IInv, QueuedMeansNotReady, CountsAgree
  <2> QED BY <2>1, FS_EmptySet
<1> QED BY <1>1, Inductive, PTL
-----------------------------------------------------------------------------
Apart == QueuesApart(main, tcb)

LEMMA NextKeepsApart == TypeOK /\ Apart /\ [Next]_vars => Apart'
<1> SUFFICES ASSUME TypeOK, Apart, [Next]_vars PROVE Apart'
  OBVIOUS
<1>1. tcb \in [Node -> Seq(Callback)] /\ main \in Seq(Callback) /\ count \in [Node -> Nat]
  BY DEF TypeOK
<1>2. ASSUME NEW c, ~ Queued(c) PROVE c \notin InQueues(main, tcb)
  BY <1>1, <1>2 DEF Queued, InQueues
<1>3. ASSUME NEW j \in Job, Begin(j) PROVE Apart'
  BY <1>3 DEF Begin, Apart
<1>4. ASSUME NEW j \in Job, End(j) PROVE Apart'
  <2>1. at[j] \in Node
    BY DEF TypeOK
  <2>2. Path[at[j]] \in Seq(Node) /\ IsInjective(Path[at[j]])
    BY <2>1, PathAssumption
  <2> QED BY <1>1, <1>4, <2>2, DecreaseApart DEF End, Apart
<1>5. ASSUME NEW c \in Callback, Schedule(c) PROVE Apart'
  BY <1>1, <1>2, <1>5, ScheduleApart DEF Schedule, Apart
<1>6. ASSUME NEW c \in Callback, NEW n \in Node, WaitFor(c, n) PROVE Apart'
  BY <1>1, <1>2, <1>6, ParkApart DEF WaitFor, Apart
<1>7. CASE Run
  BY <1>1, <1>7, RunApart DEF Run, Apart
<1>8. CASE UNCHANGED vars
  BY <1>8 DEF vars, Apart
<1> QED BY <1>3, <1>4, <1>5, <1>6, <1>7, <1>8 DEF Next

\* What that says of the queues of this document.
LEMMA ApartInDocument ==
  ASSUME TypeOK, Apart
  PROVE  /\ IsInjective(main)
         /\ \A n \in Node : IsInjective(tcb[n])
         /\ \A n \in Node : ToSet(main) \cap ToSet(tcb[n]) = {}
         /\ \A m, n \in Node : m # n => ToSet(tcb[m]) \cap ToSet(tcb[n]) = {}
<1>1. DOMAIN tcb = Node
  BY DEF TypeOK
<1> QED BY <1>1 DEF Apart, QueuesApart

\* No queue has anything in common with another one.
LEMMA QueuesStayApart == Spec => []Apart
<1>1. Init => Apart
  BY DEF Init, Apart, QueuesApart, IsInjective, ToSet
<1> QED BY <1>1, NextKeepsApart, TypeCorrect, PTL DEF Spec

\* A callback is in one place of one queue, however often the queues it went
\* through were moved (transform.h 460-472): no transform function is called
\* twice for one thing it waited for.
THEOREM CallbacksAreNotDoubled == Spec => []InOnePlace
<1>1. ASSUME TypeOK, Apart PROVE InOnePlace
  <2> SUFFICES ASSUME NEW c \in Callback PROVE Cardinality(Places(c)) <= 1
    BY DEF InOnePlace
  <2>1. \A p, r \in Places(c) : p = r
    <3>1. ASSUME NEW p \in Places(c)
          PROVE  \/ \E n \in Node, i \in DOMAIN tcb[p[1]] :
                      p = <<n, i>> /\ tcb[n][i] = c
                 \/ \E i \in DOMAIN main : p = <<i>> /\ main[i] = c
      BY DEF Places
    <3> QED BY <3>1, <1>1, ApartInDocument DEF IsInjective, ToSet
  <2>2. CASE Places(c) = {}
    BY <2>2, FS_EmptySet
  <2>3. CASE Places(c) # {}
    <3>1. PICK p : p \in Places(c)
      BY <2>3
    <3>2. Places(c) = {p}
      BY <2>1, <3>1
    <3>3. Cardinality(Places(c)) = 1
      BY <3>2, FS_Singleton
    <3> QED BY <3>3
  <2> QED BY <2>2, <2>3
<1> QED BY <1>1, TypeCorrect, QueuesStayApart, PTL

\* Of two nodes a walk meets, the one above the other comes later.
LEMMA HigherIsLater ==
  ASSUME NEW r \in Node, NEW i \in 1..Len(Path[r]), NEW k \in 1..Len(Path[r]),
         Path[r][k] \in AncestorsOrSelf(Path[r][i]), Path[r][k] # Path[r][i]
  PROVE  i < k
<1> DEFINE path == Path[r]
           above == SubSeq(path, i, Len(path))
<1>1. path \in Seq(Node) /\ IsInjective(path)
  BY PathAssumption
<1>2. i \in DOMAIN Path[r]
  BY PathAssumption
<1>3. Path[path[i]] = above
  BY <1>2, PathAssumption
<1> HIDE DEF path
<1>4. PICK x \in DOMAIN above : above[x] = path[k]
  BY <1>3 DEF AncestorsOrSelf, ToSet, path
<1>5. i \in 1..Len(path) /\ k \in 1..Len(path) /\ path[k] # path[i]
  BY DEF path
<1>6. /\ i + x - 1 \in 1..Len(path) /\ above[x] = path[i + x - 1]
      /\ x \in Nat /\ x >= 1
  BY <1>1, <1>5, RestOfSeq
<1>7. ASSUME NEW y \in 1..Len(path), path[y] = path[k] PROVE y = k
  BY SMTT(30), <1>1, <1>5, <1>7 DEF IsInjective
<1>8. i + x - 1 = k
  BY <1>4, <1>6, <1>7
<1> QED BY <1>5, <1>6, <1>8

\* Whoever is woken by a decrease was left on a node of its walk; what waits
\* on a node runs before what waits on the nodes above it (transform.cc
\* 529-548, transform.h 683-721).
THEOREM LowerNodesWakeFirst == Spec => ChildrenWakeFirst
<1>1. ASSUME TypeOK, Apart, Next PROVE WakesChildrenFirst
  <2> SUFFICES ASSUME NEW m \in Node, NEW n \in Node,
                      NEW c \in Callback, NEW d \in Callback,
                      m # n, n \in AncestorsOrSelf(m),
                      c \in ToSet(tcb[m]), d \in ToSet(tcb[n]),
                      c \in ToSet(main'), d \in ToSet(main')
               PROVE  \E i, k \in DOMAIN main' :
                        i < k /\ main'[i] = c /\ main'[k] = d
    BY DEF WakesChildrenFirst
  <2>1. c \notin ToSet(main) /\ d \notin ToSet(main)
    BY <1>1, ApartInDocument
  <2>2. main \in Seq(Callback)
    BY <1>1 DEF TypeOK
  <2>3. ASSUME NEW j \in Job, Begin(j) PROVE FALSE
    BY <2>1, <2>3 DEF Begin
  <2>4. ASSUME NEW e \in Callback, Schedule(e) PROVE FALSE
    <3>1. e # c /\ main' = Append(main, e)
      BY <2>4 DEF Schedule, Queued
    <3>2. ToSet(main') = ToSet(main) \cup {e}
      BY <1>1, <2>2, <2>4, <3>1, ApartInDocument, AppendsInjective DEF Schedule, Queued
    <3> QED BY <2>1, <3>1, <3>2
  <2>5. ASSUME NEW e \in Callback, NEW k \in Node, WaitFor(e, k) PROVE FALSE
    BY <2>1, <2>5 DEF WaitFor
  <2>6. CASE Run
    <3>1. ToSet(main') \subseteq ToSet(main)
      BY <1>1, <2>2, <2>6, ApartInDocument, TailInjective DEF Run
    <3> QED BY <2>1, <3>1
  <2>7. ASSUME NEW j \in Job, End(j)
        PROVE  \E i, k \in DOMAIN main' :
                 i < k /\ main'[i] = c /\ main'[k] = d
    <3> DEFINE path == Path[at[j]]
               W == Woken(count, path)
               M == Moved(count, tcb, path)
    <3>1. at[j] \in Node /\ path \in Seq(Node)
      BY <1>1, PathAssumption DEF TypeOK
    <3>2. count \in [Node -> Nat] /\ tcb \in [Node -> Seq(Callback)]
      BY <1>1 DEF TypeOK
    <3>3. main' = main \o M
      BY <2>7 DEF End, Joined
    <3>4. M \in Seq(Callback)
      BY <3>1, <3>2, MovedType
    <3>5. c \in ToSet(M) /\ d \in ToSet(M)
      <4> HIDE DEF M
      <4> QED BY <2>1, <2>2, <3>3, <3>4 DEF ToSet
    <3>6. PICK i \in 1..Len(path) :
            path[i] \in W /\ c \in ToSet(tcb[path[i]])
      BY <3>1, <3>2, <3>5, MovedFrom
    <3>7. PICK k \in 1..Len(path) :
            path[k] \in W /\ d \in ToSet(tcb[path[k]])
      BY <3>1, <3>2, <3>5, MovedFrom
    <3>8. path[i] = m /\ path[k] = n
      <4>1. path[i] \in Node /\ path[k] \in Node
        BY <3>1
      <4>2. ASSUME path[i] # m PROVE FALSE
        BY <1>1, <3>6, <4>1, <4>2, ApartInDocument
      <4>3. ASSUME path[k] # n PROVE FALSE
        BY <1>1, <3>7, <4>1, <4>3, ApartInDocument
      <4> QED BY <4>2, <4>3
    <3>9. i < k
      BY <3>1, <3>8, HigherIsLater
    <3>10. InFront(M, c, d)
      BY <3>1, <3>2, <3>6, <3>7, <3>9, MovedOrder
    <3> HIDE DEF M
    <3>11. PICK p, r \in 1..Len(M) : p < r /\ M[p] = c /\ M[r] = d
      BY <3>10 DEF InFront
    <3>12. /\ Len(main) + p \in DOMAIN main' /\ main'[Len(main) + p] = c
           /\ Len(main) + r \in DOMAIN main' /\ main'[Len(main) + r] = d
      BY SMTT(30), <2>2, <3>3, <3>4, <3>11
    <3>13. Len(main) + p < Len(main) + r
      BY <2>2, <3>11
    <3> QED BY <3>12, <3>13
  <2> QED BY <1>1, <2>3, <2>4, <2>5, <2>6, <2>7 DEF Next
<1>2. TypeOK /\ Apart /\ [Next]_vars => [WakesChildrenFirst]_vars
  BY <1>1
<1> QED BY <1>2, TypeCorrect, QueuesStayApart, PTL DEF Spec, ChildrenWakeFirst

\* Waiting callbacks leave a node together, when it becomes ready, and enter the
\* main queue behind what is there, in the order in which they were left
\* (transform.h 460-472).
THEOREM WakesAsLeft == Spec => WakeInOrder
<1>1. ASSUME TypeOK, Next PROVE WakesInOrder
  <2> SUFFICES ASSUME NEW n \in Node, tcb[n] # <<>>, tcb'[n] # tcb[n],
                      ~ IsPrefix(tcb[n], tcb'[n])
               PROVE  /\ count'[n] = 0
                      /\ tcb'[n] = <<>>
                      /\ \E s \in Suffixes(main') : IsPrefix(tcb[n], s)
                      /\ IsPrefix(main, main')
    BY DEF WakesInOrder
  <2>1. /\ main \in Seq(Callback) /\ tcb[n] \in Seq(Callback)
        /\ count \in [Node -> Nat] /\ tcb \in [Node -> Seq(Callback)]
    BY <1>1 DEF TypeOK
  <2>2. ASSUME NEW e \in Callback, NEW k \in Node, WaitFor(e, k) PROVE FALSE
    <3>1. tcb'[n] = Append(tcb[n], e)
      BY <2>1, <2>2 DEF WaitFor, Parked
    <3> DEFINE t == <<e>>
    <3>2. t \in Seq(Callback) /\ Append(tcb[n], e) = tcb[n] \o t
      BY <2>1
    <3> HIDE DEF t
    <3> QED BY <2>1, <3>1, <3>2, ConcatPrefix
  <2>3. PICK j \in Job : End(j)
    BY <1>1, <2>2 DEF Next, Begin, Schedule, Run
  <2> DEFINE path == Path[at[j]]
             W == Woken(count, path)
             M == Moved(count, tcb, path)
  <2>4. path \in Seq(Node)
    BY <1>1, PathAssumption DEF TypeOK
  <2>5. n \in W /\ tcb'[n] = <<>>
    BY <2>1, <2>3 DEF End, Drained
  <2>6. n \in Walked(count, path) /\ count[n] = 1
    BY <2>5 DEF Woken
  <2>7. count'[n] = 0
    BY <2>1, <2>3, <2>6 DEF End, Decreased
  <2>8. PICK i \in 1..Len(path) : path[i] = n
    BY <2>4, <2>6 DEF Walked
  <2>9. M \in Seq(Callback) /\ main' = main \o M
    BY <2>1, <2>3, <2>4, MovedType DEF End, Joined
  <2>10. PICK a \in Nat : PieceAt(M, a, tcb[n])
    <3>1. path[i] \in W
      BY <2>5, <2>8
    <3> HIDE DEF path
    <3>2. \E a \in Nat : PieceAt(M, a, tcb[path[i]])
      BY <2>1, <2>4, <3>1, MovedWhole
    <3> QED BY <2>8, <3>2
  <2> HIDE DEF M
  <2>11. \E s \in Suffixes(main \o M) : IsPrefix(tcb[n], s)
    BY <2>1, <2>9, <2>10, PieceOfSuffix
  <2>12. IsPrefix(main, main \o M)
    BY <2>1, <2>9, ConcatPrefix
  <2> QED BY <2>5, <2>7, <2>9, <2>11, <2>12
<1>2. TypeOK /\ [Next]_vars => [WakesInOrder]_vars
  BY <1>1
<1> QED BY <1>2, TypeCorrect, PTL DEF Spec, WakeInOrder
=============================================================================
