----------------------------- MODULE Readiness -----------------------------
(***************************************************************************)
(* The readiness protocol of a transformation, whatever the elements that  *)
(* take part in it: somebody makes a node not ready, somebody else finds   *)
(* it so and leaves a callback on the node, the node becomes ready and the *)
(* callback goes to the main queue (transform.h 334-478), from which the   *)
(* loop of xrltTransform takes it (xrlt.cc 541-560).                       *)
(*                                                                         *)
(* A job is one pairing of COUNTER_INCREASE with COUNTER_DECREASE: every   *)
(* transform function that increases the counter of a node decreases the   *)
(* counter of the same node once, when its part of the work is over.  Jobs *)
(* begin and end in any order, on any nodes: nothing here relies on the    *)
(* order in which the elements of a requestsheet happen to run.            *)
(***************************************************************************)
EXTENDS NodeQueue, FiniteSets

CONSTANTS
  Node,      \* nodes of the response document
  Path,      \* Path[n]: n, its parent, ... up to the document
  Job,       \* pairs of an increase and a decrease
  Callback   \* callbacks: a function with its comp, insert and data

\* The document is a tree: a walk up starts at its node, meets no node twice,
\* and goes on from any node it meets as the walk from that node does.
ASSUME PathAssumption ==
  /\ Path \in [Node -> Seq(Node)]
  /\ \A n \in Node :
       /\ n \in ToSet(Path[n])
       /\ IsInjective(Path[n])
       /\ \A i \in DOMAIN Path[n] :
            Path[Path[n][i]] = SubSeq(Path[n], i, Len(Path[n]))

ASSUME JobAssumption == IsFiniteSet(Job)

\* n and everything above it.
AncestorsOrSelf(n) == ToSet(Path[n])

VARIABLES
  at,      \* the node a job keeps not ready
  held,    \* jobs that have increased and not yet decreased
  ended,   \* jobs that are over
  count,   \* xrltNodeData.count
  tcb,     \* xrltNodeData.tcb
  main,    \* xrltContext.tcb
  failed   \* "Can't decrease counter" has been reported

vars == <<at, held, ended, count, tcb, main, failed>>

\* Whether a queue already holds the callback: the functions of libxrlt pass a
\* callback on, from one queue to another, and never queue it twice.
Queued(c) ==
  \/ c \in ToSet(main)
  \/ \E n \in Node : c \in ToSet(tcb[n])

Init ==
  /\ at \in [Job -> Node]
  /\ held = {}
  /\ ended = {}
  /\ count = [n \in Node |-> 0]
  /\ tcb = [n \in Node |-> <<>>]
  /\ main = <<>>
  /\ failed = FALSE

\* COUNTER_INCREASE
Begin(j) ==
  /\ ~ failed
  /\ j \notin held \cup ended
  /\ held' = held \cup {j}
  /\ count' = Increased(count, Path[at[j]])
  /\ UNCHANGED <<at, ended, tcb, main, failed>>

\* Mutant: a decrease that need not answer an increase.
Held_Unpaired(j) == j \notin ended

\* A job ends once, after it has begun.
Held(j) == j \in held

\* COUNTER_DECREASE
End(j) ==
  /\ ~ failed
  /\ Held(j)
  /\ held' = held \ {j}
  /\ ended' = ended \cup {j}
  /\ count' = Decreased(count, Path[at[j]])
  /\ tcb' = Drained(count, tcb, Path[at[j]])
  /\ main' = Joined(main, Moved(count, tcb, Path[at[j]]))
  /\ failed' = DecreaseFails(count, Path[at[j]])
  /\ UNCHANGED at

\* SCHEDULE_CALLBACK(ctx, &ctx->tcb, ...)
Schedule(c) ==
  /\ ~ failed
  /\ ~ Queued(c)
  /\ main' = Append(main, c)
  /\ UNCHANGED <<at, held, ended, count, tcb, failed>>

\* Mutant: the callback is left on the node without a look at its counter.
WaitFor_Unchecked(c, n) ==
  /\ ~ failed
  /\ ~ Queued(c)
  /\ tcb' = Parked(tcb, n, c)
  /\ UNCHANGED <<at, held, ended, count, main, failed>>

\* WAIT_FOR_NODE, and the checks of n->count > 0 that are written out: the
\* callback is left on the node only while the node is not ready.
WaitFor(c, n) ==
  /\ ~ failed
  /\ ~ Queued(c)
  /\ count[n] > 0
  /\ tcb' = Parked(tcb, n, c)
  /\ UNCHANGED <<at, held, ended, count, main, failed>>

\* The loop of xrltTransform takes the oldest callback and calls it; what the
\* call does next are the other actions.
Run ==
  /\ ~ failed
  /\ main # <<>>
  /\ main' = Tail(main)
  /\ UNCHANGED <<at, held, ended, count, tcb, failed>>

Next ==
  \/ \E j \in Job : Begin(j) \/ End(j)
  \/ \E c \in Callback : Schedule(c) \/ \E n \in Node : WaitFor(c, n)
  \/ Run

\* Work that has begun ends, and the host keeps calling xrltTransform.
Fairness ==
  /\ \A j \in Job : WF_vars(End(j))
  /\ WF_vars(Run)

Spec == Init /\ [][Next]_vars

FairSpec == Spec /\ Fairness
-----------------------------------------------------------------------------
TypeOK ==
  /\ at \in [Job -> Node]
  /\ held \subseteq Job
  /\ ended \subseteq Job
  /\ count \in [Node -> Nat]
  /\ tcb \in [Node -> Seq(Callback)]
  /\ main \in Seq(Callback)
  /\ failed \in BOOLEAN

\* The jobs that keep node n from being ready: those of n and of all its
\* descendants.
Holders(n) == { j \in held : n \in AncestorsOrSelf(at[j]) }

(***************************************************************************)
(* A counter is exactly the number of jobs under way on the node or below  *)
(* it: no decrease is lost on the way up and none is made twice            *)
(* (transform.h 424-478).                                                  *)
(***************************************************************************)
CountsAgree == \A n \in Node : count[n] = Cardinality(Holders(n))

(***************************************************************************)
(* No lost wake-up: whoever waits on a node waits for somebody who is      *)
(* still at work and will move the node's queue.  A callback left on a     *)
(* node that is already ready would never run (transform.h 460-472).       *)
(***************************************************************************)
NoLostWakeup ==
  \A n \in Node : tcb[n] # <<>> => Holders(n) # {}

\* The report "Can't decrease counter" (transform.h 452-455) is unreachable
\* while every decrease answers an increase of the same node.
NeverUnderflows == ~ failed

(***************************************************************************)
(* A callback is in one place of one queue: moving a queue neither leaves  *)
(* the callback behind nor appends it twice, else a transform function     *)
(* would run again after it has finished (transform.h 460-472).            *)
(***************************************************************************)
Places(c) ==
  { p \in Node \X (1..Cardinality(Callback)) :
       p[2] \in DOMAIN tcb[p[1]] /\ tcb[p[1]][p[2]] = c }
    \cup { <<i>> : i \in { i \in DOMAIN main : main[i] = c } }

InOnePlace == \A c \in Callback : Cardinality(Places(c)) <= 1

(***************************************************************************)
(* Waiting callbacks leave a node only when it becomes ready, all of them, *)
(* and enter the main queue behind everything that is there in the order   *)
(* in which they were left.                                                *)
(***************************************************************************)
WakesInOrder ==
  \A n \in Node :
    tcb[n] # <<>> /\ tcb'[n] # tcb[n] /\ ~ IsPrefix(tcb[n], tcb'[n]) =>
      /\ count'[n] = 0
      /\ tcb'[n] = <<>>
      /\ \E s \in Suffixes(main') : IsPrefix(tcb[n], s)
      /\ IsPrefix(main, main')

WakeInOrder == [][WakesInOrder]_vars

(***************************************************************************)
(* When one decrease makes a node and a node above it ready, those who     *)
(* wait on the lower node run first.  xrltSetStringResult waits on the     *)
(* "tmp" node of a value and the owner of the value on a node above it:    *)
(* the owner finds the string set because of this order (transform.cc      *)
(* 529-548, transform.h 683-721).                                          *)
(***************************************************************************)
WakesChildrenFirst ==
  \A m, n \in Node, c, d \in Callback :
    /\ m # n
    /\ n \in AncestorsOrSelf(m)
    /\ c \in ToSet(tcb[m]) /\ d \in ToSet(tcb[n])
    /\ c \in ToSet(main') /\ d \in ToSet(main')
    => \E i, k \in DOMAIN main' : i < k /\ main'[i] = c /\ main'[k] = d

ChildrenWakeFirst == [][WakesChildrenFirst]_vars

\* Whoever waits on a node is called in the end, if the work under way ends.
WaitersRun ==
  \A n \in Node, c \in Callback :
    c \in ToSet(tcb[n]) ~> ~ Queued(c)
=============================================================================
