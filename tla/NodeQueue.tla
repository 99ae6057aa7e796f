----------------------------- MODULE NodeQueue -----------------------------
(***************************************************************************)
(* The two structures every transformation of libxrlt is built on: the     *)
(* "not ready" counter a node of the response document carries, and the    *)
(* callback queue that hangs off the node until the counter is zero        *)
(* (struct _xrltNodeData, transform.h 291-309).                            *)
(*                                                                         *)
(* count[n] is xrltNodeData.count and tcb[n] is xrltNodeData.tcb of the    *)
(* node n; path is the sequence of nodes a walk over node->parent visits:  *)
(* a node, its parent, ... up to the document.  The operators are pure: a  *)
(* state machine applies them to its own count and tcb.                    *)
(***************************************************************************)
EXTENDS Naturals, Sequences, SequencesExt

(***************************************************************************)
(* xrltNotReadyCounterIncrease: the node and every node above it are not   *)
(* ready for one more reason.                                              *)
(***************************************************************************)
\* Mutant: only the node itself, without node = node->parent.
Increased_NodeOnly(count, path) ==
  [m \in DOMAIN count |-> IF m = path[1] THEN count[m] + 1 ELSE count[m]]

Increased(count, path) ==
  [m \in DOMAIN count |-> IF m \in ToSet(path) THEN count[m] + 1 ELSE count[m]]

(***************************************************************************)
(* xrltNotReadyCounterDecrease.  The walk goes up from the node and stops  *)
(* with an error at the first node whose counter is already zero; the      *)
(* nodes below it have been decremented by then.                           *)
(***************************************************************************)
Walked(count, path) ==
  { path[i] : i \in { i \in DOMAIN path : \A k \in 1..i : count[path[k]] > 0 } }

DecreaseFails(count, path) ==
  \E m \in ToSet(path) : count[m] = 0

\* Mutant: decremented once by the walk and once more by its caller.
Decreased_Twice(count, path) ==
  [m \in DOMAIN count |->
     IF m \in Walked(count, path) THEN count[m] - 2 ELSE count[m]]

Decreased(count, path) ==
  [m \in DOMAIN count |->
     IF m \in Walked(count, path) THEN count[m] - 1 ELSE count[m]]

\* Mutant: the counter is compared before it is decremented.
Woken_BeforeDecrement(count, path) ==
  { m \in Walked(count, path) : count[m] = 0 }

\* The nodes whose counter the walk brings to zero ...
Woken(count, path) == { m \in Walked(count, path) : count[m] = 1 }

\* Mutant: the queues are collected from the document down.
Moved_TopDown(count, tcb, path) ==
  FlattenSeq([i \in DOMAIN path |->
                LET m == Reverse(path)[i]
                IN IF m \in Woken(count, path) THEN tcb[m] ELSE <<>>])

\* ... the callbacks that wait on them, in the order the walk appends their
\* queues to the main queue: the deepest node first ...
Moved(count, tcb, path) ==
  FlattenSeq([i \in DOMAIN path |->
                IF path[i] \in Woken(count, path) THEN tcb[path[i]] ELSE <<>>])

\* Mutant: n->tcb.first and n->tcb.last are not reset.
Drained_Kept(count, tcb, path) == tcb

\* ... and the node queues it leaves behind.
Drained(count, tcb, path) ==
  [m \in DOMAIN tcb |-> IF m \in Woken(count, path) THEN <<>> ELSE tcb[m]]

\* Mutant: the node's queue is put in front of the main queue.
Joined_InFront(main, moved) == moved \o main

\* Mutant: the node's queue is reset and not linked to anything.
Joined_Lost(main, moved) == main

\* They are linked behind what the main queue holds.
Joined(main, moved) == main \o moved

\* xrltTransformCallbackQueuePush on a node's own queue.
Parked(tcb, n, c) == [tcb EXCEPT ![n] = Append(@, c)]
=============================================================================
