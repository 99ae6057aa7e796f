------------------------------ MODULE Document ------------------------------
(***************************************************************************)
(* The tree of the response document, as every transform function changes  *)
(* it: K[n] is the sequence of the children of the node n.  The operators  *)
(* are pure: a state machine applies them to its own tree.                 *)
(***************************************************************************)
EXTENDS Naturals, Sequences, SequencesExt

\* The document and its root element, which are ready and not ready together.
Doc == <<"doc">>

NULL == <<"null">>

\* NEW_CHILD, xmlAddChild
WithChild(K, p, n) == [K EXCEPT ![p] = Append(@, n)]
WithChildren(K, p, ns) == [K EXCEPT ![p] = @ \o ns]

ParentIn(K, n) == CHOOSE p \in DOMAIN K : Contains(K[p], n)

HasParent(K, n) == \E p \in DOMAIN K : Contains(K[p], n)

\* n, n->parent, ... up to the document.
PathIn(K, n) ==
  LET up[m \in DOMAIN K] ==
        IF m # Doc /\ HasParent(K, m) THEN <<m>> \o up[ParentIn(K, m)] ELSE <<m>>
  IN up[n]

Descendants(K, n) ==
  LET below[m \in DOMAIN K] == {m} \cup UNION { below[c] : c \in ToSet(K[m]) }
  IN below[n]

\* xmlXPathCastNodeToString, given the content of the text nodes.
TextBelow(K, own, n) ==
  LET text[m \in DOMAIN K] ==
        own[m] \o FlattenSeq([i \in DOMAIN K[m] |-> text[K[m][i]]])
  IN text[n]

\* REMOVE_RESPONSE_NODE and REPLACE_RESPONSE_NODE: n makes way for the nodes
\* ns.
Substituted(K, n, ns) ==
  LET p == ParentIn(K, n)
  IN [K EXCEPT ![p] =
        FlattenSeq([i \in DOMAIN @ |-> IF @[i] = n THEN ns ELSE <<@[i]>>])]

\* What lies behind n when it has made way for ns.
NextOf(K, n, ns) ==
  LET siblings == K[ParentIn(K, n)]
      i == SelectInSeq(siblings, LAMBDA m : m = n)
  IN IF ns # <<>> THEN ns[1]
     ELSE IF i < Len(siblings) THEN siblings[i + 1] ELSE NULL
=============================================================================
