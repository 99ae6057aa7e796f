------------------------------- MODULE Sheet -------------------------------
(***************************************************************************)
(* A compiled requestsheet, as the transform functions see it, and what it *)
(* is to produce.                                                          *)
(*                                                                         *)
(* A requestsheet is a record of functions over its elements, which are    *)
(* numbered in document order.  0 stands for the sheet node.               *)
(*   kind[e]  what the element is                                          *)
(*   up[e]    the element it is written in                                 *)
(*   slot[e]  the part of that element it is written in: its content, the  *)
(*            node list of its string value (select, href), or the failure *)
(*            branch of an include                                         *)
(*   ref[e]   the variable its select, test or href attribute reads, or 0  *)
(* An attribute that reads no variable is a constant expression; its value *)
(* is the atom e.  So is the text of a text node and the document an       *)
(* include receives: texts are sequences of such atoms.                    *)
(***************************************************************************)
EXTENDS Naturals, Sequences, FiniteSets, SequencesExt

CONSTANT Elem

ASSUME ElemAssumption == IsFiniteSet(Elem) /\ Elem = 1..Cardinality(Elem)

Kind == { "response", "text", "copy", "value-of", "copy-of", "if", "log",
          "include", "variable" }

Slot == { "content", "value", "failure" }

\* What an element may be written in: the kind of its parent, and the slot.
Parts ==
  { <<"response", "content">>, <<"copy", "content">>, <<"if", "content">>,
    <<"log", "content">>, <<"variable", "content">>, <<"value-of", "value">>,
    <<"include", "value">>, <<"include", "content">>, <<"include", "failure">> }

\* What is left of a sheet when it is compiled: elements outside Parts are
\* refused, or are in no list that a transform function runs.
WellFormed(s) ==
  /\ s.kind \in [Elem -> Kind]
  /\ s.up \in [Elem -> Elem \cup {0}]
  /\ s.slot \in [Elem -> Slot]
  /\ s.ref \in [Elem -> Elem \cup {0}]
  /\ \A e \in Elem :
       /\ s.up[e] < e
       /\ s.kind[e] = "response" => s.up[e] = 0
       /\ IF s.up[e] = 0 THEN s.kind[e] \in {"response", "variable"}
                          ELSE << s.kind[s.up[e]], s.slot[e] >> \in Parts
       /\ s.ref[e] # 0 => s.kind[s.ref[e]] = "variable"

\* The elements of S, in document order.
InOrder(S) ==
  LET upTo[k \in 0..Cardinality(Elem)] ==
        IF k = 0 THEN <<>>
        ELSE IF k \in S THEN Append(upTo[k - 1], k) ELSE upTo[k - 1]
  IN upTo[Cardinality(Elem)]

\* node->children of a part of an element.
Children(s, p, slot) == InOrder({ e \in Elem : s.up[e] = p /\ s.slot[e] = slot })

\* e and the elements it is written in.
AncestorsOrSelf(s, e) ==
  LET up[m \in Elem] == {m} \cup IF s.up[m] = 0 THEN {} ELSE up[s.up[m]]
  IN up[e]

\* Where the value of an element comes from (xrltCompiledValue.type).
Source(s, e) ==
  LET slot == IF s.kind[e] = "variable" THEN "content" ELSE "value"
  IN IF Children(s, e, slot) # <<>> THEN "nodelist"
     ELSE IF s.ref[e] # 0 THEN "variable" ELSE "constant"

\* What an include has got for an answer so far.
Answer == { "none", "partial", "success", "failure", "error" }

\* Stands in a text for what is not known yet.
Unknown == 0

(***************************************************************************)
(* The reference: the text of an element, given the answers the includes   *)
(* have got, as a reader of the requestsheet expects it.  It knows nothing *)
(* of nodes, counters, callbacks or the order in which the answers came.   *)
(***************************************************************************)
Rendered(s, answer) ==
  LET text[e \in Elem] ==
        LET Shown(c) == IF s.kind[c] \in {"variable", "log"} THEN <<>> ELSE text[c]
            All(slot) ==
              LET cs == Children(s, e, slot)
              IN FlattenSeq([i \in DOMAIN cs |-> Shown(cs[i])])
            Value(slot) ==
              CASE Source(s, e) = "nodelist" -> All(slot)
                [] Source(s, e) = "variable" -> text[s.ref[e]]
                [] Source(s, e) = "constant" -> <<e>>
        IN CASE s.kind[e] = "text" -> <<e>>
             [] s.kind[e] \in {"response", "copy", "log"} -> All("content")
             [] s.kind[e] \in {"value-of", "copy-of"} -> Value("value")
             [] s.kind[e] = "variable" -> Value("content")
             [] s.kind[e] = "if" ->
                  IF Contains(Value("value"), Unknown) THEN <<Unknown>>
                  ELSE IF Value("value") # <<>> THEN All("content") ELSE <<>>
             [] s.kind[e] = "include" ->
                  CASE answer[e] \in {"none", "partial"} -> <<Unknown>>
                    [] answer[e] \in {"failure", "error"} -> All("failure")
                    [] answer[e] = "success" ->
                         IF Children(s, e, "content") = <<>> THEN <<e>>
                         ELSE All("content")
  IN text

\* The string value of an element: what its select, test or href reads, given
\* the texts of all elements.
ValueOf(s, text, e) ==
  LET cs == Children(s, e, "value")
  IN CASE Source(s, e) = "nodelist" ->
            FlattenSeq([i \in DOMAIN cs |->
                          IF s.kind[cs[i]] \in {"variable", "log"} THEN <<>>
                          ELSE text[cs[i]]])
       [] Source(s, e) = "variable" -> text[s.ref[e]]
       [] Source(s, e) = "constant" -> <<e>>
=============================================================================
