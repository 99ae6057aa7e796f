--------------------------- MODULE MCConversions ---------------------------
(***************************************************************************)
(* All values of two levels of containers with two kids, and chains of     *)
(* containers to two levels more than there is room for; all querystrings  *)
(* of up to four characters or escapes.                                    *)
(***************************************************************************)
EXTENDS Conversions

Plain == { [t |-> "null"], [t |-> "string"], [t |-> "blank"] }

Leaf == Plain \cup { [t |-> "number"], [t |-> "boolean"] }

UpToTwo(S) == { <<>> } \cup { <<x>> : x \in S } \cup (S \X S)

Containing(V) ==
  [t : {"array"}, kids : UpToTwo(V)]
    \cup [t : {"object"}, kids : UpToTwo({ "p", "q" } \X V)]

\* The second level may hold one member of the first only, besides plain ones.
Level1 == Plain \cup Containing(Plain)
Level2 ==
  Level1 \cup { v \in Containing(Level1) : v.t = "array" \/ Len(v.kids) < 2 }
    \cup [t : {"object"}, kids : ({"p"} \X Level1) \X ({"q"} \X Level1)]

Chained(V) ==
  [t : {"array"}, kids : {<<>>} \cup { <<v>> : v \in V }]
    \cup [t : {"object"}, kids : {<<>>} \cup { <<<<"p", v>>>> : v \in V }]

Chains == Chained(Chained(Chained(Chained(Chained({[t |-> "string"]})))))

All == Level2 \cup Leaf \cup Containing(Leaf) \cup Chains

Wide(v) == v.t \in {"array", "object"} /\ Len(v.kids) = 2

Kid(v, i) == IF v.t = "array" THEN v.kids[i] ELSE v.kids[i][2]

\* Of what becomes a document, with an outcome for every content of the memory,
\* the values of up to three leaves: no two pairs in a pair.
MCValues ==
  [declared \in BOOLEAN |->
     IF declared THEN All ELSE { v \in All : ~ (Wide(v) /\ \A i \in 1..2 : Wide(Kid(v, i))) }]

Token == { <<"&">>, <<";">>, <<"=">>, <<"+">>, <<"%", "h", "h">>, <<"x">> }

MCInputs == { FlattenSeq(t) : t \in UNION { [1..n -> Token] : n \in 0..4 } }
=============================================================================
