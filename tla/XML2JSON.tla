------------------------------ MODULE XML2JSON ------------------------------
(***************************************************************************)
(* The conversion of XML to JSON: a node becomes what its type says, and   *)
(* the nodes of one name below an object become one member.                *)
(*                                                                         *)
(* The type is that of the attribute "type" in XRLT_NS.  Where there is    *)
(* none it is inferred; where nothing can be inferred it is never set, and *)
(* is whatever the memory holds.  So a node has a set of outcomes; it is   *)
(* empty if the conversion fails in any case.                              *)
(*                                                                         *)
(* A node is [name, type, nodes], type being "none" if the attribute is    *)
(* not found; a document is one too, and has no attribute.  Blank texts    *)
(* are left out.                                                           *)
(***************************************************************************)
EXTENDS Naturals, Sequences, FiniteSets, SequencesExt

\* XRLT_TYPE_MAP
Known == { "string", "number", "boolean", "object", "array", "null" }

\* What the memory of a type may hold: one of them, or another number.
Memory == Known \cup { "other" }

\* A text reads as a "number", a "boolean" or as none of them, a "string".
Text(kind) == [name |-> "text", text |-> kind]

IsText(x) == "text" \in DOMAIN x

\* What is written: null, a scalar, an array or an object.
Null == [t |-> "null"]
Scalar(kind) == [t |-> kind]
Array(items) == [t |-> "array", items |-> items]
Object(members) == [t |-> "object", members |-> members]

\* xrltXML2JSONData.nodes, and .named: the nodes by their names, in document
\* order.
Nodes(x) == IF IsText(x) THEN <<>> ELSE x.nodes

Names(nodes) == { n.name : n \in ToSet(nodes) }

Named(nodes, name) == SelectSeq(nodes, LAMBDA n : n.name = name)

AllTexts(nodes) == \A n \in ToSet(nodes) : IsText(n)

\* Several nodes of one name are an array, or one string.
Inferred(x) ==
  LET nodes == Nodes(x)
  IN CASE IsText(x) -> {"string"}
       [] ~ IsText(x) /\ Len(nodes) > 1 /\ Cardinality(Names(nodes)) = 1 ->
            IF IsText(nodes[1]) THEN {"string"} ELSE {"array"}
       [] ~ IsText(x) /\ ~ (Len(nodes) > 1 /\ Cardinality(Names(nodes)) = 1) -> {}

Found(x) == IF IsText(x) THEN "none" ELSE x.type

\* Mutant: a type that is found counts only if none can be inferred.
Types_InferredFirst(x) ==
  IF Inferred(x) # {} THEN Inferred(x)
  ELSE IF Found(x) = "none" THEN Memory ELSE {Found(x)}

\* xrltXML2JSONData.type: an attribute that is none of the known types is set
\* to UNKNOWN, no attribute leaves it as it was.
Types(x) ==
  CASE Found(x) \in Known -> {Found(x)}
    [] Found(x) \notin Known /\ Inferred(x) # {} -> Inferred(x)
    [] Found(x) \notin Known /\ Inferred(x) = {} ->
         IF Found(x) = "none" THEN Memory ELSE {"other"}

\* One node of a name is the member itself, several are an array.
Member(items) == IF Len(items) = 1 THEN items[1] ELSE Array(items)

\* A text below x, alone: a number must be one, and all but true is false.
OfText(kind, type) ==
  CASE type = "number" -> IF kind = "number" THEN { Scalar("number") } ELSE {}
    [] type = "boolean" -> { Scalar("boolean") }
    [] type \notin { "number", "boolean" } -> { Scalar("string") }

\* Nothing below x.  A document and an element have no content.
OfNothing(x, type) ==
  CASE type = "object" -> Object(<<>>)
    [] type # "object" -> IF IsText(x) THEN Scalar("string") ELSE Null

\* One of each set.
OneOfEach(S) ==
  { f \in [DOMAIN S -> UNION { S[i] : i \in DOMAIN S }] : \A i \in DOMAIN S : f[i] \in S[i] }

\* xrltXML2JSONStringify
RECURSIVE Outcomes(_)
Outcomes(x) ==
  LET nodes == Nodes(x)
      each(xs) == OneOfEach([i \in DOMAIN xs |-> Outcomes(xs[i])])
      members ==
        OneOfEach([n \in Names(nodes) |-> { Member(items) : items \in each(Named(nodes, n)) }])
      written(type) ==
        CASE type = "array" -> { Array(items) : items \in each(nodes) }
          [] type # "array" /\ nodes = <<>> -> { OfNothing(x, type) }
          [] type = "string" /\ Len(nodes) > 1 ->
               IF AllTexts(nodes) THEN { Scalar("string") } ELSE {}
          [] type # "array" /\ Len(nodes) = 1 /\ AllTexts(nodes) -> OfText(nodes[1].text, type)
          [] type # "array" /\ Len(nodes) = 1 /\ ~ AllTexts(nodes) -> { Object(m) : m \in members }
          [] type \notin { "array", "string" } /\ Len(nodes) > 1 -> { Object(m) : m \in members }
  IN UNION { written(type) : type \in Types(x) }
=============================================================================
