---------------------------- MODULE Conversions ----------------------------
(***************************************************************************)
(* The parsers of what is not XML: the body of an answer or of a request   *)
(* is given to the one its type says, which makes a document of it; and    *)
(* the conversions back.                                                   *)
(***************************************************************************)
EXTENDS Naturals, Sequences, SequencesExt, Functions

CONSTANTS
  MaxDepth, Values,  \* see JSON2XML
  Inputs             \* see QueryString

VARIABLES
  type,                                      \* xrltIncludeTransformingData.type
  value, ns, events, stack, cur, tree, refused,  \* .jsonparser
  input, fed, last, name, val, isVal, doc    \* .qsparser

J == INSTANCE JSON2XML
Q == INSTANCE QueryString
X == INSTANCE XML2JSON

json == <<value, ns, events, stack, cur, tree, refused>>
query == <<input, fed, last, name, val, isVal, doc>>
vars == <<type, json, query>>
-----------------------------------------------------------------------------
NoJSON ==
  /\ value = [t |-> "null"]
  /\ ns = FALSE
  /\ events = <<>>
  /\ stack = <<>>
  /\ cur = 1
  /\ tree = <<>>
  /\ refused = FALSE

NoQuery ==
  /\ input = <<>>
  /\ fed = 0
  /\ last = FALSE
  /\ name = <<>>
  /\ val = <<>>
  /\ isVal = FALSE
  /\ doc = <<>>

Init ==
  \/ type = "json" /\ J!Init /\ NoQuery
  \/ type = "querystring" /\ Q!Init /\ NoJSON

\* xrltProcessBody
Next ==
  \/ type = "json" /\ J!Next /\ UNCHANGED <<type, query>>
  \/ type = "querystring" /\ Q!Next /\ UNCHANGED <<type, json>>

Spec == Init /\ [][Next]_vars
-----------------------------------------------------------------------------
\* What an array gives to the member it is the value of: its items.
Spread(v) == IF v.t = "array" /\ v.kids # <<>> THEN v.kids ELSE <<v>>

(***************************************************************************)
(* What is left of a value whose types are found, from the value alone: a  *)
(* member that is an array of one item is the item, members of one name    *)
(* are one array, and a blank string is null.                              *)
(***************************************************************************)
RECURSIVE Remains(_)
Remains(v) ==
  LET all(vs) == [i \in DOMAIN vs |-> Remains(vs[i])]
      ofKey(k) == SelectSeq(v.kids, LAMBDA m : m[1] = k)
      spread(k) == FlattenSeq([i \in DOMAIN ofKey(k) |-> Spread(ofKey(k)[i][2])])
  IN CASE v.t \in { "null", "blank" } -> X!Null
       [] v.t \in J!Scalars \ { "blank" } -> X!Scalar(v.t)
       [] v.t = "array" -> X!Array(all(v.kids))
       [] v.t = "object" ->
            X!Object([k \in { m[1] : m \in ToSet(v.kids) } |->
              IF Len(spread(k)) = 1 THEN all(spread(k))[1] ELSE X!Array(all(spread(k)))])

Sum(f) == FoldFunction(LAMBDA m, n : m + n, 0, f)

\* Scalars, nulls and empty containers: of a value, and of what is written.
RECURSIVE Leaves(_), LeavesWritten(_)
Leaves(v) ==
  IF v.t \notin J!Container \/ v.kids = <<>> THEN 1
  ELSE Sum([i \in DOMAIN v.kids |-> Leaves(IF v.t = "array" THEN v.kids[i] ELSE v.kids[i][2])])

LeavesWritten(o) ==
  LET parts == CASE o.t = "array" -> o.items
                 [] o.t = "object" -> o.members
                 [] o.t \notin J!Container -> <<>>
  IN IF parts = <<>> THEN 1 ELSE Sum([i \in DOMAIN parts |-> LeavesWritten(parts[i])])

\* The tree as xml2json finds it: it looks for the types in XRLT_NS, and they are
\* there if JSON2XML has found the namespace.
RECURSIVE AsRead(_)
AsRead(x) ==
  [name |-> x.name, type |-> IF ns THEN x.type ELSE "none",
   nodes |-> IF x.text \notin { "none", "blank" } THEN << X!Text(x.text) >>
             ELSE [i \in DOMAIN x.kids |-> AsRead(x.kids[i])]]

Read == type = "json" /\ events = <<>> /\ ~ refused /\ J!StackFits

\* The state of the two parsers (json2xml.cc 45-78).
TypeOK == type = "json" => J!TypeOK

\* The tree is the one the value means (json2xml.cc 14-386).
TreeIsMeant == type = "json" => J!TreeIsMeant

(***************************************************************************)
(* Written as JSON again (xml2json.cc 53-409), the tree is what remains of *)
(* the value where the types are found: whatever contains what, no member  *)
(* is mixed up with another, an empty array is not an empty object and not *)
(* null.  Where they are not, what is written depends on the memory.  It   *)
(* need not fail, and where it does not, no member and no item is lost or  *)
(* written twice, whatever the memory holds.                               *)
(***************************************************************************)
ValueComesBack ==
  Read =>
    LET outcomes == X!Outcomes(AsRead(J!Subtree(1)))
    IN /\ ns /\ value.t # "null" => outcomes = {Remains(value)}
       /\ outcomes # {}
       /\ \A o \in outcomes : LeavesWritten(o) = Leaves(value)

\* The document is the one the querystring means (querystring.cc 25-145).
DocumentIsMeant == type = "querystring" => Q!DocumentIsMeant

\* Written as a querystring and parsed again, it is the same (function.cc
\* 723-878).
DocumentComesBack == type = "querystring" => Q!DocumentComesBack

\* "xrltJSON2XMLStackItem stack[MAX_JSON_DEPTH]" (json2xml.h 60).
StackFits == type = "json" => J!StackFits
=============================================================================
