------------------------------ MODULE JSON2XML ------------------------------
(***************************************************************************)
(* The conversion of JSON to XML: yajl (external) calls back for every     *)
(* token, and the callbacks build the tree with a stack of the containers  *)
(* that are open.  How the text is cut into parts does not reach them.     *)
(* Texts that are not JSON are left out: for them yajl stops calling back. *)
(*                                                                         *)
(* An element is named after the key it is a value of.  An array that is   *)
(* the value of a key has no element: its items are elements named after   *)
(* the key; only if it is empty has it one itself.                         *)
(***************************************************************************)
EXTENDS Naturals, Sequences, SequencesExt

CONSTANTS
  MaxDepth,  \* MAX_JSON_DEPTH
  Values     \* the values that are converted, with and without a namespace

(***************************************************************************)
(* A value is [t |-> "null"], a scalar, [t |-> "array", kids |-> values]   *)
(* or [t |-> "object", kids |-> pairs of a key and a value].  A "blank" is *)
(* a string that is empty or white space.                                  *)
(***************************************************************************)
Scalars == { "string", "number", "boolean", "blank" }

Container == { "array", "object" }

\* XRLT_JSON2XML_ATTR_TYPE_STRING and the others.
TypeName(t) == IF t = "blank" THEN "string" ELSE t

Default == "item"  \* XRLT_JSON2XML_DEFAULT_NAME

\* What yajl calls back for, in order.
RECURSIVE Events(_)
Events(v) ==
  CASE v.t \notin Container -> << <<v.t>> >>
    [] v.t = "array" ->
         << <<"arrayStart">> >>
           \o FlattenSeq([i \in DOMAIN v.kids |-> Events(v.kids[i])])
           \o << <<"arrayEnd">> >>
    [] v.t = "object" ->
         << <<"mapStart">> >>
           \o FlattenSeq([i \in DOMAIN v.kids |->
                << <<"mapKey", v.kids[i][1]>> >> \o Events(v.kids[i][2])])
           \o << <<"mapEnd">> >>

VARIABLES
  value,
  ns,       \* xrltJSON2XML.ns is not NULL: XRLT_NS is declared where the value
            \* is inserted.  If it is not, the value is inserted into a document.
  events,   \* what is still to be called back for
  stack,    \* xrltJSON2XML.stack, as far as stackPos
  cur,      \* xrltJSON2XML.cur: an index of tree, or 0 for NULL
  tree,     \* the elements in document order, each with its parent, its type
            \* attribute and its text
  refused   \* a callback has returned 0

vars == <<value, ns, events, stack, cur, tree, refused>>
-----------------------------------------------------------------------------
Open == stack # <<>>

Top == Last(stack)

\* The items of an array are named after the key the array is a value of.
NodeName(s) ==
  IF s = <<>> THEN Default
  ELSE IF Last(s).type = "object" THEN Last(s).key
  ELSE IF Len(s) > 1 /\ s[Len(s) - 1].type = "object" THEN s[Len(s) - 1].key
  ELSE Default

\* xrltJSON2XMLGetNodeName tells the container that it has a content.
Named(s) ==
  IF s = <<>> THEN s ELSE [s EXCEPT ![Len(s)].hasContent = TRUE]

\* A new element below p.
WithElement(T, p, name, type) ==
  Append(T, [parent |-> p, name |-> name, type |-> type, text |-> "none"])

\* xrltJSON2XMLSetType.  A document has no attributes.
Typed(T, n, type) == IF n = 1 /\ ~ ns THEN T ELSE [T EXCEPT ![n].type = type]

\* xrltJSON2XMLStackPush finds no room.
Full == Len(stack) > MaxDepth

Pushed(s, type, insert, hasContent) ==
  Append(s, [type |-> type, hasContent |-> hasContent, key |-> "", insert |-> insert])

\* Mutant: the container below is looked for one too deep.
Below_OneTooDeep == IF Len(stack) > 2 THEN stack[Len(stack) - 2].insert ELSE 0

\* The element of the container below, which xrltJSON2XMLStackPop goes back to.
\* Below the first one lies ns: NULL or a namespace, and neither takes a child.
Below == IF Len(stack) > 1 THEN stack[Len(stack) - 1].insert ELSE 0

\* What is called back for once an item that the stack does not have is
\* written is left out: it depends on what lies behind the stack.
Now(e) ==
  /\ ~ refused
  /\ Len(stack) <= MaxDepth
  /\ events # <<>>
  /\ Head(events)[1] = e

\* After a callback that returns 0 yajl makes no other.
Returns(ok) == events' = Tail(events) /\ refused' = ~ ok /\ UNCHANGED <<value, ns>>

\* The end of MapStart and ArrayStart: the element is made by then, and cur'
\* is what the item refers to.
Pushes(s, type, hasContent) ==
  /\ stack' = IF Full THEN s ELSE Pushed(s, type, cur', hasContent)
  /\ Returns(~ Full)
-----------------------------------------------------------------------------
\* A null has an element of its own even if it is all there is.
Null ==
  /\ Now("null")
  /\ tree' = WithElement(tree, cur, NodeName(stack), "null")
  /\ stack' = Named(stack)
  /\ UNCHANGED cur
  /\ Returns(TRUE)

Scalar(type) ==
  /\ Now(type)
  /\ LET T == IF Open THEN WithElement(tree, cur, NodeName(stack), TypeName(type))
                      ELSE Typed(tree, cur, TypeName(type))
     IN tree' = [T EXCEPT ![IF Open THEN Len(T) ELSE cur].text = type]
  /\ stack' = Named(stack)
  /\ UNCHANGED cur
  /\ Returns(TRUE)

MapKey ==
  /\ Now("mapKey")
  /\ stack' = [stack EXCEPT ![Len(stack)].key = Head(events)[2]]
  /\ UNCHANGED <<cur, tree>>
  /\ Returns(TRUE)

MapStart ==
  /\ Now("mapStart")
  /\ tree' = IF Open THEN WithElement(tree, cur, NodeName(stack), "object")
                     ELSE Typed(tree, cur, "object")
  /\ cur' = IF Open THEN Len(tree') ELSE cur
  /\ Pushes(Named(stack), "object", FALSE)

\* Mutant: an array that has an element is not known to have one.
HasElement_Never == FALSE

\* An array in an array has an element of its own.
HasElement == Open /\ Top.type = "array"

ArrayStart ==
  /\ Now("arrayStart")
  /\ \/ /\ ~ Open
        /\ tree' = Typed(tree, cur, "array")
        /\ UNCHANGED cur
        /\ Pushes(stack, "array", FALSE)
     \/ /\ Open
        /\ Top.type = "object"
        /\ UNCHANGED <<cur, tree>>
        /\ Pushes(stack, "array", FALSE)
     \/ /\ Open
        /\ Top.type = "array"
        /\ tree' = WithElement(tree, cur, NodeName(stack), "array")
        /\ cur' = Len(tree')
        /\ Pushes(Named(stack), "array", HasElement)

MapEnd ==
  /\ Now("mapEnd")
  /\ cur' = Below
  /\ stack' = Front(stack)
  /\ UNCHANGED tree
  /\ Returns(TRUE)

\* An array without a content gets an element after all.
ArrayEnd ==
  LET below == Front(stack)
  IN /\ Now("arrayEnd")
     /\ cur' = Below
     /\ \/ /\ Top.hasContent
           /\ stack' = below
           /\ UNCHANGED tree
           /\ Returns(TRUE)
        \/ /\ ~ Top.hasContent
           /\ Below # 0
           /\ stack' = Named(below)
           /\ tree' = WithElement(tree, Below, NodeName(below), "array")
           /\ Returns(TRUE)
        \/ /\ ~ Top.hasContent
           /\ Below = 0
           /\ stack' = Named(below)
           /\ UNCHANGED tree
           /\ Returns(FALSE)
-----------------------------------------------------------------------------
\* xrltJSON2XMLInit
Init ==
  /\ ns \in BOOLEAN
  /\ value \in Values[ns]
  /\ events = Events(value)
  /\ stack = <<>>
  /\ cur = 1
  /\ tree = << [parent |-> 0, name |-> "root", type |-> "none", text |-> "none"] >>
  /\ refused = FALSE

Next ==
  \/ Null \/ (\E type \in Scalars : Scalar(type))
  \/ MapKey \/ MapStart \/ ArrayStart \/ MapEnd \/ ArrayEnd

Spec == Init /\ [][Next]_vars
-----------------------------------------------------------------------------
RECURSIVE Depth(_)
Depth(v) ==
  IF v.t \notin Container THEN 0
  ELSE LET kid(i) == IF v.t = "array" THEN v.kids[i] ELSE v.kids[i][2]
           depths == { Depth(kid(i)) : i \in DOMAIN v.kids } \cup {0}
       IN 1 + CHOOSE d \in depths : \A e \in depths : e <= d

(***************************************************************************)
(* What a value means, from the value alone: the elements it becomes as a  *)
(* value of the key or an item with the name n.                            *)
(***************************************************************************)
RECURSIVE Meaning(_, _, _)
Meaning(v, n, ofKey) ==
  LET members == FlattenSeq([i \in DOMAIN v.kids |->
                               Meaning(v.kids[i][2], v.kids[i][1], TRUE)])
      items(m) == FlattenSeq([i \in DOMAIN v.kids |-> Meaning(v.kids[i], m, FALSE)])
      element(kids) ==
        << [name |-> n, type |-> TypeName(v.t),
            text |-> IF v.t \in Scalars THEN v.t ELSE "none", kids |-> kids] >>
  IN CASE v.t \notin Container -> element(<<>>)
       [] v.t = "object" -> element(members)
       [] v.t = "array" /\ ofKey /\ v.kids # <<>> -> items(n)
       [] v.t = "array" /\ ~ (ofKey /\ v.kids # <<>>) -> element(items(Default))

\* All there is becomes the root, but for a null.
Meant(v) ==
  CASE v.t = "null" -> [name |-> "root", type |-> "none", text |-> "none",
                        kids |-> Meaning(v, Default, FALSE)]
    [] v.t # "null" /\ ns -> Meaning(v, "root", FALSE)[1]
    [] v.t # "null" /\ ~ ns -> [Meaning(v, "root", FALSE)[1] EXCEPT !.type = "none"]

RECURSIVE Subtree(_)
Subtree(i) ==
  LET kids == SelectSeq([j \in DOMAIN tree |-> j], LAMBDA j : tree[j].parent = i)
  IN [name |-> tree[i].name, type |-> tree[i].type, text |-> tree[i].text,
      kids |-> [k \in DOMAIN kids |-> Subtree(kids[k])]]

\* The stack has one item more at most than it is declared with, and every
\* element but the root is in the tree below an earlier one, where the parser
\* has been (json2xml.cc 45-78).
TypeOK ==
  /\ Len(stack) \in 0..(MaxDepth + 1)
  /\ \A s \in ToSet(stack) :
       /\ s.type \in Container
       /\ s.hasContent \in BOOLEAN
       /\ s.insert \in DOMAIN tree
  /\ cur \in 0..Len(tree)
  /\ \A i \in DOMAIN tree : tree[i].parent \in IF i = 1 THEN {0} ELSE 1..(i - 1)
  /\ refused \in BOOLEAN

\* [] alone: its end finds no element to put one into (json2xml.cc 354-386).
EmptyAlone == value = [t |-> "array", kids |-> <<>>]

(***************************************************************************)
(* "xrltJSON2XMLStackItem stack[MAX_JSON_DEPTH]" (json2xml.h 60): no more  *)
(* containers are open than the stack has items.                           *)
(***************************************************************************)
StackFits == Len(stack) <= MaxDepth

(***************************************************************************)
(* The tree is the one the value means, whatever contains what, and only   *)
(* values that are too deep are refused, and [] alone (json2xml.cc 14-386, *)
(* tests/json2xml).                                                        *)
(***************************************************************************)
TreeIsMeant ==
  /\ events = <<>> /\ ~ refused /\ StackFits => Subtree(1) = Meant(value)
  /\ refused => EmptyAlone \/ Depth(value) > MaxDepth
=============================================================================
