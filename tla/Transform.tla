----------------------------- MODULE Transform -----------------------------
(***************************************************************************)
(* A transformation: the callbacks of the elements of a requestsheet, the  *)
(* response document they build, the loop of xrltTransform that calls      *)
(* them, and a host that answers subrequests in any order.                 *)
(*                                                                         *)
(* One step of the loop is one call of one transform function, with every  *)
(* node it creates, counts, waits on, moves or frees.  The host enters     *)
(* between calls of xrltTransform only: the library has no other           *)
(* concurrency than that.                                                  *)
(***************************************************************************)
EXTENDS Sheet, Document, NodeQueue, FiniteSets

CONSTANT Sheets   \* the requestsheets considered

ASSUME SheetsAssumption == \A s \in Sheets : WellFormed(s)

VARIABLES
  sheet,       \* xrltContext.sheet
  kids,        \* the response document: the children of every node, in order
  count, tcb,  \* xrltNodeData.count, xrltNodeData.tcb
  main,        \* xrltContext.tcb
  stage,       \* how far an include or an if has come (its transforming data)
  val,         \* the string an element has been given for a value
  bound,       \* what a variable's name stands for in xpath->varHash
  responseCur, \* xrltContext.responseCur
  sent,        \* text of the response chunks pushed so far
  logged,      \* messages pushed to the log so far
  requested,   \* includes whose subrequest has been pushed
  answer,      \* what the host has answered them
  cur,         \* xrltContext.cur: the XRLT_STATUS_* bits
  running,     \* xrltTransform has not returned
  failed       \* a transform function has returned FALSE

document == <<kids, count, tcb>>
elements == <<stage, val, bound>>
output   == <<responseCur, sent, logged, requested>>
host     == <<sheet, answer>>
vars == <<document, main, elements, output, host, cur, running, failed>>
-----------------------------------------------------------------------------
(***************************************************************************)
(* The response document.  Every element makes its nodes once: "self" is   *)
(* the node the element puts at its place, "tmp" the node its value waits  *)
(* on ("tmp" of value-of, "p" of include, "t" of if), "arg" the node a     *)
(* node list is transformed into for its string, "ret" the node of its     *)
(* result, "text" the text that result becomes.                            *)
(***************************************************************************)
Response == <<"response">>
Var == <<"var">>

Role == { "self", "tmp", "arg", "ret", "text" }
Node == { Doc, Response, Var } \cup (Role \X Elem)

Self(e) == <<"self", e>>
Tmp(e)  == <<"tmp", e>>
Arg(e)  == <<"arg", e>>
Ret(e)  == <<"ret", e>>
Text(e) == <<"text", e>>

Live == Descendants(kids, Doc)

\* The string of an element: NULL, and so no text, until it has been set.
Unset == <<Unknown>>

String(e) == IF val[e] = Unset THEN <<>> ELSE val[e]

\* The content of a text node.
Own(n) ==
  CASE n \in {Doc, Response, Var} -> <<>>
    [] n \notin {Doc, Response, Var} ->
         LET e == n[2]
         IN CASE n[1] = "self" /\ sheet.kind[e] = "text" -> <<e>>
              [] n[1] = "text" /\ sheet.kind[e] = "include" -> <<e>>
              [] n[1] = "text" /\ sheet.kind[e] # "include" -> String(e)
              [] OTHER -> <<>>

\* xmlXPathCastNodeToString
TextIn(K, n) == TextBelow(K, [m \in Node |-> Own(m)], n)

\* Mutant: responseCur is left on the node that is removed.
CurAfter_Kept(K, n, ns) == responseCur

\* responseCur does not stay on a node that is freed.
CurAfter(K, n, ns) ==
  IF responseCur = n THEN NextOf(K, n, ns) ELSE responseCur
-----------------------------------------------------------------------------
(***************************************************************************)
(* Callbacks.  "first" is the call with data == NULL, "again" the later    *)
(* calls of the same function, "set" the functions that bring an element   *)
(* its value (xrltSetStringResult, xrltSet...ResultByXPath,                *)
(* xrltTransformByXPath, xrltVariableFromXPath).                           *)
(***************************************************************************)
Call == { "first", "again", "set" } \X Elem

\* Mutant: every child is scheduled before the ones scheduled so far.
Firsts_Backwards(p, slot) ==
  LET cs == Children(sheet, p, slot)
  IN [i \in DOMAIN cs |-> <<"first", Reverse(cs)[i]>>]

\* xrltElementTransform: the first call of every child, in document order.
Firsts(p, slot) ==
  LET cs == Children(sheet, p, slot)
  IN [i \in DOMAIN cs |-> <<"first", cs[i]>>]

\* The node a first call gets as insert.
Insert(e) ==
  LET p == sheet.up[e]
  IN CASE sheet.kind[p] = "response" -> Response
       [] sheet.kind[p] # "response" /\ sheet.slot[e] = "value" -> Arg(p)
       [] sheet.kind[p] # "response" /\ sheet.slot[e] # "value" ->
            IF sheet.kind[p] \in {"copy", "log", "variable"} THEN Self(p)
                                                             ELSE Ret(p)

\* Variables: a name stands for the document of the variable, or for a value.
Pending(v) == bound[v] = "document" /\ count[Self(v)] > 0

TextOfVariable(v) ==
  IF bound[v] = "document" THEN TextIn(kids, Self(v)) ELSE val[v]

Rest == Tail(main)

\* The loop of xrltTransform is about to make call c of a k element.
Calls(c, e, k) ==
  /\ running
  /\ main # <<>>
  /\ Head(main) = <<c, e>>
  /\ sheet.kind[e] = k

\* The call has nothing to send: the loop goes on.
Goes == UNCHANGED <<cur, running, failed>>

\* The call has something to send: xrltTransform returns.
Returns(status) ==
  /\ cur' = status
  /\ running' = FALSE
  /\ UNCHANGED failed

\* The call returns FALSE.
Fails ==
  /\ failed' = TRUE
  /\ cur' = {"ERROR"}
  /\ running' = FALSE
  /\ UNCHANGED <<document, main, elements, output, host>>

\* The call waits on n: it leaves itself there and is over.
WaitsOn(n) ==
  /\ tcb' = Parked(tcb, n, Head(main))
  /\ main' = Rest
  /\ Goes
  /\ UNCHANGED <<kids, count, elements, output, host>>

\* COUNTER_DECREASE of n, and cbs scheduled after it.
Releases(n, cbs) ==
  LET path == PathIn(kids, n)
  IN /\ count' = Decreased(count, path)
     /\ tcb' = Drained(count, tcb, path)
     /\ main' = Joined(Rest, Moved(count, tcb, path)) \o cbs

\* ns, which may be what the node of its result holds, take the place of the
\* node of the element.
Replaced(K, e, ns) == [Substituted(K, Self(e), ns) EXCEPT ![Ret(e)] = <<>>]

\* The element is over.
Finishes(e, ns) ==
  /\ Releases(Self(e), <<>>)
  /\ kids' = Replaced(kids, e, ns)
  /\ responseCur' = CurAfter(kids, Self(e), ns)
  /\ Goes
  /\ UNCHANGED <<elements, sent, logged, requested, host>>
-----------------------------------------------------------------------------
(***************************************************************************)
(* The value of an element (xrltTransformToString, xrltTransformToBoolean, *)
(* xrltTransformByXPath): asked for in the first call, with K, C the       *)
(* document and the counters that call has made so far, n the node that is *)
(* not ready while the value is missing and then the calls scheduled last. *)
(***************************************************************************)
ConstantValue(e, n, K, C, then) ==
  /\ Source(sheet, e) = "constant"
  /\ val' = [val EXCEPT ![e] = <<e>>]
  /\ kids' = IF sheet.kind[e] = "copy-of" THEN WithChild(K, n, Text(e)) ELSE K
  /\ count' = C
  /\ main' = Rest \o then
  /\ UNCHANGED tcb

NodelistValue(e, n, K, C, then) ==
  /\ Source(sheet, e) = "nodelist"
  /\ kids' = WithChild(K, n, Arg(e))
  /\ count' = C
  /\ main' = Rest \o Firsts(e, "value") \o << <<"set", e>> >> \o then
  /\ UNCHANGED <<val, tcb>>

VariableValue(e, n, K, C, then) ==
  LET v == sheet.ref[e]
  IN /\ Source(sheet, e) = "variable"
     /\ bound[v] # "no"
     /\ main' = Rest \o then
     /\ IF Pending(v)
        THEN /\ kids' = K
             /\ count' = Increased(C, PathIn(K, n))
             /\ tcb' = Parked(tcb, Self(v), <<"set", e>>)
             /\ UNCHANGED val
        ELSE /\ val' = [val EXCEPT ![e] = TextOfVariable(v)]
             /\ kids' = IF sheet.kind[e] = "copy-of"
                        THEN WithChild(K, n, Text(e)) ELSE K
             /\ count' = C
             /\ UNCHANGED tcb

AsksValue(e, n, K, C, then) ==
  \/ ConstantValue(e, n, K, C, then)
  \/ NodelistValue(e, n, K, C, then)
  \/ VariableValue(e, n, K, C, then)

\* An expression names a variable that has not been set: the evaluation fails.
UndefinedVariable(e) ==
  /\ Calls("first", e, sheet.kind[e])
  /\ sheet.kind[e] \notin {"response", "text", "copy", "log"}
  /\ Source(sheet, e) = "variable"
  /\ bound[sheet.ref[e]] = "no"
  /\ Fails

\* Mutant: the string is taken whether the node is ready or not.
SetStringResult_Unchecked(e) ==
  /\ \E k \in {"value-of", "include"} : Calls("set", e, k)
  /\ Source(sheet, e) = "nodelist"
  /\ val' = [val EXCEPT ![e] = TextIn(kids, Arg(e))]
  /\ main' = Rest
  /\ Goes
  /\ UNCHANGED <<document, stage, bound, output, host>>

\* xrltSetStringResult
SetStringResult(e) ==
  /\ \E k \in {"value-of", "include"} : Calls("set", e, k)
  /\ Source(sheet, e) = "nodelist"
  /\ \/ /\ count[Arg(e)] > 0
        /\ WaitsOn(Arg(e))
     \/ /\ count[Arg(e)] = 0
        /\ val' = [val EXCEPT ![e] = TextIn(kids, Arg(e))]
        /\ main' = Rest
        /\ Goes
        /\ UNCHANGED <<document, stage, bound, output, host>>

\* The node an element's value keeps not ready.
Waiting(e) == IF sheet.kind[e] = "copy-of" THEN Ret(e) ELSE Tmp(e)

\* xrltSetStringResultByXPath, xrltSetBooleanResultByXPath and
\* xrltTransformByXPath, called again: the variable was not ready.
SetResultByXPath(e) ==
  /\ \E k \in {"value-of", "copy-of", "if", "include"} : Calls("set", e, k)
  /\ Source(sheet, e) = "variable"
  /\ bound[sheet.ref[e]] # "no"
  /\ \/ /\ Pending(sheet.ref[e])
        /\ WaitsOn(Self(sheet.ref[e]))
     \/ /\ ~ Pending(sheet.ref[e])
        /\ val' = [val EXCEPT ![e] = TextOfVariable(sheet.ref[e])]
        /\ kids' = IF sheet.kind[e] = "copy-of"
                   THEN WithChild(kids, Ret(e), Text(e)) ELSE kids
        /\ Releases(Waiting(e), <<>>)
        /\ Goes
        /\ UNCHANGED <<stage, bound, output, host>>
-----------------------------------------------------------------------------
\* xrltCopyNonXRLT
TextFirst(e) ==
  /\ Calls("first", e, "text")
  /\ kids' = WithChild(kids, Insert(e), Self(e))
  /\ main' = Rest
  /\ Goes
  /\ UNCHANGED <<count, tcb, elements, output, host>>

CopyFirst(e) ==
  /\ Calls("first", e, "copy")
  /\ kids' = WithChild(kids, Insert(e), Self(e))
  /\ IF Children(sheet, e, "content") = <<>>
     THEN /\ main' = Rest
          /\ UNCHANGED count
     ELSE /\ count' = Increased(count, PathIn(kids', Self(e)))
          /\ main' = Rest \o Firsts(e, "content") \o << <<"again", e>> >>
  /\ Goes
  /\ UNCHANGED <<tcb, elements, output, host>>

CopyAgain(e) ==
  /\ Calls("again", e, "copy")
  /\ Releases(Self(e), <<>>)
  /\ Goes
  /\ UNCHANGED <<kids, elements, output, host>>

\* xrltValueOfTransform
ValueOfFirst(e) ==
  LET K == WithChild(WithChild(kids, Insert(e), Self(e)), Self(e), Tmp(e))
      C == Increased(count, PathIn(K, Self(e)))
  IN /\ Calls("first", e, "value-of")
     /\ AsksValue(e, Tmp(e), K, C, << <<"again", e>> >>)
     /\ Goes
     /\ UNCHANGED <<stage, bound, output, host>>

ValueOfAgain(e) ==
  /\ Calls("again", e, "value-of")
  /\ \/ /\ count[Tmp(e)] > 0
        /\ WaitsOn(Tmp(e))
     \/ /\ count[Tmp(e)] = 0
        /\ Finishes(e, <<Text(e)>>)

\* xrltCopyOfTransform
CopyOfFirst(e) ==
  LET K == WithChild(WithChild(kids, Insert(e), Self(e)), Self(e), Ret(e))
      C == Increased(count, PathIn(K, Self(e)))
  IN /\ Calls("first", e, "copy-of")
     /\ AsksValue(e, Ret(e), K, C, << <<"again", e>> >>)
     /\ Goes
     /\ UNCHANGED <<stage, bound, output, host>>

\* The end of DEFINE_TRANSFORM_FUNCTION.
Concludes(e, ns) ==
  IF count[Self(e)] = 1 THEN Finishes(e, ns) ELSE Fails

CopyOfAgain(e) ==
  /\ Calls("again", e, "copy-of")
  /\ \/ /\ count[Ret(e)] > 0
        /\ WaitsOn(Ret(e))
     \/ /\ count[Ret(e)] = 0
        /\ Concludes(e, kids[Ret(e)])

\* xrltIfTransform
IfFirst(e) ==
  LET K == WithChild(WithChild(kids, Insert(e), Self(e)), Self(e), Tmp(e))
      C == Increased(count, PathIn(K, Self(e)))
  IN /\ Calls("first", e, "if")
     /\ AsksValue(e, Tmp(e), K, C, << <<"again", e>> >>)
     /\ stage' = [stage EXCEPT ![e] = "test"]
     /\ Goes
     /\ UNCHANGED <<bound, output, host>>

IfTest(e) ==
  /\ Calls("again", e, "if")
  /\ stage[e] = "test"
  /\ \/ /\ count[Tmp(e)] > 0
        /\ WaitsOn(Tmp(e))
     \/ /\ count[Tmp(e)] = 0
        /\ String(e) # <<>>
        /\ stage' = [stage EXCEPT ![e] = "result"]
        /\ kids' = WithChild(kids, Self(e), Ret(e))
        /\ main' = Rest \o Firsts(e, "content") \o << <<"again", e>> >>
        /\ Goes
        /\ UNCHANGED <<count, tcb, val, bound, output, host>>
     \/ /\ count[Tmp(e)] = 0
        /\ String(e) = <<>>
        /\ Concludes(e, <<>>)

IfResult(e) ==
  /\ Calls("again", e, "if")
  /\ stage[e] = "result"
  /\ \/ /\ count[Ret(e)] > 0
        /\ WaitsOn(Ret(e))
     \/ /\ count[Ret(e)] = 0
        /\ Concludes(e, kids[Ret(e)])

\* xrltLogTransform
LogFirst(e) ==
  /\ Calls("first", e, "log")
  /\ IF Children(sheet, e, "content") = <<>>
     THEN /\ main' = Rest
          /\ UNCHANGED <<kids, count>>
     ELSE /\ kids' = WithChild(kids, Insert(e), Self(e))
          /\ count' = Increased(count, PathIn(kids', Self(e)))
          /\ main' = Rest \o Firsts(e, "content") \o << <<"again", e>> >>
  /\ Goes
  /\ UNCHANGED <<tcb, elements, output, host>>

\* On the second call the log gives up its own hold on the node; if the
\* content is not ready then, there is a third call.
LogAgain(e) ==
  LET n == Self(e)
      path == PathIn(kids, n)
      msg == TextIn(kids, n)
  IN /\ Calls("again", e, "log")
     /\ count' = IF count[n] > 0 THEN Decreased(count, path) ELSE count
     /\ IF count'[n] > 0
        THEN /\ tcb' = Parked(tcb, n, <<"again", e>>)
             /\ main' = Rest
             /\ Goes
             /\ UNCHANGED <<kids, output>>
        ELSE /\ \/ /\ count[n] > 0
                   /\ tcb' = Drained(count, tcb, path)
                   /\ main' = Joined(Rest, Moved(count, tcb, path))
                \/ /\ count[n] = 0
                   /\ tcb' = tcb
                   /\ main' = Rest
             /\ kids' = Replaced(kids, e, <<>>)
             /\ responseCur' = CurAfter(kids, n, <<>>)
             /\ IF msg = <<>>
                THEN /\ Goes
                     /\ UNCHANGED logged
                ELSE /\ logged' = Append(logged, msg)
                     /\ Returns({"LOG"})
             /\ UNCHANGED <<sent, requested>>
     /\ UNCHANGED <<elements, host>>

\* xrltVariableTransform, xrltVariableFromXPath
VariableFirst(e) ==
  LET K == WithChild(kids, Var, Self(e))
      C == Increased(count, PathIn(K, Self(e)))
      v == sheet.ref[e]
  IN /\ Calls("first", e, "variable")
     /\ \/ /\ Source(sheet, e) = "constant"
           /\ bound' = [bound EXCEPT ![e] = "value"]
           /\ val' = [val EXCEPT ![e] = <<e>>]
           /\ main' = Rest
           /\ UNCHANGED <<kids, count, tcb>>
        \/ /\ Source(sheet, e) = "nodelist"
           /\ bound' = [bound EXCEPT ![e] = "document"]
           /\ kids' = K
           /\ count' = C
           /\ main' = Rest \o Firsts(e, "content") \o << <<"again", e>> >>
           /\ UNCHANGED <<val, tcb>>
        \/ /\ Source(sheet, e) = "variable"
           /\ bound[v] # "no"
           /\ kids' = K
           /\ IF Pending(v)
              THEN /\ bound' = [bound EXCEPT ![e] = "document"]
                   /\ count' = Increased(C, PathIn(K, Self(e)))
                   /\ tcb' = Parked(tcb, Self(v), <<"set", e>>)
                   /\ main' = Rest
                   /\ UNCHANGED val
              ELSE /\ bound' = [bound EXCEPT ![e] = "value"]
                   /\ val' = [val EXCEPT ![e] = TextOfVariable(v)]
                   /\ count' = C
                   /\ main' = Rest \o << <<"again", e>> >>
                   /\ UNCHANGED tcb
     /\ Goes
     /\ UNCHANGED <<stage, output, host>>

VariableFromXPath(e) ==
  LET v == sheet.ref[e]
  IN /\ Calls("set", e, "variable")
     /\ bound[v] # "no"
     /\ \/ /\ Pending(v)
           /\ WaitsOn(Self(v))
        \/ /\ ~ Pending(v)
           /\ bound' = [bound EXCEPT ![e] = "value"]
           /\ val' = [val EXCEPT ![e] = TextOfVariable(v)]
           /\ Releases(Self(e), << <<"again", e>> >>)
           /\ Goes
           /\ UNCHANGED <<kids, stage, output, host>>

VariableAgain(e) ==
  /\ Calls("again", e, "variable")
  /\ Releases(Self(e), <<>>)
  /\ Goes
  /\ UNCHANGED <<kids, elements, output, host>>
-----------------------------------------------------------------------------
\* xrltIncludeTransform: the value is href; the nodes are "i", "p" and "tmp".
IncludeFirst(e) ==
  LET K == WithChild(WithChild(kids, Insert(e), Self(e)), Self(e), Tmp(e))
      C == Increased(Increased(count, PathIn(K, Self(e))), PathIn(K, Tmp(e)))
  IN /\ Calls("first", e, "include")
     /\ AsksValue(e, Tmp(e), K, C, << <<"again", e>> >>)
     /\ stage' = [stage EXCEPT ![e] = "PARAMS_BEGIN"]
     /\ Goes
     /\ UNCHANGED <<bound, output, host>>

IncludeParamsBegin(e) ==
  LET path == PathIn(kids, Tmp(e))
      holds == count[Tmp(e)] > 0
      moved == IF holds THEN Moved(count, tcb, path) ELSE <<>>
      drained == IF holds THEN Drained(count, tcb, path) ELSE tcb
  IN /\ Calls("again", e, "include")
     /\ stage[e] = "PARAMS_BEGIN"
     /\ count' = IF holds THEN Decreased(count, path) ELSE count
     /\ IF count'[Tmp(e)] > 0
        THEN /\ tcb' = Parked(drained, Tmp(e), <<"again", e>>)
             /\ main' = Joined(Rest, moved)
             /\ UNCHANGED stage
        ELSE /\ tcb' = drained
             /\ main' = Joined(Rest, moved) \o << <<"again", e>> >>
             /\ stage' = [stage EXCEPT ![e] = "PARAMS_END"]
     /\ Goes
     /\ UNCHANGED <<kids, val, bound, output, host>>

IncludeParamsEnd(e) ==
  /\ Calls("again", e, "include")
  /\ stage[e] = "PARAMS_END"
  /\ \/ /\ count[Tmp(e)] > 0
        /\ WaitsOn(Tmp(e))
     \/ /\ count[Tmp(e)] = 0
        /\ requested' = requested \cup {e}
        /\ stage' = [stage EXCEPT ![e] = "READ_RESPONSE"]
        /\ main' = Rest
        /\ Returns({"SUBREQUEST"})
        /\ UNCHANGED <<document, val, bound, responseCur, sent, logged, host>>

Branch(e) == IF stage[e] = "SUCCESS" THEN "content" ELSE "failure"

\* A branch of texts alone is compiled to XRLT_VALUE_TEXT.
IsText(e, slot) ==
  LET cs == Children(sheet, e, slot)
  IN cs # <<>> /\ \A c \in ToSet(cs) : sheet.kind[c] = "text"

\* XRLT_INCLUDE_TRANSFORM_SUCCESS and FAILURE, entered with rnode == NULL: the
\* branch is a text or a node list, or the document stands for the result.
IncludeBranch(e) ==
  LET K == WithChild(kids, Self(e), Ret(e))
      ns == IF stage[e] = "SUCCESS" THEN <<Text(e)>> ELSE <<>>
      cs == Children(sheet, e, Branch(e))
  IN /\ Calls("again", e, "include")
     /\ stage[e] \in {"SUCCESS", "FAILURE"}
     /\ Ret(e) \notin ToSet(kids[Self(e)])
     /\ \/ /\ IsText(e, Branch(e))
           /\ kids' = WithChildren(K, Ret(e), [i \in DOMAIN cs |-> Self(cs[i])])
           /\ stage' = [stage EXCEPT ![e] = "END"]
           /\ main' = Append(Rest, <<"again", e>>)
           /\ UNCHANGED <<count, tcb, responseCur>>
        \/ /\ cs # <<>>
           /\ ~ IsText(e, Branch(e))
           /\ kids' = K
           /\ count' = Increased(count, PathIn(K, Ret(e)))
           /\ main' = Rest \o Firsts(e, Branch(e)) \o << <<"again", e>> >>
           /\ UNCHANGED <<tcb, stage, responseCur>>
        \/ /\ cs = <<>>
           /\ Releases(Self(e), <<>>)
           /\ kids' = Replaced(K, e, ns)
           /\ responseCur' = CurAfter(K, Self(e), ns)
           /\ stage' = [stage EXCEPT ![e] = "END"]
     /\ Goes
     /\ UNCHANGED <<val, bound, sent, logged, requested, host>>

\* ... and entered again, with the node list scheduled before it.
IncludeResult(e) ==
  LET path == PathIn(kids, Ret(e))
      C == Decreased(count, path)
      T == Drained(count, tcb, path)
      M == Joined(Rest, Moved(count, tcb, path))
      up == PathIn(kids, Self(e))
      ns == kids[Ret(e)]
  IN /\ Calls("again", e, "include")
     /\ stage[e] \in {"SUCCESS", "FAILURE"}
     /\ Ret(e) \in ToSet(kids[Self(e)])
     /\ stage' = [stage EXCEPT ![e] = "END"]
     /\ IF C[Ret(e)] > 0
        THEN /\ count' = C
             /\ tcb' = Parked(T, Ret(e), <<"again", e>>)
             /\ main' = M
             /\ UNCHANGED <<kids, responseCur>>
        ELSE /\ count' = Decreased(C, up)
             /\ tcb' = Drained(C, T, up)
             /\ main' = Joined(M, Moved(C, T, up))
             /\ kids' = Replaced(kids, e, ns)
             /\ responseCur' = CurAfter(kids, Self(e), ns)
     /\ Goes
     /\ UNCHANGED <<val, bound, sent, logged, requested, host>>

IncludeEnd(e) ==
  /\ Calls("again", e, "include")
  /\ stage[e] = "END"
  /\ Finishes(e, kids[Ret(e)])
-----------------------------------------------------------------------------
\* xrltResponseTransform
ResponseFirst(e) ==
  /\ Calls("first", e, "response")
  /\ main' = Rest \o Firsts(e, "content") \o << <<"again", e>> >>
  /\ stage' = [stage EXCEPT ![e] = "second"]
  /\ Goes
  /\ UNCHANGED <<document, val, bound, output, host>>

\* Mutant: the counter is not looked at.
FirstBusy_Never(ns, from) == Len(ns) + 1

\* The first node, of those from a place on, that is not ready.
FirstBusy(ns, from) ==
  LET busy == { i \in from..Len(ns) : count[ns[i]] > 0 }
  IN IF busy = {} THEN Len(ns) + 1
     ELSE CHOOSE i \in busy : \A j \in busy : i <= j

\* From responseCur on, every node that is ready is sent; the first that is
\* not is waited for.
ResponseAgain(e) ==
  LET ns == kids[Response]
      from == IF stage[e] = "second" THEN 1
              ELSE IF responseCur = NULL THEN Len(ns) + 1
              ELSE SelectInSeq(ns, LAMBDA n : n = responseCur)
      stop == FirstBusy(ns, from)
      text == FlattenSeq([i \in 1..(stop - from) |-> TextIn(kids, ns[from + i - 1])])
  IN /\ Calls("again", e, "response")
     /\ stage' = [stage EXCEPT ![e] = "third"]
     /\ sent' = sent \o text
     /\ main' = Rest
     /\ IF stop <= Len(ns)
        THEN /\ responseCur' = ns[stop]
             /\ tcb' = Parked(tcb, ns[stop], <<"again", e>>)
        ELSE /\ responseCur' = NULL
             /\ UNCHANGED tcb
     /\ IF text = <<>> THEN Goes ELSE Returns({"CHUNK"})
     /\ UNCHANGED <<kids, count, val, bound, logged, requested, host>>
-----------------------------------------------------------------------------
\* Mutant: the counter of the document is not looked at.
RunsOut_Unchecked ==
  /\ running
  /\ main = <<>>
  /\ Returns({"DONE"})
  /\ UNCHANGED <<document, main, elements, output, host>>

\* The loop of xrltTransform has run out of callbacks.
RunsOut ==
  /\ running
  /\ main = <<>>
  /\ Returns(IF count[Doc] = 0 THEN {"DONE"} ELSE {"WAITING"})
  /\ UNCHANGED <<document, main, elements, output, host>>

\* The host calls xrltTransform with no value until the status says that all
\* is done or that an answer is needed.
Resume ==
  /\ ~ running
  /\ ~ failed
  /\ cur \cap {"DONE", "WAITING"} = {}
  /\ cur' = {}
  /\ running' = TRUE
  /\ UNCHANGED <<document, main, elements, output, host, failed>>

Awaits(e) == e \in requested /\ answer[e] \in {"none", "partial"}

\* A part of the answer: xrltTransform returns at once.
AnswerPartly(e) ==
  /\ ~ running
  /\ ~ failed
  /\ e \in requested
  /\ answer[e] = "none"
  /\ answer' = [answer EXCEPT ![e] = "partial"]
  /\ cur' = {"WAITING"}
  /\ UNCHANGED <<document, main, elements, output, sheet, running, failed>>

\* The last of the answer: the include goes on, and so does the loop.
AnswerFully(e, result) ==
  /\ ~ running
  /\ ~ failed
  /\ Awaits(e)
  /\ answer' = [answer EXCEPT ![e] = result]
  /\ stage' = [stage EXCEPT ![e] = IF result = "success" THEN "SUCCESS"
                                                         ELSE "FAILURE"]
  /\ main' = Append(main, <<"again", e>>)
  /\ IF result = "error"
     THEN cur' = {"REFUSE_SUBREQUEST"} /\ running' = FALSE
     ELSE cur' = {} /\ running' = TRUE
  /\ UNCHANGED <<document, val, bound, output, sheet, failed>>

Answers(e) == \E r \in {"success", "failure", "error"} : AnswerFully(e, r)
-----------------------------------------------------------------------------
TopLevel(s) ==
  InOrder({ e \in Elem : s.up[e] = 0 })

\* xrltContextCreate: the top level of the sheet is scheduled.
Init ==
  /\ sheet \in Sheets
  /\ kids = [[n \in Node |-> <<>>] EXCEPT ![Doc] = <<Response, Var>>]
  /\ count = [n \in Node |-> 0]
  /\ tcb = [n \in Node |-> <<>>]
  /\ main = [i \in DOMAIN TopLevel(sheet) |-> <<"first", TopLevel(sheet)[i]>>]
  /\ stage = [e \in Elem |-> "start"]
  /\ val = [e \in Elem |-> Unset]
  /\ bound = [e \in Elem |-> "no"]
  /\ responseCur = NULL
  /\ sent = <<>>
  /\ logged = <<>>
  /\ requested = {}
  /\ answer = [e \in Elem |-> "none"]
  /\ cur = {}
  /\ running = FALSE
  /\ failed = FALSE

ElementCall(e) ==
  \/ UndefinedVariable(e)
  \/ SetStringResult(e) \/ SetResultByXPath(e)
  \/ TextFirst(e) \/ CopyFirst(e) \/ CopyAgain(e)
  \/ ValueOfFirst(e) \/ ValueOfAgain(e)
  \/ CopyOfFirst(e) \/ CopyOfAgain(e)
  \/ IfFirst(e) \/ IfTest(e) \/ IfResult(e)
  \/ LogFirst(e) \/ LogAgain(e)
  \/ VariableFirst(e) \/ VariableFromXPath(e) \/ VariableAgain(e)
  \/ IncludeFirst(e) \/ IncludeParamsBegin(e) \/ IncludeParamsEnd(e)
  \/ IncludeBranch(e) \/ IncludeResult(e) \/ IncludeEnd(e)
  \/ ResponseFirst(e) \/ ResponseAgain(e)

Loop == (\E e \in Elem : ElementCall(e)) \/ RunsOut

Host == Resume \/ \E e \in Elem : AnswerPartly(e) \/ Answers(e)

Next == Loop \/ Host

\* The loop ends, the host calls again, and every subrequest is answered.
Fairness ==
  /\ WF_vars(Loop)
  /\ WF_vars(Resume)
  /\ \A e \in Elem : WF_vars(Answers(e))

Spec == Init /\ [][Next]_vars

FairSpec == Spec /\ Fairness
-----------------------------------------------------------------------------
Status == { "ERROR", "WAITING", "DONE", "SUBREQUEST", "CHUNK", "LOG",
            "REFUSE_SUBREQUEST" }

Stage == { "start", "test", "result", "second", "third", "PARAMS_BEGIN",
           "PARAMS_END", "READ_RESPONSE", "SUCCESS", "FAILURE", "END" }

TypeOK ==
  /\ sheet \in Sheets
  /\ kids \in [Node -> Seq(Node)]
  /\ count \in [Node -> Nat]
  /\ tcb \in [Node -> Seq(Call)]
  /\ main \in Seq(Call)
  /\ stage \in [Elem -> Stage]
  /\ val \in [Elem -> {Unset} \cup Seq(Elem)]
  /\ bound \in [Elem -> {"no", "document", "value"}]
  /\ responseCur \in Node \cup {NULL}
  /\ sent \in Seq(Elem)
  /\ logged \in Seq(Seq(Elem))
  /\ requested \subseteq Elem
  /\ answer \in [Elem -> Answer]
  /\ cur \subseteq Status
  /\ running \in BOOLEAN
  /\ failed \in BOOLEAN

Root == CHOOSE e \in Elem : sheet.kind[e] = "response"

(***************************************************************************)
(* The response is sent in document order, each part once and none before  *)
(* it is whole, whatever order the answers come in (response.cc 60-100):   *)
(* what has been sent is the beginning of what the sheet means, as far as  *)
(* the answers given so far determine it, and all of it at DONE.           *)
(***************************************************************************)
SentInOrder ==
  LET whole == Rendered(sheet, answer)[Root]
  IN /\ IsPrefix(sent, whole)
     /\ "DONE" \in cur => sent = whole

(***************************************************************************)
(* The text of a log goes to the log, as the comments of log.cc 94-104 lay *)
(* out ("Node is ready, sent it's contents out."), and the node is removed *)
(* from the response: no text of a log is ever part of a response chunk.   *)
(***************************************************************************)
LogTextStaysOut ==
  \A e \in Elem :
    (\E a \in AncestorsOrSelf(sheet, e) : sheet.kind[a] = "log") =>
      ~ Contains(sent, e)

(***************************************************************************)
(* XRLT_STATUS_DONE (xrlt.cc 563-565) is told because one counter is zero, *)
(* that of the response document: then nothing is left to wait for, to     *)
(* call or to answer on any node, those of variables included.             *)
(***************************************************************************)
DoneIsComplete ==
  "DONE" \in cur =>
    /\ main = <<>>
    /\ \A n \in Node : count[n] = 0 /\ tcb[n] = <<>>
    /\ ~ \E e \in Elem : Awaits(e)

(***************************************************************************)
(* A string is taken from a node only when everything under the node is    *)
(* ready (transform.cc 529-580, transform.h 683-897): the select, test and *)
(* href an element works with are those of the finished document.          *)
(***************************************************************************)
ValuesAreWhole ==
  LET text == Rendered(sheet, answer)
  IN \A e \in Elem :
       val[e] # Unset =>
         val[e] = IF sheet.kind[e] = "variable" THEN text[e]
                                                ELSE ValueOf(sheet, text, e)

\* Everything a queue holds.
Queued == UNION ({ToSet(main)} \cup { ToSet(tcb[n]) : n \in Node })

\* The nodes a call is going to use.
Uses(c) ==
  LET e == c[2]
  IN CASE sheet.kind[e] = "response" -> {Response}
       [] sheet.kind[e] # "response" /\ c[1] = "first" ->
            IF sheet.kind[e] = "variable" THEN {Var} ELSE {Insert(e)}
       [] sheet.kind[e] # "response" /\ c[1] = "again" -> {Self(e)}
       [] sheet.kind[e] # "response" /\ c[1] = "set" ->
            IF sheet.kind[e] = "variable" THEN {Self(e)}
            ELSE IF Source(sheet, e) = "nodelist" THEN {Arg(e)}
            ELSE {Waiting(e)}

(***************************************************************************)
(* No call, no input callback and no cursor refers to a node that has been *)
(* taken out of the document and freed (transform.h 100-123).              *)
(***************************************************************************)
NothingDangles ==
  /\ \A c \in Queued : Uses(c) \subseteq Live
  /\ \A n \in Node : tcb[n] # <<>> => n \in Live
  /\ \A e \in Elem : Awaits(e) => Self(e) \in Live
  /\ responseCur # NULL => Contains(kids[Response], responseCur)

(***************************************************************************)
(* In a sheet whose expressions name only variables that are set before    *)
(* them, or at the top level, no transform function fails: the order of    *)
(* the main queue sets every variable before its first reader.             *)
(***************************************************************************)
InScope(s, v, e) ==
  \/ \E a \in AncestorsOrSelf(s, e) :
       s.up[a] = s.up[v] /\ s.slot[a] = s.slot[v] /\ v < a
  \/ s.up[v] = 0 /\ \E a \in AncestorsOrSelf(s, e) : s.kind[a] = "response"

WellScoped(s) == \A e \in Elem : s.ref[e] # 0 => InScope(s, s.ref[e], e)

FailsOnlyOutOfScope == failed => ~ WellScoped(sheet)

\* If every subrequest is answered, the transformation comes to an end.
EndsEventually == <>(failed \/ "DONE" \in cur)
=============================================================================
