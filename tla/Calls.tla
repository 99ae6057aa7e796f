------------------------------- MODULE Calls -------------------------------
(***************************************************************************)
(* Variables, their scopes, and the elements that make new ones: for-each, *)
(* choose, functions, transformations and functions in JavaScript.         *)
(*                                                                         *)
(* As in Transform, a step is one call of one transform function by the    *)
(* loop of xrltTransform.  An element may be transformed many times here:  *)
(* an instance is an element and the iterations and the calls it is in.    *)
(* The number ctx->maxVarScope gives to a scope is identified with these   *)
(* iterations and calls, for it is given once for each of them.            *)
(*                                                                         *)
(* An include is what the others see of one: a node that is not ready      *)
(* until the host has answered (Include is the model of it).  Sending the  *)
(* response is left to Transform: nothing here depends on it.              *)
(***************************************************************************)
EXTENDS CallSheet, Document, NodeQueue

CONSTANT Sheets

\* The first call of a choose without cases reads behind the last one (choose.cc
\* 143-145): what it does then depends on the memory there.
ASSUME CasesAssumption ==
  \A s \in Sheets : \A e \in Elem : s.kind[e] = "choose" => Body(s, e) # <<>>

VARIABLES
  sheet,    \* xrltContext.sheet
  ctx,      \* the fields of xrltContext and of its documents, see Init
  asked,    \* the includes the host has still to answer
  cur,      \* the status xrltTransform returned last
  running   \* xrltTransform has not returned

vars == <<sheet, ctx, asked, cur, running>>
-----------------------------------------------------------------------------
(***************************************************************************)
(* The context.  kids, count and tcb are the documents, own the text of    *)
(* their text nodes, root and scope xrltNodeData.root and .parentScope;    *)
(* bound is xpath->varHash, a value being the node of a document or what   *)
(* an expression has given; data is what an instance keeps between its     *)
(* calls.                                                                  *)
(***************************************************************************)
Response == <<"response">>
Var == <<"var">>

\* ctx->varScope at the top level, and n->parentScope where none is set: 0.
TopScope == <<>>

\* The nodes of the instance that c is a call of: the one it puts at its place
\* (a variable: its document), the one its value waits on, the one of its
\* result and, of a call, the one its synchronous parameters are kept under
\* and the document a transformation transforms.
Self(c)   == <<"self", c.at, c.e>>
Tmp(c)    == <<"tmp", c.at, c.e>>
Ret(c)    == <<"ret", c.at, c.e>>
ParamNode(c) == <<"params", c.at, c.e>>
SelfDoc(c) == <<"source", c.at, c.e>>
Text(c)   == <<"text", c.at, c.e>>

\* NEW_CHILD, xmlNewDoc
New(X, p, n) ==
  [X EXCEPT !.kids = (n :> <<>>) @@ WithChild(@, p, n), !.count = (n :> 0) @@ @,
            !.tcb = (n :> <<>>) @@ @, !.own = (n :> <<>>) @@ @,
            !.root = (n :> NULL) @@ @, !.scope = (n :> TopScope) @@ @]

NewText(X, p, n, text) == [New(X, p, n) EXCEPT !.own[n] = text]

Increase(X, n) == [X EXCEPT !.count = Increased(@, PathIn(X.kids, n))]

Decrease(X, n) ==
  LET path == PathIn(X.kids, n)
  IN [X EXCEPT !.count = Decreased(@, path), !.tcb = Drained(X.count, @, path),
               !.main = Joined(@, Moved(X.count, X.tcb, path))]

\* REPLACE_RESPONSE_NODE: the children of m take the place of n; NULL has none
\* (REMOVE_RESPONSE_NODE).
Replace(X, n, m) ==
  [X EXCEPT !.kids = [Substituted(@, n, @[m]) EXCEPT ![m] = <<>>]]

Schedule(X, cs) == [X EXCEPT !.main = @ \o cs]
Park(X, n, c) == [X EXCEPT !.tcb = Parked(@, n, c)]
Fail(X) == [X EXCEPT !.failed = TRUE]

Busy(X, n) == X.count[n] > 0

Keep(X, c, d) == [X EXCEPT !.data = (<<c.at, c.e>> :> d) @@ @]
Data(X, c) == X.data[<<c.at, c.e>>]

\* A call of the same function: what SCHEDULE_CALLBACK takes from the context.
Step(step, c) == [c EXCEPT !.step = step]
Again(c) == Step("again", c)

\* xrltElementTransform of es below n.
Firsts(es, c, n) ==
  [i \in DOMAIN es |-> [c EXCEPT !.step = "first", !.e = es[i], !.insert = n]]

\* The root of the document an expression is evaluated in: xrltXPathEval and
\* xrltCopyXPathRoot look for it upwards.
RootOf(X, n) ==
  LET rooted == SelectSeq(PathIn(X.kids, n), LAMBDA m : X.root[m] # NULL)
  IN IF rooted = <<>> THEN NULL ELSE X.root[rooted[1]]

TextIn(X, n) == TextBelow(X.kids, X.own, n)
-----------------------------------------------------------------------------
(***************************************************************************)
(* Variables: xrltVariableLookupFunc.  The search goes up the elements of  *)
(* the sheet; where it leaves a for-each it looks for the scope around it  *)
(* in the nodes above the one the call inserts into.                       *)
(***************************************************************************)
NotFound == <<>>

\* Mutant: variables of the top level are looked for in the scope of the call.
Lookup_NoTopScope(X, from, scope, insert, name) ==
  LET RECURSIVE find(_)
      find(node) ==
        LET key == <<node, scope, name>>
        IN IF key \in DOMAIN X.bound THEN key
           ELSE IF node = 0 THEN NotFound ELSE find(sheet.up[node])
  IN find(from)

Lookup(X, from, scope, insert, name) ==
  LET path == PathIn(X.kids, insert)
      RECURSIVE find(_, _, _)
      find(node, sc, i) ==
        LET key == <<node, IF node = 0 THEN TopScope ELSE sc, name>>
            scoped == { j \in i..Len(path) : X.scope[path[j]] # TopScope }
            j == CHOOSE j \in scoped : \A k \in scoped : j <= k
        IN IF key \in DOMAIN X.bound THEN key
           ELSE IF node = 0 THEN NotFound
           ELSE IF sheet.kind[node] # "for-each" THEN find(sheet.up[node], sc, i)
           ELSE IF scoped = {} THEN find(sheet.up[node], sc, Len(path) + 1)
           ELSE find(sheet.up[from], X.scope[path[j]], j + 1)
  IN find(from, scope, 1)

\* XRLT_SET_VARIABLE: no variable of an element around may have the name.
Bind(X, decl, scope, name, value) ==
  IF \E a \in {decl} \cup (IF decl = 0 THEN {} ELSE AncestorsOrSelf(sheet, decl)) :
       <<a, scope, name>> \in DOMAIN X.bound
  THEN Fail(X)
  ELSE [X EXCEPT !.bound = (<<decl, scope, name>> :> value) @@ @]

NodeValue(n) == [node |-> n, value |-> NoNodes]
Known(v) == [node |-> NULL, value |-> v]

Bound(X, key) ==
  LET b == X.bound[key]
  IN IF b.node = NULL THEN b.value ELSE Value(TextIn(X, b.node), "nodes")

BoundText(X, key) == Bound(X, key).text

\* Mutant: the value of a variable is taken whether it is ready or not.
BoundBusy_Never(X, key) == FALSE

BoundBusy(X, key) == X.bound[key].node # NULL /\ Busy(X, X.bound[key].node)

\* The document "/" is.  Where there is none, it is an empty one, which has no
\* nodes to select.
Root(X, n) == IF RootOf(X, n) = NULL THEN NoNodes ELSE Value(TextIn(X, RootOf(X, n)), "nodes")

\* xrltXPathEval: a value, a node to wait on, or nothing.
Found(v) == [st |-> "ok", on |-> NULL, value |-> v]
Pending(n) == [st |-> "wait", on |-> n, value |-> NoNodes]
Undefined == [st |-> "undefined", on |-> NULL, value |-> NoNodes]

Eval(X, e, c) ==
  LET ref == sheet.ref[e]
      key == Lookup(X, ExprScope(sheet, e), c.scope, c.insert, ref)
  IN CASE ref = "1" -> Found(Value(Atom(e, 0), "string"))
       [] ref = "()" -> Found(NoNodes)
       [] ref = "/" -> Found(Root(X, c.insert))
       [] ref = "." -> Found(IF c.item = <<>> THEN Root(X, c.insert)
                                             ELSE Value(c.item, "nodes"))
       [] ref \notin {"1", "()", "/", "."} ->
            CASE key = NotFound -> Undefined
              [] key # NotFound /\ BoundBusy(X, key) -> Pending(X.bound[key].node)
              [] key # NotFound /\ ~ BoundBusy(X, key) -> Found(Bound(X, key))

\* It leaves ctx->varContext behind.
Evaluated(X, e) == [X EXCEPT !.varContext = ExprScope(sheet, e)]
-----------------------------------------------------------------------------
(***************************************************************************)
(* The loop of xrltTransform.  A call takes the first callback off the     *)
(* queue; X below is the context from then on.                             *)
(***************************************************************************)
Now == Head(ctx.main)

Shifted == [ctx EXCEPT !.main = Tail(@)]

Calls(step, kinds) ==
  /\ running
  /\ ctx.main # <<>>
  /\ Now.step = step
  /\ sheet.kind[Now.e] \in kinds

\* The call has changed the context to X, or has returned FALSE.
Does(X) ==
  /\ ctx' = IF X.failed THEN Fail(ctx) ELSE X
  /\ running' = ~ X.failed
  /\ cur' = IF X.failed THEN "ERROR" ELSE cur
  /\ UNCHANGED <<sheet, asked>>

TextFirst ==
  /\ Calls("first", {"text"})
  /\ Does(NewText(Shifted, Now.insert, Self(Now), Atom(Now.e, 0)))

\* xrltCopyNonXRLT
CopyFirst ==
  LET c == Now
      X == New(Shifted, c.insert, Self(c))
      es == Body(sheet, c.e)
  IN /\ Calls("first", {"copy"})
     /\ Does(IF es = <<>> THEN X
             ELSE Schedule(Increase(X, Self(c)), Firsts(es, c, Self(c)) \o <<Again(c)>>))

CopyAgain ==
  /\ Calls("again", {"copy"})
  /\ Does(Decrease(Shifted, Self(Now)))

\* The string of a select or the truth of a test, e, which n is not ready
\* without.
AsksValue(X, e, c, n) ==
  LET r == Eval(X, e, c)
      Y == Evaluated(X, e)
  IN CASE r.st = "undefined" -> Fail(Y)
       [] r.st = "wait" -> Park(Increase(Y, n), r.on, [Step("set", c) EXCEPT !.insert = n])
       [] r.st = "ok" -> Keep(Y, c, [Data(X, c) EXCEPT !.text = r.value.text])

\* What an instance keeps: the value of its expression, the case of a choose
\* that is tested, and how far it has come.
Fresh == [text |-> <<>>, pos |-> 1, stage |-> "start"]

ValueOfFirst ==
  LET c == Now
      X == New(Increase(New(Shifted, c.insert, Self(c)), Self(c)), Self(c), Tmp(c))
  IN /\ Calls("first", {"value-of"})
     /\ Does(Schedule(AsksValue(Keep(X, c, Fresh), c.e, c, Tmp(c)), <<Again(c)>>))

ValueOfAgain ==
  LET c == Now
      X == Decrease(Shifted, Self(c))
  IN /\ Calls("again", {"value-of"})
     /\ Does(IF Busy(ctx, Tmp(c)) THEN Park(Shifted, Tmp(c), c)
             ELSE Replace(NewText(X, Tmp(c), Text(c), Data(X, c).text), Self(c), Tmp(c)))

\* The case of a choose that is tested.
Case(X, c) == Body(sheet, c.e)[Data(X, c).pos]

\* xrltSetStringResultByXPath, xrltSetBooleanResultByXPath
SetValue ==
  LET c == Now
      e == IF sheet.kind[c.e] = "choose" THEN Case(ctx, c) ELSE c.e
      r == Eval(Shifted, e, c)
      X == Evaluated(Shifted, e)
  IN /\ Calls("set", {"value-of", "choose"})
     /\ Does(CASE r.st = "undefined" -> Fail(X)
               [] r.st = "wait" -> Park(X, r.on, c)
               [] r.st = "ok" ->
                    Decrease(Keep(X, c, [Data(X, c) EXCEPT !.text = r.value.text]), c.insert))

\* The end of DEFINE_TRANSFORM_FUNCTION.
Concludes(X, c, n) ==
  IF X.count[Self(c)] # 1 THEN Fail(X) ELSE Replace(Decrease(X, Self(c)), Self(c), n)
-----------------------------------------------------------------------------
(***************************************************************************)
(* xrltForEachTransform.                                                   *)
(***************************************************************************)
Iteration(c, k) ==
  LET scope == Append(c.at, <<c.e, k>>)
  IN [c EXCEPT !.at = scope, !.scope = scope, !.item = Atom(c.e, k)]

\* The nodes have been selected: the content is scheduled for each of the n, in
\* a scope of its own.
ForEachItems(X, c, n) ==
  LET bodies == FlattenSeq([k \in 1..n |-> Firsts(Body(sheet, c.e), Iteration(c, k), Ret(c))])
  IN IF n = 0 THEN Concludes(X, c, NULL)
     ELSE Schedule(Keep(New(X, Self(c), Ret(c)), c, [Fresh EXCEPT !.stage = "items"]),
                   bodies \o << [Again(c) EXCEPT !.scope = Iteration(c, n).scope] >>)

\* A string has no nodes to select.
ForEachSelect(X, c) ==
  LET r == Eval(X, c.e, c)
      Y == Evaluated(X, c.e)
  IN CASE r.st = "undefined" -> Fail(Y)
       [] r.st = "wait" -> Park(Y, r.on, Again(c))
       [] r.st = "ok" ->
            CASE r.value.is = "string" -> Fail(Y)
              [] r.value.is = "empty" -> ForEachItems(Y, c, 0)
              [] r.value.is = "nodes" -> ForEachItems(Y, c, sheet.items[c.e])

ForEachFirst ==
  LET c == Now
      X == Increase(New(Shifted, c.insert, Self(c)), Self(c))
  IN /\ Calls("first", {"for-each"})
     /\ Does(ForEachSelect(Keep([X EXCEPT !.scope[c.insert] = c.scope], c, Fresh), c))

ForEachAgain ==
  LET c == Now
  IN /\ Calls("again", {"for-each"})
     /\ Does(CASE Data(ctx, c).stage = "start" -> ForEachSelect(Shifted, c)
               [] Data(ctx, c).stage = "items" ->
                    IF Busy(ctx, Ret(c)) THEN Park(Shifted, Ret(c), c)
                                         ELSE Concludes(Shifted, c, Ret(c)))
-----------------------------------------------------------------------------
(***************************************************************************)
(* xrltChooseTransform.                                                    *)
(***************************************************************************)
ChooseFirst ==
  LET c == Now
      X == New(Increase(New(Shifted, c.insert, Self(c)), Self(c)), Self(c), Tmp(c))
      Y == Keep(X, c, Fresh)
  IN /\ Calls("first", {"choose"})
     /\ Does(Schedule(AsksValue(Y, Case(Y, c), c, Tmp(c)), <<Again(c)>>))

\* A test holds: its content is the result.
ChooseBranch(X, c) ==
  Schedule(Keep(New(X, Self(c), Ret(c)), c, [Data(X, c) EXCEPT !.stage = "result"]),
           Firsts(Body(sheet, Case(X, c)), c, Ret(c)) \o <<Again(c)>>)

\* It does not: the next one is evaluated, and xrl:otherwise has none.
ChooseNext(X, c) ==
  LET Y == Keep(X, c, [Data(X, c) EXCEPT !.pos = @ + 1])
  IN IF Data(Y, c).pos > Len(Body(sheet, c.e)) THEN Concludes(Y, c, NULL)
     ELSE IF sheet.kind[Case(Y, c)] = "otherwise" THEN ChooseBranch(Y, c)
     ELSE Schedule(AsksValue(Y, Case(Y, c), c, Tmp(c)), <<Again(c)>>)

ChooseAgain ==
  LET c == Now
      n == IF Data(ctx, c).stage = "start" THEN Tmp(c) ELSE Ret(c)
  IN /\ Calls("again", {"choose"})
     /\ Does(CASE Busy(ctx, n) -> Park(Shifted, n, c)
               [] ~ Busy(ctx, n) /\ Data(ctx, c).stage = "start" ->
                    IF Data(ctx, c).text # <<>> THEN ChooseBranch(Shifted, c)
                                                ELSE ChooseNext(Shifted, c)
               [] ~ Busy(ctx, n) /\ Data(ctx, c).stage = "result" ->
                    Concludes(Shifted, c, Ret(c)))
-----------------------------------------------------------------------------
(***************************************************************************)
(* xrltVariableTransform, of a variable or of a parameter: v is the call,  *)
(* p the node the document of its value is made under.                     *)
(***************************************************************************)
IsArgument(e) == sheet.kind[e] = "with-param" \/ (sheet.kind[e] = "param" /\ sheet.up[e] # 0)

\* declScopePos > 0 ? declScopePos : ctx->varScope
VarScope(v) == IF IsArgument(v.e) THEN v.at ELSE v.scope

SetVariable(X, v, value) ==
  Bind(X, DeclScope(sheet, v.e), VarScope(v), sheet.name[v.e], value)

UnsetVariable(X, v) ==
  LET key == <<DeclScope(sheet, v.e), VarScope(v), sheet.name[v.e]>>
  IN [X EXCEPT !.bound = Restrict(@, DOMAIN @ \ {key})]

\* xrltVariableFromXPath: a name stands for the document until there is a value.
FromXPath(X, v, first) ==
  LET r == Eval(X, v.e, v)
      Y == Evaluated(X, v.e)
      known == IF first THEN Y ELSE Decrease(UnsetVariable(Y, v), Self(v))
      unknown == IF first THEN Increase(SetVariable(Y, v, NodeValue(Self(v))), Self(v))
                          ELSE Y
  IN CASE r.st = "undefined" -> Fail(Y)
       [] r.st = "wait" -> Park(unknown, r.on, Step("set", v))
       [] r.st = "ok" -> Schedule(SetVariable(known, v, Known(r.value)), <<Again(v)>>)

Variable(X, v, p) ==
  LET type == ValueType(sheet, v.e)
      Y == New(X, p, Self(v))
      Z == [Y EXCEPT !.root[Self(v)] = RootOf(X, v.insert)]
  IN CASE IsGiven(sheet, v.e) -> SetVariable(X, v, Known(Value(Given(sheet.name[v.e]), "string")))
       [] ~ IsGiven(sheet, v.e) /\ type = "text" ->
            SetVariable(X, v, Known(Value(LiteralText(sheet, v.e), "string")))
       [] ~ IsGiven(sheet, v.e) /\ type = "empty" -> SetVariable(X, v, Known(NoNodes))
       [] ~ IsGiven(sheet, v.e) /\ type = "xpath" -> FromXPath(Increase(Y, Self(v)), v, TRUE)
       [] ~ IsGiven(sheet, v.e) /\ type = "nodelist" ->
            Schedule(Increase(SetVariable(Z, v, NodeValue(Self(v))), Self(v)),
                     Firsts(Content(sheet, v.e), v, Self(v)) \o <<Again(v)>>)

VariableFirst ==
  /\ Calls("first", {"variable", "param"})
  /\ Does(Variable(Shifted, Now, Var))

VariableFromXPath ==
  /\ Calls("set", {"variable", "param", "with-param"})
  /\ Does(FromXPath(Shifted, Now, FALSE))

VariableAgain ==
  /\ Calls("again", {"variable", "param", "with-param"})
  /\ Does(Decrease(Shifted, Self(Now)))
-----------------------------------------------------------------------------
(***************************************************************************)
(* xrltApplyTransform: the call of a function or of a transformation.      *)
(***************************************************************************)
NewScope(c) == Append(c.at, <<c.e, 0>>)

\* A call from the function that is called.
Inside(c) == [c EXCEPT !.at = NewScope(c), !.scope = NewScope(c)]

Func(c) == Callee(sheet, c.e)

Arguments(X, c) ==
  FoldLeft(LAMBDA Y, p : Variable(Y, [c EXCEPT !.e = p.value, !.at = NewScope(c)],
                                  IF p.sync THEN ParamNode(c) ELSE Var),
           X, Merged(sheet, c.e))

\* xrltTransformByCompiledValue of the self of a transformation.
SelfValue(X, c) ==
  LET type == ValueType(sheet, c.e)
      d == SelfDoc(c)
      set == [Step("set", c) EXCEPT !.insert = d]
      r == Eval(X, c.e, c)
      Y == Evaluated(X, c.e)
  IN CASE type = "empty" -> X
       [] type = "text" -> NewText(X, d, Text(c), LiteralText(sheet, c.e))
       [] type = "nodelist" ->
            Schedule(Increase(X, d), Firsts(Content(sheet, c.e), c, d) \o <<set>>)
       [] type = "xpath" ->
            CASE r.st = "undefined" -> Fail(Y)
              [] r.st = "wait" -> Park(Increase(Y, d), r.on, set)
              [] r.st = "ok" -> NewText(Y, d, Text(c), r.value.text)

\* The same functions, called again.
SelfSet ==
  LET c == Now
      r == Eval(Shifted, c.e, c)
      Y == Evaluated(Shifted, c.e)
  IN /\ Calls("set", {"transform"})
     /\ Does(IF ValueType(sheet, c.e) = "nodelist" THEN Decrease(Shifted, c.insert)
             ELSE CASE r.st = "undefined" -> Fail(Y)
                    [] r.st = "wait" -> Park(Y, r.on, c)
                    [] r.st = "ok" -> Decrease(NewText(Y, c.insert, Text(c), r.value.text), c.insert))

\* The content of the function, in the scope of its parameters.
RunsBody(X, c) == Schedule(X, Firsts(Content(sheet, Func(c)), Inside(c), Ret(c)))

ApplyFirst ==
  LET c == Now
      sync == HasSyncParam(sheet, c.e)
      a == New(Shifted, c.insert, Self(c))
      p == IF sync THEN New(a, Self(c), ParamNode(c)) ELSE a
      args == Increase(Arguments(New(p, Self(c), Ret(c)), c), Self(c))
      doc == New(args, Var, SelfDoc(c))
      self == SelfValue([doc EXCEPT !.root[SelfDoc(c)] = RootOf(args, c.insert)], c)
      atOnce == sheet.kind[c.e] = "apply" /\ ~ sync /\ ~ IsJS(sheet, Func(c))
      X == IF sheet.kind[c.e] = "transform" THEN self
           ELSE IF atOnce THEN RunsBody(args, c) ELSE args
  IN /\ Calls("first", {"apply", "transform"})
     /\ Does(Schedule(Keep(X, c, [Fresh EXCEPT !.stage = IF atOnce THEN "result" ELSE @]),
                      << [Again(c) EXCEPT !.scope = NewScope(c)] >>))

\* What the call waits for before the function is run: its self, and the
\* parameters that are not async.
Awaited(X, c) ==
  SelectSeq(<<SelfDoc(c), ParamNode(c)>>, LAMBDA n : n \in DOMAIN X.kids /\ Busy(X, n))

\* The documents of the parameters are kept with the others from now on.
Kept(X, c) ==
  IF HasSyncParam(sheet, c.e)
  THEN [X EXCEPT !.kids = [WithChildren(@, Var, @[ParamNode(c)])
                             EXCEPT ![ParamNode(c)] = <<>>]]
  ELSE X

\* xrltXSLTTransform looks its parameters up where the expression before it
\* was to be evaluated.
XSLTParams(X, c) ==
  LET ps == Merged(sheet, c.e)
  IN [i \in DOMAIN ps |->
        Lookup(X, X.varContext, c.scope, c.insert, sheet.name[ps[i].value])]

XSLT(X, c) ==
  LET keys == XSLTParams(X, c)
      args == FlattenSeq([i \in DOMAIN keys |-> BoundText(X, keys[i])])
  IN IF \E i \in DOMAIN keys : keys[i] = NotFound THEN Fail(X)
     ELSE NewText(X, Ret(c), Text(c), TextIn(X, SelfDoc(c)) \o args)

\* The function is run, when everything it waits for is ready.
Runs(X, c) ==
  LET type == sheet.type[Func(c)]
      self == IF sheet.kind[c.e] = "transform" THEN SelfDoc(c) ELSE NULL
  IN CASE type \in {"function", "custom"} -> RunsBody([X EXCEPT !.root[Ret(c)] = self], c)
       [] IsXSLT(sheet, Func(c)) -> XSLT(X, c)
       [] type = "querystring" -> NewText(X, Ret(c), Text(c), TextIn(X, SelfDoc(c)))
       [] type = "stringify" -> NewText(X, c.insert, Text(c), TextIn(X, SelfDoc(c)))
       [] type = "parse" -> X
-----------------------------------------------------------------------------
(***************************************************************************)
(* Functions in JavaScript.  An argument is a text, or a Deferred while it *)
(* is not ready.  A script of type "js" returns its arguments; one of type *)
(* "js-later" returns, for every Deferred, one of its own that it resolves *)
(* when the Deferred is.  What follows Deferreds is kept in then.          *)
(***************************************************************************)
ArgumentKey(X, p, c) ==
  Lookup(X, Callee(sheet, c.e), c.scope, c.insert, sheet.name[p])

\* xrltDeferredInsert: the node that stands for a Deferred in the result.
InsertDeferred(X, D, n, d) ==
  [Increase(New(X, n, d), d) EXCEPT !.then = (D :> <<[insert |-> d]>>) @@ @]

\* The argument is looked up, and what the script makes of it is put into the
\* result (xrltJSApply, xrltJS2XML).
TakesArgument(X, c, p) ==
  LET key == ArgumentKey(X, p, c)
      D == <<"internal", NewScope(c), p>>
      own == <<"script", NewScope(c), p>>
      d == <<"deferred", NewScope(c), p>>
      call == [Inside(c) EXCEPT !.step = "resolve", !.e = p, !.insert = Ret(c)]
      Y == Park(X, X.bound[key].node, call)
  IN IF key = NotFound THEN Fail(X)
     ELSE IF ~ BoundBusy(X, key)
     THEN NewText(X, Ret(c), <<"argument", NewScope(c), p>>, BoundText(X, key))
     ELSE IF sheet.type[Script(sheet, Func(c))] = "js" THEN InsertDeferred(Y, D, Ret(c), d)
     ELSE InsertDeferred([Y EXCEPT !.then = (D :> <<[resolve |-> own]>>) @@ @], own, Ret(c), d)

JSApply(X, c) ==
  FoldLeft(LAMBDA Y, p : TakesArgument(Y, c, p.value),
           [X EXCEPT !.varContext = Func(c)], Merged(sheet, c.e))

\* Mutant: the node is replaced and is still counted.
Resolved_StillCounted(X, D, text) ==
  LET RECURSIVE resolve(_, _)
      resolve(Y, E) ==
        FoldLeft(LAMBDA Z, f :
                   IF "resolve" \in DOMAIN f THEN resolve(Z, f.resolve)
                   ELSE LET W == NewText(Z, f.insert, <<"content", f.insert>>, text)
                        IN Replace(W, f.insert, f.insert),
                 Y, X.then[E])
  IN resolve(X, D)

\* xrltDeferredResolve calls what follows: xrltDeferredCallback, which puts the
\* value in the place of the node, or a function of the script.
Resolved(X, D, text) ==
  LET RECURSIVE resolve(_, _)
      resolve(Y, E) ==
        FoldLeft(LAMBDA Z, f :
                   IF "resolve" \in DOMAIN f THEN resolve(Z, f.resolve)
                   ELSE LET W == NewText(Z, f.insert, <<"content", f.insert>>, text)
                        IN Replace(Decrease(W, f.insert), f.insert, f.insert),
                 Y, X.then[E])
  IN resolve(X, D)

\* xrltDeferredVariableResolve: the variable has become ready.
DeferredResolve ==
  LET c == Now
      f == DeclScope(sheet, c.e)
      X == [Shifted EXCEPT !.varContext = f]
      key == Lookup(X, f, c.scope, c.insert, sheet.name[c.e])
  IN /\ Calls("resolve", {"param", "with-param"})
     /\ Does(IF key = NotFound THEN Fail(X)
             ELSE Resolved(X, <<"internal", c.at, c.e>>, BoundText(X, key)))
-----------------------------------------------------------------------------
\* The result takes the place of the call, now or when what JavaScript has put
\* off is there.
Returns(X, c) ==
  LET Y == Decrease(X, Self(c))
  IN IF Busy(Y, Ret(c))
     THEN Park(Keep(Y, c, [Data(X, c) EXCEPT !.stage = "finalize"]), Ret(c), c)
     ELSE Replace(Y, Self(c), Ret(c))

\* Mutant: the result is taken whether it is ready or not.
ApplyResult_Unchecked(c) == Does(Replace(Decrease(Shifted, Self(c)), Self(c), Ret(c)))

ApplyResult(c) ==
  Does(IF Busy(ctx, Ret(c)) THEN Park(Shifted, Ret(c), c) ELSE Returns(Shifted, c))

ApplyAgain ==
  LET c == Now
      stage == Data(ctx, c).stage
      awaited == Awaited(ctx, c)
      X == Kept(Shifted, c)
  IN /\ Calls("again", {"apply", "transform"})
     /\ \/ /\ stage = "start"
           /\ awaited # <<>>
           /\ Does(Park(Shifted, awaited[1], c))
        \/ /\ stage = "start"
           /\ awaited = <<>>
           /\ Does(IF IsJS(sheet, Func(c)) THEN Returns(JSApply(X, c), c)
                   ELSE Schedule(Runs(Keep(X, c, [Fresh EXCEPT !.stage = "result"]), c), <<c>>))
        \/ /\ stage = "result"
           /\ ApplyResult(c)
        \/ /\ stage = "finalize"
           /\ Does(Replace(Shifted, Self(c), Ret(c)))
-----------------------------------------------------------------------------
(***************************************************************************)
(* Includes, the loop and the host.                                        *)
(***************************************************************************)
IncludeFirst ==
  LET c == Now
  IN /\ Calls("first", {"include"})
     /\ ctx' = Increase(New(Shifted, c.insert, Self(c)), Self(c))
     /\ asked' = asked \cup {Again(c)}
     /\ cur' = "SUBREQUEST"
     /\ running' = FALSE
     /\ UNCHANGED sheet

IncludeAgain ==
  LET c == Now
      X == NewText(Shifted, Self(c), Text(c), Atom(c.e, 0))
  IN /\ Calls("again", {"include"})
     /\ Does(Replace(Decrease(X, Self(c)), Self(c), Self(c)))

\* xrltResponseTransform, called for the first time.
ResponseFirst ==
  LET c == Now
      scope == << <<c.e, 0>> >>
  IN /\ Calls("first", {"response"})
     /\ Does(Schedule(Shifted, Firsts(Body(sheet, c.e), [c EXCEPT !.at = scope, !.scope = scope],
                                      Response)))

\* Nothing is called for a function: the declaration has no transform function.
RunsOut ==
  /\ running
  /\ ctx.main = <<>>
  /\ cur' = IF ctx.count[Doc] = 0 THEN "DONE" ELSE "WAITING"
  /\ running' = FALSE
  /\ UNCHANGED <<sheet, ctx, asked>>

\* The host calls xrltTransform again when it has started a subrequest.
Resume ==
  /\ ~ running
  /\ cur \in {"START", "SUBREQUEST"}
  /\ running' = TRUE
  /\ UNCHANGED <<sheet, ctx, asked, cur>>

\* It brings an answer.
AnswerTo(c) ==
  /\ ~ running
  /\ cur # "ERROR"
  /\ c \in asked
  /\ asked' = asked \ {c}
  /\ ctx' = Schedule(ctx, <<c>>)
  /\ running' = TRUE
  /\ UNCHANGED <<sheet, cur>>
-----------------------------------------------------------------------------
TopCalls(s) ==
  SelectSeq(Body(s, 0), LAMBDA e : s.kind[e] = "response" \/ IsVariable(s, e))

Init ==
  /\ sheet \in { s \in Sheets : Compiles(s) }
  /\ LET nodes == {Doc, Response, Var}
     IN ctx = [ kids |-> [n \in nodes \cup {NULL} |-> IF n = Doc THEN <<Response, Var>> ELSE <<>>],
                count |-> [n \in nodes |-> 0], tcb |-> [n \in nodes |-> <<>>],
                own |-> [n \in nodes \cup {NULL} |-> <<>>],
                root |-> [n \in nodes |-> NULL], scope |-> [n \in nodes |-> TopScope],
                main |-> [i \in DOMAIN TopCalls(sheet) |->
                            [step |-> "first", e |-> TopCalls(sheet)[i], at |-> TopScope,
                             scope |-> TopScope, item |-> <<>>, insert |-> Response]],
                bound |-> << >>, data |-> << >>, then |-> << >>,
                varContext |-> 0, failed |-> FALSE ]
  /\ asked = {}
  /\ cur = "START"
  /\ running = FALSE

Loop ==
  \/ TextFirst \/ CopyFirst \/ CopyAgain \/ ValueOfFirst \/ ValueOfAgain \/ SetValue
  \/ ForEachFirst \/ ForEachAgain \/ ChooseFirst \/ ChooseAgain
  \/ VariableFirst \/ VariableFromXPath \/ VariableAgain
  \/ ApplyFirst \/ SelfSet \/ ApplyAgain \/ DeferredResolve
  \/ IncludeFirst \/ IncludeAgain \/ ResponseFirst \/ RunsOut

Answers == \E c \in asked : AnswerTo(c)

\* The host has nothing more to bring.
Ended ==
  /\ ~ running
  /\ cur = "ERROR" \/ (cur \in {"DONE", "WAITING"} /\ asked = {})
  /\ UNCHANGED vars

Next == Loop \/ Resume \/ Answers \/ Ended

\* The loop goes on, the host calls again, and what has been asked is answered.
\* The first is WF_vars(Loop) spelled out: a call is possible whenever the loop
\* is running, or there were a deadlock.
Fairness ==
  /\ []<>(~ running) \/ []<><<Loop>>_vars
  /\ WF_vars(Resume)
  /\ WF_vars(Answers)

Spec == Init /\ [][Next]_vars

FairSpec == Spec /\ Fairness
-----------------------------------------------------------------------------
Queued == UNION ({ToSet(ctx.main), asked} \cup { ToSet(ctx.tcb[n]) : n \in DOMAIN ctx.tcb })

(***************************************************************************)
(* Every queued call has its place in the documents: what it inserts into, *)
(* and what an instance that is called again has put there, is not freed,  *)
(* and nothing waits on a node that is ready (transform.h 100-123).        *)
(***************************************************************************)
NothingDangles ==
  LET live == Descendants(ctx.kids, Doc)
  IN /\ \A c \in Queued :
          /\ c.insert \in live
          /\ c.step = "again" => Self(c) \in live
     /\ \A n \in DOMAIN ctx.tcb : ctx.tcb[n] # <<>> => n \in live /\ ctx.count[n] > 0

(***************************************************************************)
(* A function runs when the parameters it has not declared async are ready *)
(* and so is the document it transforms (function.cc 969-1007): whatever   *)
(* the call gives for them, and in whatever order the answers come.        *)
(***************************************************************************)
ArgumentsFirst ==
  \A i \in DOMAIN ctx.data :
    sheet.kind[i[2]] \in {"apply", "transform"} /\ ctx.data[i].stage # "start" =>
      LET scope == Append(i[1], <<i[2], 0>>)
          formal == { p \in Elem : sheet.kind[p] = "param" /\ ~ sheet.async[p]
                                     /\ sheet.up[p] = Callee(sheet, i[2]) }
          waited == { <<"source", i[1], i[2]>> }
                      \cup { <<"self", scope, v>> : v \in
                               { v \in Elem : sheet.kind[v] \in {"param", "with-param"}
                                   /\ \E p \in formal : sheet.name[p] = sheet.name[v] } }
      IN \A n \in waited \cap DOMAIN ctx.count : ctx.count[n] = 0

\* Every variable is found where it is read, whatever waits for what, and nothing
\* fails but a loop over a string (transform.cc 368-441, foreach.cc 88-94).
FailsOnlyOverText == ctx.failed => Failure[1] \in ToSet(Meant(sheet))

(***************************************************************************)
(* When the transformation is done, the response is the one the sheet      *)
(* means, whatever the order of the answers: every expression has read the *)
(* variable of its own scope, every call its own arguments, and every      *)
(* Deferred has been replaced by its value (transform.cc 368-441,          *)
(* function.cc 881-1165, js.cc 510-607).  Nothing is left waiting, and no  *)
(* loop over a string has been passed.                                     *)
(***************************************************************************)
ResponseIsMeant ==
  cur = "DONE" =>
    /\ TextIn(ctx, Response) = Meant(sheet)
    /\ Queued = {}
    /\ \A n \in DOMAIN ctx.count : ctx.count[n] = 0

\* If every subrequest is answered, the transformation comes to an end.
EndsEventually == <>(ctx.failed \/ cur = "DONE")
=============================================================================
