----------------------------- MODULE CallSheet -----------------------------
(***************************************************************************)
(* A requestsheet with loops, choices, functions and transformations, as   *)
(* it is written and as it is compiled, and what it is to produce.         *)
(*                                                                         *)
(* To the fields of Sheet (whose slot is always the content here) it adds  *)
(*   name[e]   the name of a variable, a parameter, a function, or of the  *)
(*             function that is called                                     *)
(*   type[e]   what a function or a transformation does                    *)
(*   async[e]  the async attribute of a parameter                          *)
(*   items[e]  how many nodes a for-each selects below those its variable  *)
(*             is, if it is any                                            *)
(*   given     the parameters the host has given                           *)
(* and ref[e] is what the select or test attribute reads: a variable, "."  *)
(* for the context node, "/" for the root, the constants "1" (a string)    *)
(* and "()" (no nodes), or "" if there is no such attribute.  A test holds *)
(* if the text is not empty: the nodes that are tested here have one.      *)
(* Texts are sequences of atoms <<e, k>>: the text of element e, or of the *)
(* k-th node the for-each e selects.                                       *)
(***************************************************************************)
EXTENDS Sheet

CONSTANT Names  \* all names, in the order of xmlStrcmp

Before(a, b) == SelectInSeq(Names, LAMBDA x : x = a) < SelectInSeq(Names, LAMBDA x : x = b)

Body(s, p) == Children(s, p, "content")

Declares == { "function", "transformation" }

Atom(e, k) == << <<e, k>> >>

\* The text the host has given for a parameter.
Given(name) == Atom(0, SelectInSeq(Names, LAMBDA x : x = name))

\* A value has a text and is a "string" or a set of nodes, "nodes" or "empty".
Value(text, is) == [text |-> text, is |-> is]

NoNodes == Value(<<>>, "empty")

\* A parameter of the sheet, not one of a function.
IsGiven(s, e) == s.kind[e] = "param" /\ s.up[e] = 0 /\ s.name[e] \in s.given
-----------------------------------------------------------------------------
(***************************************************************************)
(* Compilation.                                                            *)
(***************************************************************************)
\* sheet->funcs and sheet->transforms: "we keep the last function declaration".
FunctionNamed(s, kind, name) ==
  CHOOSE f \in Elem :
    /\ s.kind[f] = kind /\ s.name[f] = name
    /\ \A g \in Elem : s.kind[g] = kind /\ s.name[g] = name => g <= f

\* xrltApplyData.func
Callee(s, a) ==
  FunctionNamed(s, IF s.kind[a] = "apply" THEN "function" ELSE "transformation",
                s.name[a])

\* The parameters of a function or of a call, sorted by name.
ParamKind(s, p) == IF s.kind[p] \in Declares THEN "param" ELSE "with-param"

Params(s, p) ==
  SortSeq(SelectSeq(Body(s, p), LAMBDA e : s.kind[e] = ParamKind(s, p)),
          LAMBDA d, e : Before(s.name[d], s.name[e]))

\* The content of a function, of a for-each, of the self of a transformation:
\* what is transformed when the parameters have been taken.
Content(s, p) == SelectSeq(Body(s, p), LAMBDA e : s.kind[e] \notin {"param", "with-param"})

\* Mutant: what the call gives is copied with its own sync, which is not set.
Merged_ActualSync(s, a) ==
  LET formal == Params(s, Callee(s, a))
      actual(f) == SelectSeq(Params(s, a), LAMBDA w : s.name[w] = s.name[f])
  IN [i \in DOMAIN formal |->
        LET f == formal[i]
        IN IF actual(f) = <<>> THEN [value |-> f, sync |-> ~ s.async[f]]
           ELSE [value |-> actual(f)[1], sync |-> FALSE]]

(***************************************************************************)
(* The parameters of a call: those of the function, with the values of the *)
(* call for those the call gives.  What the function does not declare is   *)
(* dropped; whether it is waited for is for the function to say.           *)
(***************************************************************************)
Merged(s, a) ==
  LET formal == Params(s, Callee(s, a))
      actual(f) == SelectSeq(Params(s, a), LAMBDA w : s.name[w] = s.name[f])
  IN [i \in DOMAIN formal |->
        LET f == formal[i]
        IN [value |-> IF actual(f) = <<>> THEN f ELSE actual(f)[1],
            sync |-> ~ s.async[f]]]

HasSyncParam(s, a) == \E p \in ToSet(Merged(s, a)) : p.sync

IsXSLT(s, f) == s.type[f] \in {"xslt", "xslt-stringify"}

IsJS(s, f) == s.type[f] \in {"js", "js-later"}

\* Functions and transformations in JavaScript share one table, by their names
\* (xrltJSContextPrivate.functions): the last one is kept.
Script(s, f) ==
  CHOOSE g \in Elem :
    /\ s.kind[g] \in Declares /\ IsJS(s, g) /\ s.name[g] = s.name[f]
    /\ \A h \in Elem : s.kind[h] \in Declares /\ IsJS(s, h) /\ s.name[h] = s.name[f]
                         => h <= g

\* What xrltFunctionCompile and xrltApplyCompile refuse.
Distinct(s, ps) == \A i, j \in DOMAIN ps : s.name[ps[i]] = s.name[ps[j]] => i = j

FunctionCompiles(s, f) ==
  /\ Distinct(s, Params(s, f))
  /\ IsXSLT(s, f) => \A p \in ToSet(Params(s, f)) : ~ s.async[p]
  /\ s.type[f] \notin {"function", "custom"} => Content(s, f) = <<>>

ApplyCompiles(s, a) ==
  /\ \E f \in Elem :
       /\ s.name[f] = s.name[a]
       /\ s.kind[f] = IF s.kind[a] = "apply" THEN "function" ELSE "transformation"
  /\ Distinct(s, Params(s, a))
  /\ s.kind[a] = "apply" => Content(s, a) = <<>>

\* Cases with a test, and one without at the end at most.  That there are none
\* is reported, and the compilation goes on.
ChooseCompiles(s, c) ==
  LET cases == Body(s, c)
  IN /\ cases # <<>> => s.kind[cases[1]] = "when"
     /\ \A i \in DOMAIN cases :
          \/ s.kind[cases[i]] = "when" /\ s.ref[cases[i]] # ""
          \/ s.kind[cases[i]] = "otherwise" /\ i = Len(cases)

ForEachCompiles(s, e) == Body(s, e) # <<>> /\ s.ref[e] # ""

Compiles(s) ==
  \A e \in Elem :
    /\ s.kind[e] \in Declares => FunctionCompiles(s, e)
    /\ s.kind[e] \in {"apply", "transform"} => ApplyCompiles(s, e)
    /\ s.kind[e] = "choose" => ChooseCompiles(s, e)
    /\ s.kind[e] = "for-each" => ForEachCompiles(s, e)

\* xrltCompiledValue.type
ValueType(s, e) ==
  CASE s.ref[e] # "" -> "xpath"
    [] s.ref[e] = "" /\ Content(s, e) = <<>> -> "empty"
    [] s.ref[e] = "" /\ Content(s, e) # <<>> ->
         IF \A c \in ToSet(Content(s, e)) : s.kind[c] = "text" THEN "text" ELSE "nodelist"

LiteralText(s, e) ==
  LET cs == Content(s, e) IN FlattenSeq([i \in DOMAIN cs |-> Atom(cs[i], 0)])

\* xrltXPathExpr.scope: where the lookup of a variable begins.
ExprScope(s, e) ==
  CASE s.kind[e] = "for-each" -> e
    [] s.kind[e] \in {"when", "with-param"} -> s.up[s.up[e]]
    [] s.kind[e] \notin {"for-each", "when", "with-param"} -> s.up[e]

\* xrltVariableData.declScope
DeclScope(s, e) == IF s.kind[e] = "with-param" THEN Callee(s, s.up[e]) ELSE s.up[e]
-----------------------------------------------------------------------------
(***************************************************************************)
(* The reference: the text of an element for a reader of the sheet, given  *)
(* the values of the variables it can see (env), of the context node       *)
(* (item) and of the root.  A function sees its parameters and the         *)
(* variables of the top level.  Nothing is evaluated in any order but that *)
(* of the sheet.                                                           *)
(***************************************************************************)
RECURSIVE Meaning(_, _, _, _, _), MeaningOfAll(_, _, _, _, _)

IsVariable(s, e) == s.kind[e] = "variable" \/ (s.kind[e] = "param" /\ s.up[e] = 0)

\* It stands for the text of a loop over a string: the transformation fails.
Failure == Atom(0, 0)

ValueMeant(s, e, env, item, root) ==
  CASE IsGiven(s, e) -> Value(Given(s.name[e]), "string")
    [] ~ IsGiven(s, e) ->
       CASE s.ref[e] = "" ->
              Value(MeaningOfAll(s, Content(s, e), env, item, root),
                    CASE ValueType(s, e) = "text" -> "string"
                      [] ValueType(s, e) = "empty" -> "empty"
                      [] ValueType(s, e) = "nodelist" -> "nodes")
         [] s.ref[e] = "1" -> Value(Atom(e, 0), "string")
         [] s.ref[e] = "()" -> NoNodes
         [] s.ref[e] = "/" -> root
         [] s.ref[e] = "." -> IF item = NoNodes THEN root ELSE item
         [] s.ref[e] \notin {"", "1", "()", "/", "."} -> env[s.ref[e]]

MeaningOfAll(s, es, env, item, root) ==
  IF es = <<>> THEN <<>>
  ELSE LET e == Head(es)
       IN IF IsVariable(s, e)
          THEN MeaningOfAll(s, Tail(es),
                            (s.name[e] :> ValueMeant(s, e, env, item, root)) @@ env,
                            item, root)
          ELSE Meaning(s, e, env, item, root)
                 \o MeaningOfAll(s, Tail(es), env, item, root)

TopLevelVariables(s) == SelectSeq(Body(s, 0), LAMBDA e : IsVariable(s, e))

Globals(s) ==
  FoldLeft(LAMBDA env, v : (s.name[v] :> ValueMeant(s, v, env, NoNodes, NoNodes)) @@ env,
           << >>, TopLevelVariables(s))

\* What a call gives, from the values of its parameters and the text of its self.
CallMeant(s, f, env, item, root, self) ==
  LET ps == Params(s, f)
      args == FlattenSeq([i \in DOMAIN ps |-> env[s.name[ps[i]]].text])
  IN CASE s.type[f] = "function" -> MeaningOfAll(s, Content(s, f), env, item, root)
       [] s.type[f] = "custom" ->
            MeaningOfAll(s, Content(s, f), env, item, Value(self, "nodes"))
       [] s.type[f] \in {"js", "js-later"} -> args
       [] IsXSLT(s, f) -> self \o args
       [] s.type[f] \in {"stringify", "querystring"} -> self
       [] s.type[f] = "parse" -> <<>>

LoopMeant(s, e, env, item, root) ==
  LET selected == ValueMeant(s, e, env, item, root).is
      of(k) == MeaningOfAll(s, Body(s, e), env, Value(Atom(e, k), "nodes"), root)
  IN CASE selected = "string" -> Failure
       [] selected = "empty" -> <<>>
       [] selected = "nodes" -> FlattenSeq([k \in 1..s.items[e] |-> of(k)])

Meaning(s, e, env, item, root) ==
  CASE s.kind[e] \in {"text", "include"} -> Atom(e, 0)
    [] s.kind[e] = "copy" -> MeaningOfAll(s, Body(s, e), env, item, root)
    [] s.kind[e] = "value-of" -> ValueMeant(s, e, env, item, root).text
    [] s.kind[e] = "for-each" -> LoopMeant(s, e, env, item, root)
    [] s.kind[e] = "choose" ->
         LET cases == Body(s, e)
             holds == { i \in DOMAIN cases :
                          \/ s.kind[cases[i]] = "otherwise"
                          \/ ValueMeant(s, cases[i], env, item, root).text # <<>> }
         IN IF holds = {} THEN <<>>
            ELSE MeaningOfAll(s, Body(s, cases[CHOOSE i \in holds : \A j \in holds : i <= j]),
                              env, item, root)
    [] s.kind[e] \in {"apply", "transform"} ->
         LET ps == Merged(s, e)
             given(v) == ValueMeant(s, v, IF s.kind[v] = "param" THEN Globals(s) ELSE env,
                                    item, root)
             args == [n \in { s.name[ps[i].value] : i \in DOMAIN ps } |->
                        given(ps[CHOOSE i \in DOMAIN ps : s.name[ps[i].value] = n].value)]
         IN CallMeant(s, Callee(s, e), args @@ Globals(s), item, root,
                      IF s.kind[e] = "apply" THEN root.text
                      ELSE ValueMeant(s, e, env, item, root).text)

\* The text of the response.
Meant(s) ==
  LET response == CHOOSE e \in Elem : s.kind[e] = "response"
  IN MeaningOfAll(s, Body(s, response), Globals(s), NoNodes, NoNodes)
=============================================================================
