------------------------------ MODULE MCCalls ------------------------------
(***************************************************************************)
(* Requestsheets with loops, choices and calls, one for each way in which  *)
(* they wait for variables and for one another.                            *)
(***************************************************************************)
EXTENDS Calls

MCElem == 1..16

MCNames == << "a", "b", "c", "f", "g", "n", "v", "w" >>

\* The elements of a sheet: everything but kind and up has a default.
El(kind, up) ==
  [kind |-> kind, up |-> up, name |-> "", ref |-> "", type |-> "function",
   async |-> FALSE, items |-> 0]

Named(kind, up, name) == [El(kind, up) EXCEPT !.name = name]
Reading(kind, up, ref) == [El(kind, up) EXCEPT !.ref = ref]
Setting(kind, up, name, ref) == [Named(kind, up, name) EXCEPT !.ref = ref]
Each(up, ref, n) == [Reading("for-each", up, ref) EXCEPT !.items = n]
Typed(kind, name, type) == [Named(kind, 0, name) EXCEPT !.type = type]
Async(el) == [el EXCEPT !.async = TRUE]

\* Sheets are filled up with functions nobody calls.
Filler == Named("function", 0, "unused")

AsSheet(els, given) ==
  LET el(e) == IF e <= Len(els) THEN els[e] ELSE Filler
  IN [ kind |-> [e \in MCElem |-> el(e).kind], up |-> [e \in MCElem |-> el(e).up],
       slot |-> [e \in MCElem |-> "content"], name |-> [e \in MCElem |-> el(e).name],
       ref |-> [e \in MCElem |-> el(e).ref], type |-> [e \in MCElem |-> el(e).type],
       async |-> [e \in MCElem |-> el(e).async], items |-> [e \in MCElem |-> el(e).items],
       given |-> given ]

\* A loop over what a pending variable selects, with a variable for every item.
Items == AsSheet(<<
  Named("variable", 0, "v"),
    El("include", 1),
  El("response", 0),
    Each(3, "v", 2),
      Named("variable", 4, "w"),
        El("include", 5),
        Reading("value-of", 5, "."),
      El("copy", 4),
        Reading("value-of", 8, "w"),
        Reading("value-of", 8, "v"),
      Reading("value-of", 4, "w"),
    Each(3, "()", 0),
      El("text", 12) >>, {})

\* Tests that wait, hold, do not hold, and a choice nothing is left of.
Cases == AsSheet(<<
  Named("variable", 0, "v"),
    El("include", 1),
  El("response", 0),
    El("choose", 3),
      Reading("when", 4, "()"),
        El("text", 5),
      Reading("when", 4, "v"),
        El("include", 7),
      El("otherwise", 4),
        El("text", 9),
    El("choose", 3),
      Reading("when", 11, "v"),
      Reading("when", 11, "()"),
        El("text", 13) >>, {})

Otherwise == AsSheet(<<
  Named("param", 0, "v"),
  Setting("param", 0, "w", "1"),
  El("response", 0),
    El("choose", 3),
      Reading("when", 4, "()"),
        El("text", 5),
      El("otherwise", 4),
        Reading("value-of", 7, "v"),
        El("include", 7),
    El("choose", 3),
      Reading("when", 10, "()"),
        El("text", 11),
    Reading("value-of", 3, "w") >>, {"v"})

\* A function with parameters the call gives or not, and that are async or not,
\* called twice in the scope of the response.  The host gives a parameter of the
\* same name, which the sheet does not have.
Parameters(as, bs) == AsSheet(<<
  [Named("function", 0, "f") EXCEPT !.type = "function"],
    as,
      El("include", 2),
    bs,
    Reading("value-of", 1, "b"),
    Reading("value-of", 1, "a"),
  El("response", 0),
    Named("apply", 7, "f"),
      Named("with-param", 8, "b"),
        El("include", 9),
        El("text", 9),
      Setting("with-param", 8, "c", "1"),
    Named("apply", 7, "f") >>, {"a"})

ParameterSheets ==
  { Parameters(a, b) :
      a \in { Named("param", 1, "a"), Async(Named("param", 1, "a")) },
      b \in { Setting("param", 1, "b", "1"), Async(Setting("param", 1, "b", "1")) } }

\* A function that calls a function, with a pending variable for an argument.
Nested(async) == AsSheet(<<
  Typed("function", "f", "function"),
    IF async THEN Async(Named("param", 1, "a")) ELSE Named("param", 1, "a"),
    Setting("variable", 1, "w", "a"),
    Named("apply", 1, "g"),
      Setting("with-param", 4, "a", "w"),
  Typed("function", "g", "function"),
    Setting("param", 6, "a", "v"),
    Reading("value-of", 6, "a"),
  Named("variable", 0, "v"),
    El("include", 9),
  Named("variable", 0, "n"),
    El("copy", 11),
  El("response", 0),
    Each(13, "n", 2),
      Named("apply", 14, "f"),
        Setting("with-param", 15, "a", "v") >>, {})

\* Transformations of a document that is not ready, of every type but that in
\* JavaScript.  What a stringify writes it writes behind its siblings.
Transforms(type, async) == AsSheet(<<
  Typed("transformation", "f", type),
  Typed("transformation", "g", "custom"),
    [Named("param", 2, "a") EXCEPT !.async = async],
    Reading("value-of", 2, "/"),
    Reading("value-of", 2, "a"),
  Named("variable", 0, "v"),
    El("include", 6),
  El("response", 0),
    Named("transform", 8, "g"),
      Setting("with-param", 9, "a", "v"),
      El("include", 9),
    El("copy", 8),
      Setting("transform", 12, "f", "v") >>, {})

TransformSheets ==
  { Transforms(t, async) :
      t \in {"xslt", "querystring", "stringify", "parse"}, async \in BOOLEAN }

\* An XSLT transformation finds its parameters after an expression of its own
\* parameters only.  It is declared twice.
Stylesheet == AsSheet(<<
  Typed("transformation", "f", "parse"),
  Typed("transformation", "f", "xslt"),
    Setting("param", 2, "a", "v"),
    Setting("param", 2, "b", "1"),
  Named("variable", 0, "v"),
    El("include", 5),
  El("response", 0),
    Named("transform", 7, "f"),
      El("include", 8),
    El("text", 7) >>, {})

\* Functions in JavaScript with arguments that are ready, waited for or put off.
Scripts(type, a, b) == AsSheet(<<
  Typed("function", "f", type),
    [Named("param", 1, "a") EXCEPT !.async = a],
    [Setting("param", 1, "b", "v") EXCEPT !.async = b],
  Named("variable", 0, "v"),
    El("include", 4),
  El("response", 0),
    Named("apply", 6, "f"),
      Named("with-param", 7, "a"),
        El("include", 8),
        El("text", 8),
    El("text", 6) >>, {})

ScriptSheets ==
  { Scripts(t, a, b) : t \in {"js", "js-later"}, a, b \in BOOLEAN }

\* What the body of a function does with its parameter a, in elements 3 to 5.
Bodies ==
  { <<Reading("value-of", 1, "a"), Filler, Filler>>,
    <<El("include", 1), Setting("variable", 1, "b", "a"), Reading("value-of", 1, "b")>>,
    <<El("choose", 1), Reading("when", 3, "a"), Reading("value-of", 4, "v")>>,
    <<Each(1, "a", 1), El("copy", 3), Reading("value-of", 4, ".")>> }

\* What a call gives for it, in elements 14 and 15.
Selecting(ref) == <<Setting("with-param", 13, "a", ref), Filler>>

Holding(kind) == <<Named("with-param", 13, "a"), El(kind, 14)>>

WaysToGive ==
  {<<Filler, Filler>>} \cup { Selecting(ref) : ref \in {"v", "w", "."} }
    \cup { Holding(kind) : kind \in {"include", "text"} }

\* A function called in a loop, where v is pending and n is ready.
InLoop(type, body, async, default, select, arg) ==
  AsSheet(<< Typed("function", "f", type),
               [Setting("param", 1, "a", default) EXCEPT !.async = async] >> \o body \o
          << Named("variable", 0, "v"),
               El("include", 6),
             Named("variable", 0, "n"),
               El("copy", 8),
             El("response", 0),
               Each(10, select, 2),
                 Setting("variable", 11, "w", "v"),
                 Named("apply", 11, "f") >> \o arg \o
          <<     Reading("value-of", 11, "w") >>, {})

\* A function that loops over its parameter is given nodes, none or a string.
LoopSheets ==
  { InLoop("function", body, async, default, "n", arg) :
      body \in Bodies, async \in BOOLEAN, default \in {"", "v"}, arg \in WaysToGive }
  \cup
  { InLoop(type, <<Filler, Filler, Filler>>, async, "", select, arg) :
      type \in {"js", "js-later"}, async \in BOOLEAN, select \in {"n", "v"}, arg \in WaysToGive }

\* A variable of the outer loop, read from an element in the inner one.
ScopeSheets ==
  { AsSheet(<<
      Named("variable", 0, "n"),
        El("copy", 1),
      El("response", 0),
        Each(3, "n", 2),
          Setting("variable", 4, "w", "."),
          El("copy", 4),
            Each(6, "n", 1),
              El("copy", 7),
                Reading("value-of", 8, "w") >>, {}) }

MCSheets ==
  { Items, Cases, Otherwise, Nested(TRUE), Nested(FALSE), Stylesheet }
    \cup ParameterSheets \cup TransformSheets \cup ScriptSheets \cup LoopSheets
=============================================================================
