---------------------------- MODULE QueryString ----------------------------
(***************************************************************************)
(* The querystring parser: it is fed a querystring in parts, cut anywhere, *)
(* even inside an escape, and adds a node to the document for every        *)
(* parameter that has ended.  Names and values are decoded then.           *)
(***************************************************************************)
EXTENDS Naturals, Sequences, SequencesExt

CONSTANT Inputs  \* the querystrings that are parsed

(***************************************************************************)
(* The characters, by what the parser does with them: separators, "=",     *)
(* "+", the escape "%hh" of a separator, and "x" for all others.           *)
(***************************************************************************)
Separator == { "&", ";" }

Char == Separator \cup { "=", "+", "%", "h", "x" }

\* Escapes are whole: what is made of one that is not depends on what lies in
\* memory behind it.
WholeEscapes(s) ==
  \A i \in DOMAIN s :
    /\ s[i] = "%" => i + 2 <= Len(s) /\ s[i + 1] = "h" /\ s[i + 2] = "h"
    /\ s[i] = "h" => (i > 1 /\ s[i - 1] = "%") \/ (i > 2 /\ s[i - 2] = "%")

VARIABLES
  input,
  fed,                \* how much of it the parser has got
  last,               \* it has got the last part
  name, val, isVal,   \* fields of xrltQueryStringParser
  doc                 \* a sequence of elements and texts

vars == <<input, fed, last, name, val, isVal, doc>>
-----------------------------------------------------------------------------
\* xrltURLDecode
Decoded(s) ==
  FlattenSeq([i \in DOMAIN s |->
    CASE s[i] = "%" -> << "&" >>
      [] s[i] = "h" -> << >>
      [] s[i] = "+" -> << " " >>
      [] s[i] \notin { "%", "h", "+" } -> << s[i] >>])

\* xmlAddChild: a text joins a text before it.
WithNode(D, n, text) ==
  IF n = <<>> /\ D # <<>> /\ Last(D).name = <<>>
  THEN [D EXCEPT ![Len(D)].text = @ \o text]
  ELSE Append(D, [name |-> n, text |-> text])

Parser == [name |-> name, val |-> val, isVal |-> isVal, doc |-> doc]

\* A parameter ends.  Without a name it is a text.
Ended(p) ==
  [name |-> <<>>, val |-> <<>>, isVal |-> FALSE,
   doc |-> IF p.name = <<>> /\ p.val = <<>> THEN p.doc
           ELSE WithNode(p.doc, Decoded(p.name), Decoded(p.val))]

\* Every "=" but the first of a parameter is left out.
Taken(p, c) ==
  CASE c \in Separator -> Ended(p)
    [] c = "=" -> [p EXCEPT !.isVal = TRUE]
    [] c \notin Separator \cup {"="} ->
         IF p.isVal THEN [p EXCEPT !.val = Append(@, c)]
                    ELSE [p EXCEPT !.name = Append(@, c)]

\* Mutant: the end of a part ends a parameter.
EndsParameter_AtEveryPart(isLast) == TRUE

\* The end of the last part ends a parameter.
EndsParameter(isLast) == isLast

\* xrltQueryStringParserFeed with the next n characters.
Feed(n, isLast) ==
  LET part == SubSeq(input, fed + 1, fed + n)
      q == FoldLeft(Taken, Parser, part)
      p == IF EndsParameter(isLast) THEN Ended(q) ELSE q
  IN /\ ~ last
     /\ fed' = fed + n
     /\ last' = isLast
     /\ name' = p.name
     /\ val' = p.val
     /\ isVal' = p.isVal
     /\ doc' = p.doc
     /\ UNCHANGED input
-----------------------------------------------------------------------------
\* xrltQueryStringParserInit
Init ==
  /\ input \in { s \in Inputs : WholeEscapes(s) }
  /\ fed = 0
  /\ last = FALSE
  /\ name = <<>>
  /\ val = <<>>
  /\ isVal = FALSE
  /\ doc = <<>>

Next ==
  \E n \in 0..(Len(input) - fed), isLast \in BOOLEAN :
    /\ n > 0 \/ isLast
    /\ isLast => fed + n = Len(input)
    /\ Feed(n, isLast)

Spec == Init /\ [][Next]_vars
-----------------------------------------------------------------------------
(***************************************************************************)
(* The conversions a transformation makes: a document is written as a      *)
(* querystring, and a querystring is parsed at once.                       *)
(***************************************************************************)
\* xrltURLEncode
Encoded(s) ==
  FlattenSeq([i \in DOMAIN s |->
    CASE s[i] = " " -> << "+" >>
      [] s[i] = "x" -> << "x" >>
      [] s[i] \notin { " ", "x" } -> << "%", "h", "h" >>])

\* Mutant: nodes without a text are not written.
Written_TextOnly(node) ==
  IF node.text = <<>> THEN <<>>
  ELSE Encoded(node.name) \o << "=" >> \o Encoded(node.text)

\* A node, which is a text if it has no name.
Written(node) ==
  (IF node.name = <<>> THEN <<>> ELSE Encoded(node.name) \o << "=" >>) \o Encoded(node.text)

\* Between nodes there is a separator, unless nothing has been written for the
\* one before.
Stringified(D) ==
  FlattenSeq([i \in DOMAIN D |->
    IF i = Len(D) \/ Written(D[i]) = <<>> THEN Written(D[i]) ELSE Written(D[i]) \o << "&" >>])

Parsed(s) ==
  Ended(FoldLeft(Taken, [name |-> <<>>, val |-> <<>>, isVal |-> FALSE, doc |-> <<>>], s)).doc
-----------------------------------------------------------------------------
(***************************************************************************)
(* What a querystring means, as a whole: its parameters are what lies      *)
(* between separators, and a name ends with the first "=".                 *)
(***************************************************************************)
Cuts(s) == { i \in DOMAIN s : s[i] \in Separator } \cup { 0, Len(s) + 1 }

Params(s) ==
  LET cuts == SetToSortSeq(Cuts(s), LAMBDA i, j : i < j)
  IN [k \in 1..(Len(cuts) - 1) |-> SubSeq(s, cuts[k] + 1, cuts[k + 1] - 1)]

NameLength(p) ==
  LET ends == { i \in DOMAIN p : p[i] = "=" }
  IN IF ends = {} THEN Len(p) ELSE (CHOOSE i \in ends : \A j \in ends : i <= j) - 1

Meant(s) ==
  FoldLeft(LAMBDA D, p :
             LET n == NameLength(p)
                 text == SelectSeq(SubSeq(p, n + 1, Len(p)), LAMBDA c : c # "=")
             IN IF n = 0 /\ text = <<>> THEN D
                ELSE WithNode(D, Decoded(SubSeq(p, 1, n)), Decoded(text)),
           <<>>, Params(s))

\* What can be told from what has been fed.
Settled ==
  IF last THEN input
  ELSE LET ends == { i \in 1..fed : input[i] \in Separator } \cup {0}
       IN SubSeq(input, 1, CHOOSE i \in ends : \A j \in ends : j <= i)

(***************************************************************************)
(* The document is the one the querystring means, however it is cut, and   *)
(* at any time as much of it as has ended (querystring.cc 25-145).         *)
(***************************************************************************)
DocumentIsMeant == doc = Meant(Settled)

(***************************************************************************)
(* A document that is written and parsed again is the same one (function  *)
(* .cc 723-878), whatever is encoded in it.  Texts beside the elements are *)
(* left out: without a "=" they come back as names.                        *)
(***************************************************************************)
DocumentComesBack ==
  LET elements == SelectSeq(doc, LAMBDA node : node.name # <<>>)
  IN Parsed(Stringified(elements)) = elements
=============================================================================
