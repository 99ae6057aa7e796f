---------------------------- MODULE MCTransform ----------------------------
(***************************************************************************)
(* All requestsheets of three elements, the response being the first.      *)
(* They are filled up to as many elements as the scenarios have, with      *)
(* variables of a constant value that nothing reads.                       *)
(***************************************************************************)
EXTENDS Transform, TLC

MCElem == 1..7

\* A sheet from the list of its elements: kind, up, slot and ref.
AsSheet(cs) ==
  [ kind |-> [e \in MCElem |-> cs[e][1]], up  |-> [e \in MCElem |-> cs[e][2]],
    slot |-> [e \in MCElem |-> cs[e][3]], ref |-> [e \in MCElem |-> cs[e][4]] ]

ReaderKinds == { "value-of", "copy-of", "if", "include", "variable" }

\* What element e may be by itself: kind, up, slot and ref.
Options(e) ==
  { c \in (Kind \ {"response"}) \X (0..(e - 1)) \X Slot \X (0..3) :
      /\ c[2] = 0 => c[1] = "variable" /\ c[3] = "content"
      /\ c[4] # 0 => c[1] \in ReaderKinds /\ c[4] \notin {1, e} }

ResponseOption == <<"response", 0, "content", 0>>

\* An element reads a variable, and has its value in an attribute or in a node
\* list but not in both.
Proper(s) ==
  \A e \in MCElem :
    s.ref[e] # 0 =>
         /\ s.kind[s.ref[e]] = "variable"
         /\ ~ \E c \in MCElem :
                /\ s.up[c] = e
                /\ s.slot[c] = IF s.kind[e] = "variable" THEN "content" ELSE "value"

(***************************************************************************)
(* A node list of texts alone is compiled to one text, and one without     *)
(* elements of XRLT where a string is wanted (transform.h 630-650): such a *)
(* value is a constant, and the sheet is one with a constant there.        *)
(***************************************************************************)
NoConstantLists(s) ==
  \A e \in MCElem :
    LET below(c) == { d \in MCElem : c \in AncestorsOrSelf(s, d) }
        of(slot) == ToSet(Children(s, e, slot))
        kindsOf(es) == { s.kind[c] : c \in es }
    IN /\ s.kind[e] = "variable" /\ of("content") # {} =>
            kindsOf(of("content")) # {"text"}
       /\ of("value") # {} =>
            ~ kindsOf(UNION { below(c) : c \in of("value") }) \subseteq {"text", "copy"}

\* No variable is read in its own content, and one that is read out of its
\* scope reads nothing itself.
Sensible(s) ==
  \A e \in MCElem : s.ref[e] # 0 =>
    /\ s.ref[e] \notin AncestorsOrSelf(s, e)
    /\ InScope(s, s.ref[e], e) \/
         \A i \in MCElem : s.ref[e] \in AncestorsOrSelf(s, i) => s.ref[i] = 0

\* A log at the top level of the response is left to MCLog.
NoTopLevelLog(s) ==
  \A e \in MCElem : s.kind[e] = "log" => s.kind[s.up[e]] # "response"

Fits(cs, c) == c[2] # 0 => <<cs[c[2]][1], c[3]>> \in Parts

Extended(S) ==
  UNION { { Append(cs, c) : c \in { o \in Options(Len(cs) + 1) : Fits(cs, o) } } :
            cs \in S }

Unread == <<"variable", 0, "content", 0>>

Candidates == Extended(Extended({<<ResponseOption>>}))

SmallSheets ==
  { s \in { AsSheet(cs \o <<Unread, Unread, Unread, Unread>>) : cs \in Candidates } :
      Proper(s) /\ NoConstantLists(s) /\ Sensible(s) /\ NoTopLevelLog(s) }
=============================================================================
