------------------------------ MODULE MCInput ------------------------------
(***************************************************************************)
(* Every sheet with a querystring, a body, both or neither: typed at once, *)
(* late or not at all, with a body in Parts parts.                         *)
(***************************************************************************)
EXTENDS RequestInput

Choice(h, t, f) == [how |-> h, type |-> t, from |-> f]

Options(froms) ==
  { Choice("none", "XML", "text"), Choice("untyped", "XML", "text") }
    \cup { Choice("static", t, "text") : t \in Type }
    \cup { Choice("late", t, f) : t \in Type, f \in froms }

MCConfigs ==
  { c \in { [i \in Input |-> IF i = "body" THEN b ELSE q] :
              q \in Options({ "text", "answer" }),
              b \in Options({ "text", "answer", "querystring" }) } :
      c["body"].from = "querystring" => c["querystring"].how # "none" }
=============================================================================
