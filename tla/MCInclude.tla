----------------------------- MODULE MCInclude -----------------------------
(***************************************************************************)
(* Sheets of one include.  Asking: a value of the second round, and one of *)
(* the first or none, is made from the variable, in all ways, and the      *)
(* others are texts.  Answering: the values are texts, and types, tests    *)
(* and contents are of all kinds.                                          *)
(***************************************************************************)
EXTENDS Include

Plain ==
  [i \in Item |-> IF i \in { "success", "SUCCESS", "FAILURE" } THEN "none" ELSE "text"]

Bare == [i \in Item |-> IF i \in Test \cup { "type", "body" } THEN "none" ELSE Plain[i]]

Late == { "list", "xpath" }

\* Tests and xrl:body hold, but for those named.
Says(off) ==
  [t \in Test \cup {"inBody"} |-> IF t \in off THEN "false" ELSE "true"]

Asking ==
  { [how |-> [how EXCEPT ![i] = h, ![j] = g],
     says |-> Says(off), type |-> "TEXT", pending |-> pending] :
      how \in { Plain, Bare }, i \in ToSet(FirstRound), j \in ToSet(SecondRound),
      h \in Late \cup {"text"}, g \in Late, pending \in BOOLEAN,
      off \in { {}, {"inBody"}, {"paramTest"}, {"bodyTest", "headerTest"} } }

Answering ==
  { [how |-> [Plain EXCEPT !["success"] = t, !["SUCCESS"] = s, !["FAILURE"] = f],
     says |-> Says(off \cup {"inBody"}), type |-> type, pending |-> pending] :
      t \in { "none", "xpath" }, s \in How, f \in { "none", "list" },
      off \in { {}, {"success"} }, type \in DataType, pending \in BOOLEAN }

MCConfigs ==
  { c \in Asking :
      /\ c.pending \/ \A i \in Item : c.how[i] # "xpath"
      /\ c.how["body"] = "none" => \A t \in Test : c.says[t] = "true" }
    \cup Answering
=============================================================================
