------------------------------- MODULE MCLog -------------------------------
(***************************************************************************)
(* A log at the top level of the response whose content waits for an       *)
(* answer.                                                                 *)
(***************************************************************************)
EXTENDS Transform

MCElem == 1..4

MCSheets ==
  { [ kind |-> <<"response", "log", "include", "text">>,
      up   |-> <<0, 1, 2, 1>>,
      slot |-> [e \in MCElem |-> "content"],
      ref  |-> [e \in MCElem |-> 0] ] }
=============================================================================
