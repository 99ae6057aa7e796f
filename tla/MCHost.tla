------------------------------- MODULE MCHost -------------------------------
(***************************************************************************)
(* All responses of three elements.                                        *)
(***************************************************************************)
EXTENDS Host

Top ==
  { e \in Element : e.kind = "text" => ~ e.guard /\ e.shown }

MCSheets == [1..3 -> Top]
=============================================================================
