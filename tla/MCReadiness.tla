---------------------------- MODULE MCReadiness ----------------------------
(***************************************************************************)
(* Two leaves under an element under the document, as "tmp" and "v-o" lie  *)
(* under the response.                                                     *)
(***************************************************************************)
EXTENDS Readiness, TLC

CONSTANTS doc, elem, tmp, sib

MCNode == {doc, elem, tmp, sib}

MCPath == ( doc  :> <<doc>>
         @@ elem :> <<elem, doc>>
         @@ tmp  :> <<tmp, elem, doc>>
         @@ sib  :> <<sib, elem, doc>> )
=============================================================================
