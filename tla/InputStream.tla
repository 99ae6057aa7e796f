---------------------------- MODULE InputStream ----------------------------
(***************************************************************************)
(* What a request input (a querystring or a body) promises: it is given in *)
(* parts, and becomes a document made of all of them, or is refused.       *)
(*                                                                         *)
(* The parts are parsed as they come or later, but then all that have come *)
(* at once: the parser never gets a part twice, out of order or without    *)
(* the ones before it.  RequestInput is shown to implement this.           *)
(***************************************************************************)
EXTENDS Naturals, Sequences

CONSTANT Total   \* the number of parts, at least 1

VARIABLES
  given,   \* the parts given, in order
  parsed,  \* the parts the parser has got
  result   \* "pending", "document" or "failure"

vars == <<given, parsed, result>>

Init ==
  /\ given = <<>>
  /\ parsed = <<>>
  /\ result = "pending"

Give ==
  /\ Len(given) < Total
  /\ given' = Append(given, Len(given) + 1)

\* The parser gets all that has been given and not been parsed.
Parse ==
  /\ result = "pending"
  /\ parsed' = given'
  /\ parsed' # parsed
  /\ \/ result' = "failure"
     \/ /\ Len(parsed') = Total
        /\ result' = "document"
     \/ /\ Len(parsed') < Total
        /\ result' = "pending"

Next ==
  \/ Give /\ Parse
  \/ Give /\ UNCHANGED <<parsed, result>>
  \/ UNCHANGED given /\ Parse

Spec == Init /\ [][Next]_vars
=============================================================================
