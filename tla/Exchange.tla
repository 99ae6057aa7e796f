------------------------------ MODULE Exchange ------------------------------
(***************************************************************************)
(* What an include promises: the request its element means is sent once    *)
(* and as a whole, the answer is heard after that, and when the answer has *)
(* ended, one of the two contents of the element takes its place, once.    *)
(* Include is shown to implement this.                                     *)
(***************************************************************************)
VARIABLES
  sheet,    \* what the element means: its request and its test
  request,  \* what has been sent: <<>> or a request
  status,   \* the status of the answer: "none", "ok" or "bad"
  ended,    \* "no", "whole", or "broken": it was refused or came to an error
  result    \* the contents that have taken the place of the element

vars == <<sheet, request, status, ended, result>>

Init ==
  /\ request = <<>>
  /\ status = "none"
  /\ ended = "no"
  /\ result = {}

Ask ==
  /\ request = <<>>
  /\ request' = sheet.request
  /\ UNCHANGED <<sheet, status, ended, result>>

HearStatus ==
  /\ request # <<>>
  /\ ended = "no"
  /\ status' \in { "ok", "bad" }
  /\ UNCHANGED <<sheet, request, ended, result>>

HearEnd ==
  /\ request # <<>>
  /\ ended = "no"
  /\ ended' \in { "whole", "broken" }
  /\ UNCHANGED <<sheet, request, status, result>>

\* A whole answer is a success if the test says so, or without a test if its
\* status does.
Succeeds ==
  /\ ended = "whole"
  /\ IF sheet.test = "none" THEN status = "ok" ELSE sheet.test = "true"

Finish ==
  /\ ended # "no"
  /\ result = {}
  /\ result' = { IF Succeeds THEN "SUCCESS" ELSE "FAILURE" }
  /\ UNCHANGED <<sheet, request, status, ended>>

Next == Ask \/ HearStatus \/ HearEnd \/ Finish

Spec == Init /\ [][Next]_vars
=============================================================================
