---------------------------- MODULE MCScenarios ----------------------------
(***************************************************************************)
(* Requestsheets of seven elements, one for each way in which elements     *)
(* wait for one another, with every order and outcome of the answers to    *)
(* their subrequests, and all requestsheets of three elements.             *)
(***************************************************************************)
EXTENDS MCTransform

\* Includes beside and below one another, answered out of document order.
Includes == AsSheet(<<
  <<"response", 0, "content", 0>>,
    <<"copy", 1, "content", 0>>,
      <<"include", 2, "content", 0>>,
    <<"text", 1, "content", 0>>,
    <<"include", 1, "content", 0>>,
      <<"include", 5, "content", 0>>,
      <<"text", 5, "failure", 0>> >>)

\* A variable that waits for an include and has readers of every kind.
Readers == AsSheet(<<
  <<"variable", 0, "content", 0>>,
    <<"include", 1, "content", 0>>,
  <<"response", 0, "content", 0>>,
    <<"value-of", 3, "content", 1>>,
    <<"if", 3, "content", 1>>,
      <<"copy-of", 5, "content", 1>>,
    <<"include", 3, "content", 1>> >>)

\* A string made of a node list that waits.
Strings == AsSheet(<<
  <<"response", 0, "content", 0>>,
    <<"value-of", 1, "content", 0>>,
      <<"copy", 2, "value", 0>>,
        <<"include", 3, "content", 0>>,
      <<"text", 2, "value", 0>>,
    <<"value-of", 1, "content", 0>>,
      <<"include", 6, "value", 0>> >>)

\* An include whose address and whose result wait for other includes.
Addresses == AsSheet(<<
  <<"response", 0, "content", 0>>,
    <<"include", 1, "content", 0>>,
      <<"include", 2, "value", 0>>,
        <<"text", 3, "failure", 0>>,
      <<"include", 2, "content", 0>>,
      <<"text", 2, "content", 0>>,
    <<"text", 1, "content", 0>> >>)

\* Logs below a node of the response, with content that waits.
Logs == AsSheet(<<
  <<"response", 0, "content", 0>>,
    <<"copy", 1, "content", 0>>,
      <<"log", 2, "content", 0>>,
        <<"include", 3, "content", 0>>,
        <<"text", 3, "content", 0>>,
      <<"include", 2, "content", 0>>,
    <<"text", 1, "content", 0>> >>)

\* A variable that waits for a variable that waits, read from both.
Chains == AsSheet(<<
  <<"variable", 0, "content", 0>>,
    <<"include", 1, "content", 0>>,
  <<"variable", 0, "content", 1>>,
  <<"response", 0, "content", 0>>,
    <<"value-of", 4, "content", 3>>,
    <<"include", 4, "content", 3>>,
    <<"value-of", 4, "content", 1>> >>)

\* A local variable, and tests that hold or not.
Tests == AsSheet(<<
  <<"response", 0, "content", 0>>,
    <<"copy", 1, "content", 0>>,
      <<"variable", 2, "content", 0>>,
        <<"include", 3, "content", 0>>,
      <<"if", 2, "content", 3>>,
        <<"include", 5, "content", 0>>,
      <<"text", 2, "content", 0>> >>)

MCSheets ==
  { Includes, Readers, Strings, Addresses, Logs, Chains, Tests } \cup SmallSheets
=============================================================================
