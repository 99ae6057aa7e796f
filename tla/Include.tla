------------------------------ MODULE Include ------------------------------
(***************************************************************************)
(* One xrl:include from its first call to its end: two rounds of           *)
(* parameters, the subrequest, the answer as the host feeds it, the        *)
(* success test, and the content that takes the place of the element.      *)
(*                                                                         *)
(* Everything the include has to wait for is one variable of the sheet,    *)
(* bound to the answer of another subrequest, which may come at any time.  *)
(***************************************************************************)
EXTENDS NodeQueue, FiniteSets

CONSTANTS
  Parts,    \* how many parts an answer has before the last, at most
  Configs   \* what the sheet says of the include

ASSUME PartsAssumption == Parts \in Nat

(***************************************************************************)
(* The values of an include, in the order in which they are asked for.  A  *)
(* header or a parameter is one value: its name is asked for as its value  *)
(* is.  xrl:method is a value like xrl:href.                               *)
(***************************************************************************)
FirstRound == << "href", "type", "bodyTest", "headerTest", "paramTest" >>
SecondRound == << "header", "inBody", "param", "body" >>

Test == { "bodyTest", "headerTest", "paramTest", "success" }

Item == ToSet(FirstRound) \cup ToSet(SecondRound) \cup { "success", "SUCCESS", "FAILURE" }

\* The test a value of the second round depends on.
TestOf(i) ==
  CASE i = "header" -> "headerTest"
    [] i \in { "param", "inBody" } -> "paramTest"
    [] i = "body" -> "bodyTest"

(***************************************************************************)
(* What a sheet says of an include.                                        *)
(*   how      of each value: "none": it is not there; "text": it is known  *)
(*            when the sheet is compiled; "list": a node list with an      *)
(*            element that reads the variable; "xpath": an expression that *)
(*            does                                                         *)
(*   says     what the values come to that are not just some text          *)
(*   pending  the variable has no value yet                                *)
(* "success" is the test; "SUCCESS" and "FAILURE" are the contents.        *)
(***************************************************************************)
How == { "none", "text", "list", "xpath" }
DataType == { "XML", "JSON", "TEXT" }   \* a querystring is parsed like a text
Bool == { "true", "false" }

Config ==
  { c \in [how : [Item -> How],
           says : [Test \cup {"inBody"} -> Bool], type : DataType, pending : BOOLEAN] :
      /\ c.how["href"] # "none"
      /\ c.how["success"] \in { "none", "xpath" } }

ASSUME ConfigsAssumption == Configs \subseteq Config

VARIABLES
  config,
  count, tcb, main,  \* as in Transform
  stage,             \* xrltIncludeTransformingData.stage
  val,               \* the fields the values are stored in
  made,              \* the node lists and contents whose text is there
  icb,               \* the input callback of the subrequest is in its queue
  request,           \* what has been pushed to xrltContext.sr
  status,            \* xrltIncludeTransformingData.status, as 2xx and 3xx or not
  parsed,            \* the parts the parser has got
  ended,             \* how the answer ended (for Exchange)
  result,            \* the contents that have taken the place of the element
  refused, over,     \* refused and run_post_subrequest of the host's context
  cur, running

queues == <<count, tcb, main>>
values == <<val, made>>
subrequest == <<icb, request>>
answer == <<status, parsed, ended>>
host == <<config, refused, over>>
vars == <<queues, stage, values, subrequest, answer, result, host, cur, running>>
-----------------------------------------------------------------------------
(***************************************************************************)
(* The nodes: the variable's, the include's own "i", the node "p" of the   *)
(* parameters, "s" of the test and "tmp" of the result, and a "tmp" below  *)
(* "p" for every value that is a node list.                                *)
(***************************************************************************)
Doc == "doc"
Var == "var"
I == "i"
P == "p"
S == "s"
R == "r"

Tmp(i) == IF i \in { "SUCCESS", "FAILURE" } THEN R ELSE i

Node == { Doc, Var, I, P, S, R } \cup ToSet(FirstRound) \cup ToSet(SecondRound)

PathOf(n) ==
  CASE n = Doc -> <<Doc>>
    [] n \in { Var, I } -> <<n, Doc>>
    [] n \in { P, S, R } -> <<n, I, Doc>>
    [] n \notin { Doc, Var, I, P, S, R } -> <<n, P, I, Doc>>

\* The node a value is asked for on.
Asker(i) == IF i = "success" THEN S ELSE P

(***************************************************************************)
(* The calls: of xrltIncludeTransform, of the element in a node list, of   *)
(* xrltSetStringResult and xrltSetBooleanResult and their ByXPath forms,   *)
(* and of the element the variable is bound by.                            *)
(***************************************************************************)
Call == { <<c, "self">> : c \in { "first", "include", "variable" } }
          \cup { "element", "elementEnd", "string", "xpath" } \X Item

Self == <<"include", "self">>

Rest == Tail(main)

Calls(c, i) == running /\ main # <<>> /\ Head(main) = <<c, i>>

Goes == UNCHANGED <<cur, running>>

Returns(s) == cur' = s /\ running' = FALSE

\* What a value comes to.
Meaning(i) ==
  CASE i \in Test \cup {"inBody"} -> config.says[i]
    [] i = "type" -> config.type
    [] i \notin Test \cup {"inBody", "type"} -> i

\* xrltXPathEval finds every variable it needs.
VariableReady == count[Var] = 0

\* The values in the order in which they are asked for.
Values == FirstRound \o SecondRound

(***************************************************************************)
(* TRANSFORM_TO_STRING and TRANSFORM_TO_BOOLEAN of the values is, in the   *)
(* order above, on the node "p": a node list is scheduled, with the call   *)
(* that takes its text behind it, and an expression that waits keeps "p"   *)
(* from being ready.                                                       *)
(***************************************************************************)
Known(i) ==
  \/ config.how[i] = "text"
  \/ config.how[i] = "xpath" /\ VariableReady

Waiting(is) == { i \in is : config.how[i] = "xpath" /\ ~ VariableReady }

Lists(is) == { i \in is : config.how[i] = "list" }

AskedCount(is, C) ==
  [n \in Node |-> IF n \in ToSet(PathOf(P)) THEN C[n] + Cardinality(Waiting(is)) ELSE C[n]]

AskedTcb(is, T) ==
  [T EXCEPT ![Var] = @ \o
     FlattenSeq([k \in DOMAIN Values |->
                   IF Values[k] \in Waiting(is) THEN << <<"xpath", Values[k]>> >>
                                               ELSE <<>>])]

AskedMain(is) ==
  FlattenSeq([k \in DOMAIN Values |->
                IF Values[k] \in Lists(is)
                THEN << <<"element", Values[k]>>, <<"string", Values[k]>> >>
                ELSE <<>>])

AskedVal(is, V) ==
  [i \in Item |-> IF i \in is /\ Known(i) THEN Meaning(i) ELSE V[i]]
-----------------------------------------------------------------------------
\* xrltIncludeTransform, first called.
IncludeFirst ==
  /\ Calls("first", "self")
  /\ val' = AskedVal(ToSet(FirstRound),
              [i \in Item |-> IF i \in Test \ {"success"} /\ config.how[i] = "none"
                              THEN "true" ELSE val[i]])
  /\ count' = Increased(AskedCount(ToSet(FirstRound), Increased(count, PathOf(I))), PathOf(P))
  /\ tcb' = AskedTcb(ToSet(FirstRound), tcb)
  /\ main' = Rest \o AskedMain(ToSet(FirstRound)) \o <<Self>>
  /\ Goes
  /\ UNCHANGED <<stage, made, subrequest, answer, result, host>>

Wanted(i) == val[TestOf(i)] = "true"

\* XRLT_INCLUDE_TRANSFORM_PARAMS_BEGIN: "p" is released once, and when it is
\* ready the values whose tests hold are asked for.
ParamsBegin ==
  LET holds == count[P] > 0
      C == IF holds THEN Decreased(count, PathOf(P)) ELSE count
      T == IF holds THEN Drained(count, tcb, PathOf(P)) ELSE tcb
      M == IF holds THEN Joined(Rest, Moved(count, tcb, PathOf(P))) ELSE Rest
      is == { i \in ToSet(SecondRound) : Wanted(i) }
  IN /\ Calls("include", "self")
     /\ stage = "PARAMS_BEGIN"
     /\ IF C[P] > 0
        THEN /\ count' = C
             /\ tcb' = Parked(T, P, Self)
             /\ main' = M
             /\ UNCHANGED <<stage, val>>
        ELSE /\ stage' = "PARAMS_END"
             /\ val' = AskedVal(is, val)
             /\ count' = AskedCount(is, C)
             /\ tcb' = AskedTcb(is, T)
             /\ main' = M \o AskedMain(is) \o <<Self>>
     /\ Goes
     /\ UNCHANGED <<made, subrequest, answer, result, host>>

Has(i) == config.how[i] # "none" /\ Wanted(i)

\* The data type of the subrequest: XML if the sheet names none.
Type == IF val["type"] = "NULL" THEN "XML" ELSE val["type"]

\* The pass of xrltIncludeAddSubrequest that counts takes a parameter for one
\* of the body, whether the sheet says so or a value it has asked for.
CountedInBody == Has("param") /\ val["inBody"] = "true"

Contradicts == CountedInBody /\ val["body"] # "NULL"

\* The pass that writes knows only what the sheet says: it writes a parameter
\* that is computed to be of the body to the query, which has no buffer.
WritesToNull == CountedInBody /\ config.how["inBody"] # "text"

Request ==
  << val["href"], Type,
     IF Has("header") THEN val["header"] ELSE "none",
     IF Has("param") /\ ~ CountedInBody THEN val["param"] ELSE "none",
     IF CountedInBody THEN val["param"]
     ELSE IF val["body"] # "NULL" THEN val["body"] ELSE "none" >>

\* Mutant: "p" is not waited for again before the subrequest.
Incomplete_Never == FALSE

Incomplete == count[P] > 0

(***************************************************************************)
(* XRLT_INCLUDE_TRANSFORM_PARAMS_END with xrltIncludeAddSubrequest, whose  *)
(* result is not looked at: a body and parameters of the body together     *)
(* are no subrequest, and the include waits for its answer all the same.   *)
(***************************************************************************)
ParamsEnd ==
  /\ Calls("include", "self")
  /\ stage = "PARAMS_END"
  /\ IF Incomplete
     THEN /\ tcb' = Parked(tcb, P, Self)
          /\ Goes
          /\ UNCHANGED <<stage, subrequest>>
     ELSE /\ stage' = "READ_RESPONSE"
          /\ \/ /\ Contradicts
                /\ Goes
                /\ UNCHANGED subrequest
             \/ /\ ~ Contradicts
                /\ WritesToNull
                /\ Returns({"CRASH"})
                /\ UNCHANGED subrequest
             \/ /\ ~ Contradicts
                /\ ~ WritesToNull
                /\ icb' = TRUE
                /\ request' = Request
                /\ Returns({"SUBREQUEST"})
          /\ UNCHANGED tcb
  /\ main' = Rest
  /\ UNCHANGED <<count, values, answer, result, host>>
-----------------------------------------------------------------------------
\* XRLT_INCLUDE_TRANSFORM_END: the element is replaced by what "tmp" holds.
Ends(C, T, M, contents) ==
  /\ count' = Decreased(C, PathOf(I))
  /\ tcb' = Drained(C, T, PathOf(I))
  /\ main' = Joined(M, Moved(C, T, PathOf(I)))
  /\ stage' = "END"
  /\ result' = contents \cap { "SUCCESS", "FAILURE" }

(***************************************************************************)
(* XRLT_INCLUDE_TRANSFORM_SUCCESS and FAILURE, entered with no "tmp" yet.  *)
(* Without a content of its own the document of the answer stands for a    *)
(* success, and nothing for a failure.                                     *)
(***************************************************************************)
EntersBranch(s) ==
  \/ /\ config.how[s] = "none"
     /\ made' = made \cup {s}
     /\ Ends(count, tcb, Rest, made')
  \/ /\ config.how[s] = "text"
     /\ made' = made \cup {s}
     /\ stage' = "END"
     /\ main' = Append(Rest, Self)
     /\ UNCHANGED <<count, tcb, result>>
  \/ /\ config.how[s] = "list"
     /\ stage' = s
     /\ count' = Increased(count, PathOf(R))
     /\ main' = Rest \o << <<"element", s>>, Self >>
     /\ UNCHANGED <<tcb, made, result>>
  \/ /\ config.how[s] = "xpath"
     /\ stage' = s
     /\ main' = Append(Rest, Self)
     /\ IF VariableReady
        THEN /\ count' = Increased(count, PathOf(R))
             /\ made' = made \cup {s}
             /\ UNCHANGED tcb
        ELSE /\ count' = Increased(Increased(count, PathOf(R)), PathOf(R))
             /\ tcb' = Parked(tcb, Var, <<"elementEnd", s>>)
             /\ UNCHANGED made
     /\ UNCHANGED result

Branch(verdict) == IF verdict = "true" THEN "SUCCESS" ELSE "FAILURE"

\* XRLT_INCLUDE_TRANSFORM_SUCCESS_TEST_BEGIN
SuccessTestBegin ==
  /\ Calls("include", "self")
  /\ stage = "SUCCESS_TEST_BEGIN"
  /\ \/ /\ VariableReady
        /\ val' = [val EXCEPT !["success"] = Meaning("success")]
        /\ EntersBranch(Branch(val'["success"]))
     \/ /\ ~ VariableReady
        /\ count' = Increased(count, PathOf(S))
        /\ tcb' = Parked(Parked(tcb, Var, <<"xpath", "success">>), S, Self)
        /\ main' = Rest
        /\ stage' = "SUCCESS_TEST_END"
        /\ UNCHANGED <<values, result>>
  /\ Goes
  /\ UNCHANGED <<subrequest, answer, host>>

\* XRLT_INCLUDE_TRANSFORM_SUCCESS_TEST_END
SuccessTestEnd ==
  /\ Calls("include", "self")
  /\ stage = "SUCCESS_TEST_END"
  /\ EntersBranch(Branch(val["success"]))
  /\ Goes
  /\ UNCHANGED <<val, subrequest, answer, host>>

\* A branch, entered for the first time ...
BranchFirst ==
  /\ Calls("include", "self")
  /\ stage \in { "SUCCESS", "FAILURE" }
  /\ count[R] = 0
  /\ EntersBranch(stage)
  /\ Goes
  /\ UNCHANGED <<val, subrequest, answer, host>>

\* Mutant: what the content still waits for is left behind.
ContentUnready_Never(C) == FALSE

ContentUnready(C) == C[R] > 0

\* ... and again, with its content under way or made.
BranchAgain ==
  LET C == Decreased(count, PathOf(R))
      T == Drained(count, tcb, PathOf(R))
      M == Joined(Rest, Moved(count, tcb, PathOf(R)))
  IN /\ Calls("include", "self")
     /\ stage \in { "SUCCESS", "FAILURE" }
     /\ count[R] > 0
     /\ \/ /\ ContentUnready(C)
           /\ stage' = "END"
           /\ count' = C
           /\ tcb' = Parked(T, R, Self)
           /\ main' = M
           /\ UNCHANGED result
        \/ /\ ~ ContentUnready(C)
           /\ Ends(C, T, M, made)
     /\ Goes
     /\ UNCHANGED <<values, subrequest, answer, host>>

IncludeEnd ==
  /\ Calls("include", "self")
  /\ stage = "END"
  /\ Ends(count, tcb, Rest, made)
  /\ Goes
  /\ UNCHANGED <<values, subrequest, answer, host>>
-----------------------------------------------------------------------------
\* The element in a node list: it reads the variable, or waits to.
Element(i) ==
  /\ Calls("element", i)
  /\ main' = Rest
  /\ \/ /\ VariableReady
        /\ made' = made \cup {i}
        /\ UNCHANGED <<count, tcb>>
     \/ /\ ~ VariableReady
        /\ count' = Increased(count, PathOf(Tmp(i)))
        /\ tcb' = Parked(tcb, Var, <<"elementEnd", i>>)
        /\ UNCHANGED made
  /\ Goes
  /\ UNCHANGED <<stage, val, subrequest, answer, result, host>>

\* COUNTER_DECREASE
Releases(n) ==
  /\ count' = Decreased(count, PathOf(n))
  /\ tcb' = Drained(count, tcb, PathOf(n))
  /\ main' = Joined(Rest, Moved(count, tcb, PathOf(n)))

\* The element, or xrltTransformByXPath for a content, called again.
ElementEnd(i) ==
  /\ Calls("elementEnd", i)
  /\ made' = made \cup {i}
  /\ Releases(Tmp(i))
  /\ Goes
  /\ UNCHANGED <<stage, val, subrequest, answer, result, host>>

\* xrltSetStringResult and xrltSetBooleanResult
StringCall(i) ==
  /\ Calls("string", i)
  /\ \/ /\ count[Tmp(i)] > 0
        /\ tcb' = Parked(tcb, Tmp(i), Head(main))
        /\ UNCHANGED val
     \/ /\ count[Tmp(i)] = 0
        /\ val' = [val EXCEPT ![i] = IF i \in made THEN Meaning(i) ELSE "empty"]
        /\ UNCHANGED tcb
  /\ main' = Rest
  /\ Goes
  /\ UNCHANGED <<count, stage, made, subrequest, answer, result, host>>

\* xrltSetStringResultByXPath and xrltSetBooleanResultByXPath, called again:
\* the one variable there is has a value now, and keeps it.
XPathCall(i) ==
  /\ Calls("xpath", i)
  /\ val' = [val EXCEPT ![i] = Meaning(i)]
  /\ Releases(Asker(i))
  /\ Goes
  /\ UNCHANGED <<stage, made, subrequest, answer, result, host>>

\* The include the variable is bound to ends.
VariableEnd ==
  /\ Calls("variable", "self")
  /\ Releases(Var)
  /\ Goes
  /\ UNCHANGED <<stage, values, subrequest, answer, result, host>>

\* The loop of xrltTransform has run out of callbacks.
RunsOut ==
  /\ running
  /\ main = <<>>
  /\ Returns(IF count[Doc] = 0 THEN {"DONE"} ELSE {"WAITING"})
  /\ UNCHANGED <<queues, stage, values, subrequest, answer, result, host>>
-----------------------------------------------------------------------------
\* The host calls xrltTransform with no value until it has to wait.
Resume ==
  /\ ~ running
  /\ cur \cap { "WAITING", "DONE", "ERROR", "CRASH" } = {}
  /\ cur' = {}
  /\ running' = TRUE
  /\ UNCHANGED <<queues, stage, values, subrequest, answer, result, host>>

HostWaits == ~ running /\ cur \cap { "WAITING", "DONE" } # {}

\* The last of the answer the variable is bound to.
AnswerVariable ==
  /\ HostWaits
  /\ ~ VariableReady
  /\ main' = << <<"variable", "self">> >>
  /\ cur' = {}
  /\ running' = TRUE
  /\ UNCHANGED <<count, tcb, stage, values, subrequest, answer, result, host>>

\* Mutant: the host goes on with a subrequest that has been refused.
Stopped_Never == FALSE

Stopped == refused

\* The filters of a subrequest and its post-subrequest handler.
HostGives == HostWaits /\ request # <<>> /\ ~ Stopped /\ ~ over

\* The stage the last part of an answer leads to.
AfterLast ==
  IF config.how["success"] = "xpath" THEN "SUCCESS_TEST_BEGIN"
  ELSE IF status = "ok" THEN "SUCCESS" ELSE "FAILURE"

(***************************************************************************)
(* What the parser may make of a part.  A parser of XML is made with the   *)
(* first part and does not look at it before the next one; one of JSON has *)
(* no end to look at; a text is a text.                                    *)
(***************************************************************************)
Outcomes(last) ==
  (IF last THEN {"whole"} ELSE {"again"})
    \cup (IF Type = "JSON" \/ (Type = "XML" /\ (last \/ parsed > 0))
          THEN {"refuse"} ELSE {})
    \cup (IF Type = "XML" /\ last THEN {"ill-formed"} ELSE {})

\* The status of the answer, or a header of it, which changes nothing else.
GiveStatus ==
  /\ HostGives
  /\ status = "none"
  /\ parsed = 0
  /\ IF stage = "READ_RESPONSE"
     THEN status' \in { "ok", "bad" } /\ cur' = {"WAITING"}
     ELSE cur' = {"ERROR"} /\ UNCHANGED status
  /\ UNCHANGED <<queues, stage, values, subrequest, parsed, ended, result, host, running>>

\* xrltIncludeInputFunc with a part of the body, and what the parser makes of it.
Fed(o) ==
  /\ parsed' = parsed + 1
  /\ \/ /\ o = "again"
        /\ cur' = {"WAITING"}
        /\ UNCHANGED <<main, stage, ended, refused, running>>
     \/ /\ o = "refuse"
        /\ stage' = "FAILURE"
        /\ main' = Append(main, Self)
        /\ cur' = {"REFUSE_SUBREQUEST"}
        /\ ended' = "broken"
        /\ refused' = TRUE
        /\ UNCHANGED running
     \/ /\ o \in { "whole", "ill-formed" }
        /\ stage' = IF o = "whole" THEN AfterLast ELSE "FAILURE"
        /\ main' = Append(main, Self)
        /\ ended' = IF o = "whole" THEN "whole" ELSE "broken"
        /\ cur' = {}
        /\ running' = TRUE
        /\ UNCHANGED refused

\* ... which no stage but one expects.
Body(last) ==
  /\ IF stage = "READ_RESPONSE"
     THEN /\ \E o \in Outcomes(last) : Fed(o)
          /\ icb' = (icb /\ ~ last)
     ELSE /\ cur' = {"ERROR"}
          /\ UNCHANGED <<main, stage, icb, parsed, ended, refused, running>>
  /\ UNCHANGED <<count, tcb, values, request, status, result, config>>

\* The body filter: no part it gives is the last one.
GivePart ==
  /\ HostGives
  /\ parsed < Parts
  /\ Body(FALSE)
  /\ UNCHANGED over

\* The post-subrequest handler, after a subrequest that has come to its end ...
GiveLast ==
  /\ HostGives
  /\ Body(TRUE)
  /\ over' = TRUE

\* ... or to an error, in any stage.
GiveError ==
  /\ HostGives
  /\ stage' = "FAILURE"
  /\ main' = Append(main, Self)
  /\ cur' = {"REFUSE_SUBREQUEST"}
  /\ ended' = "broken"
  /\ refused' = TRUE
  /\ over' = TRUE
  /\ UNCHANGED <<count, tcb, values, subrequest, status, parsed, result, config, running>>
-----------------------------------------------------------------------------
Init ==
  /\ config \in Configs
  /\ count = [n \in Node |-> IF config.pending /\ n \in { Var, Doc } THEN 1 ELSE 0]
  /\ tcb = [n \in Node |-> <<>>]
  /\ main = << <<"first", "self">> >>
  /\ stage = "PARAMS_BEGIN"
  /\ val = [i \in Item |-> IF i \in Test THEN "false" ELSE "NULL"]
  /\ made = {}
  /\ icb = FALSE
  /\ request = <<>>
  /\ status = "none"
  /\ parsed = 0
  /\ ended = "no"
  /\ result = {}
  /\ refused = FALSE
  /\ over = FALSE
  /\ cur = {}
  /\ running = FALSE

IncludeCall ==
  \/ IncludeFirst \/ ParamsBegin \/ ParamsEnd
  \/ SuccessTestBegin \/ SuccessTestEnd
  \/ BranchFirst \/ BranchAgain \/ IncludeEnd

Loop ==
  \/ IncludeCall \/ VariableEnd \/ RunsOut
  \/ \E i \in Item : Element(i) \/ ElementEnd(i) \/ StringCall(i) \/ XPathCall(i)

Gives == GiveStatus \/ GivePart \/ GiveLast \/ GiveError

Next == Loop \/ Resume \/ AnswerVariable \/ Gives

\* The loop ends, the host calls again, and nginx ends every subrequest.
Fairness ==
  /\ WF_vars(Loop)
  /\ WF_vars(Resume)
  /\ WF_vars(AnswerVariable)
  /\ WF_vars(GiveLast \/ GiveError)

Spec == Init /\ [][Next]_vars

FairSpec == Spec /\ Fairness
-----------------------------------------------------------------------------
Stage == { "PARAMS_BEGIN", "PARAMS_END", "READ_RESPONSE", "SUCCESS_TEST_BEGIN",
           "SUCCESS_TEST_END", "SUCCESS", "FAILURE", "END" }

TypeOK ==
  /\ config \in Config
  /\ count \in [Node -> Nat]
  /\ tcb \in [Node -> Seq(Call)]
  /\ main \in Seq(Call)
  /\ stage \in Stage
  /\ \A i \in Item : val[i] \in {Meaning(i), "NULL", "empty"} \cup Bool
  /\ made \subseteq Item
  /\ icb \in BOOLEAN
  /\ request = <<>> \/ Len(request) = 5
  /\ status \in { "none", "ok", "bad" }
  /\ parsed \in 0..(Parts + 1)
  /\ ended \in { "no", "whole", "broken" }
  /\ result \subseteq { "SUCCESS", "FAILURE" }
  /\ refused \in BOOLEAN
  /\ over \in BOOLEAN
  /\ cur \subseteq { "WAITING", "DONE", "SUBREQUEST", "REFUSE_SUBREQUEST",
                     "ERROR", "CRASH" }
  /\ running \in BOOLEAN

(***************************************************************************)
(* What the sheet means, from the sheet alone: a value is part of the      *)
(* request if it is there and its test, if it has one, holds.              *)
(***************************************************************************)
Means(i) ==
  /\ config.how[i] # "none"
  /\ config.how[TestOf(i)] = "none" \/ config.says[TestOf(i)] = "true"

MeantInBody == Means("param") /\ Means("inBody") /\ config.says["inBody"] = "true"

\* A request cannot have a body and parameters of the body as well.
Contradictory == MeantInBody /\ Means("body")

MeantRequest ==
  IF Contradictory THEN <<>>
  ELSE << "href",
          IF config.how["type"] = "none" THEN "XML" ELSE config.type,
          IF Means("header") THEN "header" ELSE "none",
          IF Means("param") /\ ~ MeantInBody THEN "param" ELSE "none",
          IF MeantInBody THEN "param"
          ELSE IF Means("body") THEN "body" ELSE "none" >>

MeantTest ==
  IF config.how["success"] = "none" THEN "none" ELSE config.says["success"]

E == INSTANCE Exchange WITH sheet <- [request |-> MeantRequest, test |-> MeantTest]

(***************************************************************************)
(* An include is an exchange: the request is sent once, with every value   *)
(* its tests call for and no other, whole; nothing is heard before; and    *)
(* the content that takes its place is the one the answer calls for, put   *)
(* there once, when it is made (include.cc 1068-1471, 612-910).            *)
(***************************************************************************)
IsAnExchange == E!Spec

(***************************************************************************)
(* "Can't have request body and body parameters at the same time"          *)
(* (include.cc 973-980) is an error of the transformation: nobody is left  *)
(* waiting for the answer to a subrequest that has not been sent.          *)
(***************************************************************************)
UnsentIsNotAwaited == "WAITING" \in cur => ~ VariableReady \/ (icb /\ ~ over)

(***************************************************************************)
(* DONE (xrlt.cc 563-565) is told when the include has been replaced, no   *)
(* node is held, nothing is queued, and the answer has ended.              *)
(***************************************************************************)
DoneIsComplete ==
  "DONE" \in cur =>
    /\ result # {}
    /\ ended # "no"
    /\ main = <<>>
    /\ \A n \in Node : count[n] = 0 /\ tcb[n] = <<>>

\* Computed to be a parameter of the body: see WritesToNull.
ComputedInBody == MeantInBody /\ config.how["inBody"] # "text"

\* If every subrequest ends, the transformation does, whatever the answer.
EndsEventually == ~ Contradictory /\ ~ ComputedInBody => <>("DONE" \in cur)
=============================================================================
