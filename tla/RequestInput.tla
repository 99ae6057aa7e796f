---------------------------- MODULE RequestInput ----------------------------
(***************************************************************************)
(* The inputs of a request: the querystring and the body, each of which a  *)
(* requestsheet may bind to a variable (xrl:querystring, xrl:body).        *)
(*                                                                         *)
(* The data type an input is parsed as may be a name, known when the sheet *)
(* is compiled, or a node list that is transformed first; the node list    *)
(* may wait for a subrequest or for the querystring.  The parts of a body  *)
(* that come before its type is known are buffered.                        *)
(*                                                                         *)
(* The elements of a sheet are reduced to what they do to an input: one    *)
(* element makes the type, and one reads the variable (Transform has all   *)
(* of their calls).  The document of an input is its result: xrl:success   *)
(* and xrl:failure are left out.                                           *)
(***************************************************************************)
EXTENDS NodeQueue, FiniteSets

CONSTANTS
  Parts,    \* the number of parts of the body
  Configs   \* what the sheet says of the inputs

ASSUME PartsAssumption == Parts \in Nat \ {0}

Input == { "querystring", "body" }

(***************************************************************************)
(* What a sheet says of an input.                                          *)
(*   how   "none": there is no such element; "untyped": it names no type;  *)
(*         "static": it names one; "late": its type is a node list         *)
(*   type  the type that is named or that the node list comes to           *)
(*   from  what the node list is made from: "text" that is there, the      *)
(*         "answer" to a subrequest, or the "querystring" variable         *)
(***************************************************************************)
Type == { "XML", "TEXT", "QUERYSTRING" }   \* JSON is parsed like XML

Config ==
  { c \in [Input -> [how : {"none", "untyped", "static", "late"},
                     type : Type, from : {"text", "answer", "querystring"}]] :
      \A i \in Input : c[i].from = "querystring" =>
        i = "body" /\ c["querystring"].how # "none" }

ASSUME ConfigsAssumption == Configs \subseteq Config

VARIABLES
  config,
  count, tcb, main,  \* as in Transform
  stage,             \* xrltIncludeTransformingData.stage
  type, ctype,       \* xrltIncludeTransformingData.type and ctype
  querystring,       \* xrltContext.querystring: not set, as given or decoded
  bodyBuf,           \* xrltContext.bodyBuf: NULL or the parts it holds
  bodyBufComplete,   \* xrltContext.bodyBufComplete
  given, parsed,     \* the parts given, and the parts the parser has got
  parsedAs,          \* the type the parser was made for
  result,            \* what has become of the node "r"
  seen,              \* what the element that reads the variable has read
  asked, answered,   \* the subrequests pushed and answered, by input
  phase,             \* what the host gives next
  cur, running

queues == <<count, tcb, main>>
input == <<stage, type, ctype, parsed, parsedAs, result>>
buffers == <<querystring, bodyBuf, bodyBufComplete, given>>
sheet == <<seen, asked>>
host == <<config, answered, phase>>
vars == <<queues, input, buffers, sheet, host, cur, running>>
-----------------------------------------------------------------------------
(***************************************************************************)
(* The nodes of an input: the document its name stands for, the node "r"   *)
(* of that document, the node "t" its type waits on, the node "tmp" the    *)
(* type is made in, and the node of the element that reads the variable.   *)
(***************************************************************************)
Doc == <<"doc">>

Node == {Doc} \cup ({ "vdoc", "r", "t", "tmp", "reader" } \X Input)

Vdoc(i) == <<"vdoc", i>>
R(i) == <<"r", i>>
T(i) == <<"t", i>>
Tmp(i) == <<"tmp", i>>
Reader(i) == <<"reader", i>>

PathOf(n) ==
  CASE n = Doc -> <<Doc>>
    [] n # Doc /\ n[1] \in { "vdoc", "reader" } -> <<n, Doc>>
    [] n # Doc /\ n[1] = "r" -> <<n, Vdoc(n[2]), Doc>>
    [] n # Doc /\ n[1] = "t" -> <<n, R(n[2]), Vdoc(n[2]), Doc>>
    [] n # Doc /\ n[1] = "tmp" -> <<n, T(n[2]), R(n[2]), Vdoc(n[2]), Doc>>

(***************************************************************************)
(* The calls: of the element that makes a type, of xrltSetStringResult, of *)
(* xrltRequestInputTransform with an insert, of xrltIncludeTransform, and  *)
(* of the element that reads the variable.                                 *)
(***************************************************************************)
Call == { "element", "elementEnd", "string", "type", "result",
          "reader", "readerEnd" } \X Input

Rest == Tail(main)

Calls(c, i) == running /\ main # <<>> /\ Head(main) = <<c, i>>

Goes == UNCHANGED <<cur, running>>

Returns(status) == cur' = status /\ running' = FALSE

WaitsOn(n, c) ==
  /\ tcb' = Parked(tcb, n, c)
  /\ main' = Rest

\* COUNTER_DECREASE
Releases(n) ==
  /\ count' = Decreased(count, PathOf(n))
  /\ tcb' = Drained(count, tcb, PathOf(n))
  /\ main' = Joined(Rest, Moved(count, tcb, PathOf(n)))
-----------------------------------------------------------------------------
PartsOf(i) == IF i = "body" THEN Parts ELSE 1

\* What xrltProcessBody may make of parts parsed as t: a parser of XML may
\* refuse any of them, and the last ones end the document.
Outcomes(t, last) ==
  (IF t = "XML" THEN { "FAILURE" } ELSE {})
    \cup { IF last THEN "SUCCESS" ELSE "READ_RESPONSE" }

\* xrltProcessBody, and XRLT_REQUEST_INPUT_TRANSFORM_CASE: parts ps of input i
\* are parsed as t, with the outcome s; q is what the main queue holds.
ProcessBody(i, t, ps, s, q) ==
  /\ stage' = [stage EXCEPT ![i] = s]
  /\ parsed' = [parsed EXCEPT ![i] = @ \o ps]
  /\ parsedAs' = [parsedAs EXCEPT ![i] = t]
  /\ main' = IF s = "READ_RESPONSE" THEN q ELSE Append(q, <<"result", i>>)

\* Mutant: the querystring is kept as it was given, whatever it is parsed as.
DecodesNow_Never(i) == FALSE

\* The querystring is decoded when it is set, unless its parser will do it.
DecodesNow(i) ==
  /\ type[i] # "QUERYSTRING"
  /\ config[i].how # "none"

(***************************************************************************)
(* xrltTransform with the querystring.  It is always something to wait     *)
(* after, so the loop does not run.                                        *)
(***************************************************************************)
GiveQuerystring ==
  LET i == "querystring"
  IN /\ phase = "querystring"
     /\ querystring' = IF DecodesNow(i) THEN "decoded" ELSE "verbatim"
     /\ given' = [given EXCEPT ![i] = <<1>>]
     /\ \/ /\ stage[i] = "READ_RESPONSE"
           /\ \E s \in Outcomes(type[i], TRUE) :
                ProcessBody(i, type[i], <<1>>, s, main)
        \/ /\ stage[i] # "READ_RESPONSE"
           /\ UNCHANGED <<stage, parsed, parsedAs, main>>
     /\ phase' = "headers"
     /\ cur' = {"WAITING"}
     /\ UNCHANGED <<config, count, tcb, type, ctype, result, bodyBuf, bodyBufComplete,
                    sheet, answered, running>>

\* A request header: one more element below the node "h", and WAITING.
GiveHeader ==
  /\ phase = "headers"
  /\ phase' = "loop"
  /\ cur' = {"WAITING"}
  /\ UNCHANGED <<queues, input, buffers, sheet, config, answered, running>>

\* The parts of the body that the next part comes after.
NextPart == Len(given["body"]) + 1

\* Mutant: a part that comes before the type is known is parsed as XML.
Buffers_Never == FALSE

\* xrltProcessInput: the body is not to be parsed, yet or any more.
Buffers == stage["body"] # "READ_RESPONSE"

(***************************************************************************)
(* xrltTransform with a part of the body.  A part goes to the buffer if    *)
(* the body is not being read, also if it is this part that ended it.  The *)
(* host gives all parts, even after a refusal of one has led to DONE.      *)
(***************************************************************************)
GiveBody ==
  LET i == "body"
      last == NextPart = Parts
  IN /\ phase = "body"
     /\ ~ running
     /\ cur \cap { "WAITING", "DONE" } # {}
     /\ given' = [given EXCEPT ![i] = Append(@, NextPart)]
     /\ phase' = IF last THEN "end" ELSE "body"
     /\ \/ /\ Buffers
           /\ cur' = {"WAITING"}
           /\ UNCHANGED <<stage, parsed, parsedAs, main, running>>
        \/ /\ ~ Buffers
           /\ \E s \in Outcomes(type[i], last) :
                /\ ProcessBody(i, type[i], <<NextPart>>, s, main)
                /\ cur' = IF s = "READ_RESPONSE" THEN {"WAITING"} ELSE {}
                /\ running' = (s # "READ_RESPONSE")
     /\ IF stage'[i] # "READ_RESPONSE"
        THEN /\ bodyBuf' = Append(bodyBuf, NextPart)
             /\ bodyBufComplete' = last
        ELSE UNCHANGED <<bodyBuf, bodyBufComplete>>
     /\ UNCHANGED <<config, count, tcb, type, ctype, result, querystring, sheet,
                    answered>>

\* The subrequest a type waits for is answered, and the loop goes on.
Answer(i) ==
  /\ ~ running
  /\ i \in asked \ answered
  /\ answered' = answered \cup {i}
  /\ main' = Append(main, <<"elementEnd", i>>)
  /\ cur' = {}
  /\ running' = TRUE
  /\ UNCHANGED <<config, count, tcb, input, buffers, sheet, phase>>

(***************************************************************************)
(* xrltTransform with no value: when the headers have been given, and then *)
(* until the status says WAITING or DONE.                                  *)
(***************************************************************************)
Resume ==
  /\ ~ running
  /\ \/ phase = "loop"
     \/ phase \in { "body", "end" } /\ cur \cap { "WAITING", "DONE" } = {}
  /\ phase' = IF phase # "loop" THEN phase
              ELSE IF config["body"].how = "none" THEN "end" ELSE "body"
  /\ cur' = {}
  /\ running' = TRUE
  /\ UNCHANGED <<queues, input, buffers, sheet, config, answered>>
-----------------------------------------------------------------------------
\* Mutant: the document of an input is taken for its value at once.
Pending_Never(i) == FALSE

Pending(i) == count[Vdoc(i)] > 0

\* The element a late type is made from, called first ...
ElementFirst(i) ==
  /\ Calls("element", i)
  /\ \/ /\ config[i].from = "text"
        /\ main' = Rest
        /\ Goes
        /\ UNCHANGED <<count, tcb, asked>>
     \/ /\ config[i].from = "answer"
        /\ count' = Increased(count, PathOf(Tmp(i)))
        /\ main' = Rest
        /\ asked' = asked \cup {i}
        /\ Returns({"SUBREQUEST"})
        /\ UNCHANGED tcb
     \/ /\ config[i].from = "querystring"
        /\ IF Pending("querystring")
           THEN /\ count' = Increased(count, PathOf(Tmp(i)))
                /\ WaitsOn(Vdoc("querystring"), <<"elementEnd", i>>)
           ELSE /\ main' = Rest
                /\ UNCHANGED <<count, tcb>>
        /\ Goes
        /\ UNCHANGED asked
  /\ UNCHANGED <<input, buffers, seen, host>>

\* ... and when what it has waited for is there.
ElementEnd(i) ==
  /\ Calls("elementEnd", i)
  /\ Releases(Tmp(i))
  /\ Goes
  /\ UNCHANGED <<input, buffers, sheet, host>>

\* xrltSetStringResult of the type.
StringCall(i) ==
  /\ Calls("string", i)
  /\ \/ /\ count[Tmp(i)] > 0
        /\ WaitsOn(Tmp(i), Head(main))
        /\ UNCHANGED ctype
     \/ /\ count[Tmp(i)] = 0
        /\ ctype' = [ctype EXCEPT ![i] = config[i].type]
        /\ main' = Rest
        /\ UNCHANGED tcb
  /\ Goes
  /\ UNCHANGED <<count, stage, type, parsed, parsedAs, result, buffers, sheet, host>>

\* Mutant: a buffer that holds the last part is handed over as any other.
BufferedLast_Never == FALSE

\* tmp.last: the parts in the buffer are the last ones.
BufferedLast == bodyBufComplete

\* Mutant: what is in the buffer is lost when the type becomes known.
Buffered_Lost == <<>>

Buffered == bodyBuf

(***************************************************************************)
(* xrltRequestInputTransform with an insert: the type of a late input may  *)
(* be known, and then what has been given so far is parsed.                *)
(***************************************************************************)
TypeCall(i) ==
  LET path == PathOf(T(i))
      holds == count[T(i)] > 0
      joined == IF holds THEN Joined(Rest, Moved(count, tcb, path)) ELSE Rest
      drained == IF holds THEN Drained(count, tcb, path) ELSE tcb
      t == IF ctype[i] = "NULL" THEN type[i] ELSE ctype[i]
  IN /\ Calls("type", i)
     /\ count' = IF holds THEN Decreased(count, path) ELSE count
     /\ \/ /\ count'[T(i)] > 0
           /\ tcb' = Parked(drained, T(i), Head(main))
           /\ main' = joined
           /\ Goes
           /\ UNCHANGED <<stage, type, parsed, parsedAs, buffers>>
        \/ /\ count'[T(i)] = 0
           /\ i = "querystring"
           /\ tcb' = drained
           /\ type' = [type EXCEPT ![i] = t]
           /\ \E s \in Outcomes(t, TRUE) : ProcessBody(i, t, <<1>>, s, joined)
           /\ Goes
           /\ UNCHANGED buffers
        \/ /\ count'[T(i)] = 0
           /\ i = "body"
           /\ tcb' = drained
           /\ type' = [type EXCEPT ![i] = t]
           /\ IF Buffered = <<>>
              THEN /\ stage' = [stage EXCEPT ![i] = "READ_RESPONSE"]
                   /\ main' = joined
                   /\ Goes
                   /\ UNCHANGED <<parsed, parsedAs, buffers>>
              ELSE \E s \in Outcomes(t, BufferedLast) :
                     /\ ProcessBody(i, t, Buffered, s, joined)
                     /\ IF s = "READ_RESPONSE" THEN Returns({"WAITING"}) ELSE Goes
                     /\ bodyBuf' = <<>>
                     /\ bodyBufComplete' = FALSE
                     /\ UNCHANGED <<querystring, given>>
     /\ UNCHANGED <<ctype, result, sheet, host>>

\* What a stage of an input comes to: a document, or the failure of it.
Outcome(s) == CASE s = "SUCCESS" -> "document"
                [] s = "FAILURE" -> "failure"
                [] s \notin { "SUCCESS", "FAILURE" } -> "pending"

\* xrltIncludeTransform in SUCCESS or FAILURE, and so to its end.
ResultCall(i) ==
  /\ Calls("result", i)
  /\ result' = [result EXCEPT ![i] = Outcome(stage[i])]
  /\ stage' = [stage EXCEPT ![i] = "END"]
  /\ Releases(R(i))
  /\ Goes
  /\ UNCHANGED <<type, ctype, parsed, parsedAs, buffers, sheet, host>>

\* The element that reads the variable of an input: it waits ...
ReaderFirst(i) ==
  /\ Calls("reader", i)
  /\ \/ /\ Pending(i)
        /\ count' = Increased(count, PathOf(Reader(i)))
        /\ WaitsOn(Vdoc(i), <<"readerEnd", i>>)
        /\ UNCHANGED seen
     \/ /\ ~ Pending(i)
        /\ seen' = [seen EXCEPT ![i] = result[i]]
        /\ main' = Rest
        /\ UNCHANGED <<count, tcb>>
  /\ Goes
  /\ UNCHANGED <<input, buffers, asked, host>>

\* ... or not, and takes what is there.
ReaderEnd(i) ==
  /\ Calls("readerEnd", i)
  /\ seen' = [seen EXCEPT ![i] = result[i]]
  /\ Releases(Reader(i))
  /\ Goes
  /\ UNCHANGED <<input, buffers, asked, host>>

\* The loop of xrltTransform has run out of callbacks.
RunsOut ==
  /\ running
  /\ main = <<>>
  /\ Returns(IF count[Doc] = 0 THEN {"DONE"} ELSE {"WAITING"})
  /\ UNCHANGED <<queues, input, buffers, sheet, host>>
-----------------------------------------------------------------------------
\* The first call of xrltRequestInputTransform: the type of a late input is
\* made before anything of the sheet is called.
TypeCalls(C, i) ==
  IF C[i].how = "late"
  THEN << <<"element", i>>, <<"string", i>>, <<"type", i>> >>
  ELSE <<>>

ReaderCalls(C, i) == IF C[i].how # "none" THEN << <<"reader", i>> >> ELSE <<>>

Created(C) ==
  TypeCalls(C, "querystring") \o TypeCalls(C, "body")
    \o ReaderCalls(C, "querystring") \o ReaderCalls(C, "body")

\* The nodes that are not ready before the transformation begins.
Held(C, n) ==
  Cardinality({ i \in Input : C[i].how # "none" /\ n \in ToSet(PathOf(R(i))) })
    + Cardinality({ i \in Input : C[i].how = "late" /\ n \in ToSet(PathOf(T(i))) })

\* xrltContextCreate
Init ==
  /\ config \in Configs
  /\ count = [n \in Node |-> Held(config, n)]
  /\ tcb = [n \in Node |-> <<>>]
  /\ main = Created(config)
  /\ stage = [i \in Input |-> IF config[i].how = "static" THEN "READ_RESPONSE"
                                                          ELSE "PARAMS_BEGIN"]
  /\ type = [i \in Input |-> IF config[i].how = "static" THEN config[i].type
                                                         ELSE "XML"]
  /\ ctype = [i \in Input |-> "NULL"]
  /\ querystring = "unset"
  /\ bodyBuf = <<>>
  /\ bodyBufComplete = FALSE
  /\ given = [i \in Input |-> <<>>]
  /\ parsed = [i \in Input |-> <<>>]
  /\ parsedAs = [i \in Input |-> "none"]
  /\ result = [i \in Input |-> "pending"]
  /\ seen = [i \in Input |-> "nothing"]
  /\ asked = {}
  /\ answered = {}
  /\ phase = "querystring"
  /\ cur = {}
  /\ running = FALSE

Loop ==
  \/ RunsOut
  \/ \E i \in Input :
       \/ ElementFirst(i) \/ ElementEnd(i) \/ StringCall(i)
       \/ TypeCall(i) \/ ResultCall(i)
       \/ ReaderFirst(i) \/ ReaderEnd(i)

Gives == GiveQuerystring \/ GiveHeader \/ GiveBody

Next == Loop \/ Gives \/ Resume \/ \E i \in Input : Answer(i)

\* The loop ends, the host goes on, and every subrequest is answered.
Fairness ==
  /\ WF_vars(Loop)
  /\ WF_vars(Gives)
  /\ WF_vars(Resume)
  /\ \A i \in Input : WF_vars(Answer(i))

Spec == Init /\ [][Next]_vars

FairSpec == Spec /\ Fairness
-----------------------------------------------------------------------------
Stage == { "PARAMS_BEGIN", "READ_RESPONSE", "SUCCESS", "FAILURE", "END" }

TypeOK ==
  /\ config \in Configs
  /\ count \in [Node -> Nat]
  /\ tcb \in [Node -> Seq(Call)]
  /\ main \in Seq(Call)
  /\ stage \in [Input -> Stage]
  /\ type \in [Input -> Type]
  /\ ctype \in [Input -> Type \cup {"NULL"}]
  /\ querystring \in { "unset", "verbatim", "decoded" }
  /\ bodyBuf \in Seq(1..Parts)
  /\ bodyBufComplete \in BOOLEAN
  /\ given \in [Input -> Seq(1..Parts)]
  /\ parsed \in [Input -> Seq(1..Parts)]
  /\ parsedAs \in [Input -> Type \cup {"none"}]
  /\ result \in [Input -> {"pending", "document", "failure"}]
  /\ seen \in [Input -> {"nothing", "pending", "document", "failure"}]
  /\ answered \subseteq asked
  /\ asked \subseteq Input
  /\ phase \in { "querystring", "headers", "loop", "body", "end" }
  /\ cur \subseteq { "WAITING", "DONE", "SUBREQUEST" }
  /\ running \in BOOLEAN

(***************************************************************************)
(* An input is a stream that becomes one document, whenever its type       *)
(* becomes known (include.cc 1585-1611, 1617-1655).                        *)
(***************************************************************************)
OutcomeOf(i) ==
  IF stage[i] = "END" THEN result[i] ELSE Outcome(stage[i])

Querystring == INSTANCE InputStream
  WITH Total <- 1, given <- given["querystring"],
       parsed <- parsed["querystring"], result <- OutcomeOf("querystring")

Body == INSTANCE InputStream
  WITH Total <- Parts, given <- given["body"], parsed <- parsed["body"],
       result <- OutcomeOf("body")

\* Every part is parsed once, in order and with the ones before it.
InputsAreStreams == Querystring!Spec /\ Body!Spec

\* An input is parsed as the type the sheet gives it, never as the type it
\* has by default before that is known (include.cc 617-700, 1581-1585).
ParsedAsMeant ==
  \A i \in Input : parsedAs[i] # "none" => parsedAs[i] = config[i].type

(***************************************************************************)
(* The querystring is decoded once: as a whole when it is set, or by its   *)
(* parser piece by piece (include.cc 821-837).  One that turns out to be a *)
(* querystring only after it has been set is decoded twice.                *)
(***************************************************************************)
Decodings ==
  (IF querystring = "decoded" THEN 1 ELSE 0)
    + (IF parsedAs["querystring"] = "QUERYSTRING" THEN 1 ELSE 0)

LateQuerystring ==
  config["querystring"].how = "late" /\ config["querystring"].type = "QUERYSTRING"

DecodedOnce ==
  parsedAs["querystring"] # "none" /\ ~ LateQuerystring => Decodings = 1

\* Whoever reads the variable of an input reads its document, or the failure
\* of it, and not the empty document it is at first (include.cc 1507-1537).
ReadersSeeTheResult ==
  \A i \in Input : seen[i] # "nothing" => stage[i] = "END" /\ seen[i] = result[i]

(***************************************************************************)
(* Inputs whose element names no type are never ready: their first call    *)
(* leaves them in PARAMS_BEGIN with nothing scheduled (include.cc          *)
(* 1539-1560).  What follows is about the others.                          *)
(***************************************************************************)
Typed == \A i \in Input : config[i].how # "untyped"

\* DONE (xrlt.cc 563-565) is told when every input has been given, or refused
\* before, and has been parsed and read.
DoneIsComplete ==
  "DONE" \in cur =>
    /\ phase = "end" \/ result["body"] = "failure"
    /\ main = <<>>
    /\ \A n \in Node : count[n] = 0 /\ tcb[n] = <<>>
    /\ \A i \in Input : config[i].how # "none" =>
         stage[i] = "END" /\ seen[i] # "nothing"

\* If the host gives everything, the transformation comes to an end
\* (ngx_http_xrlt_module.c 641-654, 925-968).
EndsEventually == Typed => <>("DONE" \in cur)
=============================================================================
