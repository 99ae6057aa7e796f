------------------------ MODULE RequestInput_proofs ------------------------
(***************************************************************************)
(* A querystring and a body are streams, for bodies of any number of parts *)
(* and for every sheet.                                                    *)
(*                                                                         *)
(* What the parser has got is what has been given, whenever it is at work, *)
(* because the parts that come before are in the buffer.  It begins once,  *)
(* because the call that begins it is in one queue once and is left on a   *)
(* node only before; and its outcome is taken once, for the same reason.   *)
(***************************************************************************)
EXTENDS RequestInput, NodeQueue_proofs, FiniteSetTheorems

Queued == InQueues(main, tcb)

\* Where the host is tells what it has given.
HostInStep ==
  /\ given["querystring"] = IF phase = "querystring" THEN <<>> ELSE <<1>>
  /\ Len(given["body"]) <= Parts
  /\ phase = "body" => Len(given["body"]) < Parts
  /\ phase \in { "querystring", "headers", "loop" } => given["body"] = <<>>
  /\ phase \in { "querystring", "headers" } => ~ running /\ asked = {}

\* No call is scheduled again while it is queued, and those that begin the
\* parser and take its result are queued only when it is time for that.
CallsInStep(i) ==
  /\ <<"element", i>> \in Queued => <<"elementEnd", i>> \notin Queued /\ i \notin asked
  /\ i \in asked \ answered => <<"elementEnd", i>> \notin Queued
  /\ <<"reader", i>> \in Queued => <<"readerEnd", i>> \notin Queued
  /\ <<"type", i>> \in Queued => stage[i] = "PARAMS_BEGIN"
  /\ <<"result", i>> \in Queued => stage[i] \in { "SUCCESS", "FAILURE" }

\* What has been given is either in the buffer or parsed.
StageInStep(i) ==
  /\ stage[i] = "PARAMS_BEGIN" => parsed[i] = <<>>
  /\ stage[i] = "PARAMS_BEGIN" /\ i = "body" =>
       /\ bodyBuf = given[i]
       /\ bodyBufComplete = (Len(given[i]) = Parts)
  /\ stage[i] = "READ_RESPONSE" => parsed[i] = given[i]

IInv ==
  /\ TypeOK
  /\ QueuesApart(main, tcb)
  /\ HostInStep
  /\ \A i \in Input : CallsInStep(i) /\ StageInStep(i)
-----------------------------------------------------------------------------
(***************************************************************************)
(* The nodes, and what the loop does to the queues.                        *)
(***************************************************************************)
LEMMA NodesOfInputs ==
  ASSUME NEW i \in Input
  PROVE  /\ Doc \in Node /\ Vdoc(i) \in Node /\ R(i) \in Node /\ T(i) \in Node
         /\ Tmp(i) \in Node /\ Reader(i) \in Node
BY DEF Node, Doc, Vdoc, R, T, Tmp, Reader

\* The walks meet no node twice.
LEMMA Walks ==
  ASSUME NEW i \in Input, NEW n \in { R(i), T(i), Tmp(i), Reader(i) }
  PROVE  PathOf(n) \in Seq(Node) /\ IsInjective(PathOf(n))
<1>1. \A k \in {"vdoc", "r", "t", "tmp", "reader"} : <<k, i>> # Doc
  BY DEF Doc
<1>2. CASE n = R(i)
  <2>1. PathOf(n) = <<R(i), Vdoc(i), Doc>>
    BY <1>1, <1>2 DEF PathOf, R
  <2> QED BY <1>1, <2>1, NodesOfInputs DEF IsInjective, R, Vdoc
<1>3. CASE n = T(i)
  <2>1. PathOf(n) = <<T(i), R(i), Vdoc(i), Doc>>
    BY <1>1, <1>3 DEF PathOf, T
  <2> QED BY <1>1, <2>1, NodesOfInputs DEF IsInjective, T, R, Vdoc
<1>4. CASE n = Tmp(i)
  <2>1. PathOf(n) = <<Tmp(i), T(i), R(i), Vdoc(i), Doc>>
    BY <1>1, <1>4 DEF PathOf, Tmp
  <2> QED BY SMTT(30), <1>1, <2>1, NodesOfInputs DEF IsInjective, Tmp, T, R, Vdoc
<1>5. CASE n = Reader(i)
  <2>1. PathOf(n) = <<Reader(i), Doc>>
    BY <1>1, <1>5 DEF PathOf, Reader
  <2> QED BY <1>1, <2>1, NodesOfInputs DEF IsInjective, Reader
<1> QED BY <1>2, <1>3, <1>4, <1>5

LEMMA QueueTypes ==
  ASSUME TypeOK
  PROVE  /\ count \in [Node -> Nat]
         /\ tcb \in [Node -> Seq(Call)]
         /\ main \in Seq(Call)
BY DEF TypeOK

\* The call that is made has left the queues.
LEMMA CallTaken ==
  ASSUME IInv, NEW c, NEW i \in Input, Calls(c, i)
  PROVE  /\ Head(main) = <<c, i>> /\ <<c, i>> \in Queued /\ <<c, i>> \in Call
         /\ Rest \in Seq(Call)
         /\ QueuesApart(Rest, tcb)
         /\ InQueues(Rest, tcb) = Queued \ {<<c, i>>}
         /\ phase \notin { "querystring", "headers" }
<1>1. /\ main # <<>> /\ Head(main) = <<c, i>> /\ running
      /\ main \in Seq(Call) /\ tcb \in [Node -> Seq(Call)]
      /\ QueuesApart(main, tcb) /\ HostInStep
  BY QueueTypes DEF Calls, IInv
<1>2. Head(main) \in ToSet(main) /\ Head(main) \in Call
  BY <1>1, Popped DEF QueuesApart
<1>3. <<c, i>> \in Queued
  BY <1>1, <1>2 DEF Queued, InQueues
<1>4. phase \notin { "querystring", "headers" }
  BY <1>1 DEF HostInStep
<1> QED BY SMTT(30), <1>1, <1>2, <1>3, <1>4, RunApart DEF Rest, Queued

\* What a decrease makes of the queues.
LEMMA Decreases ==
  ASSUME TypeOK, NEW i \in Input, NEW n \in { R(i), T(i), Tmp(i), Reader(i) },
         NEW q \in Seq(Call), QueuesApart(q, tcb)
  PROVE  /\ Decreased(count, PathOf(n)) \in [Node -> Nat]
         /\ Drained(count, tcb, PathOf(n)) \in [Node -> Seq(Call)]
         /\ Joined(q, Moved(count, tcb, PathOf(n))) \in Seq(Call)
         /\ QueuesApart(Joined(q, Moved(count, tcb, PathOf(n))),
                        Drained(count, tcb, PathOf(n)))
         /\ InQueues(Joined(q, Moved(count, tcb, PathOf(n))),
                     Drained(count, tcb, PathOf(n))) \subseteq InQueues(q, tcb)
<1>1. PathOf(n) \in Seq(Node) /\ IsInjective(PathOf(n))
  BY Walks
<1>2. /\ count \in [Node -> Nat] /\ tcb \in [Node -> Seq(Call)]
  BY QueueTypes
<1> QED BY <1>1, <1>2, DecreaseApart

\* A call that is not queued may be scheduled, or left on a node.
LEMMA Schedules ==
  ASSUME NEW t \in [Node -> Seq(Call)], NEW q \in Seq(Call), NEW c \in Call,
         c \notin InQueues(q, t), QueuesApart(q, t)
  PROVE  /\ Append(q, c) \in Seq(Call)
         /\ QueuesApart(Append(q, c), t)
         /\ InQueues(Append(q, c), t) = InQueues(q, t) \cup {c}
BY ScheduleApart

LEMMA Parks ==
  ASSUME NEW t \in [Node -> Seq(Call)], NEW q \in Seq(Call), NEW c \in Call,
         NEW n \in Node, c \notin InQueues(q, t), QueuesApart(q, t)
  PROVE  /\ Parked(t, n, c) \in [Node -> Seq(Call)]
         /\ QueuesApart(q, Parked(t, n, c))
         /\ InQueues(q, Parked(t, n, c)) = InQueues(q, t) \cup {c}
BY ParkApart

LEMMA TypeOfConfig ==
  ASSUME TypeOK, NEW i \in Input
  PROVE  config[i].type \in Type
<1>1. config \in [Input -> [how : {"none", "untyped", "static", "late"},
                           type : Type, from : {"text", "answer", "querystring"}]]
  BY ConfigsAssumption DEF TypeOK, Config
<1>2. config[i] \in [how : {"none", "untyped", "static", "late"},
                    type : Type, from : {"text", "answer", "querystring"}]
  BY <1>1
<1> QED BY <1>2

LEMMA IncreaseType ==
  ASSUME TypeOK, NEW path
  PROVE  Increased(count, path) \in [Node -> Nat]
BY QueueTypes DEF Increased
-----------------------------------------------------------------------------
(***************************************************************************)
(* A step of a stream, seen from an input.                                 *)
(***************************************************************************)
GivesPart(i) ==
  /\ Len(given[i]) < PartsOf(i)
  /\ given'[i] = Append(given[i], Len(given[i]) + 1)

ParsesRest(i) ==
  /\ OutcomeOf(i) = "pending"
  /\ parsed'[i] = given'[i]
  /\ parsed'[i] # parsed[i]
  /\ \/ OutcomeOf(i)' = "failure"
     \/ Len(parsed'[i]) = PartsOf(i) /\ OutcomeOf(i)' = "document"
     \/ Len(parsed'[i]) < PartsOf(i) /\ OutcomeOf(i)' = "pending"

Rests(i) == parsed'[i] = parsed[i] /\ OutcomeOf(i)' = OutcomeOf(i)

StreamStep(i) ==
  \/ GivesPart(i) /\ ParsesRest(i)
  \/ GivesPart(i) /\ Rests(i)
  \/ given'[i] = given[i] /\ ParsesRest(i)
  \/ given'[i] = given[i] /\ Rests(i)

LEMMA StreamSteps ==
  ASSUME \A i \in Input : StreamStep(i)
  PROVE  /\ [Querystring!Next]_(Querystring!vars)
         /\ [Body!Next]_(Body!vars)
<1>1. StreamStep("querystring") => [Querystring!Next]_(Querystring!vars)
  BY DEF StreamStep, GivesPart, ParsesRest, Rests, PartsOf, Querystring!Next,
         Querystring!vars, Querystring!Give, Querystring!Parse
<1>2. StreamStep("body") => [Body!Next]_(Body!vars)
  BY DEF StreamStep, GivesPart, ParsesRest, Rests, PartsOf, Body!Next,
         Body!vars, Body!Give, Body!Parse
<1> QED BY <1>1, <1>2 DEF Input

LEMMA StreamRests ==
  ASSUME NEW i \in Input,
         given'[i] = given[i], parsed'[i] = parsed[i],
         stage'[i] = stage[i], result'[i] = result[i]
  PROVE  StreamStep(i)
BY DEF StreamStep, Rests, OutcomeOf
-----------------------------------------------------------------------------
(***************************************************************************)
(* Every step keeps the invariant and is a step of both streams.  First    *)
(* the steps that leave the queues alone.                                  *)
(***************************************************************************)
Kept == IInv' /\ \A j \in Input : StreamStep(j)

\* What the calls of the sheet leave alone: the input, and what the host does.
LEMMA InputsRest ==
  ASSUME IInv, TypeOK', QueuesApart(main, tcb)',
         UNCHANGED <<given, parsed, stage, result, bodyBuf, bodyBufComplete, phase>>,
         \A j \in Input : CallsInStep(j)',
         HostInStep'
  PROVE  Kept
<1>1. \A j \in Input : StageInStep(j)'
  BY DEF IInv, StageInStep
<1>2. \A j \in Input : StreamStep(j)
  BY StreamRests
<1> QED BY <1>1, <1>2 DEF Kept, IInv

LEMMA GiveHeaderKeeps == IInv /\ GiveHeader => Kept
<1> SUFFICES ASSUME IInv, GiveHeader PROVE Kept
  OBVIOUS
<1>1. TypeOK'
  BY DEF IInv, TypeOK, GiveHeader, queues, input, buffers, sheet
<1>2. QueuesApart(main, tcb)' /\ Queued' = Queued
  BY DEF IInv, GiveHeader, queues, Queued
<1>3. \A j \in Input : CallsInStep(j)' /\ StageInStep(j)'
  BY ZenonT(30), <1>2 DEF IInv, GiveHeader, CallsInStep, StageInStep, input, buffers, sheet
<1>4. HostInStep'
  BY DEF IInv, GiveHeader, HostInStep, buffers, sheet
<1>5. \A j \in Input : StreamStep(j)
  BY StreamRests DEF GiveHeader, input, buffers
<1> QED BY <1>1, <1>2, <1>3, <1>4, <1>5 DEF Kept, IInv

LEMMA ResumeKeeps == IInv /\ Resume => Kept
<1> SUFFICES ASSUME IInv, Resume PROVE Kept
  OBVIOUS
<1>1. TypeOK'
  BY DEF IInv, TypeOK, Resume, queues, input, buffers, sheet
<1>2. QueuesApart(main, tcb)' /\ Queued' = Queued
  BY DEF IInv, Resume, queues, Queued
<1>3. \A j \in Input : CallsInStep(j)' /\ StageInStep(j)'
  BY ZenonT(30), <1>2 DEF IInv, Resume, CallsInStep, StageInStep, input, buffers, sheet
<1>4. HostInStep'
  BY PartsAssumption DEF IInv, Resume, HostInStep, buffers, sheet
<1>5. \A j \in Input : StreamStep(j)
  BY StreamRests DEF Resume, input, buffers
<1> QED BY <1>1, <1>2, <1>3, <1>4, <1>5 DEF Kept, IInv

LEMMA RunsOutKeeps == IInv /\ RunsOut => Kept
<1> SUFFICES ASSUME IInv, RunsOut PROVE Kept
  OBVIOUS
<1>1. TypeOK'
  BY DEF IInv, TypeOK, RunsOut, Returns, queues, input, buffers, sheet, host
<1>2. QueuesApart(main, tcb)' /\ Queued' = Queued
  BY DEF IInv, RunsOut, queues, Queued
<1>3. \A j \in Input : CallsInStep(j)' /\ StageInStep(j)'
  BY ZenonT(30), <1>2 DEF IInv, RunsOut, CallsInStep, StageInStep, input, buffers, sheet, host
<1>4. HostInStep'
  BY DEF IInv, RunsOut, Returns, HostInStep, buffers, sheet, host
<1>5. \A j \in Input : StreamStep(j)
  BY StreamRests DEF RunsOut, input, buffers
<1> QED BY <1>1, <1>2, <1>3, <1>4, <1>5 DEF Kept, IInv
-----------------------------------------------------------------------------
(***************************************************************************)
(* The calls of the sheet, and the answers they wait for.                  *)
(***************************************************************************)
LEMMA AnswerKeeps ==
  ASSUME NEW i \in Input
  PROVE IInv /\ Answer(i) => Kept
<1> SUFFICES ASSUME IInv, Answer(i) PROVE Kept
  OBVIOUS
<1> DEFINE c == <<"elementEnd", i>>
<1>1. c \in Call /\ c \notin Queued
  BY DEF IInv, CallsInStep, Answer, Call
<1>2. /\ main' \in Seq(Call) /\ QueuesApart(main, tcb)' /\ Queued' = Queued \cup {c}
  <2>1. /\ main' = Append(main, c) /\ tcb' = tcb
        /\ main \in Seq(Call) /\ tcb \in [Node -> Seq(Call)] /\ QueuesApart(main, tcb)
    BY QueueTypes DEF IInv, Answer
  <2> QED BY <1>1, <2>1, Schedules DEF Queued
<1>3. TypeOK'
  BY <1>2 DEF IInv, TypeOK, Answer, input, buffers, sheet
<1>4. \A j \in Input : CallsInStep(j)'
  <2> SUFFICES ASSUME NEW j \in Input PROVE CallsInStep(j)'
    OBVIOUS
  <2>1. CallsInStep(j) /\ CallsInStep(i)
    BY DEF IInv
  <2>2. asked' = asked /\ answered' = answered \cup {i} /\ stage' = stage /\ i \in asked
    BY DEF Answer, sheet, input
  <2> QED BY <1>2, <2>1, <2>2 DEF CallsInStep
<1>5. HostInStep'
  BY DEF IInv, HostInStep, Answer, buffers, sheet
<1> QED BY <1>2, <1>3, <1>4, <1>5, InputsRest DEF Answer, input, buffers

LEMMA ElementFirstKeeps ==
  ASSUME NEW i \in Input
  PROVE IInv /\ ElementFirst(i) => Kept
<1> SUFFICES ASSUME IInv, ElementFirst(i) PROVE Kept
  OBVIOUS
<1> DEFINE c == <<"element", i>>
           d == <<"elementEnd", i>>
<1>1. /\ c \in Queued /\ Rest \in Seq(Call) /\ QueuesApart(Rest, tcb)
      /\ InQueues(Rest, tcb) = Queued \ {c}
      /\ phase \notin { "querystring", "headers" }
  BY CallTaken DEF ElementFirst
<1>2. d \in Call /\ d \notin InQueues(Rest, tcb)
  BY <1>1 DEF IInv, CallsInStep, Call
<1>3. /\ main' \in Seq(Call) /\ tcb' \in [Node -> Seq(Call)] /\ QueuesApart(main, tcb)'
      /\ \/ Queued' = Queued \ {c}
         \/ Queued' = (Queued \ {c}) \cup {d} /\ asked' = asked
  <2>1. Vdoc("querystring") \in Node
    BY NodesOfInputs DEF Input
  <2>2. CASE main' = Rest /\ tcb' = tcb
    BY <1>1, <2>2, QueueTypes DEF IInv, Queued
  <2>3. CASE WaitsOn(Vdoc("querystring"), d) /\ asked' = asked
    <3>1. main' = Rest /\ tcb' = Parked(tcb, Vdoc("querystring"), d) /\ tcb \in [Node -> Seq(Call)]
      BY <2>3, QueueTypes DEF WaitsOn, IInv
    <3>2. /\ Parked(tcb, Vdoc("querystring"), d) \in [Node -> Seq(Call)]
          /\ QueuesApart(Rest, Parked(tcb, Vdoc("querystring"), d))
          /\ InQueues(Rest, Parked(tcb, Vdoc("querystring"), d)) = InQueues(Rest, tcb) \cup {d}
      BY ZenonT(30), <1>1, <1>2, <2>1, <3>1, Parks
    <3>3. Queued' = (Queued \ {c}) \cup {d}
      BY <1>1, <3>1, <3>2 DEF Queued
    <3> QED BY <1>1, <2>3, <3>1, <3>2, <3>3
  <2> QED BY <2>2, <2>3 DEF ElementFirst
<1>4. /\ UNCHANGED <<config, stage, type, ctype, parsed, parsedAs, result, querystring,
                     bodyBuf, bodyBufComplete, given, seen, answered, phase>>
      /\ asked' \in { asked, asked \cup {i} }
      /\ running' \in BOOLEAN
      /\ cur' \in { cur, {"SUBREQUEST"} }
  BY DEF ElementFirst, input, buffers, host, Goes, Returns, IInv, TypeOK
<1>5. count' \in [Node -> Nat]
  BY QueueTypes, IncreaseType DEF IInv, ElementFirst
<1>6. TypeOK'
  BY <1>3, <1>4, <1>5 DEF IInv, TypeOK
<1>7. \A j \in Input : CallsInStep(j)'
  <2> SUFFICES ASSUME NEW j \in Input PROVE CallsInStep(j)'
    OBVIOUS
  <2>1. CallsInStep(j) /\ CallsInStep(i)
    BY DEF IInv
  <2> QED BY <1>1, <1>3, <1>4, <2>1 DEF CallsInStep
<1>8. HostInStep'
  BY <1>1, <1>4 DEF IInv, HostInStep
<1> QED BY <1>3, <1>4, <1>6, <1>7, <1>8, InputsRest

LEMMA ElementEndKeeps ==
  ASSUME NEW i \in Input
  PROVE IInv /\ ElementEnd(i) => Kept
<1> SUFFICES ASSUME IInv, ElementEnd(i) PROVE Kept
  OBVIOUS
<1>1. /\ Rest \in Seq(Call) /\ QueuesApart(Rest, tcb)
      /\ InQueues(Rest, tcb) \subseteq Queued
  BY CallTaken DEF ElementEnd
<1>2. /\ count' \in [Node -> Nat] /\ tcb' \in [Node -> Seq(Call)] /\ main' \in Seq(Call)
      /\ QueuesApart(main, tcb)' /\ Queued' \subseteq Queued
  BY <1>1, Decreases DEF IInv, ElementEnd, Releases, Queued
<1>3. UNCHANGED <<config, stage, type, ctype, parsed, parsedAs, result, querystring,
                  bodyBuf, bodyBufComplete, given, seen, asked, answered, phase, cur,
                  running>>
  BY DEF ElementEnd, input, buffers, sheet, host, Goes
<1>4. TypeOK'
  BY <1>2, <1>3 DEF IInv, TypeOK
<1>5. \A j \in Input : CallsInStep(j)'
  BY ZenonT(30), <1>2, <1>3 DEF IInv, CallsInStep
<1>6. HostInStep'
  BY <1>3 DEF IInv, HostInStep
<1> QED BY <1>2, <1>3, <1>4, <1>5, <1>6, InputsRest

LEMMA StringCallKeeps ==
  ASSUME NEW i \in Input
  PROVE IInv /\ StringCall(i) => Kept
<1> SUFFICES ASSUME IInv, StringCall(i) PROVE Kept
  OBVIOUS
<1> DEFINE c == <<"string", i>>
<1>1. /\ Head(main) = c /\ c \in Queued /\ c \in Call
      /\ Rest \in Seq(Call) /\ QueuesApart(Rest, tcb)
      /\ InQueues(Rest, tcb) = Queued \ {c}
  BY CallTaken DEF StringCall
<1>2. /\ tcb' \in [Node -> Seq(Call)] /\ main' \in Seq(Call)
      /\ QueuesApart(main, tcb)' /\ Queued' \subseteq Queued
  <2>1. CASE main' = Rest /\ tcb' = tcb
    BY <1>1, <2>1, QueueTypes DEF IInv, Queued
  <2>2. CASE WaitsOn(Tmp(i), c)
    <3>1. /\ main' = Rest /\ tcb' = Parked(tcb, Tmp(i), c)
          /\ tcb \in [Node -> Seq(Call)] /\ Tmp(i) \in Node
      BY <2>2, QueueTypes, NodesOfInputs DEF WaitsOn, IInv
    <3>2. c \notin InQueues(Rest, tcb)
      BY <1>1
    <3>3. /\ Parked(tcb, Tmp(i), c) \in [Node -> Seq(Call)]
          /\ QueuesApart(Rest, Parked(tcb, Tmp(i), c))
          /\ InQueues(Rest, Parked(tcb, Tmp(i), c)) = InQueues(Rest, tcb) \cup {c}
      BY ZenonT(30), <1>1, <3>1, <3>2, Parks
    <3>4. Queued' \subseteq Queued
      BY <1>1, <3>1, <3>3 DEF Queued
    <3> QED BY <1>1, <3>1, <3>3, <3>4
  <2> QED BY <1>1, <2>1, <2>2 DEF StringCall
<1>3. UNCHANGED <<config, count, stage, type, parsed, parsedAs, result, querystring,
                  bodyBuf, bodyBufComplete, given, seen, asked, answered, phase, cur,
                  running>>
  BY DEF StringCall, input, buffers, sheet, host, Goes
<1>4. ctype' \in [Input -> Type \cup {"NULL"}]
  <2>1. config[i].type \in Type
    BY TypeOfConfig DEF IInv
  <2> QED BY <2>1 DEF IInv, TypeOK, StringCall
<1>5. TypeOK'
  BY <1>2, <1>3, <1>4 DEF IInv, TypeOK
<1>6. \A j \in Input : CallsInStep(j)'
  BY ZenonT(30), <1>2, <1>3 DEF IInv, CallsInStep
<1>7. HostInStep'
  BY <1>3 DEF IInv, HostInStep
<1> QED BY <1>2, <1>3, <1>5, <1>6, <1>7, InputsRest

LEMMA ReaderFirstKeeps ==
  ASSUME NEW i \in Input
  PROVE IInv /\ ReaderFirst(i) => Kept
<1> SUFFICES ASSUME IInv, ReaderFirst(i) PROVE Kept
  OBVIOUS
<1> DEFINE c == <<"reader", i>>
           d == <<"readerEnd", i>>
<1>1. /\ c \in Queued /\ Rest \in Seq(Call) /\ QueuesApart(Rest, tcb)
      /\ InQueues(Rest, tcb) = Queued \ {c}
  BY CallTaken DEF ReaderFirst
<1>2. d \in Call /\ d \notin InQueues(Rest, tcb)
  BY <1>1 DEF IInv, CallsInStep, Call
<1>3. /\ main' \in Seq(Call) /\ tcb' \in [Node -> Seq(Call)] /\ QueuesApart(main, tcb)'
      /\ Queued' \subseteq (Queued \ {c}) \cup {d}
  <2>1. CASE main' = Rest /\ tcb' = tcb
    BY <1>1, <2>1, QueueTypes DEF IInv, Queued
  <2>2. CASE WaitsOn(Vdoc(i), d)
    <3>1. /\ main' = Rest /\ tcb' = Parked(tcb, Vdoc(i), d)
          /\ tcb \in [Node -> Seq(Call)] /\ Vdoc(i) \in Node
      BY <2>2, QueueTypes, NodesOfInputs DEF WaitsOn, IInv
    <3>2. /\ Parked(tcb, Vdoc(i), d) \in [Node -> Seq(Call)]
          /\ QueuesApart(Rest, Parked(tcb, Vdoc(i), d))
          /\ InQueues(Rest, Parked(tcb, Vdoc(i), d)) = InQueues(Rest, tcb) \cup {d}
      BY ZenonT(30), <1>1, <1>2, <3>1, Parks
    <3>3. Queued' = (Queued \ {c}) \cup {d}
      BY <1>1, <3>1, <3>2 DEF Queued
    <3> QED BY <1>1, <3>1, <3>2, <3>3
  <2> QED BY <2>1, <2>2 DEF ReaderFirst
<1>4. UNCHANGED <<config, stage, type, ctype, parsed, parsedAs, result, querystring,
                  bodyBuf, bodyBufComplete, given, asked, answered, phase, cur, running>>
  BY DEF ReaderFirst, input, buffers, host, Goes
<1>5. count' \in [Node -> Nat] /\ seen' \in [Input -> {"nothing", "pending", "document", "failure"}]
  <2>1. /\ count \in [Node -> Nat]
        /\ Increased(count, PathOf(Reader(i))) \in [Node -> Nat]
    BY QueueTypes, IncreaseType DEF IInv
  <2>2. count' = count \/ count' = Increased(count, PathOf(Reader(i)))
    BY DEF ReaderFirst
  <2>3. seen' = seen \/ seen' = [seen EXCEPT ![i] = result[i]]
    BY DEF ReaderFirst
  <2>4. /\ seen \in [Input -> {"nothing", "pending", "document", "failure"}]
        /\ result[i] \in {"pending", "document", "failure"}
    BY DEF IInv, TypeOK
  <2>5. seen' \in [Input -> {"nothing", "pending", "document", "failure"}]
    BY <2>3, <2>4
  <2> QED BY <2>1, <2>2, <2>5
<1>6. TypeOK'
  BY <1>3, <1>4, <1>5 DEF IInv, TypeOK
<1>7. \A j \in Input : CallsInStep(j)'
  <2> SUFFICES ASSUME NEW j \in Input PROVE CallsInStep(j)'
    OBVIOUS
  <2>1. CallsInStep(j) /\ CallsInStep(i)
    BY DEF IInv
  <2> QED BY <1>1, <1>3, <1>4, <2>1 DEF CallsInStep
<1>8. HostInStep'
  BY <1>4 DEF IInv, HostInStep
<1> QED BY <1>3, <1>4, <1>6, <1>7, <1>8, InputsRest

LEMMA ReaderEndKeeps ==
  ASSUME NEW i \in Input
  PROVE IInv /\ ReaderEnd(i) => Kept
<1> SUFFICES ASSUME IInv, ReaderEnd(i) PROVE Kept
  OBVIOUS
<1>1. /\ Rest \in Seq(Call) /\ QueuesApart(Rest, tcb)
      /\ InQueues(Rest, tcb) \subseteq Queued
  BY CallTaken DEF ReaderEnd
<1>2. /\ count' \in [Node -> Nat] /\ tcb' \in [Node -> Seq(Call)] /\ main' \in Seq(Call)
      /\ QueuesApart(main, tcb)' /\ Queued' \subseteq Queued
  BY <1>1, Decreases DEF IInv, ReaderEnd, Releases, Queued
<1>3. UNCHANGED <<config, stage, type, ctype, parsed, parsedAs, result, querystring,
                  bodyBuf, bodyBufComplete, given, asked, answered, phase, cur, running>>
  BY DEF ReaderEnd, input, buffers, host, Goes
<1>4. seen' \in [Input -> {"nothing", "pending", "document", "failure"}]
  BY DEF IInv, TypeOK, ReaderEnd
<1>5. TypeOK'
  BY <1>2, <1>3, <1>4 DEF IInv, TypeOK
<1>6. \A j \in Input : CallsInStep(j)'
  BY ZenonT(30), <1>2, <1>3 DEF IInv, CallsInStep
<1>7. HostInStep'
  BY <1>3 DEF IInv, HostInStep
<1> QED BY <1>2, <1>3, <1>5, <1>6, <1>7, InputsRest
-----------------------------------------------------------------------------
(***************************************************************************)
(* The calls that parse, and the one that takes the result.                *)
(***************************************************************************)
LEMMA OutcomeIs ==
  /\ Outcome("SUCCESS") = "document"
  /\ Outcome("FAILURE") = "failure"
  /\ Outcome("READ_RESPONSE") = "pending"
  /\ Outcome("PARAMS_BEGIN") = "pending"
BY DEF Outcome

\* What a parser makes of parts, which come when there was nothing to take yet.
LEMMA Processes ==
  ASSUME IInv, NEW i \in Input, NEW t \in Type, NEW ps \in Seq(1..Parts),
         NEW last \in BOOLEAN, NEW s \in Outcomes(t, last), NEW q \in Seq(Call),
         ProcessBody(i, t, ps, s, q), stage[i] \in { "PARAMS_BEGIN", "READ_RESPONSE" },
         tcb' \in [Node -> Seq(Call)], QueuesApart(q, tcb'),
         InQueues(q, tcb') \subseteq Queued, <<"type", i>> \notin InQueues(q, tcb')
  PROVE  /\ main' \in Seq(Call) /\ QueuesApart(main, tcb)'
         /\ Queued' \subseteq Queued \cup {<<"result", i>>}
         /\ <<"type", i>> \notin Queued'
         /\ <<"result", i>> \in Queued' => s \in { "SUCCESS", "FAILURE" }
         /\ stage' = [stage EXCEPT ![i] = s]
         /\ parsed' = [parsed EXCEPT ![i] = @ \o ps]
         /\ stage' \in [Input -> Stage]
         /\ parsed' \in [Input -> Seq(1..Parts)]
         /\ parsedAs' \in [Input -> Type \cup {"none"}]
         /\ s \in { "FAILURE", "SUCCESS", "READ_RESPONSE" }
         /\ s = "SUCCESS" => last
         /\ s = "READ_RESPONSE" => ~ last
<1> DEFINE d == <<"result", i>>
<1>1. /\ s \in { "FAILURE", "SUCCESS", "READ_RESPONSE" }
      /\ s = "SUCCESS" => last
      /\ s = "READ_RESPONSE" => ~ last
  BY DEF Outcomes
<1>2. d \notin Queued /\ d \in Call /\ d # <<"type", i>>
  BY DEF IInv, CallsInStep, Call
<1>3. /\ main' \in Seq(Call) /\ QueuesApart(main, tcb)'
      /\ \/ s = "READ_RESPONSE" /\ Queued' = InQueues(q, tcb')
         \/ s # "READ_RESPONSE" /\ Queued' = InQueues(q, tcb') \cup {d}
  <2>1. CASE s = "READ_RESPONSE"
    BY <2>1 DEF ProcessBody, Queued
  <2>2. CASE s # "READ_RESPONSE"
    <3>1. main' = Append(q, d)
      BY <2>2 DEF ProcessBody
    <3>2. d \notin InQueues(q, tcb')
      BY <1>2
    <3>3. /\ Append(q, d) \in Seq(Call) /\ QueuesApart(Append(q, d), tcb')
          /\ InQueues(Append(q, d), tcb') = InQueues(q, tcb') \cup {d}
      BY <1>2, <3>2, Schedules
    <3> QED BY <2>2, <3>1, <3>3 DEF Queued
  <2> QED BY <2>1, <2>2
<1>4. /\ stage' = [stage EXCEPT ![i] = s]
      /\ parsed' = [parsed EXCEPT ![i] = @ \o ps]
      /\ parsedAs' = [parsedAs EXCEPT ![i] = t]
  BY DEF ProcessBody
<1>5. /\ stage' \in [Input -> Stage]
      /\ parsed' \in [Input -> Seq(1..Parts)]
      /\ parsedAs' \in [Input -> Type \cup {"none"}]
  <2>1. /\ stage \in [Input -> Stage] /\ parsed \in [Input -> Seq(1..Parts)]
        /\ parsedAs \in [Input -> Type \cup {"none"}] /\ s \in Stage
    BY <1>1 DEF IInv, TypeOK, Stage
  <2>2. parsed[i] \o ps \in Seq(1..Parts)
    BY <2>1
  <2> QED BY <1>4, <2>1, <2>2
<1> QED BY <1>1, <1>2, <1>3, <1>4, <1>5

\* If these parts are all that was missing, the parser is where a stream is.
LEMMA ProcessesStream ==
  ASSUME NEW i \in Input,
         NEW s \in { "FAILURE", "SUCCESS", "READ_RESPONSE" },
         s = "SUCCESS" => Len(given'[i]) = PartsOf(i),
         s = "READ_RESPONSE" => Len(given'[i]) # PartsOf(i),
         stage[i] \in { "PARAMS_BEGIN", "READ_RESPONSE" }, stage'[i] = s,
         parsed'[i] = given'[i], parsed'[i] # parsed[i],
         Len(given'[i]) \in Nat, Len(given'[i]) <= PartsOf(i), PartsOf(i) \in Nat
  PROVE  ParsesRest(i)
<1>1. OutcomeOf(i) = "pending"
  BY OutcomeIs DEF OutcomeOf
<1>2. OutcomeOf(i)' = Outcome(s)
  BY DEF OutcomeOf
<1> QED BY <1>1, <1>2, OutcomeIs DEF ParsesRest

\* The other input is where it was.
LEMMA OtherRests ==
  ASSUME NEW i \in Input, NEW j \in Input, i # j,
         stage \in [Input -> Stage], parsed \in [Input -> Seq(1..Parts)],
         NEW s, NEW ps,
         stage' = [stage EXCEPT ![i] = s], parsed' = [parsed EXCEPT ![i] = ps],
         given'[j] = given[j], result' = result
  PROVE  StreamStep(j) /\ stage'[j] = stage[j] /\ parsed'[j] = parsed[j]
BY StreamRests

LEMMA ResultCallKeeps ==
  ASSUME NEW i \in Input
  PROVE IInv /\ ResultCall(i) => Kept
<1> SUFFICES ASSUME IInv, ResultCall(i) PROVE Kept
  OBVIOUS
<1> DEFINE c == <<"result", i>>
<1>1. /\ c \in Queued /\ Rest \in Seq(Call) /\ QueuesApart(Rest, tcb)
      /\ InQueues(Rest, tcb) = Queued \ {c}
      /\ phase \notin { "querystring", "headers" }
  BY CallTaken DEF ResultCall
<1>2. /\ count' \in [Node -> Nat] /\ tcb' \in [Node -> Seq(Call)] /\ main' \in Seq(Call)
      /\ QueuesApart(main, tcb)' /\ Queued' \subseteq Queued \ {c}
  BY <1>1, Decreases DEF IInv, ResultCall, Releases, Queued
<1>3. stage[i] \in { "SUCCESS", "FAILURE" }
  BY <1>1 DEF IInv, CallsInStep
<1>4. /\ stage' = [stage EXCEPT ![i] = "END"]
      /\ result' = [result EXCEPT ![i] = Outcome(stage[i])]
      /\ UNCHANGED <<config, type, ctype, parsed, parsedAs, querystring, bodyBuf,
                     bodyBufComplete, given, seen, asked, answered, phase, cur, running>>
  BY DEF ResultCall, buffers, sheet, host, Goes
<1>5. TypeOK'
  <2>1. result' \in [Input -> {"pending", "document", "failure"}]
    BY <1>3, <1>4, OutcomeIs DEF IInv, TypeOK
  <2>2. stage' \in [Input -> Stage]
    BY <1>4 DEF IInv, TypeOK, Stage
  <2> QED BY <1>2, <1>4, <2>1, <2>2 DEF IInv, TypeOK
<1>6. /\ stage'[i] = "END" /\ result'[i] = Outcome(stage[i])
      /\ \A j \in Input : j # i => stage'[j] = stage[j] /\ result'[j] = result[j]
  BY <1>4 DEF IInv, TypeOK
<1>7. \A j \in Input : CallsInStep(j)' /\ StageInStep(j)'
  <2> SUFFICES ASSUME NEW j \in Input PROVE CallsInStep(j)' /\ StageInStep(j)'
    OBVIOUS
  <2>1. CallsInStep(j) /\ StageInStep(j)
    BY DEF IInv
  <2>2. CASE j = i
    BY <1>2, <1>3, <1>4, <1>6, <2>1, <2>2 DEF CallsInStep, StageInStep
  <2>3. CASE j # i
    BY <1>2, <1>4, <1>6, <2>1, <2>3 DEF CallsInStep, StageInStep
  <2> QED BY <2>2, <2>3
<1>8. HostInStep'
  BY <1>4 DEF IInv, HostInStep
<1>9. ASSUME NEW j \in Input PROVE StreamStep(j)
  <2>1. CASE j = i
    BY <1>3, <1>4, <1>6, <2>1 DEF StreamStep, Rests, OutcomeOf
  <2>2. CASE j # i
    BY <1>4, <1>6, <2>2, StreamRests
  <2> QED BY <2>1, <2>2
<1> QED BY <1>2, <1>5, <1>7, <1>8, <1>9 DEF Kept, IInv

LEMMA GiveQuerystringKeeps == IInv /\ GiveQuerystring => Kept
<1> SUFFICES ASSUME IInv, GiveQuerystring PROVE Kept
  OBVIOUS
<1> DEFINE i == "querystring"
<1>1. /\ i \in Input /\ phase = "querystring" /\ given[i] = <<>>
      /\ stage[i] \in Stage /\ type[i] \in Type
      /\ CallsInStep(i) /\ StageInStep(i)
  BY DEF GiveQuerystring, IInv, HostInStep, Input, TypeOK
<1>2. /\ given' = [given EXCEPT ![i] = <<1>>]
      /\ phase' = "headers" /\ cur' = {"WAITING"}
      /\ querystring' \in { "decoded", "verbatim" }
      /\ UNCHANGED <<config, count, tcb, type, ctype, result, bodyBuf, bodyBufComplete,
                     seen, asked, answered, running>>
  BY DEF GiveQuerystring, sheet
<1>3. /\ given'[i] = <<1>> /\ given'["body"] = given["body"]
      /\ given' \in [Input -> Seq(1..Parts)]
  <2>1. given \in [Input -> Seq(1..Parts)]
    BY DEF IInv, TypeOK
  <2>2. <<1>> \in Seq(1..Parts)
    BY PartsAssumption
  <2> QED BY <1>1, <1>2, <2>1, <2>2 DEF Input
<1>4. GivesPart(i)
  BY <1>1, <1>3 DEF GivesPart, PartsOf
<1>5. HostInStep'
  BY <1>1, <1>2, <1>3, PartsAssumption DEF IInv, HostInStep
<1>6. ASSUME UNCHANGED <<stage, parsed, parsedAs, main>>, stage[i] # "READ_RESPONSE"
      PROVE  Kept
  <2>1. TypeOK'
    BY <1>2, <1>3, <1>6 DEF IInv, TypeOK
  <2>2. QueuesApart(main, tcb)' /\ Queued' = Queued
    BY <1>2, <1>6 DEF IInv, Queued
  <2>3. ASSUME NEW j \in Input PROVE CallsInStep(j)' /\ StageInStep(j)' /\ StreamStep(j)
    <3>1. CallsInStep(j) /\ StageInStep(j)
      BY DEF IInv
    <3>2. CallsInStep(j)'
      BY <1>2, <1>6, <2>2, <3>1 DEF CallsInStep
    <3>3. CASE j = i
      <4>1. StageInStep(j)'
        BY <1>6, <3>1, <3>3 DEF StageInStep
      <4>2. Rests(j)
        BY <1>2, <1>6 DEF Rests, OutcomeOf
      <4> QED BY <1>4, <3>2, <3>3, <4>1, <4>2 DEF StreamStep
    <3>4. CASE j = "body"
      BY <1>2, <1>3, <1>6, <3>1, <3>2, <3>4, StreamRests DEF StageInStep
    <3> QED BY <3>3, <3>4 DEF Input
  <2> QED BY <1>5, <2>1, <2>2, <2>3 DEF Kept, IInv
<1>7. ASSUME stage[i] = "READ_RESPONSE", NEW s \in Outcomes(type[i], TRUE),
             ProcessBody(i, type[i], << 1 >>, s, main)
      PROVE  Kept
  <2>1. /\ main \in Seq(Call) /\ tcb' = tcb /\ tcb \in [Node -> Seq(Call)]
        /\ QueuesApart(main, tcb)
        /\ InQueues(main, tcb) = Queued /\ <<"type", i>> \notin Queued
    BY <1>1, <1>2, <1>7, QueueTypes DEF IInv, Queued, CallsInStep
  <2>2. <<1>> \in Seq(1..Parts)
    BY PartsAssumption
  <2>3. /\ main' \in Seq(Call) /\ QueuesApart(main, tcb)'
        /\ Queued' \subseteq Queued \cup {<<"result", i>>}
        /\ <<"type", i>> \notin Queued'
        /\ <<"result", i>> \in Queued' => s \in { "SUCCESS", "FAILURE" }
        /\ stage' = [stage EXCEPT ![i] = s]
        /\ parsed' = [parsed EXCEPT ![i] = @ \o <<1>>]
        /\ stage' \in [Input -> Stage]
        /\ parsed' \in [Input -> Seq(1..Parts)]
        /\ parsedAs' \in [Input -> Type \cup {"none"}]
        /\ s \in { "FAILURE", "SUCCESS" }
    BY <1>1, <1>7, <2>1, <2>2, Processes
  <2>4. TypeOK'
    BY <1>2, <1>3, <2>1, <2>3 DEF IInv, TypeOK
  <2>5. stage'[i] = s /\ parsed'[i] = <<1>> /\ parsed[i] = <<>>
    <3>1. parsed[i] = <<>>
      BY <1>1, <1>7 DEF StageInStep
    <3>2. stage \in [Input -> Stage] /\ parsed \in [Input -> Seq(1..Parts)]
      BY DEF IInv, TypeOK
    <3> QED BY <1>1, <2>3, <3>1, <3>2
  <2>6. StreamStep(i)
    <3>1. ParsesRest(i)
      <4>1. /\ s \in { "FAILURE", "SUCCESS", "READ_RESPONSE" } /\ s # "READ_RESPONSE"
            /\ parsed'[i] = given'[i] /\ parsed'[i] # parsed[i]
            /\ Len(given'[i]) = 1 /\ PartsOf(i) = 1 /\ 1 \in Nat /\ 1 <= 1
        BY <1>3, <2>3, <2>5 DEF PartsOf
      <4> QED BY <1>1, <1>7, <2>5, <4>1, ProcessesStream
    <3> QED BY <1>4, <3>1 DEF StreamStep
  <2>7. /\ StreamStep("body") /\ stage'["body"] = stage["body"]
        /\ parsed'["body"] = parsed["body"]
    <3>1. /\ "body" \in Input /\ i # "body"
          /\ stage \in [Input -> Stage] /\ parsed \in [Input -> Seq(1..Parts)]
      BY DEF IInv, TypeOK, Input
    <3> QED BY <1>1, <1>2, <1>3, <2>3, <3>1, OtherRests
  <2>8. ASSUME NEW j \in Input PROVE CallsInStep(j)' /\ StageInStep(j)' /\ StreamStep(j)
    <3>1. CallsInStep(j) /\ StageInStep(j)
      BY DEF IInv
    <3>2. CASE j = i
      BY <1>2, <2>3, <2>5, <2>6, <3>1, <3>2 DEF CallsInStep, StageInStep
    <3>3. CASE j = "body"
      BY <1>2, <1>3, <2>3, <2>7, <3>1, <3>3 DEF CallsInStep, StageInStep
    <3> QED BY <3>2, <3>3 DEF Input
  <2> QED BY <1>5, <2>3, <2>4, <2>8 DEF Kept, IInv
<1> QED BY <1>6, <1>7 DEF GiveQuerystring

LEMMA GiveBodyKeeps == IInv /\ GiveBody => Kept
<1> SUFFICES ASSUME IInv, GiveBody PROVE Kept
  OBVIOUS
<1> DEFINE i == "body"
           last == NextPart = Parts
           new == Append(given[i], NextPart)
<1>1. /\ i \in Input /\ phase = "body" /\ Parts \in Nat
      /\ stage[i] \in Stage /\ type[i] \in Type
      /\ given \in [Input -> Seq(1..Parts)] /\ given[i] \in Seq(1..Parts)
      /\ parsed[i] \in Seq(1..Parts) /\ bodyBuf \in Seq(1..Parts)
      /\ CallsInStep(i) /\ StageInStep(i)
  BY PartsAssumption DEF GiveBody, IInv, Input, TypeOK
<1>2. /\ Len(given[i]) \in Nat /\ Len(given[i]) < Parts
      /\ NextPart = Len(given[i]) + 1 /\ NextPart \in 1..Parts /\ last \in BOOLEAN
  BY <1>1 DEF IInv, HostInStep, NextPart
<1>3. /\ given' = [given EXCEPT ![i] = new]
      /\ phase' = IF last THEN "end" ELSE "body"
      /\ UNCHANGED <<config, count, tcb, type, ctype, result, querystring, seen, asked,
                     answered>>
  BY DEF GiveBody, sheet
<1>4. /\ new \in Seq(1..Parts) /\ Len(new) = NextPart
      /\ Append(bodyBuf, NextPart) \in Seq(1..Parts)
      /\ new = given[i] \o <<NextPart>> /\ new # given[i]
  <2>1. ASSUME NEW s \in Seq(1..Parts), NEW p \in 1..Parts
        PROVE  /\ Append(s, p) \in Seq(1..Parts) /\ Len(Append(s, p)) = Len(s) + 1
               /\ Append(s, p) = s \o <<p>> /\ Append(s, p) # s
    OBVIOUS
  <2> QED BY <1>1, <1>2, <2>1
<1>5. /\ given'[i] = new /\ given'["querystring"] = given["querystring"]
      /\ given' \in [Input -> Seq(1..Parts)]
  BY <1>1, <1>3, <1>4 DEF Input
<1>6. GivesPart(i)
  BY <1>1, <1>2, <1>5 DEF GivesPart, PartsOf
<1>7. HostInStep'
  BY <1>1, <1>2, <1>3, <1>4, <1>5 DEF IInv, HostInStep
<1>8. /\ cur' \in { {"WAITING"}, {} } /\ running' \in BOOLEAN
      /\ bodyBuf' \in Seq(1..Parts) /\ bodyBufComplete' \in BOOLEAN
  <2>1. bodyBuf \in Seq(1..Parts) /\ bodyBufComplete \in BOOLEAN /\ running \in BOOLEAN
    BY DEF IInv, TypeOK
  <2>2. cur' \in { {"WAITING"}, {} } /\ running' \in BOOLEAN
    BY <2>1 DEF GiveBody
  <2>3. bodyBuf' \in { bodyBuf, Append(bodyBuf, NextPart) }
    BY DEF GiveBody
  <2>4. bodyBufComplete' \in { bodyBufComplete, last }
    BY DEF GiveBody
  <2> QED BY <1>2, <1>4, <2>1, <2>2, <2>3, <2>4
<1>9. /\ stage'[i] # "READ_RESPONSE" =>
           bodyBuf' = Append(bodyBuf, NextPart) /\ bodyBufComplete' = last
      /\ \/ stage[i] # "READ_RESPONSE" /\ UNCHANGED <<stage, parsed, parsedAs, main>>
         \/ /\ stage[i] = "READ_RESPONSE"
            /\ \E s \in Outcomes(type[i], last) :
                 ProcessBody(i, type[i], <<NextPart>>, s, main)
  BY DEF GiveBody, Buffers
<1> HIDE DEF new, last
<1>10. ASSUME UNCHANGED <<stage, parsed, parsedAs, main>>, stage[i] # "READ_RESPONSE"
       PROVE  Kept
  <2>1. TypeOK'
    BY <1>3, <1>5, <1>8, <1>10 DEF IInv, TypeOK
  <2>2. QueuesApart(main, tcb)' /\ Queued' = Queued
    BY <1>3, <1>10 DEF IInv, Queued
  <2>3. ASSUME NEW j \in Input PROVE CallsInStep(j)' /\ StageInStep(j)' /\ StreamStep(j)
    <3>1. CallsInStep(j) /\ StageInStep(j)
      BY DEF IInv
    <3>2. CallsInStep(j)'
      BY <1>3, <1>10, <2>2, <3>1 DEF CallsInStep
    <3>3. CASE j = i
      <4>1. ASSUME stage'[i] = "PARAMS_BEGIN"
            PROVE  bodyBuf' = given'[i] /\ bodyBufComplete' = (Len(given'[i]) = Parts)
        <5>1. bodyBuf = given[i]
          BY <1>1, <1>10, <4>1 DEF StageInStep
        <5> QED BY <1>4, <1>5, <1>9, <4>1, <5>1 DEF new, last
      <4>2. StageInStep(j)'
        BY <1>10, <3>1, <3>3, <4>1 DEF StageInStep
      <4>3. Rests(j)
        BY <1>3, <1>10 DEF Rests, OutcomeOf
      <4> QED BY <1>6, <3>2, <3>3, <4>2, <4>3 DEF StreamStep
    <3>4. CASE j = "querystring"
      BY <1>3, <1>5, <1>10, <3>1, <3>2, <3>4, StreamRests DEF StageInStep
    <3> QED BY <3>3, <3>4 DEF Input
  <2> QED BY <1>7, <2>1, <2>2, <2>3 DEF Kept, IInv
<1>11. ASSUME stage[i] = "READ_RESPONSE", NEW s \in Outcomes(type[i], last),
              ProcessBody(i, type[i], <<NextPart>>, s, main)
       PROVE  Kept
  <2>1. /\ main \in Seq(Call) /\ tcb' = tcb /\ tcb \in [Node -> Seq(Call)]
        /\ QueuesApart(main, tcb)
        /\ InQueues(main, tcb) = Queued /\ <<"type", i>> \notin Queued
    BY <1>1, <1>3, <1>11, QueueTypes DEF IInv, Queued, CallsInStep
  <2>2. <<NextPart>> \in Seq(1..Parts)
    BY <1>2
  <2>3. /\ main' \in Seq(Call) /\ QueuesApart(main, tcb)'
        /\ Queued' \subseteq Queued \cup {<<"result", i>>}
        /\ <<"type", i>> \notin Queued'
        /\ <<"result", i>> \in Queued' => s \in { "SUCCESS", "FAILURE" }
        /\ stage' = [stage EXCEPT ![i] = s]
        /\ parsed' = [parsed EXCEPT ![i] = @ \o <<NextPart>>]
        /\ stage' \in [Input -> Stage]
        /\ parsed' \in [Input -> Seq(1..Parts)]
        /\ parsedAs' \in [Input -> Type \cup {"none"}]
        /\ s \in { "FAILURE", "SUCCESS", "READ_RESPONSE" }
        /\ s = "SUCCESS" => last
        /\ s = "READ_RESPONSE" => ~ last
    BY <1>1, <1>2, <1>11, <2>1, <2>2, Processes
  <2>4. TypeOK'
    BY <1>3, <1>5, <1>8, <2>1, <2>3 DEF IInv, TypeOK
  <2>5. stage'[i] = s /\ parsed'[i] = new /\ parsed[i] = given[i]
    <3>1. parsed[i] = given[i]
      BY <1>1, <1>11 DEF StageInStep
    <3>2. stage \in [Input -> Stage] /\ parsed \in [Input -> Seq(1..Parts)]
      BY DEF IInv, TypeOK
    <3> QED BY <1>1, <1>4, <2>3, <3>1, <3>2
  <2>6. StreamStep(i)
    <3>1. ParsesRest(i)
      <4>1. /\ parsed'[i] = given'[i] /\ parsed'[i] # parsed[i]
            /\ PartsOf(i) = Parts /\ Len(given'[i]) = NextPart
            /\ NextPart \in Nat /\ NextPart <= Parts /\ Parts \in Nat
            /\ last <=> NextPart = Parts
        BY <1>1, <1>2, <1>4, <1>5, <2>5 DEF PartsOf, last
      <4> QED BY <1>1, <1>11, <2>3, <2>5, <4>1, ProcessesStream
    <3> QED BY <1>6, <3>1 DEF StreamStep
  <2>7. /\ StreamStep("querystring") /\ stage'["querystring"] = stage["querystring"]
        /\ parsed'["querystring"] = parsed["querystring"]
    <3>1. /\ "querystring" \in Input /\ i # "querystring"
          /\ stage \in [Input -> Stage] /\ parsed \in [Input -> Seq(1..Parts)]
      BY DEF IInv, TypeOK, Input
    <3> QED BY <1>1, <1>3, <1>5, <2>3, <3>1, OtherRests
  <2>8. ASSUME NEW j \in Input PROVE CallsInStep(j)' /\ StageInStep(j)' /\ StreamStep(j)
    <3>1. CallsInStep(j) /\ StageInStep(j)
      BY DEF IInv
    <3>2. CASE j = i
      BY <1>3, <1>5, <2>3, <2>5, <2>6, <3>1, <3>2 DEF CallsInStep, StageInStep
    <3>3. CASE j = "querystring"
      BY <1>3, <1>5, <2>3, <2>7, <3>1, <3>3 DEF CallsInStep, StageInStep
    <3> QED BY <3>2, <3>3 DEF Input
  <2> QED BY <1>7, <2>3, <2>4, <2>8 DEF Kept, IInv
<1> QED BY <1>9, <1>10, <1>11

LEMMA TypeCallKeeps ==
  ASSUME NEW i \in Input
  PROVE IInv /\ TypeCall(i) => Kept
<1> SUFFICES ASSUME IInv, TypeCall(i) PROVE Kept
  OBVIOUS
<1> DEFINE c == <<"type", i>>
           holds == count[T(i)] > 0
           joined == IF holds THEN Joined(Rest, Moved(count, tcb, PathOf(T(i)))) ELSE Rest
           drained == IF holds THEN Drained(count, tcb, PathOf(T(i))) ELSE tcb
           t == IF ctype[i] = "NULL" THEN type[i] ELSE ctype[i]
<1>1. /\ Head(main) = c /\ c \in Queued /\ c \in Call
      /\ Rest \in Seq(Call) /\ QueuesApart(Rest, tcb)
      /\ InQueues(Rest, tcb) = Queued \ {c}
      /\ phase \notin { "querystring", "headers" }
  BY CallTaken DEF TypeCall
<1>2. /\ joined \in Seq(Call) /\ drained \in [Node -> Seq(Call)]
      /\ QueuesApart(joined, drained) /\ InQueues(joined, drained) \subseteq Queued \ {c}
      /\ count' \in [Node -> Nat]
  <2>1. TypeOK /\ tcb \in [Node -> Seq(Call)] /\ count \in [Node -> Nat]
    BY QueueTypes DEF IInv
  <2>2. count' = IF holds THEN Decreased(count, PathOf(T(i))) ELSE count
    BY DEF TypeCall
  <2>3. CASE holds
    BY <1>1, <2>1, <2>2, <2>3, Decreases
  <2>4. CASE ~ holds
    BY <1>1, <2>1, <2>2, <2>4
  <2> QED BY <2>3, <2>4
<1>3. t \in Type
  BY DEF IInv, TypeOK, Type
<1>4. /\ stage[i] = "PARAMS_BEGIN" /\ parsed[i] = <<>>
      /\ CallsInStep(i) /\ StageInStep(i)
  BY <1>1 DEF IInv, CallsInStep, StageInStep
<1>5. UNCHANGED <<config, ctype, result, querystring, given, seen, asked, answered, phase>>
  BY DEF TypeCall, buffers, sheet, host
<1>6. /\ cur' \in { cur, {"WAITING"} } /\ running' \in BOOLEAN
  BY DEF TypeCall, Goes, Returns, IInv, TypeOK
<1>7. \/ /\ tcb' = Parked(drained, T(i), c) /\ main' = joined
         /\ UNCHANGED <<stage, type, parsed, parsedAs, bodyBuf, bodyBufComplete>>
      \/ /\ tcb' = drained /\ type' = [type EXCEPT ![i] = t] /\ i = "querystring"
         /\ \E s \in Outcomes(t, TRUE) : ProcessBody(i, t, <<1>>, s, joined)
         /\ UNCHANGED <<bodyBuf, bodyBufComplete>>
      \/ /\ tcb' = drained /\ type' = [type EXCEPT ![i] = t] /\ i = "body"
         /\ bodyBuf = <<>> /\ stage' = [stage EXCEPT ![i] = "READ_RESPONSE"]
         /\ main' = joined
         /\ UNCHANGED <<parsed, parsedAs, bodyBuf, bodyBufComplete>>
      \/ /\ tcb' = drained /\ type' = [type EXCEPT ![i] = t] /\ i = "body"
         /\ bodyBuf # <<>> /\ bodyBuf' = <<>> /\ bodyBufComplete' = FALSE
         /\ \E s \in Outcomes(t, bodyBufComplete) : ProcessBody(i, t, bodyBuf, s, joined)
  BY <1>1 DEF TypeCall, Buffered, BufferedLast, buffers
<1>8. HostInStep'
  BY <1>1, <1>5 DEF IInv, HostInStep
<1>9. [type EXCEPT ![i] = t] \in [Input -> Type]
  BY <1>3 DEF IInv, TypeOK
<1> HIDE DEF joined, drained, t, holds
<1>10. ASSUME tcb' = Parked(drained, T(i), c), main' = joined,
              UNCHANGED <<stage, type, parsed, parsedAs, bodyBuf, bodyBufComplete>>
       PROVE  Kept
  <2>1. c \notin InQueues(joined, drained) /\ T(i) \in Node
    BY <1>2, NodesOfInputs
  <2>2. /\ Parked(drained, T(i), c) \in [Node -> Seq(Call)]
        /\ QueuesApart(joined, Parked(drained, T(i), c))
        /\ InQueues(joined, Parked(drained, T(i), c)) = InQueues(joined, drained) \cup {c}
    BY ZenonT(30), <1>1, <1>2, <2>1, Parks
  <2>3. Queued' \subseteq Queued
    BY <1>1, <1>2, <1>10, <2>2 DEF Queued
  <2>4. /\ main' \in Seq(Call) /\ tcb' \in [Node -> Seq(Call)] /\ QueuesApart(main, tcb)'
    BY <1>2, <1>10, <2>2
  <2>5. TypeOK'
    BY <1>2, <1>5, <1>6, <1>10, <2>4 DEF IInv, TypeOK
  <2>6. \A j \in Input : CallsInStep(j)'
    BY ZenonT(30), <1>5, <1>10, <2>3 DEF IInv, CallsInStep
  <2> QED BY <1>5, <1>8, <1>10, <2>4, <2>5, <2>6, InputsRest
<1>11. ASSUME NEW ps \in Seq(1..Parts), NEW last \in BOOLEAN, NEW s \in Outcomes(t, last),
              ProcessBody(i, t, ps, s, joined), tcb' = drained,
              type' = [type EXCEPT ![i] = t],
              bodyBuf' \in Seq(1..Parts), bodyBufComplete' \in BOOLEAN,
              i = "querystring" => UNCHANGED <<bodyBuf, bodyBufComplete>>,
              ps = given[i], ps # <<>>, Len(ps) <= PartsOf(i), PartsOf(i) \in Nat,
              last <=> Len(ps) = PartsOf(i)
       PROVE  Kept
  <2>1. /\ stage[i] \in { "PARAMS_BEGIN", "READ_RESPONSE" }
        /\ tcb' \in [Node -> Seq(Call)] /\ QueuesApart(joined, tcb')
        /\ InQueues(joined, tcb') \subseteq Queued
        /\ <<"type", i>> \notin InQueues(joined, tcb')
    BY <1>2, <1>4, <1>11
  <2>2. /\ main' \in Seq(Call) /\ QueuesApart(main, tcb)'
        /\ Queued' \subseteq Queued \cup {<<"result", i>>}
        /\ <<"type", i>> \notin Queued'
        /\ <<"result", i>> \in Queued' => s \in { "SUCCESS", "FAILURE" }
        /\ stage' = [stage EXCEPT ![i] = s]
        /\ parsed' = [parsed EXCEPT ![i] = @ \o ps]
        /\ stage' \in [Input -> Stage]
        /\ parsed' \in [Input -> Seq(1..Parts)]
        /\ parsedAs' \in [Input -> Type \cup {"none"}]
        /\ s \in { "FAILURE", "SUCCESS", "READ_RESPONSE" }
        /\ s = "SUCCESS" => last
        /\ s = "READ_RESPONSE" => ~ last
    BY ZenonT(30), <1>2, <1>3, <1>11, <2>1, Processes
  <2>3. type' \in [Input -> Type]
    BY <1>9, <1>11
  <2>4. TypeOK'
    BY <1>2, <1>5, <1>6, <1>11, <2>1, <2>2, <2>3 DEF IInv, TypeOK
  <2>5. stage'[i] = s /\ parsed'[i] = ps /\ Len(ps) \in Nat
    <3>1. stage \in [Input -> Stage] /\ parsed \in [Input -> Seq(1..Parts)]
      BY DEF IInv, TypeOK
    <3> QED BY <1>4, <1>11, <2>2, <3>1
  <2>6. StreamStep(i)
    <3>1. /\ given'[i] = given[i] /\ parsed'[i] = given'[i] /\ parsed'[i] # parsed[i]
          /\ Len(given'[i]) = Len(ps)
      BY <1>4, <1>5, <1>11, <2>5
    <3>2. ParsesRest(i)
      BY <1>4, <1>11, <2>2, <2>5, <3>1, ProcessesStream
    <3> QED BY <3>1, <3>2 DEF StreamStep
  <2>7. ASSUME NEW j \in Input, j # i
        PROVE  StreamStep(j) /\ stage'[j] = stage[j] /\ parsed'[j] = parsed[j]
    <3>1. stage \in [Input -> Stage] /\ parsed \in [Input -> Seq(1..Parts)]
      BY DEF IInv, TypeOK
    <3> QED BY <1>5, <2>2, <2>7, <3>1, OtherRests
  <2>8. ASSUME NEW j \in Input PROVE CallsInStep(j)' /\ StageInStep(j)' /\ StreamStep(j)
    <3>1. CallsInStep(j) /\ StageInStep(j)
      BY DEF IInv
    <3>2. CASE j = i
      BY <1>5, <1>11, <2>2, <2>5, <2>6, <3>1, <3>2 DEF CallsInStep, StageInStep
    <3>3. CASE j # i
      <4>1. CallsInStep(j)'
        BY <1>5, <2>2, <2>7, <3>1, <3>3 DEF CallsInStep
      <4>2. j = "body" => i = "querystring"
        BY <3>3 DEF Input
      <4>3. StageInStep(j)'
        BY <1>5, <1>11, <2>7, <3>1, <3>3, <4>2 DEF StageInStep
      <4> QED BY <2>7, <3>3, <4>1, <4>3
    <3> QED BY <3>2, <3>3
  <2> QED BY <1>8, <2>2, <2>4, <2>8 DEF Kept, IInv
<1>12. ASSUME tcb' = drained, type' = [type EXCEPT ![i] = t], i = "body",
              bodyBuf = <<>>, stage' = [stage EXCEPT ![i] = "READ_RESPONSE"],
              main' = joined, UNCHANGED <<parsed, parsedAs, bodyBuf, bodyBufComplete>>
       PROVE  Kept
  <2>1. /\ main' \in Seq(Call) /\ tcb' \in [Node -> Seq(Call)] /\ QueuesApart(main, tcb)'
        /\ Queued' \subseteq Queued \ {c}
    BY <1>2, <1>12 DEF Queued
  <2>2. stage \in [Input -> Stage] /\ stage' \in [Input -> Stage] /\ type' \in [Input -> Type]
    BY <1>9, <1>12 DEF IInv, TypeOK, Stage
  <2>3. TypeOK'
    BY <1>2, <1>5, <1>6, <1>12, <2>1, <2>2 DEF IInv, TypeOK
  <2>4. stage'[i] = "READ_RESPONSE" /\ \A j \in Input : j # i => stage'[j] = stage[j]
    BY <1>12, <2>2
  <2>5. parsed[i] = given[i]
    BY <1>4, <1>12 DEF StageInStep
  <2>6. StreamStep(i)
    BY <1>4, <1>5, <1>12, <2>4, OutcomeIs DEF StreamStep, Rests, OutcomeOf
  <2>7. ASSUME NEW j \in Input PROVE CallsInStep(j)' /\ StageInStep(j)' /\ StreamStep(j)
    <3>1. CallsInStep(j) /\ StageInStep(j)
      BY DEF IInv
    <3>2. CASE j = i
      BY <1>4, <1>5, <1>12, <2>1, <2>4, <2>5, <2>6, <3>1, <3>2 DEF CallsInStep, StageInStep
    <3>3. CASE j # i
      BY <1>5, <1>12, <2>1, <2>4, <3>1, <3>3, StreamRests DEF CallsInStep, StageInStep
    <3> QED BY <3>2, <3>3
  <2> QED BY <1>8, <2>1, <2>3, <2>7 DEF Kept, IInv
<1>13. ASSUME tcb' = drained, type' = [type EXCEPT ![i] = t], i = "querystring",
              NEW s \in Outcomes(t, TRUE), ProcessBody(i, t, << 1 >>, s, joined),
              UNCHANGED <<bodyBuf, bodyBufComplete>>
       PROVE  Kept
  <2> DEFINE ps == <<1>>
             last == TRUE
  <2>1. ps \in Seq(1..Parts)
    BY PartsAssumption
  <2>2. ps = given[i]
    BY <1>1, <1>13 DEF IInv, HostInStep
  <2>3. /\ ps # <<>> /\ Len(ps) <= PartsOf(i) /\ PartsOf(i) \in Nat
        /\ last \in BOOLEAN /\ (last <=> Len(ps) = PartsOf(i))
    BY <1>13 DEF PartsOf
  <2>4. s \in Outcomes(t, last) /\ ProcessBody(i, t, ps, s, joined)
    BY <1>13
  <2>5. bodyBuf' \in Seq(1..Parts) /\ bodyBufComplete' \in BOOLEAN
    BY <1>13 DEF IInv, TypeOK
  <2> HIDE DEF ps, last
  <2> QED BY <1>11, <1>13, <2>1, <2>2, <2>3, <2>4, <2>5
<1>14. ASSUME tcb' = drained, type' = [type EXCEPT ![i] = t], i = "body",
              bodyBuf # <<>>, bodyBuf' = <<>>, bodyBufComplete' = FALSE,
              NEW s \in Outcomes(t, bodyBufComplete), ProcessBody(i, t, bodyBuf, s, joined)
       PROVE  Kept
  <2>1. /\ bodyBuf \in Seq(1..Parts) /\ bodyBufComplete \in BOOLEAN
        /\ bodyBuf' \in Seq(1..Parts) /\ bodyBufComplete' \in BOOLEAN
        /\ Parts \in Nat
    <3>1. bodyBuf \in Seq(1..Parts) /\ bodyBufComplete \in BOOLEAN
      BY DEF IInv, TypeOK
    <3>2. bodyBuf' \in Seq(1..Parts)
      BY <1>14
    <3> QED BY <1>14, <3>1, <3>2, PartsAssumption
  <2>2. /\ bodyBuf = given[i] /\ bodyBufComplete = (Len(given[i]) = Parts)
        /\ Len(given[i]) <= Parts /\ PartsOf(i) = Parts
    BY <1>4, <1>14 DEF IInv, HostInStep, PartsOf, StageInStep
  <2> QED BY <1>11, <1>14, <2>1, <2>2
<1> QED BY <1>7, <1>10, <1>12, <1>13, <1>14
-----------------------------------------------------------------------------
\* The nodes that an input holds when the transformation begins are counted.
LEMMA CardinalityOfInputs ==
  ASSUME NEW S, S \subseteq Input
  PROVE  Cardinality(S) \in Nat
<1>1. IsFiniteSet({"querystring"} \cup {"body"})
  <2>1. IsFiniteSet({"querystring"})
    BY FS_Singleton
  <2> QED BY <2>1, FS_AddElement
<1>2. Input = {"querystring"} \cup {"body"}
  BY DEF Input
<1>3. IsFiniteSet(Input)
  BY <1>1, <1>2
<1>4. IsFiniteSet(S)
  BY <1>3, FS_Subset
<1> QED BY <1>4, FS_CardinalityType

\* What the elements of one input queue.
LEMMA TypeCallsApart ==
  ASSUME NEW C, NEW i \in Input
  PROVE  /\ TypeCalls(C, i) \in Seq(Call) /\ IsInjective(TypeCalls(C, i))
         /\ ToSet(TypeCalls(C, i)) \subseteq { "element", "string", "type" } \X {i}
         /\ <<"type", i>> \in ToSet(TypeCalls(C, i)) => C[i].how = "late"
<1>1. CASE C[i].how = "late"
  <2> DEFINE a == <<"element", i>>
             b == <<"string", i>>
             c == <<"type", i>>
  <2>1. a \in Call /\ b \in Call /\ c \in Call
    BY DEF Call
  <2>2. a # b /\ a # c /\ b # c
    OBVIOUS
  <2>3. {a, b, c} \subseteq { "element", "string", "type" } \X {i}
    OBVIOUS
  <2>4. TypeCalls(C, i) = <<a, b, c>>
    BY <1>1 DEF TypeCalls
  <2> HIDE DEF a, b, c
  <2>5. <<a, b, c>> \in Seq(Call) /\ IsInjective(<<a, b, c>>)
    BY <2>1, <2>2 DEF IsInjective
  <2>6. ToSet(<<a, b, c>>) = {a, b, c}
    BY DEF ToSet
  <2> QED BY <1>1, <2>3, <2>4, <2>5, <2>6
<1>2. CASE C[i].how # "late"
  <2>1. TypeCalls(C, i) = <<>>
    BY <1>2 DEF TypeCalls
  <2>2. <<>> \in Seq(Call) /\ IsInjective(<<>>) /\ ToSet(<<>>) = {}
    BY DEF IsInjective, ToSet
  <2> QED BY <2>1, <2>2
<1> QED BY <1>1, <1>2

LEMMA ReaderCallsApart ==
  ASSUME NEW C, NEW i \in Input
  PROVE  /\ ReaderCalls(C, i) \in Seq(Call) /\ IsInjective(ReaderCalls(C, i))
         /\ ToSet(ReaderCalls(C, i)) \subseteq { "reader" } \X {i}
<1> DEFINE a == <<"reader", i>>
<1>1. a \in Call /\ a \in { "reader" } \X {i}
  BY DEF Call
<1>2. ReaderCalls(C, i) \in { <<a>>, <<>> }
  BY DEF ReaderCalls
<1> HIDE DEF a
<1>3. <<a>> \in Seq(Call) /\ IsInjective(<<a>>) /\ ToSet(<<a>>) = {a}
  BY <1>1 DEF IsInjective, ToSet
<1>4. <<>> \in Seq(Call) /\ IsInjective(<<>>) /\ ToSet(<<>>) = {}
  BY DEF IsInjective, ToSet
<1> QED BY <1>1, <1>2, <1>3, <1>4

\* The queue of a new context: a call of a kind for every input, at most.
LEMMA CreatedApart ==
  ASSUME NEW C
  PROVE  /\ Created(C) \in Seq(Call) /\ IsInjective(Created(C))
         /\ ToSet(Created(C)) \subseteq { "element", "string", "type", "reader" } \X Input
         /\ \A i \in Input : <<"type", i>> \in ToSet(Created(C)) => C[i].how = "late"
<1> DEFINE tq == TypeCalls(C, "querystring")
           tb == TypeCalls(C, "body")
           rq == ReaderCalls(C, "querystring")
           rb == ReaderCalls(C, "body")
           Makes == { "element", "string", "type" }
<1>1. /\ tq \in Seq(Call) /\ IsInjective(tq) /\ ToSet(tq) \subseteq Makes \X {"querystring"}
      /\ tb \in Seq(Call) /\ IsInjective(tb) /\ ToSet(tb) \subseteq Makes \X {"body"}
      /\ rq \in Seq(Call) /\ IsInjective(rq) /\ ToSet(rq) \subseteq {"reader"} \X {"querystring"}
      /\ rb \in Seq(Call) /\ IsInjective(rb) /\ ToSet(rb) \subseteq {"reader"} \X {"body"}
      /\ <<"type", "querystring">> \in ToSet(tq) => C["querystring"].how = "late"
      /\ <<"type", "body">> \in ToSet(tb) => C["body"].how = "late"
  BY TypeCallsApart, ReaderCallsApart DEF Input
<1>2. Created(C) = ((tq \o tb) \o rq) \o rb
  BY DEF Created
<1> HIDE DEF tq, tb, rq, rb
<1>3. /\ ToSet(tq) \cap ToSet(tb) = {}
      /\ (ToSet(tq) \cup ToSet(tb)) \cap ToSet(rq) = {}
      /\ (ToSet(tq) \cup ToSet(tb) \cup ToSet(rq)) \cap ToSet(rb) = {}
  BY <1>1
<1>4. /\ tq \o tb \in Seq(Call) /\ IsInjective(tq \o tb)
      /\ ToSet(tq \o tb) = ToSet(tq) \cup ToSet(tb)
  BY <1>1, <1>3, ConcatInjective
<1> DEFINE makes == tq \o tb
           reads == makes \o rq
<1>5. makes \in Seq(Call) /\ IsInjective(makes) /\ ToSet(makes) = ToSet(tq) \cup ToSet(tb)
  BY <1>4
<1> HIDE DEF makes
<1>6. /\ reads \in Seq(Call) /\ IsInjective(reads)
      /\ ToSet(reads) = ToSet(makes) \cup ToSet(rq)
  <2>1. ToSet(makes) \cap ToSet(rq) = {}
    BY <1>3, <1>5
  <2>2. IsInjective(makes \o rq) /\ ToSet(makes \o rq) = ToSet(makes) \cup ToSet(rq)
    BY <1>1, <1>5, <2>1, ConcatInjective
  <2> QED BY <1>1, <1>5, <2>2
<1>7. Created(C) = reads \o rb
  BY <1>2 DEF makes
<1> HIDE DEF reads
<1>8. /\ Created(C) \in Seq(Call) /\ IsInjective(Created(C))
      /\ ToSet(Created(C)) = ToSet(reads) \cup ToSet(rb)
  <2>1. ToSet(reads) \cap ToSet(rb) = {}
    BY <1>3, <1>5, <1>6
  <2>2. IsInjective(reads \o rb) /\ ToSet(reads \o rb) = ToSet(reads) \cup ToSet(rb)
    BY <1>1, <1>6, <2>1, ConcatInjective
  <2> QED BY <1>1, <1>6, <1>7, <2>2
<1>9. ToSet(Created(C)) = ToSet(tq) \cup ToSet(tb) \cup ToSet(rq) \cup ToSet(rb)
  BY <1>5, <1>6, <1>8
<1>10. ToSet(Created(C)) \subseteq { "element", "string", "type", "reader" } \X Input
  BY <1>1, <1>9 DEF Input
<1>11. ASSUME NEW i \in Input, <<"type", i>> \in ToSet(Created(C))
       PROVE  C[i].how = "late"
  <2>1. <<"type", i>> \notin ToSet(rq) \cup ToSet(rb)
    BY <1>1
  <2>2. <<"type", i>> \in ToSet(tq) => i = "querystring"
    BY <1>1
  <2>3. <<"type", i>> \in ToSet(tb) => i = "body"
    BY <1>1
  <2> QED BY <1>1, <1>9, <1>11, <2>1, <2>2, <2>3
<1> QED BY <1>8, <1>10, <1>11
-----------------------------------------------------------------------------
(***************************************************************************)
(* The beginning: nothing is given, and every call is queued once.         *)
(***************************************************************************)
LEMMA InitTyped == Init => TypeOK
<1> SUFFICES ASSUME Init PROVE TypeOK
  OBVIOUS
<1>1. config \in [Input -> [how : {"none", "untyped", "static", "late"},
                           type : Type, from : {"text", "answer", "querystring"}]]
  BY ConfigsAssumption DEF Init, Config
<1>2. count \in [Node -> Nat]
  <2>1. ASSUME NEW n \in Node PROVE Held(config, n) \in Nat
    <3> DEFINE A == { i \in Input : config[i].how # "none" /\ n \in ToSet(PathOf(R(i))) }
               B == { i \in Input : config[i].how = "late" /\ n \in ToSet(PathOf(T(i))) }
    <3>1. Cardinality(A) \in Nat
      BY CardinalityOfInputs
    <3>2. Cardinality(B) \in Nat
      BY CardinalityOfInputs
    <3>3. Held(config, n) = Cardinality(A) + Cardinality(B)
      BY DEF Held
    <3> HIDE DEF A, B
    <3> QED BY <3>1, <3>2, <3>3
  <2>2. count = [n \in Node |-> Held(config, n)]
    BY DEF Init
  <2> QED BY <2>1, <2>2
<1>3. main \in Seq(Call)
  BY CreatedApart DEF Init
<1>4. stage \in [Input -> Stage] /\ type \in [Input -> Type]
  <2>1. ASSUME NEW i \in Input PROVE config[i].type \in Type
    <3>1. config[i] \in [how : {"none", "untyped", "static", "late"},
                         type : Type, from : {"text", "answer", "querystring"}]
      BY <1>1
    <3> QED BY <3>1
  <2> QED BY <2>1 DEF Init, Stage, Type
<1>5. tcb \in [Node -> Seq(Call)]
  <2>1. <<>> \in Seq(Call)
    OBVIOUS
  <2> QED BY <2>1 DEF Init
<1>6. <<>> \in Seq(1..Parts)
  OBVIOUS
<1>7. /\ bodyBuf \in Seq(1..Parts)
      /\ given \in [Input -> Seq(1..Parts)] /\ parsed \in [Input -> Seq(1..Parts)]
  BY <1>6 DEF Init
<1> QED BY <1>2, <1>3, <1>4, <1>5, <1>7 DEF Init, TypeOK

LEMMA InitInvariant == Init => IInv
<1> SUFFICES ASSUME Init PROVE IInv
  OBVIOUS
<1>1. TypeOK
  BY InitTyped
<1>2. /\ main \in Seq(Call) /\ IsInjective(main)
      /\ ToSet(main) \subseteq { "element", "string", "type", "reader" } \X Input
      /\ \A i \in Input : <<"type", i>> \in ToSet(main) => config[i].how = "late"
  BY CreatedApart DEF Init
<1>3. \A n \in Node : tcb[n] = <<>>
  BY DEF Init
<1>4. ToSet(<<>>) = {} /\ IsInjective(<<>>)
  BY DEF ToSet, IsInjective
<1>5. QueuesApart(main, tcb)
  BY <1>1, <1>2, <1>3, <1>4, QueueTypes DEF QueuesApart
<1>6. Queued = ToSet(main)
  BY <1>1, <1>3, <1>4, QueueTypes DEF Queued, InQueues
<1>7. HostInStep
  BY PartsAssumption DEF Init, HostInStep, Input
<1>8. ASSUME NEW i \in Input PROVE CallsInStep(i) /\ StageInStep(i)
  <2>1. /\ <<"elementEnd", i>> \notin Queued /\ <<"readerEnd", i>> \notin Queued
        /\ <<"result", i>> \notin Queued
    BY <1>2, <1>6
  <2>2. /\ stage[i] = IF config[i].how = "static" THEN "READ_RESPONSE" ELSE "PARAMS_BEGIN"
        /\ asked = {} /\ given[i] = <<>> /\ parsed[i] = <<>>
        /\ bodyBuf = <<>> /\ bodyBufComplete = FALSE
    BY DEF Init
  <2>3. Len(<<>>) # Parts
    BY PartsAssumption
  <2> QED BY <1>2, <1>6, <2>1, <2>2, <2>3 DEF CallsInStep, StageInStep
<1> QED BY <1>1, <1>5, <1>7, <1>8 DEF IInv

LEMMA InitStreams == Init => Querystring!Init /\ Body!Init
<1> SUFFICES ASSUME Init PROVE Querystring!Init /\ Body!Init
  OBVIOUS
<1>1. ASSUME NEW i \in Input
      PROVE  given[i] = <<>> /\ parsed[i] = <<>> /\ OutcomeOf(i) = "pending"
  <2>1. stage[i] \in { "READ_RESPONSE", "PARAMS_BEGIN" }
    BY DEF Init
  <2>2. OutcomeOf(i) = "pending"
    BY <2>1, OutcomeIs DEF OutcomeOf
  <2> QED BY <2>2 DEF Init
<1> QED BY <1>1 DEF Input, Querystring!Init, Body!Init
-----------------------------------------------------------------------------
LEMMA StepKeeps == IInv /\ [Next]_vars => Kept
<1> SUFFICES ASSUME IInv, [Next]_vars PROVE Kept
  OBVIOUS
<1>1. CASE RunsOut
  BY <1>1, RunsOutKeeps
<1>2. ASSUME NEW i \in Input, ElementFirst(i) PROVE Kept
  BY <1>2, ElementFirstKeeps
<1>3. ASSUME NEW i \in Input, ElementEnd(i) PROVE Kept
  BY <1>3, ElementEndKeeps
<1>4. ASSUME NEW i \in Input, StringCall(i) PROVE Kept
  BY <1>4, StringCallKeeps
<1>5. ASSUME NEW i \in Input, TypeCall(i) PROVE Kept
  BY <1>5, TypeCallKeeps
<1>6. ASSUME NEW i \in Input, ResultCall(i) PROVE Kept
  BY <1>6, ResultCallKeeps
<1>7. ASSUME NEW i \in Input, ReaderFirst(i) PROVE Kept
  BY <1>7, ReaderFirstKeeps
<1>8. ASSUME NEW i \in Input, ReaderEnd(i) PROVE Kept
  BY <1>8, ReaderEndKeeps
<1>9. CASE GiveQuerystring
  BY <1>9, GiveQuerystringKeeps
<1>10. CASE GiveHeader
  BY <1>10, GiveHeaderKeeps
<1>11. CASE GiveBody
  BY <1>11, GiveBodyKeeps
<1>12. CASE Resume
  BY <1>12, ResumeKeeps
<1>13. ASSUME NEW i \in Input, Answer(i) PROVE Kept
  BY <1>13, AnswerKeeps
<1>14. CASE UNCHANGED vars
  <2>1. TypeOK'
    BY <1>14 DEF IInv, TypeOK, vars, queues, input, buffers, sheet, host
  <2>2. QueuesApart(main, tcb)' /\ Queued' = Queued
    BY <1>14 DEF IInv, vars, queues, Queued
  <2>3. \A j \in Input : CallsInStep(j)'
    BY ZenonT(30), <1>14, <2>2 DEF IInv, CallsInStep, vars, input, sheet, host
  <2>4. HostInStep'
    BY <1>14 DEF IInv, HostInStep, vars, buffers, sheet, host
  <2> QED BY <1>14, <2>1, <2>2, <2>3, <2>4, InputsRest DEF vars, input, buffers, host
<1> QED
  BY <1>1, <1>2, <1>3, <1>4, <1>5, <1>6, <1>7, <1>8, <1>9, <1>10, <1>11, <1>12,
     <1>13, <1>14 DEF Next, Loop, Gives

\* The invariant: the buffer and the parser have what has been given, and the
\* calls that begin the parser and take its result are queued once at most.
THEOREM InputInvariant == Spec => []IInv
<1>1. IInv /\ [Next]_vars => IInv'
  BY StepKeeps DEF Kept
<1> QED BY <1>1, InitInvariant, PTL DEF Spec

\* The variables have their types for a body of any number of parts: the buffer
\* and the parser hold parts of it, and a subrequest is answered after it is
\* asked.
THEOREM InputTyped == Spec => []TypeOK
<1>1. IInv => TypeOK
  BY DEF IInv
<1> QED BY <1>1, InputInvariant, PTL

\* Every part of an input is parsed once, in order and with the ones before
\* it, and the outcome that is told is that of all of them, whenever the type
\* of the input becomes known (include.cc 1561-1655, xrlt.cc 403-481).
THEOREM InputsStream == Spec => InputsAreStreams
<1>1. IInv /\ [Next]_vars =>
        /\ [Querystring!Next]_(Querystring!vars)
        /\ [Body!Next]_(Body!vars)
  BY StepKeeps, StreamSteps DEF Kept
<1> QED
  BY <1>1, InitStreams, InputInvariant, PTL
     DEF Spec, InputsAreStreams, Querystring!Spec, Body!Spec
=============================================================================
