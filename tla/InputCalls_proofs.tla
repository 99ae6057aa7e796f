------------------------- MODULE InputCalls_proofs -------------------------
(***************************************************************************)
(* What the calls of an input do for those that wait for them: the type is *)
(* known when the parser is made, the document is there when the variable  *)
(* is read, and nothing is left over when the transformation is done.      *)
(*                                                                         *)
(* The counter of a node is the number of the reasons that are queued or   *)
(* awaited.  So a decrease meets no zero and wakes exactly the calls whose *)
(* last reason it is, and the order of the main queue does the rest: the   *)
(* string of a type is set before the call that takes it is repeated.      *)
(***************************************************************************)
EXTENDS RequestInput_proofs

ElementC(i) == <<"element", i>>
ElementEndC(i) == <<"elementEnd", i>>
StringC(i) == <<"string", i>>
TypeC(i) == <<"type", i>>
ResultC(i) == <<"result", i>>
ReaderC(i) == <<"reader", i>>
ReaderEndC(i) == <<"readerEnd", i>>

InMain(c) == c \in ToSet(main)

\* What a call may wait on.
MayWait(c, n) ==
  \E i \in Input :
    \/ n = Tmp(i) /\ c = StringC(i)
    \/ n = T(i) /\ c = TypeC(i)
    \/ n = Vdoc(i) /\ c = ReaderEndC(i)
    \/ n = Vdoc(i) /\ i = "querystring" /\ c = ElementEndC("body")

\* The queues t of the nodes hold calls that may wait there, and a node with a
\* queue is not ready by the counters f.
Placed(t, f) ==
  /\ \A n \in Node : t[n] # <<>> => f[n] > 0
  /\ \A n \in Node : \A c \in ToSet(t[n]) : MayWait(c, n)

\* The element a type is made from has begun and not ended.
ElementWaits(i) == ElementEndC(i) \in Queued \/ i \in asked \ answered

\* The input is there and has no result yet.
ResultAwaited(i) == config[i].how # "none" /\ stage[i] # "END"

\* The reasons that the nodes of an input are not ready for.
Counted(i) ==
  /\ count[Tmp(i)] = IF ElementWaits(i) THEN 1 ELSE 0
  /\ count[T(i)] = count[Tmp(i)] \/ count[T(i)] = count[Tmp(i)] + 1
  /\ count[T(i)] = count[Tmp(i)] + 1 => InMain(TypeC(i))
  /\ count[T(i)] = count[Tmp(i)] /\ InMain(TypeC(i)) => count[T(i)] = 0
  /\ count[T(i)] > 0 => TypeC(i) \in Queued
  /\ count[R(i)] = IF ResultAwaited(i) THEN count[T(i)] + 1 ELSE count[T(i)]
  /\ count[Vdoc(i)] = count[R(i)]
  /\ count[Reader(i)] = IF ReaderEndC(i) \in Queued THEN 1 ELSE 0

DocCounted ==
  count[Doc] = count[Vdoc("querystring")] + count[Vdoc("body")]
                 + count[Reader("querystring")] + count[Reader("body")]

\* The calls that make a type, in the order they are made in.
Ordered(i) ==
  /\ ElementC(i) \in Queued =>
       InFront(main, ElementC(i), TypeC(i)) /\ count[T(i)] = count[Tmp(i)] + 1
  /\ TypeC(i) \in Queued => config[i].how = "late"
  /\ TypeC(i) \in Queued /\ ctype[i] = "NULL" => StringC(i) \in Queued
  /\ InMain(StringC(i)) /\ InMain(TypeC(i)) => InFront(main, StringC(i), TypeC(i))
  /\ InMain(ElementEndC(i)) /\ InMain(TypeC(i)) =>
       InFront(main, TypeC(i), ElementEndC(i))

QueuesCounted ==
  /\ Placed(tcb, count)
  /\ DocCounted
  /\ \A i \in Input : Counted(i) /\ Ordered(i)

\* What is known of the type of an input.
Learned(i) ==
  /\ ctype[i] \in {"NULL", config[i].type}
  /\ stage[i] = "READ_RESPONSE" => type[i] = config[i].type
  /\ parsedAs[i] # "none" => parsedAs[i] = config[i].type
  /\ parsedAs[i] # "none" \/ stage[i] # "PARAMS_BEGIN" => config[i].how \in {"static", "late"}

\* Who reads the variable of an input has read it, or will.
Reads(i) ==
  /\ seen[i] # "nothing" => stage[i] = "END" /\ seen[i] = result[i]
  /\ InMain(ReaderEndC(i)) => stage[i] = "END"
  /\ stage[i] = "END" => result[i] \in { "document", "failure" }
  /\ ReaderC(i) \in Queued \/ ReaderEndC(i) \in Queued => config[i].how # "none"
  /\ config[i].how # "none" =>
       ReaderC(i) \in Queued \/ ReaderEndC(i) \in Queued \/ seen[i] # "nothing"

\* A document of the body is made of all parts.
BodyWhole ==
  stage["body"] = "SUCCESS" \/ (stage["body"] = "END" /\ result["body"] = "document") =>
    Len(given["body"]) = Parts

\* How the querystring is kept.
QuerystringKept ==
  LET c == config["querystring"]
  IN IF phase = "querystring"
     THEN /\ parsedAs["querystring"] = "none"
          /\ type["querystring"] = IF c.how = "static" THEN c.type ELSE "XML"
     ELSE c.how # "none" =>
            (querystring = "decoded" <=> c.how # "static" \/ c.type # "QUERYSTRING")

HostKnows ==
  /\ phase = "loop" => ~ running /\ asked = {}
  /\ phase = "body" => config["body"].how # "none"
  /\ running => "DONE" \notin cur

InputsKnown ==
  /\ BodyWhole
  /\ QuerystringKept
  /\ HostKnows
  /\ \A i \in Input : Learned(i) /\ Reads(i)

CInv == IInv /\ QueuesCounted /\ InputsKnown /\ DoneIsComplete
-----------------------------------------------------------------------------
(***************************************************************************)
(* The nodes.                                                              *)
(***************************************************************************)
LEMMA NodeKinds ==
  \A n \in Node : \/ n = Doc
                  \/ \E i \in Input : n \in { Vdoc(i), R(i), T(i), Tmp(i), Reader(i) }
BY DEF Node, Vdoc, R, T, Tmp, Reader

LEMMA NodesApart ==
  ASSUME NEW i \in Input, NEW j \in Input
  PROVE  /\ (Vdoc(i) = Vdoc(j) <=> i = j) /\ (R(i) = R(j) <=> i = j)
         /\ (T(i) = T(j) <=> i = j) /\ (Tmp(i) = Tmp(j) <=> i = j)
         /\ (Reader(i) = Reader(j) <=> i = j)
         /\ Doc \notin { Vdoc(i), R(i), T(i), Tmp(i), Reader(i) }
         /\ Vdoc(i) \notin { R(j), T(j), Tmp(j), Reader(j) }
         /\ R(i) \notin { T(j), Tmp(j), Reader(j) }
         /\ T(i) \notin { Tmp(j), Reader(j) }
         /\ Tmp(i) # Reader(j)
<1>1. \A k, l \in { "vdoc", "r", "t", "tmp", "reader" } : <<k, i>> = <<l, j>> <=> k = l /\ i = j
  OBVIOUS
<1>2. \A k \in { "vdoc", "r", "t", "tmp", "reader" } : <<k, i>> # Doc
  BY DEF Doc
<1> QED BY <1>1, <1>2 DEF Vdoc, R, T, Tmp, Reader

LEMMA Paths ==
  ASSUME NEW i \in Input
  PROVE  /\ PathOf(R(i)) = <<R(i), Vdoc(i), Doc>>
         /\ PathOf(T(i)) = <<T(i), R(i), Vdoc(i), Doc>>
         /\ PathOf(Tmp(i)) = <<Tmp(i), T(i), R(i), Vdoc(i), Doc>>
         /\ PathOf(Reader(i)) = <<Reader(i), Doc>>
<1>1. \A k \in { "vdoc", "r", "t", "tmp", "reader" } : <<k, i>> # Doc
  BY DEF Doc
<1>2. PathOf(R(i)) = <<R(i), Vdoc(i), Doc>>
  BY <1>1 DEF PathOf, R
<1>3. PathOf(T(i)) = <<T(i), R(i), Vdoc(i), Doc>>
  BY <1>1 DEF PathOf, T
<1>4. PathOf(Tmp(i)) = <<Tmp(i), T(i), R(i), Vdoc(i), Doc>>
  BY <1>1 DEF PathOf, Tmp
<1>5. PathOf(Reader(i)) = <<Reader(i), Doc>>
  BY <1>1 DEF PathOf, Reader
<1> QED BY <1>2, <1>3, <1>4, <1>5

LEMMA PathSets ==
  ASSUME NEW i \in Input
  PROVE  /\ ToSet(PathOf(R(i))) = { R(i), Vdoc(i), Doc }
         /\ ToSet(PathOf(T(i))) = { T(i), R(i), Vdoc(i), Doc }
         /\ ToSet(PathOf(Tmp(i))) = { Tmp(i), T(i), R(i), Vdoc(i), Doc }
         /\ ToSet(PathOf(Reader(i))) = { Reader(i), Doc }
<1>1. \A a, b, c : ToSet(<<a, b, c>>) = {a, b, c}
  BY DEF ToSet
<1>2. \A a, b, c, d : ToSet(<<a, b, c, d>>) = {a, b, c, d}
  BY DEF ToSet
<1>3. \A a, b, c, d, e : ToSet(<<a, b, c, d, e>>) = {a, b, c, d, e}
  BY DEF ToSet
<1>4. \A a, b : ToSet(<<a, b>>) = {a, b}
  BY DEF ToSet
<1> QED BY <1>1, <1>2, <1>3, <1>4, Paths

\* A function of the nodes on a way up and of the others, node by node.
LEMMA OnPaths ==
  ASSUME NEW i \in Input, NEW j \in Input
  PROVE  /\ LET S == ToSet(PathOf(Tmp(i)))
            IN /\ (Tmp(j) \in S <=> i = j) /\ (T(j) \in S <=> i = j)
               /\ (R(j) \in S <=> i = j) /\ (Vdoc(j) \in S <=> i = j)
               /\ Doc \in S /\ Reader(j) \notin S
         /\ LET S == ToSet(PathOf(T(i)))
            IN /\ Tmp(j) \notin S /\ (T(j) \in S <=> i = j)
               /\ (R(j) \in S <=> i = j) /\ (Vdoc(j) \in S <=> i = j)
               /\ Doc \in S /\ Reader(j) \notin S
         /\ LET S == ToSet(PathOf(R(i)))
            IN /\ Tmp(j) \notin S /\ T(j) \notin S
               /\ (R(j) \in S <=> i = j) /\ (Vdoc(j) \in S <=> i = j)
               /\ Doc \in S /\ Reader(j) \notin S
         /\ LET S == ToSet(PathOf(Reader(i)))
            IN /\ Tmp(j) \notin S /\ T(j) \notin S /\ R(j) \notin S /\ Vdoc(j) \notin S
               /\ Doc \in S /\ (Reader(j) \in S <=> i = j)
BY PathSets, NodesApart

\* The calls.
LEMMA CallsApart ==
  ASSUME NEW i \in Input, NEW j \in Input, NEW c, NEW d
  PROVE  <<c, i>> = <<d, j>> <=> c = d /\ i = j
OBVIOUS

LEMMA BothInputs == Input = {"querystring", "body"} /\ "querystring" # "body"
BY DEF Input
-----------------------------------------------------------------------------
(***************************************************************************)
(* The queues.                                                             *)
(***************************************************************************)
\* Where the calls are that are queued.
LEMMA Places ==
  ASSUME Placed(tcb, count), TypeOK, NEW i \in Input
  PROVE  /\ StringC(i) \in Queued <=> InMain(StringC(i)) \/ StringC(i) \in ToSet(tcb[Tmp(i)])
         /\ TypeC(i) \in Queued <=> InMain(TypeC(i)) \/ TypeC(i) \in ToSet(tcb[T(i)])
         /\ ElementC(i) \in Queued <=> InMain(ElementC(i))
         /\ ReaderC(i) \in Queued <=> InMain(ReaderC(i))
         /\ ReaderEndC(i) \in Queued <=>
              InMain(ReaderEndC(i)) \/ ReaderEndC(i) \in ToSet(tcb[Vdoc(i)])
<1>1. DOMAIN tcb = Node
  BY QueueTypes
<1>2. ASSUME NEW n \in Node, NEW c, c \in ToSet(tcb[n])
      PROVE  MayWait(c, n)
  BY <1>2 DEF Placed
<1>3. \A j \in Input : Tmp(j) \in Node /\ T(j) \in Node /\ Vdoc(j) \in Node
  BY NodesOfInputs
<1>4. ASSUME NEW n \in Node, NEW c \in { "string", "type", "element", "reader", "readerEnd" },
             <<c, i>> \in ToSet(tcb[n])
      PROVE  \/ n = Tmp(i) /\ c = "string"
             \/ n = T(i) /\ c = "type"
             \/ n = Vdoc(i) /\ c = "readerEnd"
  BY <1>2, <1>4, CallsApart DEF MayWait, StringC, TypeC, ReaderEndC, ElementEndC
<1>5. ASSUME NEW c \in { "string", "type", "element", "reader", "readerEnd" }
      PROVE  <<c, i>> \in Queued <=>
               \/ <<c, i>> \in ToSet(main)
               \/ c = "string" /\ <<c, i>> \in ToSet(tcb[Tmp(i)])
               \/ c = "type" /\ <<c, i>> \in ToSet(tcb[T(i)])
               \/ c = "readerEnd" /\ <<c, i>> \in ToSet(tcb[Vdoc(i)])
  BY <1>1, <1>3, <1>4 DEF Queued, InQueues
<1> QED BY <1>5 DEF InMain, StringC, TypeC, ReaderEndC, ElementC, ReaderC

\* A call may be left on a node that is not ready.
LEMMA ParkedPlaced ==
  ASSUME NEW t \in [Node -> Seq(Call)], NEW f, Placed(t, f),
         NEW n \in Node, NEW c \in Call, MayWait(c, n), f[n] > 0
  PROVE  Placed(Parked(t, n, c), f)
<1> DEFINE new == Parked(t, n, c)
<1>1. \A m \in Node : new[m] = IF m = n THEN Append(t[m], c) ELSE t[m]
  BY DEF Parked
<1>2. \A m \in Node : ToSet(Append(t[m], c)) = ToSet(t[m]) \cup {c}
  BY Appended
<1> HIDE DEF new
<1>3. \A m \in Node : new[m] # <<>> => f[m] > 0
  BY <1>1 DEF Placed
<1>4. ASSUME NEW m \in Node, NEW d \in ToSet(new[m]) PROVE MayWait(d, m)
  BY <1>1, <1>2, <1>4 DEF Placed
<1> QED BY <1>3, <1>4 DEF Placed, new

\* More reasons change nothing for the calls that wait.
LEMMA RaisedPlaced ==
  ASSUME Placed(tcb, count), TypeOK, NEW new \in [Node -> Nat],
         \A n \in Node : new[n] >= count[n]
  PROVE  Placed(tcb, new)
<1>1. ASSUME NEW n \in Node, tcb[n] # <<>> PROVE new[n] > 0
  <2>1. count[n] \in Nat /\ new[n] \in Nat /\ count[n] > 0 /\ new[n] >= count[n]
    BY <1>1, QueueTypes DEF Placed
  <2> QED BY <2>1
<1> QED BY <1>1 DEF Placed

\* A decrease leaves no call behind on a node that it makes ready.
LEMMA LoweredPlaced ==
  ASSUME NEW t \in [Node -> Seq(Call)], NEW f, Placed(t, f), NEW less, NEW new,
         \A n \in Node : new[n] = <<>> \/ new[n] = t[n],
         \A n \in Node : new[n] # <<>> => less[n] > 0
  PROVE  Placed(new, less)
<1>1. ToSet(<<>>) = {}
  BY DEF ToSet
<1>2. \A m \in Node : ToSet(new[m]) \subseteq ToSet(t[m])
  BY <1>1
<1> QED BY <1>2 DEF Placed

\* The call that is made is the oldest of the main queue, and in no other one.
LEMMA Takes ==
  ASSUME IInv, NEW c, NEW i \in Input, Calls(c, i)
  PROVE  /\ InMain(<<c, i>>) /\ running
         /\ ToSet(Rest) = ToSet(main) \ {<<c, i>>}
         /\ \A n \in Node : <<c, i>> \notin ToSet(tcb[n])
         /\ \A x : ~ InFront(main, x, <<c, i>>)
         /\ \A x, y : InFront(main, x, y) /\ x # <<c, i>> => InFront(Rest, x, y)
<1>1. /\ main \in Seq(Call) /\ main # <<>> /\ Head(main) = <<c, i>> /\ IsInjective(main)
      /\ \A n \in Node : ToSet(main) \cap ToSet(tcb[n]) = {}
      /\ running
  BY QueueTypes DEF IInv, Calls, QueuesApart
<1>2. Head(main) \in ToSet(main) /\ ToSet(Tail(main)) = ToSet(main) \ {Head(main)}
  BY <1>1, Popped
<1>3. \A x : ~ InFront(main, x, Head(main))
  BY <1>1, InFrontOfHead
<1>4. \A x, y : InFront(main, x, y) /\ x # Head(main) => InFront(Tail(main), x, y)
  BY <1>1, InFrontTail
<1> QED BY <1>1, <1>2, <1>3, <1>4 DEF InMain, Rest
-----------------------------------------------------------------------------
(***************************************************************************)
(* The host's steps: they leave the nodes alone and add a call at most.    *)
(***************************************************************************)
\* A call that none of the others waits for makes no difference.
LEMMA QueuesSame ==
  ASSUME QueuesCounted, UNCHANGED <<count, tcb, ctype, config, asked, answered>>,
         \A j \in Input : stage'[j] = "END" <=> stage[j] = "END",
         \A j \in Input, c \in { "element", "elementEnd", "string", "type", "readerEnd" } :
           /\ <<c, j>> \in ToSet(main') <=> <<c, j>> \in ToSet(main)
           /\ <<c, j>> \in Queued' <=> <<c, j>> \in Queued,
         \A x, y : InFront(main, x, y) => InFront(main', x, y)
  PROVE  QueuesCounted'
<1>1. Placed(tcb, count)'
  BY DEF QueuesCounted, Placed
<1>2. DocCounted'
  BY DEF QueuesCounted, DocCounted
<1>3. ASSUME NEW i \in Input PROVE Counted(i)' /\ Ordered(i)'
  <2>1. Counted(i) /\ Ordered(i)
    BY DEF QueuesCounted
  <2>2. /\ InMain(TypeC(i))' <=> InMain(TypeC(i))
        /\ InMain(StringC(i))' <=> InMain(StringC(i))
        /\ InMain(ElementEndC(i))' <=> InMain(ElementEndC(i))
        /\ \A c \in { ElementC(i), ElementEndC(i), StringC(i), TypeC(i), ReaderEndC(i) } :
             c \in Queued' <=> c \in Queued
    BY DEF InMain, TypeC, StringC, ElementEndC, ElementC, ReaderEndC
  <2>3. /\ ElementWaits(i)' <=> ElementWaits(i)
        /\ ResultAwaited(i)' <=> ResultAwaited(i)
    BY <2>2 DEF ElementWaits, ResultAwaited
  <2>4. Counted(i)'
    BY <2>1, <2>2, <2>3 DEF Counted
  <2>5. Ordered(i)'
    BY <2>1, <2>2 DEF Ordered, ElementC, TypeC, StringC, ElementEndC
  <2> QED BY <2>4, <2>5
<1> QED BY <1>1, <1>2, <1>3 DEF QueuesCounted

\* What the parser leaves in the queues.
LEMMA Processed ==
  ASSUME NEW i \in Input, NEW t, NEW ps, NEW s, NEW q \in Seq(Call),
         ProcessBody(i, t, ps, s, q)
  PROVE  /\ \A j \in Input, c \in { "element", "elementEnd", "string", "type",
                                    "reader", "readerEnd" } :
              /\ <<c, j>> \in ToSet(main') <=> <<c, j>> \in ToSet(q)
              /\ <<c, j>> \in Queued' <=> <<c, j>> \in InQueues(q, tcb')
         /\ \A x, y : InFront(q, x, y) => InFront(main', x, y)
<1> DEFINE d == <<"result", i>>
<1>1. main' = q \/ main' = Append(q, d)
  BY DEF ProcessBody
<1>2. d \in Call
  BY DEF Call
<1>3. ToSet(Append(q, d)) = ToSet(q) \cup {d}
  <2> HIDE DEF d
  <2> QED BY <1>2, Appended
<1>4. \A x, y : InFront(q, x, y) => InFront(Append(q, d), x, y)
  <2> HIDE DEF d
  <2> QED BY <1>2, InFrontAppended
<1>5. ToSet(main') = ToSet(q) \/ ToSet(main') = ToSet(q) \cup {d}
  BY <1>1, <1>3
<1>6. Queued' = ToSet(main') \cup UNION { ToSet(tcb'[n]) : n \in DOMAIN tcb' }
  BY DEF Queued, InQueues
<1>7. ASSUME NEW j \in Input,
             NEW c \in { "element", "elementEnd", "string", "type", "reader", "readerEnd" }
      PROVE  <<c, j>> # d
  OBVIOUS
<1> HIDE DEF d
<1>8. ASSUME NEW j \in Input,
             NEW c \in { "element", "elementEnd", "string", "type", "reader", "readerEnd" }
      PROVE  /\ <<c, j>> \in ToSet(main') <=> <<c, j>> \in ToSet(q)
             /\ <<c, j>> \in Queued' <=> <<c, j>> \in InQueues(q, tcb')
  BY <1>5, <1>6, <1>7 DEF InQueues
<1> QED BY <1>1, <1>4, <1>8

\* What is known when parts are parsed as the type that the sheet gives.
LEMMA ProcessedKnown ==
  ASSUME TypeOK, \A j \in Input : Learned(j), NEW i \in Input, NEW ps, NEW s, NEW q,
         ProcessBody(i, config[i].type, ps, s, q),
         config[i].how \in {"static", "late"},
         type' = [type EXCEPT ![i] = config[i].type], UNCHANGED <<config, ctype>>
  PROVE  \A j \in Input : Learned(j)'
<1> SUFFICES ASSUME NEW j \in Input PROVE Learned(j)'
  OBVIOUS
<1>1. /\ stage \in [Input -> Stage] /\ type \in [Input -> Type]
      /\ parsedAs \in [Input -> Type \cup {"none"}]
  BY DEF TypeOK
<1>2. Learned(j)
  OBVIOUS
<1>3. CASE j = i
  BY <1>1, <1>2, <1>3 DEF Learned, ProcessBody
<1>4. CASE j # i
  BY <1>1, <1>2, <1>4 DEF Learned, ProcessBody
<1> QED BY <1>3, <1>4

\* What is known of the readers when a result is not taken.
LEMMA ReadersRest ==
  ASSUME \A j \in Input : Reads(j), UNCHANGED <<config, seen, result>>,
         \A j \in Input : stage'[j] = "END" <=> stage[j] = "END",
         \A j \in Input, c \in { "reader", "readerEnd" } :
           /\ <<c, j>> \in ToSet(main') <=> <<c, j>> \in ToSet(main)
           /\ <<c, j>> \in Queued' <=> <<c, j>> \in Queued
  PROVE  \A j \in Input : Reads(j)'
<1> SUFFICES ASSUME NEW j \in Input PROVE Reads(j)'
  OBVIOUS
<1>1. /\ InMain(ReaderEndC(j))' <=> InMain(ReaderEndC(j))
      /\ \A c \in { ReaderC(j), ReaderEndC(j) } : c \in Queued' <=> c \in Queued
  BY DEF InMain, ReaderC, ReaderEndC
<1> QED BY <1>1 DEF Reads

\* DONE is told only when the loop has run out of callbacks.
LEMMA NotDone ==
  ASSUME "DONE" \notin cur'
  PROVE  DoneIsComplete'
BY DEF DoneIsComplete

LEMMA OutcomesAre ==
  ASSUME NEW t, NEW last \in BOOLEAN, NEW s \in Outcomes(t, last)
  PROVE  /\ s \in { "FAILURE", "SUCCESS", "READ_RESPONSE" }
         /\ s = "SUCCESS" => last
         /\ s = "READ_RESPONSE" => ~ last
BY DEF Outcomes

LEMMA GiveHeaderCounts == CInv /\ GiveHeader => CInv'
<1> SUFFICES ASSUME CInv, GiveHeader PROVE CInv'
  OBVIOUS
<1>1. IInv'
  BY StepKeeps DEF CInv, Kept, Next, Gives
<1>2. /\ UNCHANGED <<count, tcb, main, stage, type, ctype, parsed, parsedAs, result,
                     querystring, given, seen, asked, config, answered, running>>
      /\ phase = "headers" /\ phase' = "loop" /\ cur' = {"WAITING"}
  BY DEF GiveHeader, queues, input, buffers, sheet
<1>3. Queued' = Queued
  BY <1>2 DEF Queued
<1>4. QueuesCounted'
  BY <1>2, <1>3, QueuesSame DEF CInv
<1>5. InputsKnown'
  <2>1. /\ BodyWhole' /\ QuerystringKept'
        /\ \A i \in Input : Learned(i)'
    BY <1>2 DEF CInv, InputsKnown, BodyWhole, QuerystringKept, Learned
  <2>2. \A i \in Input : Reads(i)'
    BY <1>2, <1>3, ReadersRest DEF CInv, InputsKnown
  <2>3. HostKnows'
    BY <1>2 DEF CInv, IInv, HostInStep, HostKnows
  <2> QED BY <2>1, <2>2, <2>3 DEF InputsKnown
<1>6. DoneIsComplete'
  BY <1>2, NotDone
<1> QED BY <1>1, <1>4, <1>5, <1>6 DEF CInv

LEMMA ResumeCounts == CInv /\ Resume => CInv'
<1> SUFFICES ASSUME CInv, Resume PROVE CInv'
  OBVIOUS
<1>1. IInv'
  BY StepKeeps DEF CInv, Kept, Next
<1>2. /\ UNCHANGED <<count, tcb, main, stage, type, ctype, parsed, parsedAs, result,
                     querystring, given, seen, asked, config, answered>>
      /\ phase \in {"loop", "body", "end"} /\ cur' = {}
      /\ phase' = IF phase # "loop" THEN phase
                  ELSE IF config["body"].how = "none" THEN "end" ELSE "body"
  BY DEF Resume, queues, input, buffers, sheet
<1>3. Queued' = Queued
  BY <1>2 DEF Queued
<1>4. QueuesCounted'
  BY <1>2, <1>3, QueuesSame DEF CInv
<1>5. InputsKnown'
  <2>1. /\ BodyWhole' /\ QuerystringKept'
        /\ \A i \in Input : Learned(i)'
    BY <1>2 DEF CInv, InputsKnown, BodyWhole, QuerystringKept, Learned
  <2>2. \A i \in Input : Reads(i)'
    BY <1>2, <1>3, ReadersRest DEF CInv, InputsKnown
  <2>3. HostKnows'
    BY <1>2 DEF CInv, InputsKnown, HostKnows
  <2> QED BY <2>1, <2>2, <2>3 DEF InputsKnown
<1>6. DoneIsComplete'
  BY <1>2, NotDone
<1> QED BY <1>1, <1>4, <1>5, <1>6 DEF CInv

LEMMA GiveQuerystringCounts == CInv /\ GiveQuerystring => CInv'
<1> SUFFICES ASSUME CInv, GiveQuerystring PROVE CInv'
  OBVIOUS
<1> DEFINE i == "querystring"
           ps == <<1>>
<1>0. i \in Input /\ i # "body"
  BY DEF Input
<1>1. IInv' /\ TypeOK /\ phase = "querystring"
  BY StepKeeps DEF CInv, Kept, Next, Gives, IInv, GiveQuerystring
<1>2. /\ UNCHANGED <<count, tcb, type, ctype, result, seen, asked, config, answered, running>>
      /\ phase' = "headers" /\ cur' = {"WAITING"} /\ given'["body"] = given["body"]
      /\ querystring' = IF DecodesNow(i) THEN "decoded" ELSE "verbatim"
  BY <1>0, <1>1 DEF GiveQuerystring, sheet, TypeOK
<1>3. \/ /\ stage[i] = "READ_RESPONSE"
         /\ \E s \in Outcomes(type[i], TRUE) : ProcessBody(i, type[i], ps, s, main)
      \/ UNCHANGED <<stage, parsed, parsedAs, main>>
  BY DEF GiveQuerystring
<1> HIDE DEF ps
<1>4. Learned(i) /\ config[i].how \in {"none", "untyped", "static", "late"}
  <2>1. config \in [Input -> [how : {"none", "untyped", "static", "late"},
                              type : Type, from : {"text", "answer", "querystring"}]]
    BY <1>1, ConfigsAssumption DEF TypeOK, Config
  <2>2. config[i] \in [how : {"none", "untyped", "static", "late"},
                       type : Type, from : {"text", "answer", "querystring"}]
    BY <1>0, <2>1
  <2> QED BY <1>0, <2>2 DEF CInv, InputsKnown
<1>5. /\ \A j \in Input : stage'[j] = "END" <=> stage[j] = "END"
      /\ stage'["body"] = stage["body"]
      /\ \A j \in Input, c \in { "element", "elementEnd", "string", "type", "reader",
                                 "readerEnd" } :
           /\ <<c, j>> \in ToSet(main') <=> <<c, j>> \in ToSet(main)
           /\ <<c, j>> \in Queued' <=> <<c, j>> \in Queued
      /\ \A x, y : InFront(main, x, y) => InFront(main', x, y)
      /\ \A j \in Input : Learned(j)'
  <2>1. ASSUME stage[i] = "READ_RESPONSE", NEW s \in Outcomes(type[i], TRUE),
               ProcessBody(i, type[i], ps, s, main)
        PROVE  <1>5!1 /\ <1>5!2 /\ <1>5!3 /\ <1>5!4 /\ <1>5!5
    <3>1. /\ stage' = [stage EXCEPT ![i] = s] /\ s # "END" /\ stage \in [Input -> Stage]
          /\ type \in [Input -> Type]
      BY <1>1, <2>1, OutcomesAre DEF ProcessBody, TypeOK
    <3>2. type[i] = config[i].type /\ config[i].how \in {"static", "late"}
      BY <1>4, <2>1 DEF Learned
    <3>3. type' = [type EXCEPT ![i] = config[i].type]
      BY <1>0, <1>2, <3>1, <3>2
    <3>4. ProcessBody(i, config[i].type, ps, s, main)
      BY <2>1, <3>2
    <3>5. <1>5!5
      BY <1>0, <1>1, <1>2, <3>2, <3>3, <3>4, ProcessedKnown DEF CInv, InputsKnown
    <3>6. main \in Seq(Call) /\ InQueues(main, tcb') = Queued
      BY <1>1, <1>2, QueueTypes DEF Queued
    <3>7. <1>5!3 /\ <1>5!4
      BY <1>0, <2>1, <3>6, Processed
    <3>8. <1>5!1 /\ <1>5!2
      BY <1>0, <2>1, <3>1
    <3> QED BY <3>5, <3>7, <3>8
  <2>2. CASE UNCHANGED <<stage, parsed, parsedAs, main>>
    BY <1>2, <2>2 DEF CInv, InputsKnown, Learned, Queued
  <2> QED BY <1>3, <2>1, <2>2
<1>6. QueuesCounted'
  BY <1>2, <1>5, QueuesSame DEF CInv
<1>7. InputsKnown'
  <2>1. BodyWhole'
    BY <1>2, <1>5 DEF CInv, InputsKnown, BodyWhole
  <2>2. QuerystringKept'
    <3>1. type[i] = IF config[i].how = "static" THEN config[i].type ELSE "XML"
      BY <1>1 DEF CInv, InputsKnown, QuerystringKept
    <3> QED BY <1>2, <1>4, <3>1 DEF QuerystringKept, DecodesNow
  <2>3. \A j \in Input : Reads(j)'
    BY <1>2, <1>5, ReadersRest DEF CInv, InputsKnown
  <2>4. HostKnows'
    BY <1>1, <1>2 DEF CInv, InputsKnown, HostKnows
  <2> QED BY <1>5, <2>1, <2>2, <2>3, <2>4 DEF InputsKnown
<1>8. DoneIsComplete'
  BY <1>2, NotDone
<1> QED BY <1>1, <1>6, <1>7, <1>8 DEF CInv

LEMMA GiveBodyCounts == CInv /\ GiveBody => CInv'
<1> SUFFICES ASSUME CInv, GiveBody PROVE CInv'
  OBVIOUS
<1> DEFINE i == "body"
           last == NextPart = Parts
           ps == <<NextPart>>
<1>0. i \in Input /\ i # "querystring" /\ last \in BOOLEAN
  BY DEF Input
<1>1. IInv' /\ TypeOK /\ phase = "body"
  BY StepKeeps DEF CInv, Kept, Next, Gives, IInv, GiveBody
<1>2. /\ UNCHANGED <<count, tcb, type, ctype, result, querystring, seen, asked, config,
                     answered>>
      /\ phase' \in { "body", "end" } /\ "DONE" \notin cur'
      /\ given' = [given EXCEPT ![i] = Append(given[i], NextPart)]
  BY <1>1 DEF GiveBody, sheet
<1>3. \/ /\ stage[i] = "READ_RESPONSE"
         /\ \E s \in Outcomes(type[i], last) : ProcessBody(i, type[i], ps, s, main)
      \/ /\ stage[i] # "READ_RESPONSE"
         /\ UNCHANGED <<stage, parsed, parsedAs, main>>
  BY DEF GiveBody, Buffers
<1>4. /\ Len(given[i]) \in Nat /\ Len(given[i]) < Parts
      /\ Len(given'[i]) = Len(given[i]) + 1
      /\ last => Len(given'[i]) = Parts
  <2>1. /\ given[i] \in Seq(1..Parts) /\ given'[i] = Append(given[i], NextPart)
        /\ Len(given[i]) < Parts
    BY <1>0, <1>1, <1>2 DEF TypeOK, CInv, IInv, HostInStep
  <2> QED BY <1>1, <2>1 DEF NextPart
<1> HIDE DEF ps, last
<1>5. Learned(i) /\ Len(given[i]) # Parts
  BY <1>0, <1>4 DEF CInv, InputsKnown
<1>6. /\ \A j \in Input : stage'[j] = "END" <=> stage[j] = "END"
      /\ \A j \in Input, c \in { "element", "elementEnd", "string", "type", "reader",
                                 "readerEnd" } :
           /\ <<c, j>> \in ToSet(main') <=> <<c, j>> \in ToSet(main)
           /\ <<c, j>> \in Queued' <=> <<c, j>> \in Queued
      /\ \A x, y : InFront(main, x, y) => InFront(main', x, y)
      /\ \A j \in Input : Learned(j)'
      /\ stage'[i] = "SUCCESS" => last \/ stage[i] = "SUCCESS"
      /\ parsedAs'["querystring"] = parsedAs["querystring"]
  <2>1. ASSUME stage[i] = "READ_RESPONSE", NEW s \in Outcomes(type[i], last),
               ProcessBody(i, type[i], ps, s, main)
        PROVE  <1>6!1 /\ <1>6!2 /\ <1>6!3 /\ <1>6!4 /\ <1>6!5 /\ <1>6!6
    <3>1. /\ stage' = [stage EXCEPT ![i] = s] /\ s # "END" /\ stage \in [Input -> Stage]
          /\ type \in [Input -> Type]
          /\ s = "SUCCESS" => last
          /\ parsedAs' = [parsedAs EXCEPT ![i] = type[i]]
      BY <1>0, <1>1, <2>1, OutcomesAre DEF ProcessBody, TypeOK
    <3>2. type[i] = config[i].type /\ config[i].how \in {"static", "late"}
      BY <1>5, <2>1 DEF Learned
    <3>3. type' = [type EXCEPT ![i] = config[i].type]
      BY <1>0, <1>2, <3>1, <3>2
    <3>4. ProcessBody(i, config[i].type, ps, s, main)
      BY <2>1, <3>2
    <3>5. <1>6!4
      BY <1>0, <1>1, <1>2, <3>2, <3>3, <3>4, ProcessedKnown DEF CInv, InputsKnown
    <3>6. main \in Seq(Call) /\ InQueues(main, tcb') = Queued
      BY <1>1, <1>2, QueueTypes DEF Queued
    <3>7. <1>6!2 /\ <1>6!3
      BY <1>0, <2>1, <3>6, Processed
    <3>8. <1>6!1 /\ <1>6!5
      BY <1>0, <2>1, <3>1
    <3>9. <1>6!6
      BY <1>0, <1>1, <3>1 DEF TypeOK
    <3> QED BY <3>5, <3>7, <3>8, <3>9
  <2>2. CASE UNCHANGED <<stage, parsed, parsedAs, main>>
    BY <1>2, <2>2 DEF CInv, InputsKnown, Learned, Queued
  <2> QED BY <1>3, <2>1, <2>2
<1>7. QueuesCounted'
  BY <1>2, <1>6, QueuesSame DEF CInv
<1>8. InputsKnown'
  <2>1. BodyWhole'
    BY <1>0, <1>2, <1>4, <1>5, <1>6 DEF CInv, InputsKnown, BodyWhole
  <2>2. QuerystringKept'
    BY <1>1, <1>2, <1>6 DEF CInv, InputsKnown, QuerystringKept
  <2>3. \A j \in Input : Reads(j)'
    BY <1>2, <1>6, ReadersRest DEF CInv, InputsKnown
  <2>4. HostKnows'
    BY <1>1, <1>2 DEF CInv, InputsKnown, HostKnows
  <2> QED BY <1>6, <2>1, <2>2, <2>3, <2>4 DEF InputsKnown
<1>9. DoneIsComplete'
  BY <1>2, NotDone
<1> QED BY <1>1, <1>7, <1>8, <1>9 DEF CInv

LEMMA AnswerCounts ==
  ASSUME NEW i \in Input
  PROVE  CInv /\ Answer(i) => CInv'
<1> SUFFICES ASSUME CInv, Answer(i) PROVE CInv'
  OBVIOUS
<1> DEFINE d == ElementEndC(i)
<1>1. IInv' /\ TypeOK
  BY StepKeeps DEF CInv, Kept, Next, IInv
<1>2. /\ UNCHANGED <<count, tcb, stage, type, ctype, parsed, parsedAs, result, querystring,
                     given, seen, asked, config, phase>>
      /\ i \in asked \ answered /\ answered' = answered \cup {i}
      /\ main' = Append(main, d) /\ cur' = {}
  BY DEF Answer, input, buffers, sheet, ElementEndC
<1>3. d \in Call /\ d \notin Queued /\ main \in Seq(Call)
  BY <1>1, <1>2, QueueTypes DEF CInv, IInv, CallsInStep, ElementEndC, Call
<1>4. \A j \in Input : /\ (d = ElementEndC(j) <=> i = j)
                       /\ d \notin { ElementC(j), StringC(j), TypeC(j), ReaderC(j), ReaderEndC(j) }
  BY CallsApart DEF ElementEndC, ElementC, StringC, TypeC, ReaderC, ReaderEndC
<1> HIDE DEF d
<1>5. /\ ToSet(main') = ToSet(main) \cup {d}
      /\ \A x, y : InFront(main, x, y) => InFront(main', x, y)
      /\ \A x : x \in ToSet(main) => InFront(main', x, d)
  BY <1>2, <1>3, Appended, InFrontAppended
<1>6. Queued' = Queued \cup {d}
  BY <1>2, <1>5 DEF Queued, InQueues
<1>7. QueuesCounted'
  <2>1. Placed(tcb, count)' /\ DocCounted'
    BY <1>2 DEF CInv, QueuesCounted, Placed, DocCounted
  <2>2. ASSUME NEW j \in Input PROVE Counted(j)' /\ Ordered(j)'
    <3>1. Counted(j) /\ Ordered(j)
      BY DEF CInv, QueuesCounted
    <3>2. /\ InMain(TypeC(j))' <=> InMain(TypeC(j))
          /\ InMain(StringC(j))' <=> InMain(StringC(j))
          /\ InMain(ElementEndC(j))' <=> InMain(ElementEndC(j)) \/ i = j
          /\ \A c \in { ElementC(j), StringC(j), TypeC(j), ReaderEndC(j) } :
               c \in Queued' <=> c \in Queued
          /\ ElementEndC(j) \in Queued' <=> ElementEndC(j) \in Queued \/ i = j
      BY <1>4, <1>5, <1>6 DEF InMain
    <3>3. ElementWaits(j)' <=> ElementWaits(j)
      BY <1>2, <3>2 DEF ElementWaits
    <3>4. ResultAwaited(j)' <=> ResultAwaited(j)
      BY <1>2 DEF ResultAwaited
    <3>5. Counted(j)'
      BY <1>2, <3>1, <3>2, <3>3, <3>4 DEF Counted
    <3>6. Ordered(j)'
      <4>1. InMain(ElementEndC(j))' /\ InMain(TypeC(j))' =>
              InFront(main', TypeC(j), ElementEndC(j))
        BY <1>4, <1>5, <3>1, <3>2 DEF Ordered, InMain
      <4> QED BY <1>2, <1>5, <3>1, <3>2, <4>1 DEF Ordered
    <3> QED BY <3>5, <3>6
  <2> QED BY <2>1, <2>2 DEF QueuesCounted
<1>8. InputsKnown'
  <2>1. /\ BodyWhole' /\ QuerystringKept' /\ HostKnows'
        /\ \A j \in Input : Learned(j)'
    BY <1>2 DEF CInv, InputsKnown, BodyWhole, QuerystringKept, HostKnows, Learned
  <2>2. ASSUME NEW j \in Input PROVE Reads(j)'
    <3>1. /\ InMain(ReaderEndC(j))' <=> InMain(ReaderEndC(j))
          /\ \A c \in { ReaderC(j), ReaderEndC(j) } : c \in Queued' <=> c \in Queued
      BY <1>4, <1>5, <1>6 DEF InMain
    <3> QED BY <1>2, <3>1 DEF CInv, InputsKnown, Reads
  <2> QED BY <2>1, <2>2 DEF InputsKnown
<1>9. DoneIsComplete'
  BY <1>2, NotDone
<1> QED BY <1>1, <1>7, <1>8, <1>9 DEF CInv

LEMMA SumOfFour ==
  ASSUME NEW a \in Nat, NEW b \in Nat, NEW c \in Nat, NEW d \in Nat, 0 = a + b + c + d
  PROVE  a = 0 /\ b = 0 /\ c = 0 /\ d = 0
OBVIOUS

\* If the document is ready when nothing is left to be called, everything is.
LEMMA RunsOutCounts == CInv /\ RunsOut => CInv'
<1> SUFFICES ASSUME CInv, RunsOut PROVE CInv'
  OBVIOUS
<1>1. IInv' /\ TypeOK
  BY StepKeeps DEF CInv, Kept, Next, Loop, IInv
<1>2. /\ UNCHANGED <<count, tcb, main, stage, type, ctype, parsed, parsedAs, result,
                     querystring, given, seen, asked, config, answered, phase>>
      /\ main = <<>> /\ running /\ running' = FALSE
      /\ cur' = IF count[Doc] = 0 THEN {"DONE"} ELSE {"WAITING"}
  BY DEF RunsOut, Returns, queues, input, buffers, sheet, host
<1>3. Queued' = Queued
  BY <1>2 DEF Queued
<1>4. QueuesCounted'
  BY <1>2, <1>3, QueuesSame DEF CInv
<1>5. InputsKnown'
  <2>1. /\ BodyWhole' /\ QuerystringKept' /\ \A i \in Input : Learned(i)'
    BY <1>2 DEF CInv, InputsKnown, BodyWhole, QuerystringKept, Learned
  <2>2. \A i \in Input : Reads(i)'
    BY <1>2, <1>3, ReadersRest DEF CInv, InputsKnown
  <2>3. HostKnows'
    BY <1>2 DEF CInv, InputsKnown, HostKnows
  <2> QED BY <2>1, <2>2, <2>3 DEF InputsKnown
<1>6. DoneIsComplete'
  <2> SUFFICES ASSUME count[Doc] = 0 PROVE DoneIsComplete'
    BY <1>2, NotDone
  <2>1. count \in [Node -> Nat] /\ tcb \in [Node -> Seq(Call)]
    BY <1>1, QueueTypes
  <2>2. \A i \in Input : /\ count[Vdoc(i)] \in Nat /\ count[R(i)] \in Nat
                         /\ count[T(i)] \in Nat /\ count[Tmp(i)] \in Nat
                         /\ count[Reader(i)] \in Nat
    BY <2>1, NodesOfInputs
  <2>3. \A i \in Input : count[Vdoc(i)] = 0 /\ count[Reader(i)] = 0
    <3> DEFINE a == count[Vdoc("querystring")]
               b == count[Vdoc("body")]
               c == count[Reader("querystring")]
               d == count[Reader("body")]
    <3>1. "querystring" \in Input /\ "body" \in Input
      BY BothInputs
    <3>2. a \in Nat /\ b \in Nat /\ c \in Nat /\ d \in Nat
      BY <2>2, <3>1
    <3>3. 0 = a + b + c + d
      BY DEF CInv, QueuesCounted, DocCounted
    <3>4. a = 0 /\ b = 0 /\ c = 0 /\ d = 0
      <4> HIDE DEF a, b, c, d
      <4> QED BY <3>2, <3>3, SumOfFour
    <3> QED BY <3>4, BothInputs
  <2>4. ASSUME NEW i \in Input
        PROVE  /\ count[R(i)] = 0 /\ count[T(i)] = 0 /\ count[Tmp(i)] = 0
               /\ ~ ResultAwaited(i)
    <3>1. Counted(i)
      BY DEF CInv, QueuesCounted
    <3>2. count[R(i)] = 0
      BY <2>3, <3>1 DEF Counted
    <3>3. count[T(i)] = 0 /\ ~ ResultAwaited(i)
      BY <2>2, <3>1, <3>2 DEF Counted
    <3>4. count[Tmp(i)] = 0
      BY <2>2, <3>1, <3>3 DEF Counted
    <3> QED BY <3>2, <3>3, <3>4
  <2>5. ASSUME NEW n \in Node PROVE count[n] = 0 /\ tcb[n] = <<>>
    <3>1. count[n] = 0
      BY <2>3, <2>4, NodeKinds
    <3> QED BY <2>1, <3>1 DEF CInv, QueuesCounted, Placed
  <2>6. Queued = {}
    <3>1. ToSet(<<>>) = {}
      BY DEF ToSet
    <3> QED BY <1>2, <2>1, <2>5, <3>1 DEF Queued, InQueues
  <2>7. ASSUME NEW i \in Input, config[i].how # "none"
        PROVE  stage[i] = "END" /\ seen[i] # "nothing"
    <3>1. Reads(i)
      BY DEF CInv, InputsKnown
    <3> QED BY <2>4, <2>6, <2>7, <3>1 DEF ResultAwaited, Reads
  <2>8. phase = "end" \/ result["body"] = "failure"
    <3>1. phase \in { "body", "end" }
      BY <1>1, <1>2 DEF TypeOK, CInv, IInv, HostInStep, InputsKnown, HostKnows
    <3>2. ASSUME phase = "body" PROVE result["body"] = "failure"
      <4>1. config["body"].how # "none" /\ "body" \in Input
        BY <3>2, BothInputs DEF CInv, InputsKnown, HostKnows
      <4>2. stage["body"] = "END" /\ result["body"] \in { "document", "failure" }
        BY <2>7, <4>1 DEF CInv, InputsKnown, Reads
      <4>3. Len(given["body"]) < Parts /\ Len(given["body"]) \in Nat
        BY <1>1, <3>2, <4>1 DEF CInv, IInv, HostInStep, TypeOK
      <4> QED BY <4>2, <4>3, PartsAssumption DEF CInv, InputsKnown, BodyWhole
    <3> QED BY <3>1, <3>2
  <2> QED BY <1>2, <2>5, <2>7, <2>8 DEF DoneIsComplete
<1> QED BY <1>1, <1>4, <1>5, <1>6 DEF CInv
-----------------------------------------------------------------------------
(***************************************************************************)
(* The calls of the loop.  First what they do to the counters.             *)
(***************************************************************************)
LEMMA RaisedByElement ==
  ASSUME TypeOK, NEW i \in Input, NEW new, new = Increased(count, PathOf(Tmp(i)))
  PROVE  /\ \A n \in Node : new[n] >= count[n]
         /\ new[Doc] = count[Doc] + 1
         /\ /\ new[Tmp(i)] = count[Tmp(i)] + 1 /\ new[T(i)] = count[T(i)] + 1
            /\ new[R(i)] = count[R(i)] + 1 /\ new[Vdoc(i)] = count[Vdoc(i)] + 1
         /\ \A j \in Input : new[Reader(j)] = count[Reader(j)]
         /\ \A j \in Input : j # i =>
              /\ new[Tmp(j)] = count[Tmp(j)] /\ new[T(j)] = count[T(j)]
              /\ new[R(j)] = count[R(j)] /\ new[Vdoc(j)] = count[Vdoc(j)]
<1> DEFINE S == ToSet(PathOf(Tmp(i)))
<1>1. count \in [Node -> Nat] /\ DOMAIN count = Node
  BY QueueTypes
<1>2. \A n \in Node : new[n] = IF n \in S THEN count[n] + 1 ELSE count[n]
  BY <1>1 DEF Increased
<1>3. \A j \in Input :
        /\ (Tmp(j) \in S <=> i = j) /\ (T(j) \in S <=> i = j)
        /\ (R(j) \in S <=> i = j) /\ (Vdoc(j) \in S <=> i = j)
        /\ Doc \in S /\ Reader(j) \notin S
  BY OnPaths
<1> HIDE DEF S
<1>4. \A n \in Node : new[n] >= count[n]
  BY <1>1, <1>2
<1> QED BY <1>2, <1>3, <1>4, NodesOfInputs

LEMMA RaisedByReader ==
  ASSUME TypeOK, NEW i \in Input, NEW new, new = Increased(count, PathOf(Reader(i)))
  PROVE  /\ \A n \in Node : new[n] >= count[n]
         /\ new[Doc] = count[Doc] + 1
         /\ new[Reader(i)] = count[Reader(i)] + 1
         /\ \A j \in Input : j # i => new[Reader(j)] = count[Reader(j)]
         /\ \A j \in Input :
              /\ new[Tmp(j)] = count[Tmp(j)] /\ new[T(j)] = count[T(j)]
              /\ new[R(j)] = count[R(j)] /\ new[Vdoc(j)] = count[Vdoc(j)]
<1> DEFINE S == ToSet(PathOf(Reader(i)))
<1>1. count \in [Node -> Nat] /\ DOMAIN count = Node
  BY QueueTypes
<1>2. \A n \in Node : new[n] = IF n \in S THEN count[n] + 1 ELSE count[n]
  BY <1>1 DEF Increased
<1>3. \A j \in Input :
        /\ Tmp(j) \notin S /\ T(j) \notin S /\ R(j) \notin S /\ Vdoc(j) \notin S
        /\ Doc \in S /\ (Reader(j) \in S <=> i = j)
  BY OnPaths
<1> HIDE DEF S
<1>4. \A n \in Node : new[n] >= count[n]
  BY <1>1, <1>2
<1> QED BY <1>2, <1>3, <1>4, NodesOfInputs

\* A decrease, node by node, if no node of the way up is ready.
LEMMA LoweredByElement ==
  ASSUME TypeOK, NEW i \in Input, NEW less,
         \A m \in Node : less[m] = IF m \in ToSet(PathOf(Tmp(i))) THEN count[m] - 1 ELSE count[m]
  PROVE  /\ less[Doc] = count[Doc] - 1
         /\ /\ less[Tmp(i)] = count[Tmp(i)] - 1 /\ less[T(i)] = count[T(i)] - 1
            /\ less[R(i)] = count[R(i)] - 1 /\ less[Vdoc(i)] = count[Vdoc(i)] - 1
         /\ \A j \in Input : less[Reader(j)] = count[Reader(j)]
         /\ \A j \in Input : j # i =>
              /\ less[Tmp(j)] = count[Tmp(j)] /\ less[T(j)] = count[T(j)]
              /\ less[R(j)] = count[R(j)] /\ less[Vdoc(j)] = count[Vdoc(j)]
BY OnPaths, NodesOfInputs

LEMMA LoweredByType ==
  ASSUME TypeOK, NEW i \in Input, NEW less,
         \A m \in Node : less[m] = IF m \in ToSet(PathOf(T(i))) THEN count[m] - 1 ELSE count[m]
  PROVE  /\ less[Doc] = count[Doc] - 1
         /\ /\ less[T(i)] = count[T(i)] - 1
            /\ less[R(i)] = count[R(i)] - 1 /\ less[Vdoc(i)] = count[Vdoc(i)] - 1
         /\ \A j \in Input :
              less[Reader(j)] = count[Reader(j)] /\ less[Tmp(j)] = count[Tmp(j)]
         /\ \A j \in Input : j # i =>
              /\ less[T(j)] = count[T(j)]
              /\ less[R(j)] = count[R(j)] /\ less[Vdoc(j)] = count[Vdoc(j)]
BY OnPaths, NodesOfInputs

LEMMA LoweredByResult ==
  ASSUME TypeOK, NEW i \in Input, NEW less,
         \A m \in Node : less[m] = IF m \in ToSet(PathOf(R(i))) THEN count[m] - 1 ELSE count[m]
  PROVE  /\ less[Doc] = count[Doc] - 1
         /\ less[R(i)] = count[R(i)] - 1 /\ less[Vdoc(i)] = count[Vdoc(i)] - 1
         /\ \A j \in Input :
              /\ less[Reader(j)] = count[Reader(j)]
              /\ less[Tmp(j)] = count[Tmp(j)] /\ less[T(j)] = count[T(j)]
         /\ \A j \in Input : j # i =>
              less[R(j)] = count[R(j)] /\ less[Vdoc(j)] = count[Vdoc(j)]
BY OnPaths, NodesOfInputs

LEMMA LoweredByReader ==
  ASSUME TypeOK, NEW i \in Input, NEW less,
         \A m \in Node : less[m] = IF m \in ToSet(PathOf(Reader(i))) THEN count[m] - 1 ELSE count[m]
  PROVE  /\ less[Doc] = count[Doc] - 1
         /\ less[Reader(i)] = count[Reader(i)] - 1
         /\ \A j \in Input :
              /\ less[Tmp(j)] = count[Tmp(j)] /\ less[T(j)] = count[T(j)]
              /\ less[R(j)] = count[R(j)] /\ less[Vdoc(j)] = count[Vdoc(j)]
         /\ \A j \in Input : j # i => less[Reader(j)] = count[Reader(j)]
BY OnPaths, NodesOfInputs

\* The document has a reason more or less as one input has.
LEMMA DocMoves ==
  ASSUME TypeOK, DocCounted, NEW i \in Input, NEW e \in Int,
         count' \in [Node -> Nat],
         count'[Doc] = count[Doc] + e,
         count'[Vdoc(i)] + count'[Reader(i)] = (count[Vdoc(i)] + count[Reader(i)]) + e,
         \A j \in Input : j # i => /\ count'[Vdoc(j)] = count[Vdoc(j)]
                                   /\ count'[Reader(j)] = count[Reader(j)]
  PROVE  DocCounted'
<1> DEFINE q == "querystring"
           b == "body"
           v(f, j) == f[Vdoc(j)]
           r(f, j) == f[Reader(j)]
<1>1. q \in Input /\ b \in Input /\ (i = q \/ i = b) /\ q # b
  BY BothInputs
<1>2. \A j \in Input : /\ v(count, j) \in Nat /\ r(count, j) \in Nat
                       /\ v(count', j) \in Nat /\ r(count', j) \in Nat
  BY QueueTypes, NodesOfInputs
<1>3. count[Doc] = v(count, q) + v(count, b) + r(count, q) + r(count, b)
  BY DEF DocCounted
<1>4. /\ v(count', i) + r(count', i) = (v(count, i) + r(count, i)) + e
      /\ \A j \in Input : j # i => v(count', j) = v(count, j) /\ r(count', j) = r(count, j)
  OBVIOUS
<1> HIDE DEF q, b, v, r
<1>5. count'[Doc] = v(count', q) + v(count', b) + r(count', q) + r(count', b)
  <2> DEFINE vq == v(count, q)
             vb == v(count, b)
             rq == r(count, q)
             rb == r(count, b)
             wq == v(count', q)
             wb == v(count', b)
             sq == r(count', q)
             sb == r(count', b)
  <2>1. /\ vq \in Nat /\ vb \in Nat /\ rq \in Nat /\ rb \in Nat
        /\ wq \in Nat /\ wb \in Nat /\ sq \in Nat /\ sb \in Nat
    BY <1>1, <1>2
  <2>2. count'[Doc] = vq + vb + rq + rb + e
    BY <1>3
  <2>3. \/ wq + sq = (vq + rq) + e /\ wb = vb /\ sb = rb
        \/ wb + sb = (vb + rb) + e /\ wq = vq /\ sq = rq
    BY <1>1, <1>4
  <2> HIDE DEF vq, vb, rq, rb, wq, wb, sq, sb
  <2>4. vq + vb + rq + rb + e = wq + wb + sq + sb
    BY <2>1, <2>3
  <2>5. count'[Doc] = wq + wb + sq + sb
    BY <2>2, <2>4
  <2> QED BY <2>5 DEF wq, wb, sq, sb
<1> QED BY <1>5 DEF q, b, v, r, DocCounted

\* The counters of an input are numbers.
LEMMA CountTypes ==
  ASSUME TypeOK, NEW i \in Input
  PROVE  /\ count[Tmp(i)] \in Nat /\ count[T(i)] \in Nat /\ count[R(i)] \in Nat
         /\ count[Vdoc(i)] \in Nat /\ count[Reader(i)] \in Nat /\ count[Doc] \in Nat
BY QueueTypes, NodesOfInputs

\* The document has the reasons of an input and more.
LEMMA DocAbove ==
  ASSUME TypeOK, DocCounted, NEW i \in Input
  PROVE  count[Doc] >= count[Vdoc(i)] + count[Reader(i)]
<1> DEFINE q == "querystring"
           b == "body"
           v(j) == count[Vdoc(j)]
           r(j) == count[Reader(j)]
<1>1. q \in Input /\ b \in Input /\ (i = q \/ i = b)
  BY BothInputs
<1>2. \A j \in Input : v(j) \in Nat /\ r(j) \in Nat
  BY QueueTypes, NodesOfInputs
<1>3. count[Doc] = v(q) + v(b) + r(q) + r(b)
  BY DEF DocCounted
<1> HIDE DEF q, b, v, r
<1>4. count[Doc] >= v(i) + r(i)
  <2> DEFINE vq == v(q)
             vb == v(b)
             rq == r(q)
             rb == r(b)
  <2>1. vq \in Nat /\ vb \in Nat /\ rq \in Nat /\ rb \in Nat
    BY <1>1, <1>2
  <2>2. v(i) + r(i) = vq + rq \/ v(i) + r(i) = vb + rb
    BY <1>1
  <2>3. count[Doc] = vq + vb + rq + rb
    BY <1>3
  <2> HIDE DEF vq, vb, rq, rb
  <2> QED BY <2>1, <2>2, <2>3
<1> QED BY <1>4 DEF v, r

\* What waits on the nodes of an input.
LEMMA WaitsFor ==
  ASSUME Placed(tcb, count), NEW i \in Input
  PROVE  /\ ToSet(tcb[Tmp(i)]) \subseteq {StringC(i)}
         /\ ToSet(tcb[T(i)]) \subseteq {TypeC(i)}
         /\ ToSet(tcb[Vdoc(i)]) \subseteq
              {ReaderEndC(i)} \cup IF i = "querystring" THEN {ElementEndC("body")} ELSE {}
         /\ ToSet(tcb[R(i)]) = {} /\ ToSet(tcb[Reader(i)]) = {} /\ ToSet(tcb[Doc]) = {}
<1>1. /\ Doc \in Node /\ Vdoc(i) \in Node /\ R(i) \in Node /\ T(i) \in Node
      /\ Tmp(i) \in Node /\ Reader(i) \in Node
  BY NodesOfInputs
<1>2. ASSUME NEW n \in Node, NEW c \in ToSet(tcb[n]) PROVE MayWait(c, n)
  BY DEF Placed
<1>3. ToSet(tcb[Tmp(i)]) \subseteq {StringC(i)}
  BY <1>1, <1>2, NodesApart DEF MayWait
<1>4. ToSet(tcb[T(i)]) \subseteq {TypeC(i)}
  BY <1>1, <1>2, NodesApart DEF MayWait
<1>5. ToSet(tcb[Vdoc(i)]) \subseteq
        {ReaderEndC(i)} \cup IF i = "querystring" THEN {ElementEndC("body")} ELSE {}
  BY <1>1, <1>2, NodesApart DEF MayWait
<1>6. ToSet(tcb[R(i)]) = {} /\ ToSet(tcb[Reader(i)]) = {}
  BY <1>1, <1>2, NodesApart DEF MayWait
<1>7. ToSet(tcb[Doc]) = {}
  BY <1>1, <1>2, NodesApart DEF MayWait
<1> QED BY <1>3, <1>4, <1>5, <1>6, <1>7

\* What a decrease does, when the main queue holds q.
LEMMA Releasing ==
  ASSUME TypeOK, NEW i \in Input, NEW n \in { R(i), T(i), Tmp(i), Reader(i) },
         NEW q \in Seq(Call), \A m \in ToSet(PathOf(n)) : count[m] > 0
  PROVE  LET path == PathOf(n)
             less == Decreased(count, path)
             new == Drained(count, tcb, path)
             joined == Joined(q, Moved(count, tcb, path))
         IN /\ \A m \in Node : less[m] = IF m \in ToSet(path) THEN count[m] - 1 ELSE count[m]
            /\ \A m \in Node : new[m] = IF m \in ToSet(path) /\ count[m] = 1 THEN <<>> ELSE tcb[m]
            /\ ToSet(joined) = ToSet(q) \cup WokenCalls(count, tcb, path)
            /\ InQueues(joined, new) = InQueues(q, tcb)
            /\ \A x, y : InFront(q, x, y) => InFront(joined, x, y)
            /\ \A x \in ToSet(q), y \in WokenCalls(count, tcb, path) : InFront(joined, x, y)
            /\ \A k, l \in 1..Len(path) : k < l /\ count[path[k]] = 1 /\ count[path[l]] = 1 =>
                 \A x \in ToSet(tcb[path[k]]), y \in ToSet(tcb[path[l]]) : InFront(joined, x, y)
            /\ Placed(tcb, count) => Placed(new, less)
<1> DEFINE path == PathOf(n)
           less == Decreased(count, path)
           new == Drained(count, tcb, path)
           joined == Joined(q, Moved(count, tcb, path))
<1>1. path \in Seq(Node) /\ count \in [Node -> Nat] /\ tcb \in [Node -> Seq(Call)]
  BY Walks, QueueTypes
<1>2. ~ DecreaseFails(count, path)
  <2>1. \A m \in ToSet(path) : count[m] > 0
    OBVIOUS
  <2> HIDE DEF path
  <2> QED BY <2>1 DEF DecreaseFails
<1> HIDE DEF path
<1>3. \A m \in Node : less[m] = IF m \in ToSet(path) THEN count[m] - 1 ELSE count[m]
  <2>1. Walked(count, path) = ToSet(path)
    BY <1>1, <1>2, WokenOnWalk
  <2> QED BY <1>1, <2>1 DEF Decreased
<1>4. \A m \in Node : new[m] = IF m \in ToSet(path) /\ count[m] = 1 THEN <<>> ELSE tcb[m]
  <2>1. Walked(count, path) = ToSet(path)
    BY <1>1, <1>2, WokenOnWalk
  <2>2. \A m : m \in Woken(count, path) <=> m \in ToSet(path) /\ count[m] = 1
    BY <2>1 DEF Woken
  <2> QED BY <1>1, <2>2 DEF Drained
<1>5. ToSet(joined) = ToSet(q) \cup WokenCalls(count, tcb, path)
  <2>1. \A c : c \in ToSet(joined) <=> c \in ToSet(q) \/ c \in WokenCalls(count, tcb, path)
    BY <1>1, <1>2, JoinedCalls
  <2> HIDE DEF joined
  <2> QED BY <2>1
<1>6. InQueues(joined, new) = InQueues(q, tcb)
  <2>1. \A c : c \in InQueues(joined, new) <=> c \in InQueues(q, tcb)
    BY <1>1, <1>2, JoinedKeeps
  <2> QED BY <2>1
<1>7. /\ \A x, y : InFront(q, x, y) => InFront(joined, x, y)
      /\ \A x \in ToSet(q), y \in WokenCalls(count, tcb, path) : InFront(joined, x, y)
      /\ \A k, l \in 1..Len(path) : k < l /\ count[path[k]] = 1 /\ count[path[l]] = 1 =>
           \A x \in ToSet(tcb[path[k]]), y \in ToSet(tcb[path[l]]) : InFront(joined, x, y)
  BY <1>1, <1>2, JoinedOrder
<1> HIDE DEF less, new, joined
<1>8. ASSUME Placed(tcb, count) PROVE Placed(new, less)
  <2>1. \A m \in Node : new[m] = <<>> \/ new[m] = tcb[m]
    BY <1>4
  <2>2. \A m \in Node : count[m] \in Nat /\ (tcb[m] # <<>> => count[m] > 0)
    BY <1>1, <1>8 DEF Placed
  <2>3. \A m \in Node : new[m] # <<>> => less[m] > 0
    BY <1>3, <1>4, <2>2
  <2> QED BY <1>1, <1>8, <2>1, <2>3, LoweredPlaced
<1> QED BY <1>3, <1>4, <1>5, <1>6, <1>7, <1>8 DEF path, less, new, joined

\* What a call of the loop makes known of the host.
LEMMA HostGoes ==
  ASSUME CInv, running, UNCHANGED <<phase, config>>,
         cur' = cur \/ "DONE" \notin cur', asked' = asked \/ phase # "loop"
  PROVE  HostKnows' /\ DoneIsComplete'
<1>1. phase # "loop" /\ "DONE" \notin cur /\ (phase = "body" => config["body"].how # "none")
  BY DEF CInv, InputsKnown, HostKnows
<1> QED BY <1>1, NotDone DEF HostKnows

\* What is known of the inputs when a call of the sheet leaves them alone.
LEMMA KnownRest ==
  ASSUME CInv, UNCHANGED <<config, stage, type, ctype, parsedAs, result, querystring, given,
                           seen, phase>>,
         \A j \in Input, c \in { "reader", "readerEnd" } :
           /\ <<c, j>> \in ToSet(main') <=> <<c, j>> \in ToSet(main)
           /\ <<c, j>> \in Queued' <=> <<c, j>> \in Queued,
         HostKnows'
  PROVE  InputsKnown'
<1>1. /\ BodyWhole' /\ QuerystringKept' /\ \A j \in Input : Learned(j)'
  BY DEF CInv, InputsKnown, BodyWhole, QuerystringKept, Learned
<1>2. \A j \in Input : Reads(j)'
  BY ReadersRest DEF CInv, InputsKnown
<1> QED BY <1>1, <1>2 DEF InputsKnown

\* Only the element of a body waits for the querystring.
LEMMA ConfigFrom ==
  ASSUME TypeOK, NEW i \in Input
  PROVE  config[i].from = "querystring" => i = "body"
BY ConfigsAssumption DEF TypeOK, Config

\* An input whose counters and calls are what they were.
LEMMA CountedSame ==
  ASSUME NEW j \in Input, Counted(j),
         count'[Tmp(j)] = count[Tmp(j)], count'[T(j)] = count[T(j)],
         count'[R(j)] = count[R(j)], count'[Vdoc(j)] = count[Vdoc(j)],
         count'[Reader(j)] = count[Reader(j)],
         InMain(TypeC(j))' <=> InMain(TypeC(j)),
         TypeC(j) \in Queued' <=> TypeC(j) \in Queued,
         ReaderEndC(j) \in Queued' <=> ReaderEndC(j) \in Queued,
         ElementWaits(j)' <=> ElementWaits(j),
         ResultAwaited(j)' <=> ResultAwaited(j)
  PROVE  Counted(j)'
BY DEF Counted

LEMMA ElementFirstCounts ==
  ASSUME NEW i \in Input
  PROVE  CInv /\ ElementFirst(i) => CInv'
<1> SUFFICES ASSUME CInv, ElementFirst(i) PROVE CInv'
  OBVIOUS
<1> DEFINE c == ElementC(i)
           d == ElementEndC(i)
           p == PathOf(Tmp(i))
<1>1. IInv /\ IInv' /\ TypeOK /\ Calls("element", i)
  BY StepKeeps DEF CInv, Kept, Next, Loop, IInv, ElementFirst
<1>2. /\ UNCHANGED <<stage, type, ctype, parsed, parsedAs, result, querystring, given,
                     seen, config, answered, phase>>
      /\ main' = Rest /\ (cur' = cur \/ "DONE" \notin cur')
      /\ \/ UNCHANGED <<count, tcb, asked>>
         \/ /\ count' = Increased(count, p) /\ asked' = asked \cup {i}
            /\ UNCHANGED tcb
         \/ /\ count[Vdoc("querystring")] > 0 /\ i = "body"
            /\ count' = Increased(count, p) /\ tcb' = Parked(tcb, Vdoc("querystring"), d)
            /\ UNCHANGED asked
  BY <1>1, ConfigFrom DEF ElementFirst, input, buffers, host, Goes, Returns, WaitsOn, Pending,
     ElementEndC
<1>3. /\ InMain(c) /\ running /\ ToSet(Rest) = ToSet(main) \ {c}
      /\ \A n \in Node : c \notin ToSet(tcb[n])
      /\ \A x, y : InFront(main, x, y) /\ x # c => InFront(Rest, x, y)
  BY <1>1, Takes DEF ElementC
<1>4. /\ Rest \in Seq(Call) /\ QueuesApart(Rest, tcb) /\ InQueues(Rest, tcb) = Queued \ {c}
      /\ c \in Queued /\ phase # "loop"
      /\ d \notin Queued /\ i \notin asked
  <2>1. /\ Rest \in Seq(Call) /\ QueuesApart(Rest, tcb) /\ InQueues(Rest, tcb) = Queued \ {c}
        /\ c \in Queued
    BY <1>1, CallTaken DEF ElementC
  <2>2. CallsInStep(i)
    BY <1>1 DEF IInv
  <2>3. phase # "loop"
    BY <1>3 DEF CInv, InputsKnown, HostKnows
  <2> QED BY <2>1, <2>2, <2>3 DEF CallsInStep, ElementC, ElementEndC
<1>5. \A j \in Input :
        /\ c \notin { StringC(j), TypeC(j), ElementEndC(j), ReaderC(j), ReaderEndC(j) }
        /\ d \notin { StringC(j), TypeC(j), ElementC(j), ReaderC(j), ReaderEndC(j) }
        /\ (c = ElementC(j) <=> i = j) /\ (d = ElementEndC(j) <=> i = j)
  BY CallsApart DEF ElementEndC, ElementC, StringC, TypeC, ReaderC, ReaderEndC
<1>6. d \in Call /\ tcb \in [Node -> Seq(Call)] /\ count \in [Node -> Nat] /\ count' \in [Node -> Nat]
  BY <1>1, QueueTypes DEF Call, ElementEndC, IInv, TypeOK
<1> HIDE DEF c, d, p
<1>7. \/ count' = count /\ tcb' = tcb /\ asked' = asked /\ Queued' = Queued \ {c}
      \/ count' = Increased(count, p) /\ tcb' = tcb /\ asked' = asked \cup {i}
         /\ Queued' = Queued \ {c}
      \/ count' = Increased(count, p) /\ asked' = asked
         /\ Queued' = (Queued \ {c}) \cup {d}
         /\ tcb' = Parked(tcb, Vdoc("querystring"), d)
         /\ count[Vdoc("querystring")] > 0 /\ i = "body"
  <2>1. CASE UNCHANGED <<count, tcb, asked>>
    BY <1>2, <1>4, <2>1 DEF Queued
  <2>2. CASE count' = Increased(count, p) /\ asked' = asked \cup {i} /\ UNCHANGED tcb
    BY <1>2, <1>4, <2>2 DEF Queued
  <2>3. CASE /\ count[Vdoc("querystring")] > 0 /\ i = "body"
             /\ count' = Increased(count, p) /\ tcb' = Parked(tcb, Vdoc("querystring"), d)
             /\ UNCHANGED asked
    <3>1. Vdoc("querystring") \in Node /\ d \notin InQueues(Rest, tcb)
      BY <1>4, BothInputs, NodesOfInputs
    <3>2. InQueues(Rest, Parked(tcb, Vdoc("querystring"), d)) = InQueues(Rest, tcb) \cup {d}
      BY SMTT(30), <1>4, <1>6, <3>1, Parks
    <3>3. Queued' = (Queued \ {c}) \cup {d}
      BY <1>2, <1>4, <2>3, <3>2 DEF Queued
    <3> QED BY <2>3, <3>3
  <2> QED BY <1>2, <2>1, <2>2, <2>3
<1>8. /\ \A j \in Input :
           /\ InMain(TypeC(j))' <=> InMain(TypeC(j))
           /\ InMain(StringC(j))' <=> InMain(StringC(j))
           /\ InMain(ElementEndC(j))' <=> InMain(ElementEndC(j))
           /\ InMain(ReaderC(j))' <=> InMain(ReaderC(j))
           /\ InMain(ReaderEndC(j))' <=> InMain(ReaderEndC(j))
           /\ \A x \in { StringC(j), TypeC(j), ReaderC(j), ReaderEndC(j) } :
                x \in Queued' <=> x \in Queued
           /\ ElementC(j) \in Queued' => ElementC(j) \in Queued /\ i # j
           /\ i # j => (ElementEndC(j) \in Queued' <=> ElementEndC(j) \in Queued)
  BY <1>2, <1>3, <1>5, <1>7 DEF InMain
<1>9. QueuesCounted'
  <2>1. Placed(tcb, count) /\ DocCounted /\ \A j \in Input : Counted(j) /\ Ordered(j)
    BY DEF CInv, QueuesCounted
  <2>2. count[T(i)] = count[Tmp(i)] + 1
    BY <1>4, <2>1 DEF Ordered, c
  <2>3. \/ count' = count /\ (ElementWaits(i)' <=> ElementWaits(i))
        \/ /\ count' = Increased(count, p)
           /\ ElementWaits(i)' /\ ~ ElementWaits(i)
    <3>1. answered' = answered /\ answered \subseteq asked
      BY <1>1, <1>2 DEF TypeOK
    <3>2. d \notin Queued /\ i \notin asked /\ d = ElementEndC(i) /\ d # c
      BY <1>4, <1>5
    <3> QED BY <1>7, <3>1, <3>2 DEF ElementWaits
  <2>4. \A j \in Input : j # i => (ElementWaits(j)' <=> ElementWaits(j))
    BY <1>2, <1>7, <1>8 DEF ElementWaits
  <2>5. \A j \in Input : ResultAwaited(j)' <=> ResultAwaited(j)
    BY <1>2 DEF ResultAwaited
  <2>6. ASSUME count' = Increased(count, p)
        PROVE  /\ \A n \in Node : count'[n] >= count[n]
               /\ count'[Doc] = count[Doc] + 1
               /\ /\ count'[Tmp(i)] = count[Tmp(i)] + 1 /\ count'[T(i)] = count[T(i)] + 1
                  /\ count'[R(i)] = count[R(i)] + 1 /\ count'[Vdoc(i)] = count[Vdoc(i)] + 1
               /\ \A j \in Input : count'[Reader(j)] = count[Reader(j)]
               /\ \A j \in Input : j # i =>
                    /\ count'[Tmp(j)] = count[Tmp(j)] /\ count'[T(j)] = count[T(j)]
                    /\ count'[R(j)] = count[R(j)] /\ count'[Vdoc(j)] = count[Vdoc(j)]
    BY <1>1, <2>6, RaisedByElement DEF p
  <2>7. Placed(tcb, count)'
    <3>1. CASE count' = count /\ tcb' = tcb
      BY <2>1, <3>1
    <3>2. Placed(tcb, count') \/ count' = count
      BY <1>1, <1>6, <1>7, <2>1, <2>6, RaisedPlaced
    <3>3. CASE count' = Increased(count, p) /\ tcb' = tcb
      BY <1>1, <1>6, <2>1, <2>6, <3>3, RaisedPlaced
    <3>4. CASE /\ count' = Increased(count, p) /\ i = "body"
               /\ tcb' = Parked(tcb, Vdoc("querystring"), d)
               /\ count[Vdoc("querystring")] > 0
      <4>1. Placed(tcb, count')
        BY <1>1, <1>6, <2>1, <2>6, <3>4, RaisedPlaced
      <4>2. Vdoc("querystring") \in Node /\ "querystring" \in Input
        BY BothInputs, NodesOfInputs
      <4>3. MayWait(d, Vdoc("querystring"))
        BY <3>4, <4>2 DEF MayWait, d
      <4>4. count'[Vdoc("querystring")] > 0
        BY <1>6, <2>6, <3>4, <4>2
      <4> QED BY <1>6, <3>4, <4>1, <4>2, <4>3, <4>4, ParkedPlaced
    <3> QED BY <1>7, <3>1, <3>3, <3>4
  <2>8. DocCounted'
    <3>1. CASE count' = count
      BY <2>1, <3>1 DEF DocCounted
    <3>2. CASE count' = Increased(count, p)
      <4>1. count'[Vdoc(i)] + count'[Reader(i)] = (count[Vdoc(i)] + count[Reader(i)]) + 1
        BY <1>1, <2>6, <3>2, CountTypes
      <4>2. 1 \in Int /\ DocCounted /\ count'[Doc] = count[Doc] + 1
        BY <2>1, <2>6, <3>2
      <4>3. \A j \in Input : j # i => /\ count'[Vdoc(j)] = count[Vdoc(j)]
                                      /\ count'[Reader(j)] = count[Reader(j)]
        BY <2>6, <3>2
      <4> QED BY <1>1, <1>6, <4>1, <4>2, <4>3, DocMoves
    <3> QED BY <2>3, <3>1, <3>2
  <2>9. ASSUME NEW j \in Input PROVE Counted(j)'
    <3>1. Counted(j) /\ Counted(i)
      BY <2>1
    <3>2. CASE count' = count
      <4>1. ElementWaits(j)' <=> ElementWaits(j)
        BY <1>1, <2>3, <2>4, <2>6, <3>2, CountTypes
      <4> QED BY <1>8, <2>5, <3>1, <3>2, <4>1, CountedSame
    <3>3. CASE count' = Increased(count, p) /\ j # i
      BY <1>8, <2>4, <2>5, <2>6, <3>1, <3>3, CountedSame
    <3>4. CASE count' = Increased(count, p) /\ j = i /\ ElementWaits(i)' /\ ~ ElementWaits(i)
      BY <1>1, <1>8, <2>2, <2>5, <2>6, <3>1, <3>4, CountTypes DEF Counted
    <3> QED BY <2>3, <2>4, <3>2, <3>3, <3>4
  <2>10. ASSUME NEW j \in Input PROVE Ordered(j)'
    <3>1. Ordered(j)
      BY <2>1
    <3>2. i # j => count'[T(j)] = count[T(j)] /\ count'[Tmp(j)] = count[Tmp(j)]
      BY <2>3, <2>6
    <3>3. \A x, y : InFront(main, x, y) /\ x # c => InFront(main', x, y)
      BY <1>2, <1>3
    <3> QED BY <1>2, <1>5, <1>8, <3>1, <3>2, <3>3 DEF Ordered
  <2> QED BY <2>7, <2>8, <2>9, <2>10 DEF QueuesCounted
<1>10. HostKnows' /\ DoneIsComplete'
  BY <1>2, <1>3, <1>4, HostGoes
<1>11. InputsKnown'
  <2>1. \A j \in Input, x \in { "reader", "readerEnd" } :
           /\ <<x, j>> \in ToSet(main') <=> <<x, j>> \in ToSet(main)
           /\ <<x, j>> \in Queued' <=> <<x, j>> \in Queued
    BY <1>8 DEF InMain, ReaderC, ReaderEndC
  <2> QED BY <1>2, <1>10, <2>1, KnownRest
<1> QED BY <1>1, <1>9, <1>10, <1>11 DEF CInv

LEMMA ElementEndCounts ==
  ASSUME NEW i \in Input
  PROVE  CInv /\ ElementEnd(i) => CInv'
<1> SUFFICES ASSUME CInv, ElementEnd(i) PROVE CInv'
  OBVIOUS
<1> DEFINE c == ElementEndC(i)
           p == PathOf(Tmp(i))
<1>1. IInv /\ IInv' /\ TypeOK /\ Calls("elementEnd", i)
  BY StepKeeps DEF CInv, Kept, Next, Loop, IInv, ElementEnd
<1>2. /\ UNCHANGED <<stage, type, ctype, parsed, parsedAs, result, querystring, given,
                     seen, asked, config, answered, phase, cur>>
      /\ count' = Decreased(count, p) /\ tcb' = Drained(count, tcb, p)
      /\ main' = Joined(Rest, Moved(count, tcb, p))
  BY DEF ElementEnd, Releases, input, buffers, sheet, host, Goes
<1>3. /\ InMain(c) /\ running /\ ToSet(Rest) = ToSet(main) \ {c}
      /\ \A n \in Node : c \notin ToSet(tcb[n])
      /\ \A x : ~ InFront(main, x, c)
      /\ \A x, y : InFront(main, x, y) /\ x # c => InFront(Rest, x, y)
  BY <1>1, Takes DEF ElementEndC
<1>4. /\ Rest \in Seq(Call) /\ QueuesApart(Rest, tcb) /\ InQueues(Rest, tcb) = Queued \ {c}
      /\ c \in Queued
  BY <1>1, CallTaken DEF ElementEndC
<1>5. \A j \in Input :
        /\ c \notin { StringC(j), TypeC(j), ElementC(j), ReaderC(j), ReaderEndC(j) }
        /\ (c = ElementEndC(j) <=> i = j)
        /\ StringC(i) \notin { TypeC(j), ElementEndC(j), ReaderC(j), ReaderEndC(j) }
        /\ TypeC(i) \notin { StringC(j), ElementEndC(j), ReaderC(j), ReaderEndC(j) }
        /\ (StringC(i) = StringC(j) <=> i = j) /\ (TypeC(i) = TypeC(j) <=> i = j)
  BY CallsApart DEF ElementEndC, ElementC, StringC, TypeC, ReaderC, ReaderEndC
<1>6. tcb \in [Node -> Seq(Call)] /\ count \in [Node -> Nat] /\ count' \in [Node -> Nat]
  BY <1>1, QueueTypes DEF IInv, TypeOK
<1>7. /\ Placed(tcb, count) /\ DocCounted
      /\ \A j \in Input : Counted(j) /\ Ordered(j) /\ CallsInStep(j)
  BY <1>1 DEF CInv, QueuesCounted, IInv
<1>8. /\ ElementWaits(i) /\ i \notin asked \ answered /\ ElementC(i) \notin Queued
      /\ InMain(TypeC(i)) => InFront(main, TypeC(i), c)
  BY <1>3, <1>4, <1>7 DEF ElementWaits, CallsInStep, Ordered, ElementC, ElementEndC, InMain
<1>9. /\ count[Tmp(i)] = 1 /\ count[T(i)] = 1 /\ TypeC(i) \in Queued /\ ~ InMain(TypeC(i))
      /\ ResultAwaited(i) /\ count[R(i)] = 2 /\ count[Vdoc(i)] = 2
  <2>1. ~ InMain(TypeC(i))
    BY <1>3, <1>8
  <2>2. count[Tmp(i)] = 1
    BY <1>7, <1>8 DEF Counted
  <2>3. count[T(i)] = 1
    BY <1>1, <1>7, <2>1, <2>2, CountTypes DEF Counted
  <2>4. TypeC(i) \in Queued
    BY <1>7, <2>3 DEF Counted
  <2>5. ResultAwaited(i)
    BY <1>7, <2>4 DEF ResultAwaited, Ordered, CallsInStep, TypeC
  <2>6. count[R(i)] = 2
    BY <1>7, <2>3, <2>5 DEF Counted
  <2>7. count[Vdoc(i)] = 2
    BY <1>7, <2>6 DEF Counted
  <2> QED BY <2>1, <2>2, <2>3, <2>4, <2>5, <2>6, <2>7
<1>10. count[Doc] \in Nat /\ count[Doc] >= 2
  <2>1. count[Doc] >= count[Vdoc(i)] + count[Reader(i)]
    BY <1>1, <1>7, DocAbove
  <2> QED BY <1>1, <1>9, <2>1, CountTypes
<1>11. /\ p \in Seq(Node) /\ p = <<Tmp(i), T(i), R(i), Vdoc(i), Doc>>
       /\ ToSet(p) = { Tmp(i), T(i), R(i), Vdoc(i), Doc }
  BY Walks, Paths, PathSets
<1> HIDE DEF c, p
<1>12. \A m \in ToSet(p) : count[m] > 0
  <2>1. \A m \in { Tmp(i), T(i), R(i), Vdoc(i), Doc } : count[m] > 0
    BY <1>9, <1>10
  <2> QED BY <1>11, <2>1
<1>13. WokenCalls(count, tcb, p) = ToSet(tcb[Tmp(i)]) \cup ToSet(tcb[T(i)])
  <2>1. { m \in ToSet(p) : count[m] = 1 } = { Tmp(i), T(i) }
    BY <1>9, <1>10, <1>11
  <2> QED BY <2>1 DEF WokenCalls
<1>14. /\ \A m \in Node : count'[m] = IF m \in ToSet(p) THEN count[m] - 1 ELSE count[m]
       /\ \A m \in Node : tcb'[m] = IF m \in ToSet(p) /\ count[m] = 1 THEN <<>> ELSE tcb[m]
       /\ ToSet(main') = ToSet(Rest) \cup WokenCalls(count, tcb, p)
       /\ InQueues(main', tcb') = InQueues(Rest, tcb)
       /\ \A x, y : InFront(Rest, x, y) => InFront(main', x, y)
       /\ \A x \in ToSet(Rest), y \in WokenCalls(count, tcb, p) : InFront(main', x, y)
       /\ \A k, l \in 1..Len(p) : k < l /\ count[p[k]] = 1 /\ count[p[l]] = 1 =>
            \A x \in ToSet(tcb[p[k]]), y \in ToSet(tcb[p[l]]) : InFront(main', x, y)
       /\ Placed(tcb', count')
  BY <1>1, <1>2, <1>4, <1>7, <1>12, Releasing DEF p
<1>15. /\ ToSet(tcb[Tmp(i)]) \subseteq {StringC(i)} /\ ToSet(tcb[T(i)]) \subseteq {TypeC(i)}
  BY <1>7, WaitsFor
<1>16. TypeC(i) \in ToSet(tcb[T(i)])
  BY <1>1, <1>7, <1>9, Places
<1>17. /\ ToSet(main') = (ToSet(main) \ {c}) \cup ToSet(tcb[Tmp(i)]) \cup {TypeC(i)}
       /\ Queued' = Queued \ {c}
  <2>1. ToSet(tcb[T(i)]) = {TypeC(i)}
    BY <1>15, <1>16
  <2> QED BY <1>3, <1>4, <1>13, <1>14, <2>1 DEF Queued
<1>18. /\ \A j \in Input :
            /\ InMain(ReaderC(j))' <=> InMain(ReaderC(j))
            /\ InMain(ReaderEndC(j))' <=> InMain(ReaderEndC(j))
            /\ \A x \in { StringC(j), TypeC(j), ElementC(j), ReaderC(j), ReaderEndC(j) } :
                 x \in Queued' <=> x \in Queued
            /\ j # i => /\ InMain(TypeC(j))' <=> InMain(TypeC(j))
                        /\ InMain(StringC(j))' <=> InMain(StringC(j))
                        /\ InMain(ElementEndC(j))' <=> InMain(ElementEndC(j))
                        /\ ElementEndC(j) \in Queued' <=> ElementEndC(j) \in Queued
       /\ ~ InMain(ElementEndC(i))' /\ c \notin Queued' /\ c = ElementEndC(i)
       /\ InMain(TypeC(i))'
  BY <1>5, <1>15, <1>17 DEF InMain
<1>19. /\ count'[Doc] = count[Doc] + (-1)
       /\ count'[Tmp(i)] = 0 /\ count'[T(i)] = 0 /\ count'[R(i)] = 1 /\ count'[Vdoc(i)] = 1
       /\ \A j \in Input : count'[Reader(j)] = count[Reader(j)]
       /\ \A j \in Input : j # i =>
            /\ count'[Tmp(j)] = count[Tmp(j)] /\ count'[T(j)] = count[T(j)]
            /\ count'[R(j)] = count[R(j)] /\ count'[Vdoc(j)] = count[Vdoc(j)]
  <2>1. /\ count'[Doc] = count[Doc] - 1
        /\ /\ count'[Tmp(i)] = count[Tmp(i)] - 1 /\ count'[T(i)] = count[T(i)] - 1
           /\ count'[R(i)] = count[R(i)] - 1 /\ count'[Vdoc(i)] = count[Vdoc(i)] - 1
        /\ \A j \in Input : count'[Reader(j)] = count[Reader(j)]
        /\ \A j \in Input : j # i =>
             /\ count'[Tmp(j)] = count[Tmp(j)] /\ count'[T(j)] = count[T(j)]
             /\ count'[R(j)] = count[R(j)] /\ count'[Vdoc(j)] = count[Vdoc(j)]
    BY <1>1, <1>14, LoweredByElement DEF p
  <2>2. count[Doc] - 1 = count[Doc] + (-1)
    BY <1>1, CountTypes
  <2> QED BY <1>9, <2>1, <2>2
<1>20. QueuesCounted'
  <2>1. Placed(tcb, count)'
    BY <1>14 DEF Placed
  <2>2. DocCounted'
    <3>1. count'[Vdoc(i)] + count'[Reader(i)] = (count[Vdoc(i)] + count[Reader(i)]) + (-1)
      BY <1>1, <1>9, <1>19, CountTypes
    <3>2. -1 \in Int
      OBVIOUS
    <3> QED BY <1>1, <1>6, <1>7, <1>19, <3>1, <3>2, DocMoves
  <2>3. ASSUME NEW j \in Input PROVE Counted(j)'
    <3>1. ResultAwaited(j)' <=> ResultAwaited(j)
      BY <1>2 DEF ResultAwaited
    <3>2. CASE j # i
      <4>1. ElementWaits(j)' <=> ElementWaits(j)
        BY <1>2, <1>18, <3>2 DEF ElementWaits
      <4> QED BY <1>7, <1>18, <1>19, <3>1, <3>2, <4>1, CountedSame
    <3>3. CASE j = i
      <4>1. ~ ElementWaits(i)'
        BY <1>2, <1>8, <1>18 DEF ElementWaits
      <4>2. ReaderEndC(i) \in Queued' <=> ReaderEndC(i) \in Queued
        BY <1>18
      <4> QED BY <1>7, <1>9, <1>18, <1>19, <3>1, <3>3, <4>1, <4>2 DEF Counted
    <3> QED BY <3>2, <3>3
  <2>4. ASSUME NEW j \in Input PROVE Ordered(j)'
    <3>1. Ordered(j)
      BY <1>7
    <3>2. \A x, y : InFront(main, x, y) /\ x # c => InFront(main', x, y)
      BY <1>3, <1>14
    <3>3. CASE j # i
      BY <1>2, <1>5, <1>18, <1>19, <3>1, <3>2, <3>3 DEF Ordered
    <3>4. CASE j = i
      <4>1. ASSUME InMain(StringC(i))' PROVE InFront(main', StringC(i), TypeC(i))
        <5>1. CASE StringC(i) \in ToSet(tcb[Tmp(i)])
          <6>1. /\ p[1] = Tmp(i) /\ p[2] = T(i) /\ 1 \in 1..Len(p) /\ 2 \in 1..Len(p)
            BY <1>11
          <6> QED BY <1>9, <1>14, <1>16, <5>1, <6>1
        <5>2. CASE StringC(i) \in ToSet(Rest)
          BY <1>13, <1>14, <1>16, <5>2
        <5> QED BY <1>3, <1>5, <1>17, <4>1, <5>1, <5>2 DEF InMain
      <4>2. ElementC(i) \notin Queued'
        BY <1>8, <1>18
      <4> QED BY <1>2, <1>18, <3>1, <3>4, <4>1, <4>2 DEF Ordered
    <3> QED BY <3>3, <3>4
  <2> QED BY <2>1, <2>2, <2>3, <2>4 DEF QueuesCounted
<1>21. HostKnows' /\ DoneIsComplete'
  BY <1>2, <1>3, HostGoes
<1>22. InputsKnown'
  <2>1. \A j \in Input, x \in { "reader", "readerEnd" } :
           /\ <<x, j>> \in ToSet(main') <=> <<x, j>> \in ToSet(main)
           /\ <<x, j>> \in Queued' <=> <<x, j>> \in Queued
    BY <1>18 DEF InMain, ReaderC, ReaderEndC
  <2> QED BY <1>2, <1>21, <2>1, KnownRest
<1> QED BY <1>1, <1>20, <1>21, <1>22 DEF CInv

LEMMA StringCallCounts ==
  ASSUME NEW i \in Input
  PROVE  CInv /\ StringCall(i) => CInv'
<1> SUFFICES ASSUME CInv, StringCall(i) PROVE CInv'
  OBVIOUS
<1> DEFINE c == StringC(i)
<1>1. IInv /\ IInv' /\ TypeOK /\ Calls("string", i)
  BY StepKeeps DEF CInv, Kept, Next, Loop, IInv, StringCall
<1>2. /\ UNCHANGED <<count, stage, type, parsed, parsedAs, result, querystring, given,
                     seen, asked, config, answered, phase, cur>>
      /\ main' = Rest
      /\ \/ count[Tmp(i)] > 0 /\ tcb' = Parked(tcb, Tmp(i), c) /\ ctype' = ctype
         \/ count[Tmp(i)] = 0 /\ tcb' = tcb /\ ctype' = [ctype EXCEPT ![i] = config[i].type]
  BY DEF StringCall, input, buffers, sheet, host, Goes, WaitsOn, Calls, StringC
<1>3. /\ InMain(c) /\ running /\ ToSet(Rest) = ToSet(main) \ {c}
      /\ \A n \in Node : c \notin ToSet(tcb[n])
      /\ \A x, y : InFront(main, x, y) /\ x # c => InFront(Rest, x, y)
  BY <1>1, Takes DEF StringC
<1>4. /\ Rest \in Seq(Call) /\ QueuesApart(Rest, tcb) /\ InQueues(Rest, tcb) = Queued \ {c}
      /\ c \in Queued /\ c \in Call
  BY <1>1, CallTaken DEF StringC
<1>5. \A j \in Input :
        /\ c \notin { TypeC(j), ElementC(j), ElementEndC(j), ReaderC(j), ReaderEndC(j) }
        /\ (c = StringC(j) <=> i = j)
  BY CallsApart DEF ElementEndC, ElementC, StringC, TypeC, ReaderC, ReaderEndC
<1>6. tcb \in [Node -> Seq(Call)] /\ Tmp(i) \in Node
  BY <1>1, QueueTypes, NodesOfInputs
<1>7. /\ Placed(tcb, count) /\ DocCounted /\ \A j \in Input : Counted(j) /\ Ordered(j)
      /\ \A j \in Input : Learned(j) /\ Reads(j)
  BY DEF CInv, QueuesCounted, InputsKnown
<1> HIDE DEF c
<1>8. \/ count[Tmp(i)] > 0 /\ tcb' = Parked(tcb, Tmp(i), c) /\ ctype' = ctype /\ Queued' = Queued
      \/ /\ tcb' = tcb /\ Queued' = Queued \ {c}
         /\ ctype' = [ctype EXCEPT ![i] = config[i].type]
  <2>1. CASE count[Tmp(i)] > 0 /\ tcb' = Parked(tcb, Tmp(i), c) /\ ctype' = ctype
    <3>1. c \notin InQueues(Rest, tcb)
      BY <1>4
    <3>2. InQueues(Rest, Parked(tcb, Tmp(i), c)) = InQueues(Rest, tcb) \cup {c}
      BY <1>4, <1>6, <3>1, Parks
    <3>3. Queued' = Queued
      BY <1>2, <1>4, <2>1, <3>2 DEF Queued
    <3> QED BY <2>1, <3>3
  <2>2. CASE tcb' = tcb /\ ctype' = [ctype EXCEPT ![i] = config[i].type]
    BY <1>2, <1>4, <2>2 DEF Queued
  <2> QED BY <1>2, <2>1, <2>2
<1>9. \A j \in Input :
        /\ InMain(TypeC(j))' <=> InMain(TypeC(j))
        /\ InMain(StringC(j))' <=> InMain(StringC(j)) /\ j # i
        /\ InMain(ElementEndC(j))' <=> InMain(ElementEndC(j))
        /\ InMain(ReaderC(j))' <=> InMain(ReaderC(j))
        /\ InMain(ReaderEndC(j))' <=> InMain(ReaderEndC(j))
        /\ \A x \in { TypeC(j), ElementC(j), ElementEndC(j), ReaderC(j), ReaderEndC(j) } :
             x \in Queued' <=> x \in Queued
        /\ StringC(j) \in Queued' <=> StringC(j) \in Queued /\ (j # i \/ Queued' = Queued)
  BY <1>2, <1>3, <1>5, <1>8 DEF InMain
<1>10. ctype'[i] = ctype[i] \/ ctype'[i] = config[i].type
  BY <1>1, <1>8 DEF TypeOK
<1>11. \A j \in Input : j # i \/ Queued' = Queued => ctype'[j] = ctype[j]
  BY <1>1, <1>4, <1>8 DEF TypeOK
<1>12. Queued' # Queued => ctype'[i] = config[i].type
  BY <1>1, <1>8 DEF TypeOK
<1>13. QueuesCounted'
  <2>1. Placed(tcb, count)'
    <3>1. CASE count[Tmp(i)] > 0 /\ tcb' = Parked(tcb, Tmp(i), c)
      <4>1. MayWait(c, Tmp(i))
        BY DEF MayWait, c
      <4>2. Placed(Parked(tcb, Tmp(i), c), count)
        BY <1>4, <1>6, <1>7, <3>1, <4>1, ParkedPlaced
      <4> QED BY <1>2, <3>1, <4>2
    <3>2. CASE tcb' = tcb
      BY <1>2, <1>7, <3>2
    <3> QED BY <1>8, <3>1, <3>2
  <2>2. DocCounted'
    BY <1>2, <1>7 DEF DocCounted
  <2>3. ASSUME NEW j \in Input PROVE Counted(j)'
    <3>1. (ResultAwaited(j)' <=> ResultAwaited(j)) /\ (ElementWaits(j)' <=> ElementWaits(j))
      BY <1>2, <1>9 DEF ResultAwaited, ElementWaits
    <3> QED BY <1>2, <1>7, <1>9, <3>1, CountedSame
  <2>4. ASSUME NEW j \in Input PROVE Ordered(j)'
    <3>1. Ordered(j)
      BY <1>7
    <3>2. \A x, y : InFront(main, x, y) /\ x # c => InFront(main', x, y)
      BY <1>2, <1>3
    <3>3. config[j].type \in Type /\ "NULL" \notin Type
      BY <1>1, TypeOfConfig DEF Type
    <3>4. TypeC(j) \in Queued /\ ctype'[j] = "NULL" => StringC(j) \in Queued'
      BY <1>9, <1>11, <1>12, <3>1, <3>3 DEF Ordered
    <3> QED BY <1>2, <1>5, <1>9, <3>1, <3>2, <3>4 DEF Ordered
  <2> QED BY <2>1, <2>2, <2>3, <2>4 DEF QueuesCounted
<1>14. HostKnows' /\ DoneIsComplete'
  BY <1>2, <1>3, HostGoes
<1>15. InputsKnown'
  <2>1. BodyWhole' /\ QuerystringKept'
    BY <1>2 DEF CInv, InputsKnown, BodyWhole, QuerystringKept
  <2>2. \A j \in Input : Learned(j)'
    BY <1>2, <1>7, <1>10, <1>11 DEF Learned
  <2>3. \A j \in Input, x \in { "reader", "readerEnd" } :
           /\ <<x, j>> \in ToSet(main') <=> <<x, j>> \in ToSet(main)
           /\ <<x, j>> \in Queued' <=> <<x, j>> \in Queued
    BY <1>9 DEF InMain, ReaderC, ReaderEndC
  <2>4. \A j \in Input : Reads(j)'
    BY <1>2, <1>7, <2>3, ReadersRest
  <2> QED BY <1>14, <2>1, <2>2, <2>4 DEF InputsKnown
<1> QED BY <1>1, <1>13, <1>14, <1>15 DEF CInv

LEMMA ReaderFirstCounts ==
  ASSUME NEW i \in Input
  PROVE  CInv /\ ReaderFirst(i) => CInv'
<1> SUFFICES ASSUME CInv, ReaderFirst(i) PROVE CInv'
  OBVIOUS
<1> DEFINE c == ReaderC(i)
           d == ReaderEndC(i)
           p == PathOf(Reader(i))
<1>1. IInv /\ IInv' /\ TypeOK /\ Calls("reader", i)
  BY StepKeeps DEF CInv, Kept, Next, Loop, IInv, ReaderFirst
<1>2. /\ UNCHANGED <<stage, type, ctype, parsed, parsedAs, result, querystring, given,
                     asked, config, answered, phase, cur>>
      /\ main' = Rest
      /\ \/ /\ count[Vdoc(i)] > 0 /\ count' = Increased(count, p)
            /\ tcb' = Parked(tcb, Vdoc(i), d) /\ seen' = seen
         \/ /\ ~ (count[Vdoc(i)] > 0) /\ count' = count /\ tcb' = tcb
            /\ seen' = [seen EXCEPT ![i] = result[i]]
  BY DEF ReaderFirst, input, buffers, host, Goes, WaitsOn, Pending, ReaderEndC
<1>3. /\ InMain(c) /\ running /\ ToSet(Rest) = ToSet(main) \ {c}
      /\ \A n \in Node : c \notin ToSet(tcb[n])
      /\ \A x, y : InFront(main, x, y) /\ x # c => InFront(Rest, x, y)
  BY <1>1, Takes DEF ReaderC
<1>4. /\ Rest \in Seq(Call) /\ QueuesApart(Rest, tcb) /\ InQueues(Rest, tcb) = Queued \ {c}
      /\ c \in Queued
  BY <1>1, CallTaken DEF ReaderC
<1>5. \A j \in Input :
        /\ c \notin { StringC(j), TypeC(j), ElementC(j), ElementEndC(j), ReaderEndC(j) }
        /\ d \notin { StringC(j), TypeC(j), ElementC(j), ElementEndC(j), ReaderC(j) }
        /\ (c = ReaderC(j) <=> i = j) /\ (d = ReaderEndC(j) <=> i = j)
  BY CallsApart DEF ElementEndC, ElementC, StringC, TypeC, ReaderC, ReaderEndC
<1>6. /\ d \in Call /\ tcb \in [Node -> Seq(Call)] /\ count \in [Node -> Nat]
      /\ count' \in [Node -> Nat] /\ Vdoc(i) \in Node
  BY <1>1, QueueTypes, NodesOfInputs DEF IInv, TypeOK, Call, ReaderEndC
<1>7. /\ Placed(tcb, count) /\ DocCounted /\ \A j \in Input : Counted(j) /\ Ordered(j)
      /\ \A j \in Input : Learned(j) /\ Reads(j) /\ CallsInStep(j)
  BY <1>1 DEF CInv, QueuesCounted, InputsKnown, IInv
<1>8. d \notin Queued /\ config[i].how # "none" /\ count[Reader(i)] = 0
  BY <1>4, <1>7 DEF CallsInStep, Reads, Counted, ReaderC, ReaderEndC
<1> HIDE DEF c, d, p
<1>9. \/ /\ count[Vdoc(i)] > 0 /\ count' = Increased(count, p)
         /\ tcb' = Parked(tcb, Vdoc(i), d) /\ seen' = seen
         /\ Queued' = (Queued \ {c}) \cup {d}
      \/ /\ ~ (count[Vdoc(i)] > 0) /\ count' = count /\ tcb' = tcb
         /\ seen' = [seen EXCEPT ![i] = result[i]]
         /\ Queued' = Queued \ {c}
  <2>1. CASE /\ count[Vdoc(i)] > 0 /\ count' = Increased(count, p)
             /\ tcb' = Parked(tcb, Vdoc(i), d) /\ seen' = seen
    <3>1. d \notin InQueues(Rest, tcb)
      BY <1>4, <1>8
    <3>2. InQueues(Rest, Parked(tcb, Vdoc(i), d)) = InQueues(Rest, tcb) \cup {d}
      BY ZenonT(30), <1>4, <1>6, <3>1, Parks
    <3>3. Queued' = (Queued \ {c}) \cup {d}
      BY <1>2, <1>4, <2>1, <3>2 DEF Queued
    <3> QED BY <2>1, <3>3
  <2>2. CASE /\ ~ (count[Vdoc(i)] > 0) /\ count' = count /\ tcb' = tcb
             /\ seen' = [seen EXCEPT ![i] = result[i]]
    BY <1>2, <1>4, <2>2 DEF Queued
  <2> QED BY <1>2, <2>1, <2>2
<1>10. \A j \in Input :
         /\ InMain(TypeC(j))' <=> InMain(TypeC(j))
         /\ InMain(StringC(j))' <=> InMain(StringC(j))
         /\ InMain(ElementEndC(j))' <=> InMain(ElementEndC(j))
         /\ InMain(ReaderEndC(j))' <=> InMain(ReaderEndC(j))
         /\ \A x \in { StringC(j), TypeC(j), ElementC(j), ElementEndC(j) } :
              x \in Queued' <=> x \in Queued
         /\ ReaderC(j) \in Queued' <=> ReaderC(j) \in Queued /\ j # i
         /\ j # i => (ReaderEndC(j) \in Queued' <=> ReaderEndC(j) \in Queued)
  BY <1>2, <1>3, <1>5, <1>9 DEF InMain
<1>11. ASSUME count' = Increased(count, p)
       PROVE  /\ \A n \in Node : count'[n] >= count[n]
              /\ count'[Doc] = count[Doc] + 1
              /\ count'[Reader(i)] = count[Reader(i)] + 1
              /\ \A j \in Input : j # i => count'[Reader(j)] = count[Reader(j)]
              /\ \A j \in Input :
                   /\ count'[Tmp(j)] = count[Tmp(j)] /\ count'[T(j)] = count[T(j)]
                   /\ count'[R(j)] = count[R(j)] /\ count'[Vdoc(j)] = count[Vdoc(j)]
  BY <1>1, <1>11, RaisedByReader DEF p
<1>12. \A j \in Input :
         (ResultAwaited(j)' <=> ResultAwaited(j)) /\ (ElementWaits(j)' <=> ElementWaits(j))
  BY <1>2, <1>10 DEF ResultAwaited, ElementWaits
<1>13. QueuesCounted'
  <2>1. CASE /\ count[Vdoc(i)] > 0 /\ count' = Increased(count, p)
             /\ tcb' = Parked(tcb, Vdoc(i), d) /\ d \in Queued'
    <3>1. Placed(tcb, count)'
      <4>1. Placed(tcb, count')
        BY <1>1, <1>6, <1>7, <1>11, <2>1, RaisedPlaced
      <4>2. MayWait(d, Vdoc(i))
        BY DEF MayWait, d
      <4>3. count'[Vdoc(i)] > 0
        BY <1>6, <1>11, <2>1
      <4> QED BY <1>6, <2>1, <4>1, <4>2, <4>3, ParkedPlaced
    <3>2. DocCounted'
      <4>1. count'[Vdoc(i)] + count'[Reader(i)] = (count[Vdoc(i)] + count[Reader(i)]) + 1
        BY <1>1, <1>11, <2>1, CountTypes
      <4>2. 1 \in Int /\ count'[Doc] = count[Doc] + 1
        BY <1>11, <2>1
      <4>3. \A j \in Input : j # i => /\ count'[Vdoc(j)] = count[Vdoc(j)]
                                      /\ count'[Reader(j)] = count[Reader(j)]
        BY <1>11, <2>1
      <4> QED BY <1>1, <1>6, <1>7, <4>1, <4>2, <4>3, DocMoves
    <3>3. ASSUME NEW j \in Input PROVE Counted(j)'
      <4>1. CASE j # i
        BY <1>7, <1>10, <1>11, <1>12, <2>1, <4>1, CountedSame
      <4>2. CASE j = i
        <5>1. count'[Reader(i)] = 1 /\ ReaderEndC(i) \in Queued'
          BY <1>8, <1>11, <2>1 DEF d
        <5> QED BY <1>7, <1>10, <1>11, <1>12, <2>1, <4>2, <5>1 DEF Counted
      <4> QED BY <4>1, <4>2
    <3>4. ASSUME NEW j \in Input PROVE Ordered(j)'
      <4>1. Ordered(j)
        BY <1>7
      <4>2. \A x, y : InFront(main, x, y) /\ x # c => InFront(main', x, y)
        BY <1>2, <1>3
      <4> QED BY <1>2, <1>5, <1>10, <1>11, <2>1, <4>1, <4>2 DEF Ordered
    <3> QED BY <3>1, <3>2, <3>3, <3>4 DEF QueuesCounted
  <2>2. CASE count' = count /\ tcb' = tcb /\ Queued' = Queued \ {c}
    <3>1. Placed(tcb, count)' /\ DocCounted'
      BY <1>7, <2>2 DEF DocCounted
    <3>2. ASSUME NEW j \in Input PROVE Counted(j)'
      <4>1. ReaderEndC(j) \in Queued' <=> ReaderEndC(j) \in Queued
        BY <1>5, <2>2
      <4> QED BY <1>7, <1>10, <1>12, <2>2, <4>1, CountedSame
    <3>3. ASSUME NEW j \in Input PROVE Ordered(j)'
      <4>1. Ordered(j)
        BY <1>7
      <4>2. \A x, y : InFront(main, x, y) /\ x # c => InFront(main', x, y)
        BY <1>2, <1>3
      <4> QED BY <1>2, <1>5, <1>10, <2>2, <4>1, <4>2 DEF Ordered
    <3> QED BY <3>1, <3>2, <3>3 DEF QueuesCounted
  <2> QED BY <1>9, <2>1, <2>2
<1>14. HostKnows' /\ DoneIsComplete'
  BY <1>2, <1>3, HostGoes
<1>15. InputsKnown'
  <2>1. BodyWhole' /\ QuerystringKept' /\ \A j \in Input : Learned(j)'
    BY <1>2 DEF CInv, InputsKnown, BodyWhole, QuerystringKept, Learned
  <2>2. ASSUME NEW j \in Input PROVE Reads(j)'
    <3>1. Reads(j)
      BY <1>7
    <3>2. CASE j # i
      <4>1. seen'[j] = seen[j]
        BY <1>1, <1>9, <3>2 DEF TypeOK
      <4> QED BY <1>2, <1>10, <3>1, <3>2, <4>1 DEF Reads
    <3>3. CASE j = i /\ d \in Queued' /\ seen' = seen
      <4>1. d = ReaderEndC(i)
        BY DEF d
      <4> QED BY <1>2, <1>8, <1>10, <3>1, <3>3, <4>1 DEF Reads
    <3>4. CASE j = i /\ ~ (count[Vdoc(i)] > 0) /\ seen' = [seen EXCEPT ![i] = result[i]]
      <4>1. count[Vdoc(i)] = 0
        BY <1>1, <3>4, CountTypes
      <4>2. ~ ResultAwaited(i)
        BY <1>1, <1>7, <4>1, CountTypes DEF Counted
      <4>3. stage[i] = "END"
        BY <1>8, <4>2 DEF ResultAwaited
      <4>4. seen'[i] = result[i]
        BY <1>1, <3>4 DEF TypeOK
      <4>5. seen'[i] # "nothing"
        BY <3>1, <3>4, <4>3, <4>4 DEF Reads
      <4> QED BY <1>2, <1>8, <1>10, <3>1, <3>4, <4>3, <4>4, <4>5 DEF Reads
    <3> QED BY <1>9, <3>2, <3>3, <3>4
  <2> QED BY <1>14, <2>1, <2>2 DEF InputsKnown
<1> QED BY <1>1, <1>13, <1>14, <1>15 DEF CInv

LEMMA ReaderEndCounts ==
  ASSUME NEW i \in Input
  PROVE  CInv /\ ReaderEnd(i) => CInv'
<1> SUFFICES ASSUME CInv, ReaderEnd(i) PROVE CInv'
  OBVIOUS
<1> DEFINE c == ReaderEndC(i)
           p == PathOf(Reader(i))
<1>1. IInv /\ IInv' /\ TypeOK /\ Calls("readerEnd", i)
  BY StepKeeps DEF CInv, Kept, Next, Loop, IInv, ReaderEnd
<1>2. /\ UNCHANGED <<stage, type, ctype, parsed, parsedAs, result, querystring, given,
                     asked, config, answered, phase, cur>>
      /\ count' = Decreased(count, p) /\ tcb' = Drained(count, tcb, p)
      /\ main' = Joined(Rest, Moved(count, tcb, p))
      /\ seen' = [seen EXCEPT ![i] = result[i]]
  BY DEF ReaderEnd, Releases, input, buffers, host, Goes
<1>3. /\ InMain(c) /\ running /\ ToSet(Rest) = ToSet(main) \ {c}
      /\ \A n \in Node : c \notin ToSet(tcb[n])
      /\ \A x, y : InFront(main, x, y) /\ x # c => InFront(Rest, x, y)
  BY <1>1, Takes DEF ReaderEndC
<1>4. /\ Rest \in Seq(Call) /\ QueuesApart(Rest, tcb) /\ InQueues(Rest, tcb) = Queued \ {c}
      /\ c \in Queued
  BY <1>1, CallTaken DEF ReaderEndC
<1>5. \A j \in Input :
        /\ c \notin { StringC(j), TypeC(j), ElementC(j), ElementEndC(j), ReaderC(j) }
        /\ (c = ReaderEndC(j) <=> i = j)
  BY CallsApart DEF ElementEndC, ElementC, StringC, TypeC, ReaderC, ReaderEndC
<1>6. /\ tcb \in [Node -> Seq(Call)] /\ count \in [Node -> Nat] /\ count' \in [Node -> Nat]
  BY <1>1, QueueTypes DEF IInv, TypeOK
<1>7. /\ Placed(tcb, count) /\ DocCounted /\ \A j \in Input : Counted(j) /\ Ordered(j)
      /\ \A j \in Input : Learned(j) /\ Reads(j)
  BY DEF CInv, QueuesCounted, InputsKnown
<1>8. /\ stage[i] = "END" /\ result[i] \in {"document", "failure"} /\ config[i].how # "none"
      /\ count[Reader(i)] = 1
  BY <1>3, <1>4, <1>7 DEF Reads, Counted
<1>9. count[Doc] \in Nat /\ count[Doc] >= 1
  <2>1. count[Doc] >= count[Vdoc(i)] + count[Reader(i)]
    BY <1>1, <1>7, DocAbove
  <2> QED BY <1>1, <1>8, <2>1, CountTypes
<1>10. /\ p \in Seq(Node) /\ ToSet(p) = { Reader(i), Doc }
  BY Walks, PathSets
<1> HIDE DEF c, p
<1>11. \A m \in ToSet(p) : count[m] > 0
  <2>1. \A m \in { Reader(i), Doc } : count[m] > 0
    BY <1>8, <1>9
  <2> QED BY <1>10, <2>1
<1>12. WokenCalls(count, tcb, p) = {}
  <2>1. ToSet(tcb[Reader(i)]) = {} /\ ToSet(tcb[Doc]) = {}
    BY <1>7, WaitsFor
  <2>2. \A m \in ToSet(p) : ToSet(tcb[m]) = {}
    BY <1>10, <2>1
  <2> QED BY <2>2 DEF WokenCalls
<1>13. /\ \A m \in Node : count'[m] = IF m \in ToSet(p) THEN count[m] - 1 ELSE count[m]
       /\ ToSet(main') = ToSet(Rest) \cup WokenCalls(count, tcb, p)
       /\ InQueues(main', tcb') = InQueues(Rest, tcb)
       /\ \A x, y : InFront(Rest, x, y) => InFront(main', x, y)
       /\ Placed(tcb', count')
  BY <1>1, <1>2, <1>4, <1>7, <1>11, Releasing DEF p
<1>14. ToSet(main') = ToSet(main) \ {c} /\ Queued' = Queued \ {c}
  BY <1>3, <1>4, <1>12, <1>13 DEF Queued
<1>15. \A j \in Input :
         /\ InMain(TypeC(j))' <=> InMain(TypeC(j))
         /\ InMain(StringC(j))' <=> InMain(StringC(j))
         /\ InMain(ElementEndC(j))' <=> InMain(ElementEndC(j))
         /\ InMain(ReaderEndC(j))' <=> InMain(ReaderEndC(j)) /\ j # i
         /\ \A x \in { StringC(j), TypeC(j), ElementC(j), ElementEndC(j), ReaderC(j) } :
              x \in Queued' <=> x \in Queued
         /\ ReaderEndC(j) \in Queued' <=> ReaderEndC(j) \in Queued /\ j # i
  BY <1>5, <1>14 DEF InMain
<1>16. /\ count'[Doc] = count[Doc] + (-1)
       /\ count'[Reader(i)] = 0
       /\ \A j \in Input :
            /\ count'[Tmp(j)] = count[Tmp(j)] /\ count'[T(j)] = count[T(j)]
            /\ count'[R(j)] = count[R(j)] /\ count'[Vdoc(j)] = count[Vdoc(j)]
       /\ \A j \in Input : j # i => count'[Reader(j)] = count[Reader(j)]
  <2>1. /\ count'[Doc] = count[Doc] - 1
        /\ count'[Reader(i)] = count[Reader(i)] - 1
        /\ <1>16!3 /\ <1>16!4
    BY <1>1, <1>13, LoweredByReader DEF p
  <2>2. count[Doc] - 1 = count[Doc] + (-1)
    BY <1>9
  <2> QED BY <1>8, <2>1, <2>2
<1>17. QueuesCounted'
  <2>1. Placed(tcb, count)'
    BY <1>13 DEF Placed
  <2>2. DocCounted'
    <3>1. count'[Vdoc(i)] + count'[Reader(i)] = (count[Vdoc(i)] + count[Reader(i)]) + (-1)
      BY <1>1, <1>8, <1>16, CountTypes
    <3>2. -1 \in Int
      OBVIOUS
    <3> QED BY <1>1, <1>6, <1>7, <1>16, <3>1, <3>2, DocMoves
  <2>3. ASSUME NEW j \in Input PROVE Counted(j)'
    <3>1. (ResultAwaited(j)' <=> ResultAwaited(j)) /\ (ElementWaits(j)' <=> ElementWaits(j))
      BY <1>2, <1>15 DEF ResultAwaited, ElementWaits
    <3>2. CASE j # i
      BY <1>7, <1>15, <1>16, <3>1, <3>2, CountedSame
    <3>3. CASE j = i
      BY <1>7, <1>15, <1>16, <3>1, <3>3 DEF Counted
    <3> QED BY <3>2, <3>3
  <2>4. ASSUME NEW j \in Input PROVE Ordered(j)'
    <3>1. Ordered(j)
      BY <1>7
    <3>2. \A x, y : InFront(main, x, y) /\ x # c => InFront(main', x, y)
      BY <1>3, <1>13
    <3> QED BY <1>2, <1>5, <1>15, <1>16, <3>1, <3>2 DEF Ordered
  <2> QED BY <2>1, <2>2, <2>3, <2>4 DEF QueuesCounted
<1>18. HostKnows' /\ DoneIsComplete'
  BY <1>2, <1>3, HostGoes
<1>19. InputsKnown'
  <2>1. BodyWhole' /\ QuerystringKept' /\ \A j \in Input : Learned(j)'
    BY <1>2 DEF CInv, InputsKnown, BodyWhole, QuerystringKept, Learned
  <2>2. ASSUME NEW j \in Input PROVE Reads(j)'
    <3>1. Reads(j) /\ seen \in [Input -> {"nothing", "pending", "document", "failure"}]
      BY <1>1, <1>7 DEF TypeOK
    <3>2. CASE j # i
      BY <1>2, <1>15, <3>1, <3>2 DEF Reads
    <3>3. CASE j = i
      BY <1>2, <1>8, <1>15, <3>1, <3>3 DEF Reads
    <3> QED BY <3>2, <3>3
  <2> QED BY <1>18, <2>1, <2>2 DEF InputsKnown
<1> QED BY <1>1, <1>17, <1>18, <1>19 DEF CInv

LEMMA ResultCallCounts ==
  ASSUME NEW i \in Input
  PROVE  CInv /\ ResultCall(i) => CInv'
<1> SUFFICES ASSUME CInv, ResultCall(i) PROVE CInv'
  OBVIOUS
<1> DEFINE c == ResultC(i)
           p == PathOf(R(i))
<1>1. IInv /\ IInv' /\ TypeOK /\ Calls("result", i)
  BY StepKeeps DEF CInv, Kept, Next, Loop, IInv, ResultCall
<1>2. /\ UNCHANGED <<type, ctype, parsed, parsedAs, querystring, given, seen,
                     asked, config, answered, phase, cur>>
      /\ count' = Decreased(count, p) /\ tcb' = Drained(count, tcb, p)
      /\ main' = Joined(Rest, Moved(count, tcb, p))
      /\ result' = [result EXCEPT ![i] = Outcome(stage[i])]
      /\ stage' = [stage EXCEPT ![i] = "END"]
  BY DEF ResultCall, Releases, buffers, sheet, host, Goes
<1>3. /\ InMain(c) /\ running /\ ToSet(Rest) = ToSet(main) \ {c}
      /\ \A n \in Node : c \notin ToSet(tcb[n])
      /\ \A x, y : InFront(main, x, y) /\ x # c => InFront(Rest, x, y)
  BY <1>1, Takes DEF ResultC
<1>4. /\ Rest \in Seq(Call) /\ QueuesApart(Rest, tcb) /\ InQueues(Rest, tcb) = Queued \ {c}
      /\ c \in Queued
  BY <1>1, CallTaken DEF ResultC
<1>5. \A j \in Input :
        /\ c \notin { StringC(j), TypeC(j), ElementC(j), ElementEndC(j), ReaderC(j),
                      ReaderEndC(j) }
        /\ ReaderEndC(i) \notin { StringC(j), TypeC(j), ElementC(j), ElementEndC(j), ReaderC(j) }
        /\ ElementEndC("body") \notin { StringC(j), TypeC(j), ElementC(j), ReaderC(j),
                                        ReaderEndC(j) }
        /\ (ReaderEndC(j) = ReaderEndC(i) <=> i = j)
  BY CallsApart, BothInputs DEF ElementEndC, ElementC, StringC, TypeC, ReaderC, ReaderEndC, ResultC
<1>6. /\ tcb \in [Node -> Seq(Call)] /\ count \in [Node -> Nat] /\ count' \in [Node -> Nat]
  BY <1>1, QueueTypes DEF IInv, TypeOK
<1>7. /\ Placed(tcb, count) /\ DocCounted /\ \A j \in Input : Counted(j) /\ Ordered(j)
      /\ \A j \in Input : Learned(j) /\ Reads(j) /\ CallsInStep(j)
  BY <1>1 DEF CInv, QueuesCounted, InputsKnown, IInv
<1>8. /\ stage[i] \in {"SUCCESS", "FAILURE"} /\ TypeC(i) \notin Queued /\ ResultAwaited(i)
      /\ config[i].how # "none"
  BY <1>4, <1>7 DEF CallsInStep, Learned, ResultAwaited, ResultC, TypeC
<1>9. /\ count[Tmp(i)] = 0 /\ count[T(i)] = 0 /\ count[R(i)] = 1 /\ count[Vdoc(i)] = 1
      /\ ElementC(i) \notin Queued
  <2>1. count[T(i)] = 0
    BY <1>1, <1>7, <1>8, CountTypes DEF Counted
  <2>2. count[Tmp(i)] = 0
    BY <1>1, <1>7, <2>1, CountTypes DEF Counted
  <2>3. count[R(i)] = 1
    BY <1>7, <1>8, <2>1 DEF Counted
  <2>4. count[Vdoc(i)] = 1
    BY <1>7, <2>3 DEF Counted
  <2>5. ElementC(i) \notin Queued
    BY <1>7, <2>1, <2>2 DEF Ordered
  <2> QED BY <2>1, <2>2, <2>3, <2>4, <2>5
<1>10. count[Doc] \in Nat /\ count[Doc] >= 1
  <2>1. count[Doc] >= count[Vdoc(i)] + count[Reader(i)]
    BY <1>1, <1>7, DocAbove
  <2> QED BY <1>1, <1>9, <2>1, CountTypes
<1>11. /\ p \in Seq(Node) /\ ToSet(p) = { R(i), Vdoc(i), Doc }
  BY Walks, PathSets
<1> HIDE DEF c, p
<1>12. \A m \in ToSet(p) : count[m] > 0
  <2>1. \A m \in { R(i), Vdoc(i), Doc } : count[m] > 0
    BY <1>9, <1>10
  <2> QED BY <1>11, <2>1
<1>13. WokenCalls(count, tcb, p) = ToSet(tcb[Vdoc(i)])
  <2>1. ToSet(tcb[R(i)]) = {} /\ ToSet(tcb[Doc]) = {}
    BY <1>7, WaitsFor
  <2>2. /\ Vdoc(i) \in { m \in ToSet(p) : count[m] = 1 }
        /\ \A m \in { m \in ToSet(p) : count[m] = 1 } : m \in { R(i), Vdoc(i), Doc }
    BY <1>9, <1>11
  <2> QED BY <2>1, <2>2 DEF WokenCalls
<1>14. /\ \A m \in Node : count'[m] = IF m \in ToSet(p) THEN count[m] - 1 ELSE count[m]
       /\ ToSet(main') = ToSet(Rest) \cup WokenCalls(count, tcb, p)
       /\ InQueues(main', tcb') = InQueues(Rest, tcb)
       /\ \A x, y : InFront(Rest, x, y) => InFront(main', x, y)
       /\ \A x \in ToSet(Rest), y \in WokenCalls(count, tcb, p) : InFront(main', x, y)
       /\ Placed(tcb', count')
  BY <1>1, <1>2, <1>4, <1>7, <1>12, Releasing DEF p
<1>15. /\ ToSet(tcb[Vdoc(i)]) \subseteq
            {ReaderEndC(i)} \cup IF i = "querystring" THEN {ElementEndC("body")} ELSE {}
  BY <1>7, WaitsFor
<1>16. /\ ToSet(main') = (ToSet(main) \ {c}) \cup ToSet(tcb[Vdoc(i)])
       /\ Queued' = Queued \ {c}
  BY <1>3, <1>4, <1>13, <1>14 DEF Queued
<1>17. \A j \in Input :
         /\ InMain(TypeC(j))' <=> InMain(TypeC(j))
         /\ InMain(StringC(j))' <=> InMain(StringC(j))
         /\ j # i => (InMain(ReaderEndC(j))' <=> InMain(ReaderEndC(j)))
         /\ \A x \in { StringC(j), TypeC(j), ElementC(j), ElementEndC(j), ReaderC(j),
                       ReaderEndC(j) } : x \in Queued' <=> x \in Queued
  BY <1>5, <1>15, <1>16 DEF InMain
<1>18. /\ count'[Doc] = count[Doc] + (-1)
       /\ count'[R(i)] = 0 /\ count'[Vdoc(i)] = 0
       /\ \A j \in Input :
            /\ count'[Reader(j)] = count[Reader(j)]
            /\ count'[Tmp(j)] = count[Tmp(j)] /\ count'[T(j)] = count[T(j)]
       /\ \A j \in Input : j # i =>
            count'[R(j)] = count[R(j)] /\ count'[Vdoc(j)] = count[Vdoc(j)]
  <2>1. /\ count'[Doc] = count[Doc] - 1
        /\ count'[R(i)] = count[R(i)] - 1 /\ count'[Vdoc(i)] = count[Vdoc(i)] - 1
        /\ <1>18!3 /\ <1>18!4
    BY <1>1, <1>14, LoweredByResult DEF p
  <2>2. count[Doc] - 1 = count[Doc] + (-1)
    BY <1>10
  <2> QED BY <1>9, <2>1, <2>2
<1>19. /\ stage'[i] = "END" /\ result'[i] = Outcome(stage[i])
       /\ \A j \in Input : j # i => stage'[j] = stage[j] /\ result'[j] = result[j]
  BY <1>1, <1>2 DEF TypeOK
<1>20. QueuesCounted'
  <2>1. Placed(tcb, count)'
    BY <1>14 DEF Placed
  <2>2. DocCounted'
    <3>1. count'[Vdoc(i)] + count'[Reader(i)] = (count[Vdoc(i)] + count[Reader(i)]) + (-1)
      BY <1>1, <1>9, <1>18, CountTypes
    <3>2. -1 \in Int
      OBVIOUS
    <3> QED BY <1>1, <1>6, <1>7, <1>18, <3>1, <3>2, DocMoves
  <2>3. ASSUME NEW j \in Input PROVE Counted(j)'
    <3>1. ElementWaits(j)' <=> ElementWaits(j)
      BY <1>2, <1>17 DEF ElementWaits
    <3>2. CASE j # i
      <4>1. ResultAwaited(j)' <=> ResultAwaited(j)
        BY <1>2, <1>19, <3>2 DEF ResultAwaited
      <4> QED BY <1>7, <1>17, <1>18, <3>1, <3>2, <4>1, CountedSame
    <3>3. CASE j = i
      <4>1. ~ ResultAwaited(i)' /\ ~ InMain(TypeC(i))'
        BY <1>8, <1>17, <1>19 DEF ResultAwaited, InMain, Queued, InQueues
      <4> QED BY <1>7, <1>9, <1>17, <1>18, <3>1, <3>3, <4>1 DEF Counted
    <3> QED BY <3>2, <3>3
  <2>4. ASSUME NEW j \in Input PROVE Ordered(j)'
    <3>1. Ordered(j)
      BY <1>7
    <3>2. \A x, y : InFront(main, x, y) /\ x # c => InFront(main', x, y)
      BY <1>3, <1>14
    <3>3. ASSUME InMain(ElementEndC(j))', InMain(TypeC(j))'
          PROVE  InFront(main', TypeC(j), ElementEndC(j))
      <4>1. TypeC(j) \in ToSet(Rest) /\ InMain(TypeC(j))
        BY <1>3, <1>5, <1>17, <3>3 DEF InMain
      <4>2. CASE ElementEndC(j) \in ToSet(tcb[Vdoc(i)])
        BY <1>13, <1>14, <4>1, <4>2
      <4>3. CASE InMain(ElementEndC(j))
        BY <1>5, <3>1, <3>2, <4>1, <4>3 DEF Ordered
      <4> QED BY <1>16, <3>3, <4>2, <4>3 DEF InMain
    <3>4. /\ (InMain(StringC(j)) /\ InMain(TypeC(j)))' => InFront(main', StringC(j), TypeC(j))
          /\ ElementC(j) \in Queued' =>
               InFront(main', ElementC(j), TypeC(j)) /\ count'[T(j)] = count'[Tmp(j)] + 1
      BY <1>5, <1>17, <1>18, <3>1, <3>2 DEF Ordered
    <3> QED BY <1>2, <1>17, <3>1, <3>3, <3>4 DEF Ordered
  <2> QED BY <2>1, <2>2, <2>3, <2>4 DEF QueuesCounted
<1>21. HostKnows' /\ DoneIsComplete'
  BY <1>2, <1>3, HostGoes
<1>22. InputsKnown'
  <2>1. BodyWhole'
    <3>1. CASE i = "body"
      BY <1>2, <1>8, <1>19, <3>1, OutcomeIs DEF CInv, InputsKnown, BodyWhole
    <3>2. CASE i # "body"
      BY <1>2, <1>19, <3>2, BothInputs DEF CInv, InputsKnown, BodyWhole
    <3> QED BY <3>1, <3>2
  <2>2. QuerystringKept'
    BY <1>2 DEF CInv, InputsKnown, QuerystringKept
  <2>3. \A j \in Input : Learned(j)'
    BY <1>2, <1>7, <1>8, <1>19 DEF Learned
  <2>4. ASSUME NEW j \in Input PROVE Reads(j)'
    <3>1. Reads(j)
      BY <1>7
    <3>2. CASE j # i
      BY <1>2, <1>17, <1>19, <3>1, <3>2 DEF Reads
    <3>3. CASE j = i
      <4>1. seen[i] = "nothing"
        BY <1>8, <3>1, <3>3 DEF Reads
      <4>2. result'[i] \in {"document", "failure"}
        BY <1>8, <1>19, OutcomeIs
      <4> QED BY <1>2, <1>8, <1>17, <1>19, <3>1, <3>3, <4>1, <4>2 DEF Reads
    <3> QED BY <3>2, <3>3
  <2> QED BY <1>21, <2>1, <2>2, <2>3, <2>4 DEF InputsKnown
<1> QED BY <1>1, <1>20, <1>21, <1>22 DEF CInv

\* The call that takes a type, made: the element and the string of the type
\* have been called, and their reason is the only one that is left.
LEMMA TypeReleases ==
  ASSUME CInv, NEW i \in Input, Calls("type", i), NEW q, NEW t,
         IF count[T(i)] > 0
         THEN /\ q = Joined(Rest, Moved(count, tcb, PathOf(T(i))))
              /\ t = Drained(count, tcb, PathOf(T(i)))
              /\ count' = Decreased(count, PathOf(T(i)))
         ELSE q = Rest /\ t = tcb /\ count' = count
  PROVE  /\ q \in Seq(Call) /\ t \in [Node -> Seq(Call)] /\ count' \in [Node -> Nat]
         /\ QueuesApart(q, t) /\ InQueues(q, t) = Queued \ {TypeC(i)}
         /\ ToSet(q) = ToSet(main) \ {TypeC(i)}
         /\ \A x, y : InFront(main, x, y) /\ x # TypeC(i) => InFront(q, x, y)
         /\ Placed(t, count') /\ DocCounted'
         /\ count'[T(i)] = count[Tmp(i)] /\ count'[Tmp(i)] = count[Tmp(i)]
         /\ count'[R(i)] = count'[T(i)] + 1 /\ count'[Vdoc(i)] = count'[R(i)]
         /\ \A j \in Input : count'[Reader(j)] = count[Reader(j)]
         /\ \A j \in Input : j # i =>
              /\ count'[Tmp(j)] = count[Tmp(j)] /\ count'[T(j)] = count[T(j)]
              /\ count'[R(j)] = count[R(j)] /\ count'[Vdoc(j)] = count[Vdoc(j)]
<1> DEFINE c == TypeC(i)
           p == PathOf(T(i))
<1>1. IInv /\ TypeOK
  BY DEF CInv, IInv
<1>2. /\ InMain(c) /\ ToSet(Rest) = ToSet(main) \ {c}
      /\ \A n \in Node : c \notin ToSet(tcb[n])
      /\ \A x, y : InFront(main, x, y) /\ x # c => InFront(Rest, x, y)
  BY <1>1, Takes DEF TypeC
<1>3. /\ Rest \in Seq(Call) /\ QueuesApart(Rest, tcb) /\ InQueues(Rest, tcb) = Queued \ {c}
      /\ c \in Queued
  BY <1>1, CallTaken DEF TypeC
<1>4. tcb \in [Node -> Seq(Call)] /\ count \in [Node -> Nat]
  BY <1>1, QueueTypes
<1>5. /\ Placed(tcb, count) /\ DocCounted /\ Counted(i) /\ Ordered(i) /\ CallsInStep(i)
  BY <1>1 DEF CInv, QueuesCounted, IInv
<1>6. ResultAwaited(i) /\ count[R(i)] = count[T(i)] + 1 /\ count[Vdoc(i)] = count[R(i)]
  <2>1. ResultAwaited(i)
    BY <1>3, <1>5 DEF ResultAwaited, Ordered, CallsInStep, TypeC
  <2> QED BY <1>5, <2>1 DEF Counted
<1>7. /\ count[T(i)] > 0 => count[T(i)] = count[Tmp(i)] + 1
      /\ ~ (count[T(i)] > 0) => count[T(i)] = 0 /\ count[Tmp(i)] = 0
  BY <1>1, <1>2, <1>5, CountTypes DEF Counted
<1> HIDE DEF c
<1>8. CASE ~ (count[T(i)] > 0)
  <2>1. q = Rest /\ t = tcb /\ count' = count
    BY <1>8
  <2>2. DocCounted'
    BY <1>5, <2>1 DEF DocCounted
  <2> QED BY <1>2, <1>3, <1>4, <1>5, <1>6, <1>7, <1>8, <2>1, <2>2 DEF c
<1>9. CASE count[T(i)] > 0
  <2>1. /\ q = Joined(Rest, Moved(count, tcb, p)) /\ t = Drained(count, tcb, p)
        /\ count' = Decreased(count, p)
    BY <1>9
  <2>2. /\ q \in Seq(Call) /\ t \in [Node -> Seq(Call)] /\ count' \in [Node -> Nat]
        /\ QueuesApart(q, t)
    BY <1>1, <1>3, <2>1, Decreases
  <2>3. ToSet(p) = { T(i), R(i), Vdoc(i), Doc } /\ p \in Seq(Node)
    BY Walks, PathSets
  <2>4. count[R(i)] >= 2 /\ count[Vdoc(i)] >= 2 /\ count[Doc] >= 2
    <3>1. count[R(i)] >= 2 /\ count[Vdoc(i)] >= 2
      BY <1>1, <1>6, <1>9, CountTypes
    <3>2. count[Doc] >= count[Vdoc(i)] + count[Reader(i)]
      BY <1>1, <1>5, DocAbove
    <3> QED BY <1>1, <3>1, <3>2, CountTypes
  <2> HIDE DEF p
  <2>5. \A m \in ToSet(p) : count[m] > 0
    <3>1. \A m \in { T(i), R(i), Vdoc(i), Doc } : count[m] > 0
      BY <1>1, <1>9, <2>4, CountTypes
    <3> QED BY <2>3, <3>1
  <2>6. WokenCalls(count, tcb, p) = {}
    <3>1. T(i) \in Node
      BY NodesOfInputs
    <3>2. ToSet(tcb[T(i)]) = {}
      BY <1>2, <1>5, <3>1, WaitsFor DEF c
    <3>3. \A m \in ToSet(p) : count[m] = 1 => m = T(i)
      BY <1>1, <2>3, <2>4, CountTypes
    <3> QED BY <3>2, <3>3 DEF WokenCalls
  <2>7. /\ \A m \in Node : count'[m] = IF m \in ToSet(p) THEN count[m] - 1 ELSE count[m]
        /\ ToSet(q) = ToSet(Rest) \cup WokenCalls(count, tcb, p)
        /\ InQueues(q, t) = InQueues(Rest, tcb)
        /\ \A x, y : InFront(Rest, x, y) => InFront(q, x, y)
        /\ Placed(t, count')
    BY <1>1, <1>3, <1>5, <2>1, <2>5, Releasing DEF p
  <2>8. /\ count'[Doc] = count[Doc] - 1
        /\ /\ count'[T(i)] = count[T(i)] - 1
           /\ count'[R(i)] = count[R(i)] - 1 /\ count'[Vdoc(i)] = count[Vdoc(i)] - 1
        /\ \A j \in Input :
             count'[Reader(j)] = count[Reader(j)] /\ count'[Tmp(j)] = count[Tmp(j)]
        /\ \A j \in Input : j # i =>
             /\ count'[T(j)] = count[T(j)]
             /\ count'[R(j)] = count[R(j)] /\ count'[Vdoc(j)] = count[Vdoc(j)]
    BY <1>1, <2>7, LoweredByType DEF p
  <2>9. DocCounted'
    <3>1. /\ count'[Vdoc(i)] + count'[Reader(i)] = (count[Vdoc(i)] + count[Reader(i)]) + (-1)
          /\ count'[Doc] = count[Doc] + (-1)
      BY <1>1, <2>4, <2>8, CountTypes
    <3>2. -1 \in Int
      OBVIOUS
    <3> QED BY <1>1, <1>5, <2>2, <2>8, <3>1, <3>2, DocMoves
  <2>10. /\ count'[T(i)] = count[Tmp(i)]
         /\ count'[R(i)] = count'[T(i)] + 1 /\ count'[Vdoc(i)] = count'[R(i)]
    BY <1>1, <1>6, <1>7, <1>9, <2>8, CountTypes
  <2>11. /\ ToSet(q) = ToSet(main) \ {c} /\ InQueues(q, t) = Queued \ {c}
         /\ \A x, y : InFront(main, x, y) /\ x # c => InFront(q, x, y)
    BY <1>2, <1>3, <2>6, <2>7
  <2> QED BY <2>2, <2>7, <2>8, <2>9, <2>10, <2>11 DEF c
<1> QED BY <1>8, <1>9

LEMMA TypeCallCounts ==
  ASSUME NEW i \in Input
  PROVE  CInv /\ TypeCall(i) => CInv'
<1> SUFFICES ASSUME CInv, TypeCall(i) PROVE CInv'
  OBVIOUS
<1> DEFINE c == TypeC(i)
           q == IF count[T(i)] > 0 THEN Joined(Rest, Moved(count, tcb, PathOf(T(i)))) ELSE Rest
           d == IF count[T(i)] > 0 THEN Drained(count, tcb, PathOf(T(i))) ELSE tcb
           t == IF ctype[i] = "NULL" THEN type[i] ELSE ctype[i]
           one == <<1>>
<1>1. IInv /\ IInv' /\ TypeOK /\ Calls("type", i)
  BY StepKeeps DEF CInv, Kept, Next, Loop, IInv, TypeCall
<1>2. /\ UNCHANGED <<ctype, result, querystring, given, seen, asked, config, answered, phase>>
      /\ cur' = cur \/ cur' = {"WAITING"}
  BY DEF TypeCall, buffers, sheet, host, Goes, Returns
<1>3. \/ /\ count'[T(i)] > 0 /\ tcb' = Parked(d, T(i), c) /\ main' = q
         /\ UNCHANGED <<stage, type, parsed, parsedAs>>
      \/ /\ count'[T(i)] = 0 /\ tcb' = d /\ type' = [type EXCEPT ![i] = t]
         /\ \/ /\ i = "querystring"
               /\ \E s \in Outcomes(t, TRUE) : ProcessBody(i, t, one, s, q)
            \/ /\ i = "body" /\ stage' = [stage EXCEPT ![i] = "READ_RESPONSE"]
               /\ main' = q /\ UNCHANGED <<parsed, parsedAs>>
            \/ /\ i = "body"
               /\ \E s \in Outcomes(t, bodyBufComplete) : ProcessBody(i, t, bodyBuf, s, q)
  BY DEF TypeCall, Buffered, BufferedLast, Calls, TypeC
<1>4. /\ InMain(c) /\ running /\ \A x : ~ InFront(main, x, c)
      /\ \A n \in Node : c \notin ToSet(tcb[n])
  BY <1>1, Takes DEF TypeC
<1>5. c \in Queued /\ c \in Call /\ phase \notin {"querystring", "headers"}
  BY <1>1, CallTaken DEF TypeC
<1>6. IF count[T(i)] > 0
      THEN /\ q = Joined(Rest, Moved(count, tcb, PathOf(T(i))))
           /\ d = Drained(count, tcb, PathOf(T(i)))
           /\ count' = Decreased(count, PathOf(T(i)))
      ELSE q = Rest /\ d = tcb /\ count' = count
  BY DEF TypeCall
<1> HIDE DEF c, q, d, t, one
<1>7. /\ q \in Seq(Call) /\ d \in [Node -> Seq(Call)] /\ count' \in [Node -> Nat]
      /\ QueuesApart(q, d) /\ InQueues(q, d) = Queued \ {c}
      /\ ToSet(q) = ToSet(main) \ {c}
      /\ \A x, y : InFront(main, x, y) /\ x # c => InFront(q, x, y)
      /\ Placed(d, count') /\ DocCounted'
      /\ count'[T(i)] = count[Tmp(i)] /\ count'[Tmp(i)] = count[Tmp(i)]
      /\ count'[R(i)] = count'[T(i)] + 1 /\ count'[Vdoc(i)] = count'[R(i)]
      /\ \A j \in Input : count'[Reader(j)] = count[Reader(j)]
      /\ \A j \in Input : j # i =>
           /\ count'[Tmp(j)] = count[Tmp(j)] /\ count'[T(j)] = count[T(j)]
           /\ count'[R(j)] = count[R(j)] /\ count'[Vdoc(j)] = count[Vdoc(j)]
  BY <1>1, <1>6, TypeReleases DEF c
<1>8. \A j \in Input :
        /\ c \notin { StringC(j), ElementC(j), ElementEndC(j), ReaderC(j), ReaderEndC(j) }
        /\ (c = TypeC(j) <=> i = j)
  BY CallsApart DEF c, ElementEndC, ElementC, StringC, TypeC, ReaderC, ReaderEndC
<1>9. /\ \A j \in Input : Counted(j) /\ Ordered(j) /\ Learned(j) /\ Reads(j)
      /\ CallsInStep(i) /\ StageInStep(i) /\ Placed(tcb, count)
      /\ BodyWhole /\ QuerystringKept
  BY <1>1 DEF CInv, QueuesCounted, InputsKnown, IInv
<1>10. /\ config[i].how = "late" /\ stage[i] = "PARAMS_BEGIN"
       /\ ElementC(i) \notin Queued /\ ~ InMain(StringC(i))
       /\ seen[i] = "nothing"
  <2>1. stage[i] = "PARAMS_BEGIN"
    BY <1>5, <1>9 DEF CallsInStep, c, TypeC
  <2> QED BY <1>4, <1>5, <1>9, <2>1 DEF Ordered, Reads, c
\* The type is what the sheet says, once its counter is zero.
<1>11. count'[T(i)] = 0 => t = config[i].type
  <2> SUFFICES ASSUME count'[T(i)] = 0 PROVE t = config[i].type
    OBVIOUS
  <2>1. Tmp(i) \in Node /\ tcb[Tmp(i)] = <<>>
    <3>1. count[Tmp(i)] = 0 /\ Tmp(i) \in Node
      BY <1>7, NodesOfInputs
    <3> QED BY <1>9, <3>1 DEF Placed
  <2>2. StringC(i) \notin Queued
    <3>1. ToSet(<<>>) = {}
      BY DEF ToSet
    <3> QED BY <1>1, <1>9, <1>10, <2>1, <3>1, Places
  <2>3. ctype[i] # "NULL"
    BY <1>5, <1>9, <2>2 DEF Ordered, c
  <2> QED BY <1>9, <2>3 DEF Learned, t
\* Whatever it comes to, the other calls are where they were.
<1>12. /\ \A j \in Input : stage'[j] = "END" <=> stage[j] = "END"
       /\ \A j \in Input, x \in { "element", "elementEnd", "string", "reader", "readerEnd" } :
            /\ <<x, j>> \in ToSet(main') <=> <<x, j>> \in ToSet(main)
            /\ <<x, j>> \in Queued' <=> <<x, j>> \in Queued
       /\ \A j \in Input : j # i => /\ InMain(TypeC(j))' <=> InMain(TypeC(j))
                                    /\ TypeC(j) \in Queued' <=> TypeC(j) \in Queued
       /\ ~ InMain(TypeC(i))'
       /\ TypeC(i) \in Queued' <=> count'[T(i)] > 0
       /\ \A x, y : InFront(main, x, y) /\ x # c => InFront(main', x, y)
       /\ Placed(tcb, count)'
       /\ \A j \in Input : Learned(j)'
       /\ BodyWhole'
  <2>1. \A j \in Input, x \in { "element", "elementEnd", "string", "reader", "readerEnd" } :
          /\ <<x, j>> # c
          /\ <<x, j>> \in ToSet(q) <=> <<x, j>> \in ToSet(main)
          /\ <<x, j>> \in InQueues(q, d) <=> <<x, j>> \in Queued
    BY <1>7, CallsApart DEF c, TypeC
  <2>2. /\ \A j \in Input : j # i => /\ TypeC(j) \in ToSet(q) <=> InMain(TypeC(j))
                                     /\ TypeC(j) \in InQueues(q, d) <=> TypeC(j) \in Queued
        /\ TypeC(i) \notin ToSet(q) /\ TypeC(i) \notin InQueues(q, d)
    BY <1>7, <1>8 DEF InMain, c
  <2>3. CASE /\ count'[T(i)] > 0 /\ tcb' = Parked(d, T(i), c) /\ main' = q
             /\ UNCHANGED <<stage, type, parsed, parsedAs>>
    <3>1. c \notin InQueues(q, d) /\ T(i) \in Node
      BY <1>7, NodesOfInputs
    <3>2. InQueues(q, Parked(d, T(i), c)) = InQueues(q, d) \cup {c}
      BY <1>5, <1>7, <3>1, Parks
    <3>3. Queued' = Queued
      BY <1>5, <1>7, <2>3, <3>2 DEF Queued
    <3>4. MayWait(c, T(i))
      BY DEF MayWait, c
    <3>5. Placed(Parked(d, T(i), c), count')
      BY <1>5, <1>7, <2>3, <3>1, <3>4, ParkedPlaced
    <3>6. Placed(tcb, count)'
      BY <2>3, <3>5 DEF Placed
    <3>7. \A j \in Input : Learned(j)'
      BY <1>2, <1>9, <2>3 DEF Learned
    <3>8. BodyWhole'
      BY <1>2, <1>9, <2>3 DEF BodyWhole
    <3> QED BY <1>5, <1>7, <2>1, <2>2, <2>3, <3>3, <3>6, <3>7, <3>8 DEF InMain, c
  <2>4. ASSUME count'[T(i)] = 0, tcb' = d, type' = [type EXCEPT ![i] = t],
               NEW ps, NEW last \in BOOLEAN, NEW s \in Outcomes(t, last),
               ProcessBody(i, t, ps, s, q),
               i = "body" /\ last => Len(given["body"]) = Parts
        PROVE  <1>12
    <3>1. /\ stage' = [stage EXCEPT ![i] = s] /\ stage \in [Input -> Stage]
          /\ s \in { "FAILURE", "SUCCESS", "READ_RESPONSE" } /\ (s = "SUCCESS" => last)
      BY <1>1, <2>4, OutcomesAre DEF ProcessBody, TypeOK
    <3>2. /\ \A j \in Input, x \in { "element", "elementEnd", "string", "type",
                                     "reader", "readerEnd" } :
               /\ <<x, j>> \in ToSet(main') <=> <<x, j>> \in ToSet(q)
               /\ <<x, j>> \in Queued' <=> <<x, j>> \in InQueues(q, tcb')
          /\ \A x, y : InFront(q, x, y) => InFront(main', x, y)
      BY <1>7, <2>4, Processed
    <3>3. \A j \in Input :
            /\ InMain(TypeC(j))' <=> TypeC(j) \in ToSet(q)
            /\ TypeC(j) \in Queued' <=> TypeC(j) \in InQueues(q, d)
      <4> SUFFICES ASSUME NEW j \in Input
                   PROVE  /\ InMain(TypeC(j))' <=> TypeC(j) \in ToSet(q)
                          /\ TypeC(j) \in Queued' <=> TypeC(j) \in InQueues(q, d)
        OBVIOUS
      <4>1. /\ <<"type", j>> \in ToSet(main') <=> <<"type", j>> \in ToSet(q)
            /\ <<"type", j>> \in Queued' <=> <<"type", j>> \in InQueues(q, tcb')
        BY <3>2
      <4>2. InMain(TypeC(j))' <=> TypeC(j) \in ToSet(q)
        BY <4>1 DEF InMain, TypeC
      <4>3. TypeC(j) \in Queued' <=> TypeC(j) \in InQueues(q, d)
        BY <2>4, <4>1 DEF TypeC
      <4> QED BY <4>2, <4>3
    <3>4. \A j \in Input : Learned(j)'
      <4>1. t = config[i].type
        BY <1>11, <2>4
      <4>2. /\ ProcessBody(i, config[i].type, ps, s, q)
            /\ type' = [type EXCEPT ![i] = config[i].type]
        BY <2>4, <4>1
      <4> QED BY <1>1, <1>2, <1>9, <1>10, <4>2, ProcessedKnown
    <3>5. stage'[i] = s /\ \A j \in Input : j # i => stage'[j] = stage[j]
      BY <3>1
    <3>6. BodyWhole'
      <4>1. CASE i = "body"
        BY <1>2, <2>4, <3>1, <3>5, <4>1 DEF BodyWhole
      <4>2. CASE i # "body"
        BY <1>2, <1>9, <3>5, <4>2, BothInputs DEF BodyWhole
      <4> QED BY <4>1, <4>2
    <3>7. Placed(tcb, count)'
      BY <1>7, <2>4 DEF Placed
    <3>8. <1>12!1
      BY <1>10, <3>1, <3>5
    <3>9. <1>12!2
      BY <2>1, <2>4, <3>2
    <3>10. <1>12!3 /\ <1>12!4 /\ <1>12!5
      BY <2>2, <2>4, <3>3
    <3>11. <1>12!6
      BY <1>7, <3>2
    <3> QED BY <3>4, <3>6, <3>7, <3>8, <3>9, <3>10, <3>11
  <2>5. CASE /\ count'[T(i)] = 0 /\ tcb' = d /\ type' = [type EXCEPT ![i] = t]
             /\ i = "body" /\ stage' = [stage EXCEPT ![i] = "READ_RESPONSE"]
             /\ main' = q /\ UNCHANGED <<parsed, parsedAs>>
    <3>1. /\ stage'[i] = "READ_RESPONSE" /\ type'[i] = config[i].type
          /\ \A j \in Input : j # i => stage'[j] = stage[j] /\ type'[j] = type[j]
      BY <1>1, <1>11, <2>5 DEF TypeOK
    <3>2. \A j \in Input : Learned(j)'
      BY <1>2, <1>9, <1>10, <2>5, <3>1 DEF Learned
    <3>3. BodyWhole'
      BY <1>2, <2>5, <3>1 DEF BodyWhole
    <3>4. Placed(tcb, count)'
      BY <1>7, <2>5 DEF Placed
    <3>5. Queued' = InQueues(q, d)
      BY <2>5 DEF Queued
    <3>6. <1>12!1
      BY <1>10, <3>1
    <3>7. <1>12!2
      BY <2>1, <2>5, <3>5
    <3>8. <1>12!3 /\ <1>12!4 /\ <1>12!5
      BY <2>2, <2>5, <3>5 DEF InMain
    <3>9. <1>12!6
      BY <1>7, <2>5
    <3> QED BY <3>2, <3>3, <3>4, <3>6, <3>7, <3>8, <3>9
  <2>6. CASE count'[T(i)] = 0 /\ tcb' = d /\ type' = [type EXCEPT ![i] = t]
             /\ i = "querystring"
             /\ \E s \in Outcomes(t, TRUE) : ProcessBody(i, t, one, s, q)
    <3>1. i # "body" /\ TRUE \in BOOLEAN
      BY <2>6, BothInputs
    <3>2. PICK s \in Outcomes(t, TRUE) : ProcessBody(i, t, one, s, q)
      BY <2>6
    <3> QED BY <2>4, <2>6, <3>1, <3>2
  <2>7. CASE count'[T(i)] = 0 /\ tcb' = d /\ type' = [type EXCEPT ![i] = t]
             /\ i = "body"
             /\ \E s \in Outcomes(t, bodyBufComplete) : ProcessBody(i, t, bodyBuf, s, q)
    <3>1. bodyBufComplete \in BOOLEAN /\ bodyBufComplete = (Len(given[i]) = Parts)
      BY <1>1, <1>9, <1>10, <2>7 DEF StageInStep, TypeOK
    <3>2. PICK s \in Outcomes(t, bodyBufComplete) : ProcessBody(i, t, bodyBuf, s, q)
      BY <2>7
    <3> QED BY <2>4, <2>7, <3>1, <3>2
  <2> QED BY <1>3, <2>3, <2>5, <2>6, <2>7
<1>13. count'[T(i)] \in Nat /\ count'[Tmp(i)] \in Nat
  BY <1>7, NodesOfInputs
<1>14. \A j \in Input :
         /\ ElementEndC(j) \in Queued' <=> ElementEndC(j) \in Queued
         /\ ElementC(j) \in Queued' <=> ElementC(j) \in Queued
         /\ StringC(j) \in Queued' <=> StringC(j) \in Queued
         /\ ReaderEndC(j) \in Queued' <=> ReaderEndC(j) \in Queued
         /\ InMain(ElementEndC(j))' <=> InMain(ElementEndC(j))
         /\ InMain(StringC(j))' <=> InMain(StringC(j))
  <2> SUFFICES ASSUME NEW j \in Input
               PROVE  /\ ElementEndC(j) \in Queued' <=> ElementEndC(j) \in Queued
                      /\ ElementC(j) \in Queued' <=> ElementC(j) \in Queued
                      /\ StringC(j) \in Queued' <=> StringC(j) \in Queued
                      /\ ReaderEndC(j) \in Queued' <=> ReaderEndC(j) \in Queued
                      /\ InMain(ElementEndC(j))' <=> InMain(ElementEndC(j))
                      /\ InMain(StringC(j))' <=> InMain(StringC(j))
    OBVIOUS
  <2>1. \A x \in { "element", "elementEnd", "string", "reader", "readerEnd" } :
          /\ <<x, j>> \in ToSet(main') <=> <<x, j>> \in ToSet(main)
          /\ <<x, j>> \in Queued' <=> <<x, j>> \in Queued
    BY <1>12
  <2>2. /\ ElementEndC(j) \in Queued' <=> ElementEndC(j) \in Queued
        /\ InMain(ElementEndC(j))' <=> InMain(ElementEndC(j))
    BY <2>1 DEF InMain, ElementEndC
  <2>3. ElementC(j) \in Queued' <=> ElementC(j) \in Queued
    BY <2>1 DEF ElementC
  <2>4. /\ StringC(j) \in Queued' <=> StringC(j) \in Queued
        /\ InMain(StringC(j))' <=> InMain(StringC(j))
    BY <2>1 DEF InMain, StringC
  <2>5. ReaderEndC(j) \in Queued' <=> ReaderEndC(j) \in Queued
    BY <2>1 DEF ReaderEndC
  <2> QED BY <2>2, <2>3, <2>4, <2>5
<1>15. QueuesCounted'
  <2>1. ASSUME NEW j \in Input PROVE Counted(j)'
    <3>1. (ResultAwaited(j)' <=> ResultAwaited(j)) /\ (ElementWaits(j)' <=> ElementWaits(j))
      BY <1>2, <1>12, <1>14 DEF ResultAwaited, ElementWaits
    <3>2. CASE j # i
      BY <1>7, <1>9, <1>12, <1>14, <3>1, <3>2, CountedSame
    <3>3. CASE j = i
      <4>1. ResultAwaited(i)
        BY <1>10 DEF ResultAwaited
      <4>2. /\ count'[Tmp(i)] = IF ElementWaits(i) THEN 1 ELSE 0
            /\ count'[Reader(i)] = IF ReaderEndC(i) \in Queued THEN 1 ELSE 0
        BY <1>7, <1>9 DEF Counted
      <4>3. count'[T(i)] = count'[Tmp(i)] /\ count'[T(i)] # count'[Tmp(i)] + 1
        BY <1>7, <1>13
      <4> QED BY <1>7, <1>12, <1>14, <3>1, <3>3, <4>1, <4>2, <4>3 DEF Counted
    <3> QED BY <3>2, <3>3
  <2>2. ASSUME NEW j \in Input PROVE Ordered(j)'
    <3>1. Ordered(j)
      BY <1>9
    <3>2. CASE j # i
      <4>1. count'[T(j)] = count[T(j)] /\ count'[Tmp(j)] = count[Tmp(j)]
        BY <1>7, <3>2
      <4>2. c \notin { ElementC(j), StringC(j), TypeC(j) }
        BY <1>8, <3>2
      <4> QED BY <1>2, <1>12, <1>14, <3>1, <3>2, <4>1, <4>2 DEF Ordered
    <3>3. CASE j = i
      <4>1. TypeC(i) \in Queued
        BY <1>5 DEF c
      <4> QED BY <1>2, <1>10, <1>12, <1>14, <3>1, <3>3, <4>1 DEF Ordered
    <3> QED BY <3>2, <3>3
  <2> QED BY <1>7, <1>12, <2>1, <2>2 DEF QueuesCounted
<1>16. HostKnows' /\ DoneIsComplete'
  <2>1. cur' = cur \/ "DONE" \notin cur'
    BY <1>2
  <2> QED BY <1>2, <1>4, <2>1, HostGoes
<1>17. InputsKnown'
  <2>1. QuerystringKept'
    BY <1>2, <1>5, <1>9 DEF QuerystringKept
  <2>2. \A j \in Input : Reads(j)'
    BY <1>2, <1>9, <1>12, ReadersRest
  <2> QED BY <1>12, <1>16, <2>1, <2>2 DEF InputsKnown
<1> QED BY <1>1, <1>15, <1>16, <1>17 DEF CInv
-----------------------------------------------------------------------------
(***************************************************************************)
(* The beginning: what is queued, in which order, and what is held for it. *)
(***************************************************************************)
LEMMA TypeCallsAre ==
  ASSUME NEW C, NEW i \in Input
  PROVE  LET s == TypeCalls(C, i)
         IN /\ s \in Seq(Call)
            /\ \A x : x \in ToSet(s) <=>
                        C[i].how = "late" /\ x \in { ElementC(i), StringC(i), TypeC(i) }
            /\ C[i].how = "late" =>
                 InFront(s, ElementC(i), TypeC(i)) /\ InFront(s, StringC(i), TypeC(i))
<1>1. CASE C[i].how = "late"
  <2> DEFINE a == ElementC(i)
             b == StringC(i)
             c == TypeC(i)
             s == <<a, b, c>>
  <2>1. TypeCalls(C, i) = s
    BY <1>1 DEF TypeCalls, ElementC, StringC, TypeC
  <2>2. a \in Call /\ b \in Call /\ c \in Call
    BY DEF Call, ElementC, StringC, TypeC
  <2> HIDE DEF a, b, c
  <2>3. s \in Seq(Call) /\ ToSet(s) = {a, b, c}
    BY <2>2 DEF ToSet
  <2>4. /\ 1 \in DOMAIN s /\ 2 \in DOMAIN s /\ 3 \in DOMAIN s
        /\ s[1] = a /\ s[2] = b /\ s[3] = c
    OBVIOUS
  <2> HIDE DEF s
  <2>5. InFront(s, a, c) /\ InFront(s, b, c)
    BY <2>4 DEF InFront
  <2> QED BY <1>1, <2>1, <2>3, <2>5 DEF a, b, c
<1>2. CASE C[i].how # "late"
  <2>1. TypeCalls(C, i) = <<>>
    BY <1>2 DEF TypeCalls
  <2>2. <<>> \in Seq(Call) /\ ToSet(<<>>) = {}
    BY DEF ToSet
  <2> QED BY <1>2, <2>1, <2>2
<1> QED BY <1>1, <1>2

LEMMA ReaderCallsAre ==
  ASSUME NEW C, NEW i \in Input
  PROVE  /\ ReaderCalls(C, i) \in Seq(Call)
         /\ \A x : x \in ToSet(ReaderCalls(C, i)) <=> C[i].how # "none" /\ x = ReaderC(i)
<1> DEFINE a == ReaderC(i)
<1>1. a \in Call
  BY DEF Call, ReaderC
<1>2. ReaderCalls(C, i) = IF C[i].how # "none" THEN <<a>> ELSE <<>>
  BY DEF ReaderCalls, ReaderC
<1> HIDE DEF a
<1>3. <<a>> \in Seq(Call) /\ ToSet(<<a>>) = {a}
  BY <1>1 DEF ToSet
<1>4. <<>> \in Seq(Call) /\ ToSet(<<>>) = {}
  BY DEF ToSet
<1> QED BY <1>2, <1>3, <1>4 DEF a

\* The elements of two sequences.
LEMMA ConcatSet ==
  ASSUME NEW S, NEW s \in Seq(S), NEW t \in Seq(S)
  PROVE  /\ s \o t \in Seq(S)
         /\ \A x : x \in ToSet(s \o t) <=> x \in ToSet(s) \/ x \in ToSet(t)
<1> DEFINE q == s \o t
<1>1. q \in Seq(S) /\ Len(q) = Len(s) + Len(t) /\ Len(s) \in Nat /\ Len(t) \in Nat
  OBVIOUS
<1>2. ToSet(s) \cup ToSet(t) \subseteq ToSet(q)
  BY ConcatElements
<1>3. ASSUME NEW x \in ToSet(q) PROVE x \in ToSet(s) \/ x \in ToSet(t)
  <2>1. PICK r \in 1..Len(q) : q[r] = x
    BY <1>1, ToSetPlace
  <2>2. \/ r \in 1..Len(s) /\ q[r] = s[r]
        \/ r - Len(s) \in 1..Len(t) /\ q[r] = t[r - Len(s)]
    BY <1>1, <2>1
  <2>3. DOMAIN s = 1..Len(s) /\ DOMAIN t = 1..Len(t)
    OBVIOUS
  <2> QED BY <2>1, <2>2, <2>3 DEF ToSet
<1> HIDE DEF q
<1>4. \A x : x \in ToSet(q) <=> x \in ToSet(s) \/ x \in ToSet(t)
  BY <1>2, <1>3
<1> QED BY <1>1, <1>4 DEF q

LEMMA CreatedAre ==
  ASSUME NEW C
  PROVE  /\ \A x : x \in ToSet(Created(C)) <=>
              \E i \in Input :
                \/ C[i].how = "late" /\ x \in { ElementC(i), StringC(i), TypeC(i) }
                \/ C[i].how # "none" /\ x = ReaderC(i)
         /\ \A i \in Input : C[i].how = "late" =>
              /\ InFront(Created(C), ElementC(i), TypeC(i))
              /\ InFront(Created(C), StringC(i), TypeC(i))
<1> DEFINE tq == TypeCalls(C, "querystring")
           tb == TypeCalls(C, "body")
           rq == ReaderCalls(C, "querystring")
           rb == ReaderCalls(C, "body")
           makes == tq \o tb
           reads == makes \o rq
           all == reads \o rb
<1>1. Created(C) = all /\ "querystring" \in Input /\ "body" \in Input
  BY BothInputs DEF Created
<1>2. /\ tq \in Seq(Call) /\ tb \in Seq(Call) /\ rq \in Seq(Call) /\ rb \in Seq(Call)
  BY <1>1, TypeCallsAre, ReaderCallsAre
<1>3. ASSUME NEW i \in Input
      PROVE  /\ \A x : x \in ToSet(TypeCalls(C, i)) <=>
                         C[i].how = "late" /\ x \in { ElementC(i), StringC(i), TypeC(i) }
             /\ \A x : x \in ToSet(ReaderCalls(C, i)) <=> C[i].how # "none" /\ x = ReaderC(i)
             /\ C[i].how = "late" =>
                  /\ InFront(TypeCalls(C, i), ElementC(i), TypeC(i))
                  /\ InFront(TypeCalls(C, i), StringC(i), TypeC(i))
  BY TypeCallsAre, ReaderCallsAre
<1> HIDE DEF tq, tb, rq, rb
<1>4. /\ makes \in Seq(Call)
      /\ \A x : x \in ToSet(makes) <=> x \in ToSet(tq) \/ x \in ToSet(tb)
      /\ \A x, y : InFront(tq, x, y) \/ InFront(tb, x, y) => InFront(makes, x, y)
  BY <1>2, ConcatSet, InFrontJoined
<1> HIDE DEF makes
<1>5. /\ reads \in Seq(Call)
      /\ \A x : x \in ToSet(reads) <=> x \in ToSet(makes) \/ x \in ToSet(rq)
      /\ \A x, y : InFront(makes, x, y) => InFront(reads, x, y)
  BY <1>2, <1>4, ConcatSet, InFrontJoined
<1> HIDE DEF reads
<1>6. /\ \A x : x \in ToSet(all) <=> x \in ToSet(reads) \/ x \in ToSet(rb)
      /\ \A x, y : InFront(reads, x, y) => InFront(all, x, y)
  BY <1>2, <1>5, ConcatSet, InFrontJoined
<1> HIDE DEF all
<1>7. \A x : x \in ToSet(all) <=>
               \E i \in Input : x \in ToSet(TypeCalls(C, i)) \/ x \in ToSet(ReaderCalls(C, i))
  BY <1>4, <1>5, <1>6, BothInputs DEF tq, tb, rq, rb
<1>8. \A i \in Input : \A x, y : InFront(TypeCalls(C, i), x, y) => InFront(all, x, y)
  BY <1>4, <1>5, <1>6, BothInputs DEF tq, tb
<1> QED BY <1>1, <1>3, <1>7, <1>8

LEMMA CardinalityOfBoth ==
  ASSUME NEW S, S \subseteq Input
  PROVE  Cardinality(S) = (IF "querystring" \in S THEN 1 ELSE 0) + (IF "body" \in S THEN 1 ELSE 0)
<1> DEFINE a == "querystring"
           b == "body"
<1>1. Input = {a, b} /\ a # b
  BY BothInputs
<1>2. /\ IsFiniteSet({}) /\ Cardinality({}) = 0
      /\ \A x : IsFiniteSet({x}) /\ Cardinality({x}) = 1
  BY FS_EmptySet, FS_Singleton
<1> HIDE DEF a, b
<1>3. Cardinality({a} \cup {b}) = 2
  <2>1. b \notin {a} /\ IsFiniteSet({a})
    BY <1>1, <1>2
  <2>2. Cardinality({a} \cup {b}) = Cardinality({a}) + 1
    BY <2>1, FS_AddElement
  <2>3. Cardinality({a}) = 1
    BY <1>2
  <2> QED BY <2>2, <2>3
<1>4. S \in { {}, {a}, {b}, {a} \cup {b} }
  BY <1>1
<1>5. Cardinality(S) = (IF a \in S THEN 1 ELSE 0) + (IF b \in S THEN 1 ELSE 0)
  <2>1. CASE S = {}
    BY <1>2, <2>1
  <2>2. CASE S = {a}
    <3>1. a \in S /\ b \notin S /\ Cardinality(S) = 1
      BY <1>1, <1>2, <2>2
    <3> QED BY <3>1
  <2>3. CASE S = {b}
    <3>1. a \notin S /\ b \in S /\ Cardinality(S) = 1
      BY <1>1, <1>2, <2>3
    <3> QED BY <3>1
  <2>4. CASE S = {a} \cup {b}
    BY <1>3, <2>4
  <2> QED BY <1>4, <2>1, <2>2, <2>3, <2>4
<1> QED BY <1>5 DEF a, b

\* The input and the type of it are what the nodes wait for.
LEMMA HeldAre ==
  ASSUME NEW C, NEW i \in Input
  PROVE  /\ Held(C, Tmp(i)) = 0 /\ Held(C, Reader(i)) = 0
         /\ Held(C, T(i)) = IF C[i].how = "late" THEN 1 ELSE 0
         /\ Held(C, R(i)) = (IF C[i].how # "none" THEN 1 ELSE 0)
                              + (IF C[i].how = "late" THEN 1 ELSE 0)
         /\ Held(C, Vdoc(i)) = Held(C, R(i))
         /\ Held(C, Doc) = Held(C, Vdoc("querystring")) + Held(C, Vdoc("body"))
<1> DEFINE A(n) == { j \in Input : C[j].how # "none" /\ n \in ToSet(PathOf(R(j))) }
           B(n) == { j \in Input : C[j].how = "late" /\ n \in ToSet(PathOf(T(j))) }
           q == "querystring"
           b == "body"
           one(p) == IF p THEN 1 ELSE 0
           here(j) == one(C[j].how # "none") + one(C[j].how = "late")
<1>1. q \in Input /\ b \in Input /\ q # b /\ (i = q \/ i = b)
  BY BothInputs
<1>2. \A n : Held(C, n) = Cardinality(A(n)) + Cardinality(B(n))
  BY DEF Held
<1>3. \A n : /\ Cardinality(A(n)) = one(q \in A(n)) + one(b \in A(n))
             /\ Cardinality(B(n)) = one(q \in B(n)) + one(b \in B(n))
  <2>1. ASSUME NEW n PROVE A(n) \subseteq Input /\ B(n) \subseteq Input
    OBVIOUS
  <2> HIDE DEF A, B
  <2> QED BY <2>1, CardinalityOfBoth
<1>4. \A j, k \in Input :
        /\ Tmp(j) \notin ToSet(PathOf(R(k))) /\ Tmp(j) \notin ToSet(PathOf(T(k)))
        /\ Reader(j) \notin ToSet(PathOf(R(k))) /\ Reader(j) \notin ToSet(PathOf(T(k)))
        /\ T(j) \notin ToSet(PathOf(R(k))) /\ (T(j) \in ToSet(PathOf(T(k))) <=> k = j)
        /\ (R(j) \in ToSet(PathOf(R(k))) <=> k = j) /\ (R(j) \in ToSet(PathOf(T(k))) <=> k = j)
        /\ (Vdoc(j) \in ToSet(PathOf(R(k))) <=> k = j)
        /\ (Vdoc(j) \in ToSet(PathOf(T(k))) <=> k = j)
        /\ Doc \in ToSet(PathOf(R(k))) /\ Doc \in ToSet(PathOf(T(k)))
  BY OnPaths
<1>5. \A j, k \in Input :
        /\ k \notin A(Tmp(j)) /\ k \notin B(Tmp(j)) /\ k \notin A(Reader(j)) /\ k \notin B(Reader(j))
        /\ k \notin A(T(j)) /\ (k \in B(T(j)) <=> k = j /\ C[j].how = "late")
        /\ (k \in A(R(j)) <=> k = j /\ C[j].how # "none")
        /\ (k \in B(R(j)) <=> k = j /\ C[j].how = "late")
        /\ (k \in A(Vdoc(j)) <=> k = j /\ C[j].how # "none")
        /\ (k \in B(Vdoc(j)) <=> k = j /\ C[j].how = "late")
        /\ (k \in A(Doc) <=> C[k].how # "none") /\ (k \in B(Doc) <=> C[k].how = "late")
  BY <1>4
<1> HIDE DEF A, B, q, b
<1>6. \A n : Held(C, n) = one(q \in A(n)) + one(b \in A(n)) + one(q \in B(n)) + one(b \in B(n))
  BY <1>2, <1>3
<1>7. \A j \in Input : Held(C, Tmp(j)) = 0 /\ Held(C, Reader(j)) = 0
  BY <1>1, <1>5, <1>6
<1>8. ASSUME NEW j \in Input
      PROVE  /\ Held(C, T(j)) = one(C[j].how = "late")
             /\ Held(C, R(j)) = here(j) /\ Held(C, Vdoc(j)) = here(j)
  <2> DEFINE late == one(C[j].how = "late")
             some == one(C[j].how # "none")
  <2>1. j = q \/ j = b
    BY <1>1, BothInputs DEF q, b
  <2>2. /\ one(q \in A(T(j))) = 0 /\ one(b \in A(T(j))) = 0
        /\ \/ one(q \in B(T(j))) = late /\ one(b \in B(T(j))) = 0
           \/ one(q \in B(T(j))) = 0 /\ one(b \in B(T(j))) = late
    BY <1>1, <1>5, <2>1
  <2>3. ASSUME NEW n \in { R(j), Vdoc(j) }
        PROVE  \/ /\ one(q \in A(n)) = some /\ one(b \in A(n)) = 0
                  /\ one(q \in B(n)) = late /\ one(b \in B(n)) = 0
               \/ /\ one(q \in A(n)) = 0 /\ one(b \in A(n)) = some
                  /\ one(q \in B(n)) = 0 /\ one(b \in B(n)) = late
    <3>1. \A k \in Input : (k \in A(n) <=> k = j /\ C[j].how # "none")
                             /\ (k \in B(n) <=> k = j /\ C[j].how = "late")
      BY <1>5, <2>3
    <3> QED BY <1>1, <2>1, <3>1
  <2>4. late \in Nat /\ some \in Nat
    OBVIOUS
  <2> HIDE DEF late, some, one
  <2>5. Held(C, T(j)) = late
    BY <1>6, <2>2, <2>4
  <2>6. \A n \in { R(j), Vdoc(j) } : Held(C, n) = some + late
    BY <1>6, <2>3, <2>4, SMTT(30)
  <2> QED BY <2>5, <2>6 DEF late, some, one
<1>9. \A j \in Input : Held(C, T(j)) = one(C[j].how = "late") /\ Held(C, R(j)) = here(j)
                         /\ Held(C, Vdoc(j)) = here(j)
  BY <1>8
<1>10. Held(C, Doc) = here(q) + here(b)
  BY <1>1, <1>5, <1>6
<1> QED BY <1>1, <1>7, <1>9, <1>10 DEF q, b

LEMMA InitQueuesCounted == Init => QueuesCounted
<1> SUFFICES ASSUME Init PROVE QueuesCounted
  OBVIOUS
<1>1. /\ config \in Configs /\ main = Created(config) /\ asked = {} /\ answered = {}
      /\ \A n \in Node : count[n] = Held(config, n) /\ tcb[n] = <<>>
      /\ \A j \in Input : /\ stage[j] # "END" /\ ctype[j] = "NULL"
  BY DEF Init
<1>2. ToSet(<<>>) = {}
  BY DEF ToSet
<1>3. Placed(tcb, count)
  BY <1>1, <1>2 DEF Placed
<1>4. \A x : x \in Queued <=> x \in ToSet(main)
  <2>1. tcb \in [Node -> Seq(Call)]
    BY InitInvariant, QueueTypes DEF IInv
  <2> QED BY <1>1, <1>2, <2>1 DEF Queued, InQueues
<1>5. \A x : x \in ToSet(main) <=>
        \E j \in Input :
          \/ config[j].how = "late" /\ x \in { ElementC(j), StringC(j), TypeC(j) }
          \/ config[j].how # "none" /\ x = ReaderC(j)
  BY <1>1, CreatedAre
<1>6. ASSUME NEW j \in Input
      PROVE  /\ ElementEndC(j) \notin Queued /\ ReaderEndC(j) \notin Queued
             /\ TypeC(j) \in Queued <=> config[j].how = "late"
             /\ StringC(j) \in Queued <=> config[j].how = "late"
             /\ ElementC(j) \in Queued <=> config[j].how = "late"
  <2>1. /\ ElementEndC(j) \notin ToSet(main) /\ ReaderEndC(j) \notin ToSet(main)
        /\ TypeC(j) \in ToSet(main) <=> config[j].how = "late"
        /\ StringC(j) \in ToSet(main) <=> config[j].how = "late"
        /\ ElementC(j) \in ToSet(main) <=> config[j].how = "late"
    BY <1>5 DEF ElementC, ElementEndC, StringC, TypeC, ReaderC, ReaderEndC
  <2> QED BY <1>4, <2>1
<1>7. ASSUME NEW j \in Input
      PROVE  /\ count[Tmp(j)] = 0 /\ count[Reader(j)] = 0
             /\ count[T(j)] = IF config[j].how = "late" THEN 1 ELSE 0
             /\ count[R(j)] = (IF config[j].how # "none" THEN 1 ELSE 0)
                                + (IF config[j].how = "late" THEN 1 ELSE 0)
             /\ count[Vdoc(j)] = count[R(j)]
  BY <1>1, HeldAre, NodesOfInputs
<1>8. DocCounted
  <2>1. /\ "querystring" \in Input /\ "body" \in Input
        /\ count[Doc] = Held(config, Doc)
        /\ count[Vdoc("querystring")] = Held(config, Vdoc("querystring"))
        /\ count[Vdoc("body")] = Held(config, Vdoc("body"))
        /\ count[Reader("querystring")] = 0 /\ count[Reader("body")] = 0
    BY <1>1, <1>7, NodesOfInputs, BothInputs
  <2>2. Held(config, Doc) = Held(config, Vdoc("querystring")) + Held(config, Vdoc("body"))
    BY <2>1, HeldAre
  <2>3. /\ count[Vdoc("querystring")] \in Nat /\ count[Vdoc("body")] \in Nat
    BY InitInvariant, QueueTypes, NodesOfInputs, BothInputs DEF IInv
  <2> DEFINE a == count[Vdoc("querystring")]
             b == count[Vdoc("body")]
             c == count[Reader("querystring")]
             d == count[Reader("body")]
             e == count[Doc]
  <2>4. e = a + b /\ c = 0 /\ d = 0 /\ a \in Nat /\ b \in Nat
    BY <2>1, <2>2, <2>3
  <2> HIDE DEF a, b, c, d, e
  <2>5. e = a + b + c + d
    BY <2>4
  <2> QED BY <2>5 DEF DocCounted, a, b, c, d, e
<1>9. ASSUME NEW j \in Input PROVE Counted(j)
  <2>1. ~ ElementWaits(j)
    BY <1>1, <1>6 DEF ElementWaits
  <2>2. ResultAwaited(j) <=> config[j].how # "none"
    BY <1>1 DEF ResultAwaited
  <2>3. InMain(TypeC(j)) <=> config[j].how = "late"
    BY <1>4, <1>6 DEF InMain
  <2> DEFINE a == count[Tmp(j)]
             b == count[T(j)]
             c == count[R(j)]
             v == count[Vdoc(j)]
             d == count[Reader(j)]
  <2>4. /\ a = 0 /\ d = 0 /\ v = c
        /\ b = IF config[j].how = "late" THEN 1 ELSE 0
        /\ c = (IF config[j].how # "none" THEN 1 ELSE 0)
                 + (IF config[j].how = "late" THEN 1 ELSE 0)
    BY <1>7
  <2> HIDE DEF a, b, c, d, v
  <2>5. /\ a = IF ElementWaits(j) THEN 1 ELSE 0
        /\ b = a \/ b = a + 1
        /\ b = a + 1 => InMain(TypeC(j))
        /\ b = a /\ InMain(TypeC(j)) => b = 0
        /\ b > 0 => TypeC(j) \in Queued
        /\ c = IF ResultAwaited(j) THEN b + 1 ELSE b
        /\ v = c
        /\ d = IF ReaderEndC(j) \in Queued THEN 1 ELSE 0
    BY <1>6, <2>1, <2>2, <2>3, <2>4
  <2> QED BY <2>5 DEF Counted, a, b, c, d, v
<1>10. ASSUME NEW j \in Input PROVE Ordered(j)
  <2>1. config[j].how = "late" =>
          InFront(main, ElementC(j), TypeC(j)) /\ InFront(main, StringC(j), TypeC(j))
    BY <1>1, CreatedAre
  <2>2. config[j].how = "late" => count[T(j)] = count[Tmp(j)] + 1
    BY <1>7
  <2>3. /\ ~ InMain(ElementEndC(j))
        /\ InMain(TypeC(j)) => config[j].how = "late"
    BY <1>4, <1>6 DEF InMain
  <2> QED BY <1>6, <2>1, <2>2, <2>3 DEF Ordered
<1> QED BY <1>3, <1>8, <1>9, <1>10 DEF QueuesCounted

LEMMA InitInputsKnown == Init => InputsKnown
<1> SUFFICES ASSUME Init PROVE InputsKnown
  OBVIOUS
<1>1. /\ config \in Configs /\ main = Created(config) /\ asked = {} /\ cur = {}
      /\ phase = "querystring" /\ ~ running
      /\ \A j \in Input :
           /\ stage[j] = IF config[j].how = "static" THEN "READ_RESPONSE" ELSE "PARAMS_BEGIN"
           /\ type[j] = IF config[j].how = "static" THEN config[j].type ELSE "XML"
           /\ ctype[j] = "NULL" /\ parsedAs[j] = "none" /\ seen[j] = "nothing"
  BY DEF Init
<1>2. "querystring" \in Input /\ "body" \in Input
  BY BothInputs
<1>3. BodyWhole
  BY <1>1, <1>2 DEF BodyWhole
<1>4. QuerystringKept
  BY <1>1, <1>2 DEF QuerystringKept
<1>5. HostKnows
  BY <1>1 DEF HostKnows
<1>6. \A j \in Input : Learned(j)
  BY <1>1 DEF Learned
<1>7. ASSUME NEW j \in Input PROVE Reads(j)
  <2>1. \A x : x \in ToSet(main) <=>
          \E k \in Input :
            \/ config[k].how = "late" /\ x \in { ElementC(k), StringC(k), TypeC(k) }
            \/ config[k].how # "none" /\ x = ReaderC(k)
    BY <1>1, CreatedAre
  <2>2. /\ ReaderEndC(j) \notin ToSet(main)
        /\ ReaderC(j) \in ToSet(main) <=> config[j].how # "none"
    BY <2>1 DEF ElementC, StringC, TypeC, ReaderC, ReaderEndC
  <2>3. \A x : x \in Queued <=> x \in ToSet(main)
    <3>1. tcb \in [Node -> Seq(Call)] /\ \A n \in Node : tcb[n] = <<>>
      BY InitInvariant, QueueTypes DEF IInv, Init
    <3>2. ToSet(<<>>) = {}
      BY DEF ToSet
    <3> QED BY <3>1, <3>2 DEF Queued, InQueues
  <2>4. stage[j] # "END" /\ seen[j] = "nothing"
    BY <1>1
  <2> QED BY <2>2, <2>3, <2>4 DEF Reads, InMain
<1> QED BY <1>3, <1>4, <1>5, <1>6, <1>7 DEF InputsKnown

LEMMA InitCounts == Init => CInv
<1>1. Init => cur = {}
  BY DEF Init
<1> QED BY <1>1, InitInvariant, InitQueuesCounted, InitInputsKnown DEF CInv, DoneIsComplete

LEMMA StutterCounts == CInv /\ UNCHANGED vars => CInv'
<1> SUFFICES ASSUME CInv, UNCHANGED vars PROVE CInv'
  OBVIOUS
<1>1. /\ UNCHANGED <<count, tcb, main, stage, type, ctype, parsed, parsedAs, result>>
      /\ UNCHANGED <<querystring, bodyBuf, bodyBufComplete, given, seen, asked>>
      /\ UNCHANGED <<config, answered, phase, cur, running>>
  BY DEF vars, queues, input, buffers, sheet, host
<1>2. IInv'
  BY StepKeeps DEF CInv, Kept
<1>3. Queued' = Queued
  BY <1>1 DEF Queued
<1>4. \A c : InMain(c)' <=> InMain(c)
  BY <1>1 DEF InMain
<1>5. \A j \in Input : (ElementWaits(j)' <=> ElementWaits(j))
                       /\ (ResultAwaited(j)' <=> ResultAwaited(j))
  BY <1>1, <1>3 DEF ElementWaits, ResultAwaited
<1>6. ASSUME NEW j \in Input PROVE Counted(j)' /\ Ordered(j)'
  <2>1. Counted(j) /\ Ordered(j)
    BY DEF CInv, QueuesCounted
  <2>2. Counted(j)'
    BY <1>1, <1>3, <1>4, <1>5, <2>1, CountedSame
  <2>3. Ordered(j)'
    BY <1>1, <1>3, <1>4, <2>1 DEF Ordered
  <2> QED BY <2>2, <2>3
<1>7. QueuesCounted'
  <2>1. Placed(tcb, count)'
    BY <1>1 DEF CInv, QueuesCounted, Placed, MayWait
  <2>2. DocCounted'
    BY <1>1 DEF CInv, QueuesCounted, DocCounted
  <2> QED BY <1>6, <2>1, <2>2 DEF QueuesCounted
<1>8. ASSUME NEW j \in Input PROVE Learned(j)' /\ Reads(j)'
  <2>1. Learned(j) /\ Reads(j)
    BY DEF CInv, InputsKnown
  <2>2. Learned(j)'
    BY <1>1, <2>1 DEF Learned
  <2>3. Reads(j)'
    BY <1>1, <1>3, <1>4, <2>1 DEF Reads
  <2> QED BY <2>2, <2>3
<1>9. InputsKnown'
  <2>1. BodyWhole'
    BY <1>1 DEF CInv, InputsKnown, BodyWhole
  <2>2. QuerystringKept'
    BY <1>1 DEF CInv, InputsKnown, QuerystringKept
  <2>3. HostKnows'
    BY <1>1 DEF CInv, InputsKnown, HostKnows
  <2> QED BY <1>8, <2>1, <2>2, <2>3 DEF InputsKnown
<1>10. DoneIsComplete'
  BY <1>1 DEF CInv, DoneIsComplete
<1> QED BY <1>2, <1>7, <1>9, <1>10 DEF CInv

LEMMA StepCounts == CInv /\ [Next]_vars => CInv'
<1> SUFFICES ASSUME CInv, [Next]_vars PROVE CInv'
  OBVIOUS
<1>1. CASE RunsOut
  BY <1>1, RunsOutCounts
<1>2. ASSUME NEW i \in Input, ElementFirst(i) PROVE CInv'
  BY <1>2, ElementFirstCounts
<1>3. ASSUME NEW i \in Input, ElementEnd(i) PROVE CInv'
  BY <1>3, ElementEndCounts
<1>4. ASSUME NEW i \in Input, StringCall(i) PROVE CInv'
  BY <1>4, StringCallCounts
<1>5. ASSUME NEW i \in Input, TypeCall(i) PROVE CInv'
  BY <1>5, TypeCallCounts
<1>6. ASSUME NEW i \in Input, ResultCall(i) PROVE CInv'
  BY <1>6, ResultCallCounts
<1>7. ASSUME NEW i \in Input, ReaderFirst(i) PROVE CInv'
  BY <1>7, ReaderFirstCounts
<1>8. ASSUME NEW i \in Input, ReaderEnd(i) PROVE CInv'
  BY <1>8, ReaderEndCounts
<1>9. CASE GiveQuerystring
  BY <1>9, GiveQuerystringCounts
<1>10. CASE GiveHeader
  BY <1>10, GiveHeaderCounts
<1>11. CASE GiveBody
  BY <1>11, GiveBodyCounts
<1>12. CASE Resume
  BY <1>12, ResumeCounts
<1>13. ASSUME NEW i \in Input, Answer(i) PROVE CInv'
  BY <1>13, AnswerCounts
<1>14. CASE UNCHANGED vars
  BY <1>14, StutterCounts
<1> QED
  BY <1>1, <1>2, <1>3, <1>4, <1>5, <1>6, <1>7, <1>8, <1>9, <1>10, <1>11, <1>12,
     <1>13, <1>14
  DEF Next, Loop, Gives
-----------------------------------------------------------------------------
\* The counter of every node of an input is the number of the calls, answers
\* and results it waits for, and the calls that make a type are queued in the
\* order they are made in (xrlt.cc 255-307, include.cc 1507-1655).
THEOREM CallsInvariant == Spec => []CInv
<1> QED BY InitCounts, StepCounts, PTL DEF Spec

\* An input is parsed as the type the sheet gives it, however late that comes:
\* the call that makes the parser is repeated only when the string of the type
\* has been set (include.cc 617-700, 1539-1611).
THEOREM TypesAreMeant == Spec => []ParsedAsMeant
<1>1. CInv => ParsedAsMeant
  BY DEF CInv, InputsKnown, Learned, ParsedAsMeant
<1> QED BY <1>1, CallsInvariant, PTL

\* The querystring is decoded once, when it is set or by its parser, unless a
\* node list turns out to call for the parser after it has been set
\* (include.cc 821-837, xrlt.cc 403-436).
THEOREM QuerystringDecodedOnce == Spec => []DecodedOnce
<1>1. CInv => DecodedOnce
  <2> SUFFICES ASSUME CInv, parsedAs["querystring"] # "none", ~ LateQuerystring
               PROVE  Decodings = 1
    BY DEF DecodedOnce
  <2> DEFINE c == config["querystring"]
  <2>1. /\ "querystring" \in Input /\ Learned("querystring") /\ QuerystringKept
    BY BothInputs DEF CInv, InputsKnown
  <2>2. parsedAs["querystring"] = c.type /\ c.how \in {"static", "late"}
    BY <2>1 DEF Learned
  <2>3. querystring = "decoded" <=> c.how # "static" \/ c.type # "QUERYSTRING"
    BY <2>1, <2>2 DEF QuerystringKept
  <2>4. c.how = "late" => c.type # "QUERYSTRING"
    BY DEF LateQuerystring
  <2>5. querystring = "decoded" <=> parsedAs["querystring"] # "QUERYSTRING"
    BY <2>2, <2>3, <2>4
  <2> QED BY <2>5 DEF Decodings
<1> QED BY <1>1, CallsInvariant, PTL

\* Whoever reads the variable of an input reads its document or the failure of
\* it: the node it waits on has no counter left only when the result has been
\* taken (include.cc 1507-1537, 1617-1655).
THEOREM ReadersWait == Spec => []ReadersSeeTheResult
<1>1. CInv => ReadersSeeTheResult
  BY DEF CInv, InputsKnown, Reads, ReadersSeeTheResult
<1> QED BY <1>1, CallsInvariant, PTL

\* DONE is told when no call, no counter and no input is left over
\* (xrlt.cc 563-565).
THEOREM DoneLeavesNothing == Spec => []DoneIsComplete
<1>1. CInv => DoneIsComplete
  BY DEF CInv
<1> QED BY <1>1, CallsInvariant, PTL
=============================================================================
