--------------------------- MODULE Include_proofs ---------------------------
(***************************************************************************)
(* An include is an exchange, for every sheet and answers of any number of *)
(* parts.                                                                  *)
(*                                                                         *)
(* The counter of the node of the parameters is the number of values that  *)
(* are waited for.  So it is zero when all of them are there and not       *)
(* before, and what the include does next is done once: the call of the    *)
(* include is in one queue once, and left on the node that it waits for.   *)
(***************************************************************************)
EXTENDS Include, NodeQueue_proofs, FiniteSetTheorems

FirstC == <<"first", "self">>
VariableC == <<"variable", "self">>
ElementC(i) == <<"element", i>>
ElementEndC(i) == <<"elementEnd", i>>
StringC(i) == <<"string", i>>
XPathC(i) == <<"xpath", i>>

First == ToSet(FirstRound)
Second == ToSet(SecondRound)
Value == First \cup Second
Content == { "SUCCESS", "FAILURE" }
Params == { "PARAMS_BEGIN", "PARAMS_END" }

Queued == InQueues(main, tcb)
InMain(c) == c \in ToSet(main)

Verdict == IF E!Succeeds THEN "SUCCESS" ELSE "FAILURE"

\* What a call may wait on.
MayWait(c, n) ==
  \/ n = Var /\ \E i \in Item : c \in { XPathC(i), ElementEndC(i) }
  \/ n \in Value /\ c = StringC(n)
  \/ c = Self /\ \/ n = P /\ stage \in Params
                 \/ n = S /\ stage = "SUCCESS_TEST_END"
                 \/ n = R /\ stage = "END"

\* The queues t of the nodes hold calls that may wait there, and a node with a
\* queue is not ready by the counters f.
Placed(t, f) ==
  /\ \A n \in Node : t[n] # <<>> => f[n] > 0
  /\ \A n \in Node : \A c \in ToSet(t[n]) : MayWait(c, n)

\* The values that the parameters wait for.
Unready == { c \in { "xpath", "elementEnd" } \X Value : c \in Queued }

\* The content that the result waits for.
ContentWaits == \E s \in Content : ElementEndC(s) \in Queued

One(b) == IF b THEN 1 ELSE 0

\* The include keeps its own node from being ready until it is replaced.
Counted ==
  /\ count[Var] \in {0, 1}
  /\ count[Doc] = count[Var] + count[I]
  /\ count[I] = One(FirstC \notin Queued /\ result = {}) + count[P] + count[S] + count[R]
  /\ \A i \in Value : count[i] = One(ElementEndC(i) \in Queued)
  /\ count[S] = One(XPathC("success") \in Queued)

\* The node of the parameters is held once more until it is asked for first.
ParamsCounted ==
  /\ \/ count[P] = Cardinality(Unready)
     \/ /\ count[P] = Cardinality(Unready) + 1
        /\ stage = "PARAMS_BEGIN"
        /\ InMain(Self)
  /\ stage = "PARAMS_BEGIN" /\ InMain(Self) /\ count[P] = Cardinality(Unready) =>
       count[P] = 0 /\ \A i \in Value : ElementC(i) \notin Queued

\* And so is the node of the result, by a branch that is entered.
Entered == stage \in Content /\ count[R] > 0

ResultCounted ==
  /\ count[R] = One(ContentWaits) + One(Entered)
  /\ Entered => InMain(Self)
  /\ stage = "END" /\ InMain(Self) => count[R] = 0
  /\ stage = "SUCCESS_TEST_END" /\ InMain(Self) => count[S] = 0

\* In what order calls are made.
Ordered ==
  /\ VariableC \in Queued => main = <<VariableC>> /\ count[Var] = 1
  /\ \A i \in Item :
       /\ InMain(Self) => ~ InMain(XPathC(i)) /\ ~ InMain(ElementEndC(i))
       /\ ElementC(i) \in Queued => InFront(main, ElementC(i), Self)
       /\ ElementC(i) \in Queued /\ i \in Value => InFront(main, ElementC(i), StringC(i))
       /\ InMain(StringC(i)) /\ InMain(Self) => InFront(main, StringC(i), Self)
       /\ StringC(i) \in Queued =>
            ElementC(i) \in Queued \/ ElementEndC(i) \in Queued \/ i \in made

\* Which calls there are.
Round(i) == IF i \in First THEN stage = "PARAMS_BEGIN"
                           ELSE stage = "PARAMS_END" /\ Means(i)

CallsInStep ==
  /\ \A i \in Item :
       /\ XPathC(i) \in Queued => i \in Value \cup {"success"} /\ config.how[i] = "xpath"
       /\ StringC(i) \in Queued => i \in Value /\ config.how[i] = "list"
       /\ ElementC(i) \in Queued =>
            /\ i \in Value \cup Content /\ config.how[i] = "list"
            /\ ElementEndC(i) \notin Queued
       /\ ElementEndC(i) \in Queued => i \in Value \cup Content
  /\ \A i \in Value :
       XPathC(i) \in Queued \/ StringC(i) \in Queued \/ ElementC(i) \in Queued
         \/ ElementEndC(i) \in Queued => Round(i)
  /\ XPathC("success") \in Queued => stage = "SUCCESS_TEST_END"
  /\ \A s \in Content :
       /\ ElementC(s) \in Queued => stage = s /\ Entered
       /\ ElementEndC(s) \in Queued => s = Verdict /\ (Entered \/ stage = "END")
  /\ Self \in Queued => stage # "READ_RESPONSE" /\ result = {}

\* What is known of the values.
Answered(i) ==
  IF config.how[i] = "none"
  THEN val[i] = IF i \in Test THEN "true" ELSE "NULL"
  ELSE val[i] = Meaning(i)

UnderWay(i) == XPathC(i) \in Queued \/ StringC(i) \in Queued

ValuesKnown ==
  /\ val = [i \in Item |-> val[i]]
  /\ FirstC \notin Queued => \A i \in First : Answered(i) \/ UnderWay(i)
  /\ \A i \in Second :
       /\ stage = "PARAMS_BEGIN" \/ ~ Means(i) => val[i] = "NULL"
       /\ stage # "PARAMS_BEGIN" /\ Means(i) => val[i] = Meaning(i) \/ UnderWay(i)
  /\ stage = "SUCCESS_TEST_END" =>
       val["success"] = Meaning("success") \/ XPathC("success") \in Queued

\* Before the first call nothing has been done.
Fresh ==
  FirstC \in Queued =>
    /\ main = <<FirstC>>
    /\ \A n \in Node : tcb[n] = <<>> /\ count[n] = One(config.pending /\ n \in { Var, Doc })
    /\ stage = "PARAMS_BEGIN"
    /\ \A i \in Item : val[i] = IF i \in Test THEN "false" ELSE "NULL"
    /\ cur = {}

\* Where the answer is.
Heard ==
  /\ request \in { <<>>, MeantRequest }
  /\ request = <<>> => stage \in Params \cup {"READ_RESPONSE"} /\ status = "none" /\ parsed = 0
  /\ stage \in Params => request = <<>>
  /\ request # <<>> /\ ~ refused /\ ~ over => stage = "READ_RESPONSE" /\ parsed <= Parts
  /\ ended = "no" <=> stage \in Params \cup {"READ_RESPONSE"}
  /\ stage \in { "SUCCESS_TEST_BEGIN", "SUCCESS_TEST_END" } =>
       ended = "whole" /\ config.how["success"] = "xpath"
  /\ stage \in Content => stage = Verdict

\* What the result is made of.
Replaces ==
  /\ made \cap Content \subseteq { s \in {Verdict} : ended # "no" }
  /\ Entered => Verdict \in made \/ ElementC(Verdict) \in Queued \/ ElementEndC(Verdict) \in Queued
  /\ stage = "END" => Verdict \in made \/ ElementEndC(Verdict) \in Queued
  /\ result # {} => result = {Verdict} /\ stage = "END" /\ Self \notin Queued

HostInStep ==
  /\ HostWaits => main = <<>>
  /\ running => "DONE" \notin cur

IInv ==
  /\ TypeOK /\ QueuesApart(main, tcb)
  /\ Placed(tcb, count) /\ Counted /\ ParamsCounted /\ ResultCounted
  /\ Ordered /\ CallsInStep /\ ValuesKnown /\ Fresh
  /\ Heard /\ Replaces /\ HostInStep
  /\ DoneIsComplete
-----------------------------------------------------------------------------
(***************************************************************************)
(* The nodes and the ways up from them.                                    *)
(***************************************************************************)
LEMMA Rounds ==
  /\ First = { "href", "type", "bodyTest", "headerTest", "paramTest" }
  /\ Second = { "header", "inBody", "param", "body" }
<1>1. \A a, b, c, d, e : ToSet(<<a, b, c, d, e>>) = {a, b, c, d, e}
  BY DEF ToSet
<1>2. \A a, b, c, d : ToSet(<<a, b, c, d>>) = {a, b, c, d}
  BY DEF ToSet
<1> QED BY <1>1, <1>2 DEF First, Second, FirstRound, SecondRound

LEMMA ItemIs == Item = Value \cup Content \cup {"success"}
BY DEF Item, Value, Content, First, Second

LEMMA ItemsApart ==
  /\ First \cap Second = {} /\ Value \cap Content = {} /\ "success" \notin Value \cup Content
  /\ Test \ {"success"} \subseteq First /\ "success" \in Test /\ Test \cap Second = {}
  /\ Test \cap Content = {}
BY Rounds DEF Value, Content, Test

LEMMA NodeIs ==
  /\ Node = { Doc, Var, I, P, S, R } \cup Value
  /\ Value \cap { Doc, Var, I, P, S, R } = {}
BY Rounds DEF Node, Value, First, Second, Doc, Var, I, P, S, R

LEMMA NodesApart ==
  /\ Doc # Var /\ Doc # I /\ Doc # P /\ Doc # S /\ Doc # R
  /\ Var # I /\ Var # P /\ Var # S /\ Var # R
  /\ I # P /\ I # S /\ I # R /\ P # S /\ P # R /\ S # R
BY DEF Doc, Var, I, P, S, R

LEMMA Paths ==
  /\ \A n \in { Var, I } : PathOf(n) = <<n, Doc>>
  /\ \A n \in { P, S, R } : PathOf(n) = <<n, I, Doc>>
  /\ \A i \in Value : PathOf(i) = <<i, P, I, Doc>>
<1>1. \A i \in Value : i \notin { Doc, Var, I, P, S, R }
  BY NodeIs
<1> QED BY <1>1, NodesApart DEF PathOf

LEMMA PathSets ==
  /\ \A n \in { Var, I } : ToSet(PathOf(n)) = { n, Doc }
  /\ \A n \in { P, S, R } : ToSet(PathOf(n)) = { n, I, Doc }
  /\ \A i \in Value : ToSet(PathOf(i)) = { i, P, I, Doc }
<1>1. \A a, b : ToSet(<<a, b>>) = {a, b}
  BY DEF ToSet
<1>2. \A a, b, c : ToSet(<<a, b, c>>) = {a, b, c}
  BY DEF ToSet
<1>3. \A a, b, c, d : ToSet(<<a, b, c, d>>) = {a, b, c, d}
  BY DEF ToSet
<1> QED BY <1>1, <1>2, <1>3, Paths

\* The nodes that are waited for.
Awaited == { Var, I, P, S, R } \cup Value

LEMMA Walks ==
  \A n \in Awaited : /\ n \in Node /\ PathOf(n) \in Seq(Node)
                     /\ IsInjective(PathOf(n))
<1>1. ASSUME NEW a \in Node, NEW b \in Node, a # b
      PROVE  <<a, b>> \in Seq(Node) /\ IsInjective(<<a, b>>)
  BY <1>1 DEF IsInjective
<1>2. ASSUME NEW a \in Node, NEW b \in Node, NEW c \in Node, a # b, a # c, b # c
      PROVE  <<a, b, c>> \in Seq(Node) /\ IsInjective(<<a, b, c>>)
  BY <1>2 DEF IsInjective
<1>3. ASSUME NEW a \in Node, NEW b \in Node, NEW c \in Node, NEW d \in Node,
             a # b, a # c, b # c, a # d, b # d, c # d
      PROVE  <<a, b, c, d>> \in Seq(Node) /\ IsInjective(<<a, b, c, d>>)
  BY <1>3 DEF IsInjective
<1>4. { Doc, Var, I, P, S, R } \subseteq Node /\ Value \subseteq Node
      /\ \A n \in Value : n \notin { Doc, Var, I, P, S, R }
  BY NodeIs
<1>5. ASSUME NEW n \in { Var, I } PROVE PathOf(n) \in Seq(Node) /\ IsInjective(PathOf(n))
  BY <1>1, <1>4, Paths, NodesApart
<1>6. ASSUME NEW n \in { P, S, R } PROVE PathOf(n) \in Seq(Node) /\ IsInjective(PathOf(n))
  <2>1. PathOf(n) = <<n, I, Doc>>
    BY Paths
  <2>2. n \in Node /\ I \in Node /\ Doc \in Node /\ n # I /\ n # Doc /\ I # Doc
    BY <1>4, NodesApart
  <2> QED BY <1>2, <2>1, <2>2
<1>7. ASSUME NEW n \in Value PROVE PathOf(n) \in Seq(Node) /\ IsInjective(PathOf(n))
  <2>1. PathOf(n) = <<n, P, I, Doc>>
    BY Paths
  <2> QED BY <1>3, <1>4, <2>1, NodesApart
<1> QED BY <1>4, <1>5, <1>6, <1>7 DEF Awaited
-----------------------------------------------------------------------------
(***************************************************************************)
(* The calls and where they are.                                           *)
(***************************************************************************)
LEMMA CallsApart ==
  /\ \A i, j : /\ (ElementC(i) = ElementC(j) <=> i = j)
               /\ (ElementEndC(i) = ElementEndC(j) <=> i = j)
               /\ (StringC(i) = StringC(j) <=> i = j) /\ (XPathC(i) = XPathC(j) <=> i = j)
               /\ ElementC(i) # ElementEndC(j) /\ ElementC(i) # StringC(j)
               /\ ElementC(i) # XPathC(j) /\ ElementEndC(i) # StringC(j)
               /\ ElementEndC(i) # XPathC(j) /\ StringC(i) # XPathC(j)
  /\ \A i : { ElementC(i), ElementEndC(i), StringC(i), XPathC(i) }
              \cap { Self, FirstC, VariableC } = {}
  /\ Self # FirstC /\ Self # VariableC /\ FirstC # VariableC
BY DEF ElementC, ElementEndC, StringC, XPathC, Self, FirstC, VariableC

LEMMA CallsTyped ==
  /\ \A i \in Item : { ElementC(i), ElementEndC(i), StringC(i), XPathC(i) } \subseteq Call
  /\ { Self, FirstC, VariableC } \subseteq Call
BY DEF Call, ElementC, ElementEndC, StringC, XPathC, Self, FirstC, VariableC

LEMMA QueueTypes ==
  ASSUME TypeOK
  PROVE  /\ count \in [Node -> Nat] /\ DOMAIN count = Node
         /\ tcb \in [Node -> Seq(Call)] /\ DOMAIN tcb = Node
         /\ main \in Seq(Call)
BY DEF TypeOK

\* Where a call waits.
LEMMA Waits ==
  ASSUME NEW t, NEW f, Placed(t, f), NEW n \in Node
  PROVE  /\ n \in { I, Doc } => \A c : c \notin ToSet(t[n])
         /\ \A i : ElementC(i) \notin ToSet(t[n])
         /\ FirstC \notin ToSet(t[n]) /\ VariableC \notin ToSet(t[n])
         /\ \A i : XPathC(i) \in ToSet(t[n]) \/ ElementEndC(i) \in ToSet(t[n]) =>
              n = Var /\ i \in Item
         /\ \A i : StringC(i) \in ToSet(t[n]) => n = i /\ i \in Value
         /\ Self \in ToSet(t[n]) => \/ n = P /\ stage \in Params
                                    \/ n = S /\ stage = "SUCCESS_TEST_END"
                                    \/ n = R /\ stage = "END"
         /\ n \in { P, S, R } => \A c \in ToSet(t[n]) : c = Self
         /\ n \in Value => \A c \in ToSet(t[n]) : c = StringC(n)
         /\ n = Var => \A c \in ToSet(t[n]) :
              \E i \in Item : c = XPathC(i) \/ c = ElementEndC(i)
<1>1. \A c \in ToSet(t[n]) : MayWait(c, n)
  BY DEF Placed
<1>2. n \in Value => n \notin { Doc, Var, I, P, S, R }
  BY NodeIs
<1>3. n \in { I, Doc } => \A c : c \notin ToSet(t[n])
  BY <1>1, <1>2, NodesApart DEF MayWait
<1>4. \A i : ElementC(i) \notin ToSet(t[n])
  BY <1>1 DEF MayWait, ElementC, ElementEndC, StringC, XPathC, Self
<1>5. FirstC \notin ToSet(t[n]) /\ VariableC \notin ToSet(t[n])
  BY <1>1, CallsApart DEF MayWait
<1>6. ASSUME NEW i, XPathC(i) \in ToSet(t[n]) \/ ElementEndC(i) \in ToSet(t[n])
      PROVE  n = Var /\ i \in Item
  <2>1. PICK c \in { XPathC(i), ElementEndC(i) } : MayWait(c, n)
    BY <1>1, <1>6
  <2>2. c # Self /\ c # StringC(n)
    BY <2>1 DEF ElementEndC, StringC, XPathC, Self
  <2>3. n = Var
    BY <2>1, <2>2 DEF MayWait
  <2>4. PICK j \in Item : c \in { XPathC(j), ElementEndC(j) }
    BY <2>1, <2>2 DEF MayWait
  <2>5. i = j
    BY <2>1, <2>4 DEF ElementEndC, XPathC
  <2> QED BY <2>3, <2>4, <2>5
<1>7. ASSUME NEW i, StringC(i) \in ToSet(t[n]) PROVE n = i /\ i \in Value
  <2>1. MayWait(StringC(i), n)
    BY <1>1, <1>7
  <2>2. StringC(i) # Self /\ \A j : StringC(i) \notin { XPathC(j), ElementEndC(j) }
    BY DEF ElementEndC, StringC, XPathC, Self
  <2>3. StringC(i) = StringC(n) => i = n
    BY DEF StringC
  <2> QED BY <2>1, <2>2, <2>3 DEF MayWait
<1>8. ASSUME Self \in ToSet(t[n])
      PROVE  \/ n = P /\ stage \in Params
             \/ n = S /\ stage = "SUCCESS_TEST_END"
             \/ n = R /\ stage = "END"
  <2>1. Self # StringC(n) /\ \A j : Self \notin { XPathC(j), ElementEndC(j) }
    BY DEF ElementEndC, StringC, XPathC, Self
  <2> QED BY <1>1, <1>8, <2>1 DEF MayWait
<1>9. n \in { P, S, R } => \A c \in ToSet(t[n]) : c = Self
  BY <1>1, <1>2, NodesApart DEF MayWait
<1>10. n \in Value => \A c \in ToSet(t[n]) : c = StringC(n)
  BY <1>1, <1>2 DEF MayWait
<1>11. n = Var => \A c \in ToSet(t[n]) :
                    \E i \in Item : c = XPathC(i) \/ c = ElementEndC(i)
  BY <1>1, <1>2, NodesApart DEF MayWait
<1> QED BY <1>3, <1>4, <1>5, <1>6, <1>7, <1>8, <1>9, <1>10, <1>11

LEMMA QueuedWhere ==
  ASSUME NEW q, NEW t \in [Node -> Seq(Call)], NEW f, Placed(t, f)
  PROVE  /\ \A i : ElementC(i) \in InQueues(q, t) <=> ElementC(i) \in ToSet(q)
         /\ FirstC \in InQueues(q, t) <=> FirstC \in ToSet(q)
         /\ VariableC \in InQueues(q, t) <=> VariableC \in ToSet(q)
         /\ \A i : XPathC(i) \in InQueues(q, t) <=>
                     XPathC(i) \in ToSet(q) \/ XPathC(i) \in ToSet(t[Var])
         /\ \A i : ElementEndC(i) \in InQueues(q, t) <=>
                     ElementEndC(i) \in ToSet(q) \/ ElementEndC(i) \in ToSet(t[Var])
         /\ \A i \in Value : StringC(i) \in InQueues(q, t) <=>
                     StringC(i) \in ToSet(q) \/ StringC(i) \in ToSet(t[i])
         /\ Self \in InQueues(q, t) <=>
              \/ Self \in ToSet(q)
              \/ Self \in ToSet(t[P]) /\ stage \in Params
              \/ Self \in ToSet(t[S]) /\ stage = "SUCCESS_TEST_END"
              \/ Self \in ToSet(t[R]) /\ stage = "END"
<1>1. \A c : c \in InQueues(q, t) <=> c \in ToSet(q) \/ \E n \in Node : c \in ToSet(t[n])
  BY DEF InQueues
<1>2. { Var, P, S, R } \subseteq Node /\ Value \subseteq Node
  BY NodeIs
<1>3. \A i : ElementC(i) \in InQueues(q, t) <=> ElementC(i) \in ToSet(q)
  BY <1>1, Waits
<1>4. FirstC \in InQueues(q, t) <=> FirstC \in ToSet(q)
  BY <1>1, Waits
<1>5. VariableC \in InQueues(q, t) <=> VariableC \in ToSet(q)
  BY <1>1, Waits
<1>6. \A i : XPathC(i) \in InQueues(q, t) <=>
               XPathC(i) \in ToSet(q) \/ XPathC(i) \in ToSet(t[Var])
  BY <1>1, <1>2, Waits
<1>7. \A i : ElementEndC(i) \in InQueues(q, t) <=>
               ElementEndC(i) \in ToSet(q) \/ ElementEndC(i) \in ToSet(t[Var])
  BY <1>1, <1>2, Waits
<1>8. \A i \in Value : StringC(i) \in InQueues(q, t) <=>
               StringC(i) \in ToSet(q) \/ StringC(i) \in ToSet(t[i])
  BY <1>1, <1>2, Waits
<1>9. Self \in InQueues(q, t) <=>
        \/ Self \in ToSet(q)
        \/ Self \in ToSet(t[P]) /\ stage \in Params
        \/ Self \in ToSet(t[S]) /\ stage = "SUCCESS_TEST_END"
        \/ Self \in ToSet(t[R]) /\ stage = "END"
  BY <1>1, <1>2, Waits
<1> QED BY <1>3, <1>4, <1>5, <1>6, <1>7, <1>8, <1>9

\* The call that is made is the oldest of the main queue, and in no other one.
LEMMA Takes ==
  ASSUME IInv, NEW c, NEW i, Calls(c, i)
  PROVE  /\ <<c, i>> \in Call /\ <<c, i>> \in Queued /\ InMain(<<c, i>>) /\ running
         /\ Rest \in Seq(Call) /\ QueuesApart(Rest, tcb)
         /\ \A x : x \in InQueues(Rest, tcb) <=> x \in Queued /\ x # <<c, i>>
         /\ \A x : x \in ToSet(Rest) <=> InMain(x) /\ x # <<c, i>>
         /\ \A n \in Node : <<c, i>> \notin ToSet(tcb[n])
         /\ \A x : ~ InFront(main, x, <<c, i>>)
         /\ \A x, y : InFront(main, x, y) /\ x # <<c, i>> => InFront(Rest, x, y)
<1>1. /\ main # <<>> /\ Head(main) = <<c, i>> /\ running
      /\ main \in Seq(Call) /\ tcb \in [Node -> Seq(Call)] /\ DOMAIN tcb = Node
      /\ QueuesApart(main, tcb)
  BY QueueTypes DEF Calls, IInv
<1>2. IsInjective(main) /\ \A n \in Node : ToSet(main) \cap ToSet(tcb[n]) = {}
  BY <1>1 DEF QueuesApart
<1>3. Head(main) \in ToSet(main) /\ ToSet(Tail(main)) = ToSet(main) \ {Head(main)}
      /\ Head(main) \in Call
  BY <1>1, <1>2, Popped
<1>4. \A x : ~ InFront(main, x, Head(main))
  BY <1>1, <1>2, InFrontOfHead
<1>5. \A x, y : InFront(main, x, y) /\ x # Head(main) => InFront(Tail(main), x, y)
  BY <1>1, InFrontTail
<1>6. /\ Tail(main) \in Seq(Call) /\ QueuesApart(Tail(main), tcb)
      /\ InQueues(Tail(main), tcb) = InQueues(main, tcb) \ {Head(main)}
  BY <1>1, RunApart
<1>7. Head(main) \in Queued
  BY <1>3 DEF Queued, InQueues
<1> QED BY <1>1, <1>2, <1>3, <1>4, <1>5, <1>6, <1>7 DEF InMain, Rest, Queued
-----------------------------------------------------------------------------
(***************************************************************************)
(* A node that was held for one reason more is released: q, t and f are    *)
(* the main queue, the queues of the nodes and their counters.             *)
(***************************************************************************)
AfterC(f, n) == Decreased(f, PathOf(n))
AfterT(f, t, n) == Drained(f, t, PathOf(n))
AfterQ(f, t, q, n) == Joined(q, Moved(f, t, PathOf(n)))

\* The calls that have waited for that reason only.
Wakes(f, t, n, c) == \E m \in ToSet(PathOf(n)) : f[m] = 1 /\ c \in ToSet(t[m])

LEMMA Release ==
  ASSUME NEW n \in Awaited, NEW f \in [Node -> Nat], NEW t \in [Node -> Seq(Call)],
         NEW q \in Seq(Call), QueuesApart(q, t), Placed(t, f),
         \A m \in ToSet(PathOf(n)) : f[m] > 0
  PROVE  /\ AfterC(f, n) \in [Node -> Nat]
         /\ AfterT(f, t, n) \in [Node -> Seq(Call)]
         /\ AfterQ(f, t, q, n) \in Seq(Call)
         /\ QueuesApart(AfterQ(f, t, q, n), AfterT(f, t, n))
         /\ Placed(AfterT(f, t, n), AfterC(f, n))
         /\ \A m \in Node :
              /\ AfterC(f, n)[m] = IF m \in ToSet(PathOf(n)) THEN f[m] - 1 ELSE f[m]
              /\ AfterT(f, t, n)[m] = IF m \in ToSet(PathOf(n)) /\ f[m] = 1
                                      THEN <<>> ELSE t[m]
         /\ \A c : c \in InQueues(AfterQ(f, t, q, n), AfterT(f, t, n)) <=> c \in InQueues(q, t)
         /\ \A c : c \in ToSet(AfterQ(f, t, q, n)) <=> c \in ToSet(q) \/ Wakes(f, t, n, c)
<1> DEFINE path == PathOf(n)
<1>1. n \in Node /\ path \in Seq(Node) /\ IsInjective(path)
  BY Walks
<1>2. \A m \in ToSet(path) : m \in Node
  BY <1>1 DEF ToSet
<1>3. ~ DecreaseFails(f, path)
  BY <1>2 DEF DecreaseFails
<1> HIDE DEF path
<1>4. /\ Walked(f, path) = ToSet(path)
      /\ Woken(f, path) = { m \in ToSet(path) : f[m] = 1 }
  BY <1>1, <1>3, WokenOnWalk
<1>5. /\ Decreased(f, path) \in [Node -> Nat]
      /\ Drained(f, t, path) \in [Node -> Seq(Call)]
      /\ Joined(q, Moved(f, t, path)) \in Seq(Call)
      /\ QueuesApart(Joined(q, Moved(f, t, path)), Drained(f, t, path))
  BY <1>1, DecreaseApart
<1>6. \A m \in Node :
        /\ Decreased(f, path)[m] = IF m \in ToSet(path) THEN f[m] - 1 ELSE f[m]
        /\ Drained(f, t, path)[m] = IF m \in ToSet(path) /\ f[m] = 1 THEN <<>> ELSE t[m]
  BY <1>4 DEF Decreased, Drained
<1>7. \A c : c \in InQueues(Joined(q, Moved(f, t, path)), Drained(f, t, path))
               <=> c \in InQueues(q, t)
  BY <1>1, <1>3, JoinedKeeps
<1>8. \A c : c \in ToSet(Joined(q, Moved(f, t, path))) <=>
               c \in ToSet(q) \/ c \in WokenCalls(f, t, path)
  BY <1>1, <1>3, JoinedCalls
<1>9. \A c : c \in WokenCalls(f, t, path) <=>
               \E m \in ToSet(path) : f[m] = 1 /\ c \in ToSet(t[m])
  BY DEF WokenCalls
<1>10. Placed(Drained(f, t, path), Decreased(f, path))
  <2>1. ASSUME NEW m \in Node
        PROVE  /\ Drained(f, t, path)[m] # <<>> => Decreased(f, path)[m] > 0
               /\ \A c \in ToSet(Drained(f, t, path)[m]) : MayWait(c, m)
    <3>1. /\ t[m] # <<>> => f[m] > 0
          /\ \A c \in ToSet(t[m]) : MayWait(c, m)
          /\ f[m] \in Nat
      BY DEF Placed
    <3>2. \A c : c \notin ToSet(<<>>)
      BY DEF ToSet
    <3> QED BY <1>6, <3>1, <3>2
  <2> QED BY <2>1 DEF Placed
<1> QED BY <1>5, <1>6, <1>7, <1>8, <1>9, <1>10 DEF path, AfterC, AfterT, AfterQ, Wakes

LEMMA ReleaseOrder ==
  ASSUME NEW n \in Awaited, NEW f \in [Node -> Nat], NEW t \in [Node -> Seq(Call)],
         NEW q \in Seq(Call),
         \A m \in ToSet(PathOf(n)) : f[m] > 0
  PROVE  /\ \A x, y : InFront(q, x, y) => InFront(AfterQ(f, t, q, n), x, y)
         /\ \A x \in ToSet(q) : \A y :
              Wakes(f, t, n, y) => InFront(AfterQ(f, t, q, n), x, y)
         /\ n \in Value /\ f[n] = 1 /\ f[P] = 1 =>
              \A x \in ToSet(t[n]), y \in ToSet(t[P]) : InFront(AfterQ(f, t, q, n), x, y)
<1> DEFINE path == PathOf(n)
<1>1. n \in Node /\ path \in Seq(Node)
  BY Walks
<1>2. \A m \in ToSet(path) : m \in Node
  BY <1>1 DEF ToSet
<1>3. ~ DecreaseFails(f, path)
  BY <1>2 DEF DecreaseFails
<1>4. n \in Value => path = <<n, P, I, Doc>>
  BY Paths
<1> HIDE DEF path
<1>5. LET r == Joined(q, Moved(f, t, path))
      IN /\ \A x, y : InFront(q, x, y) => InFront(r, x, y)
         /\ \A x \in ToSet(q), y \in WokenCalls(f, t, path) : InFront(r, x, y)
         /\ \A i, k \in 1..Len(path) :
              i < k /\ f[path[i]] = 1 /\ f[path[k]] = 1 =>
                \A x \in ToSet(t[path[i]]), y \in ToSet(t[path[k]]) : InFront(r, x, y)
  BY <1>1, <1>3, JoinedOrder
<1>6. \A c : c \in WokenCalls(f, t, path) <=>
               \E m \in ToSet(path) : f[m] = 1 /\ c \in ToSet(t[m])
  BY DEF WokenCalls
<1>7. ASSUME n \in Value, f[n] = 1, f[P] = 1
      PROVE  \A x \in ToSet(t[n]), y \in ToSet(t[P]) :
               InFront(Joined(q, Moved(f, t, path)), x, y)
  <2>1. path = <<n, P, I, Doc>>
    BY <1>4, <1>7
  <2>2. 1 \in 1..Len(path) /\ 2 \in 1..Len(path) /\ 1 < 2 /\ path[1] = n /\ path[2] = P
    BY <2>1
  <2>3. f[path[1]] = 1 /\ f[path[2]] = 1
    BY <1>7, <2>2
  <2>4. \A x \in ToSet(t[path[1]]), y \in ToSet(t[path[2]]) :
          InFront(Joined(q, Moved(f, t, path)), x, y)
    BY <1>5, <2>2, <2>3
  <2> QED BY <2>2, <2>4
<1> QED BY <1>5, <1>6, <1>7 DEF path, AfterQ, Wakes

\* Nothing is woken: the queues stay as they are.
LEMMA NoneWoken ==
  ASSUME NEW n \in Awaited, NEW f \in [Node -> Nat], NEW t \in [Node -> Seq(Call)],
         NEW q \in Seq(Call), QueuesApart(q, t),
         \A m \in ToSet(PathOf(n)) : f[m] > 0,
         \A m \in ToSet(PathOf(n)) : f[m] = 1 => t[m] = <<>>
  PROVE  AfterQ(f, t, q, n) = q /\ AfterT(f, t, n) = t
<1> DEFINE path == PathOf(n)
           M == Moved(f, t, path)
<1>1. n \in Node /\ path \in Seq(Node)
  BY Walks
<1>2. \A m \in ToSet(path) : m \in Node
  BY <1>1 DEF ToSet
<1>3. ~ DecreaseFails(f, path)
  BY <1>2 DEF DecreaseFails
<1> HIDE DEF path
<1>4. Woken(f, path) = { m \in ToSet(path) : f[m] = 1 }
  <2>1. /\ Walked(f, path) = ToSet(path)
        /\ Woken(f, path) = { m \in ToSet(path) : f[m] = 1 }
        /\ \A m \in ToSet(path) : m \in Node
    BY <1>1, <1>3, WokenOnWalk
  <2> QED BY <2>1
<1>6. M \in Seq(Call) /\ ToSet(M) = WokenCalls(f, t, path)
  <2>1. M \in Seq(Call)
    BY <1>1, MovedType
  <2>2. ToSet(M) = WokenCalls(f, t, path)
    <3>1. f \in [Node -> Nat] /\ t \in [Node -> Seq(Call)]
      OBVIOUS
    <3>2. ToSet(Moved(f, t, path)) = WokenCalls(f, t, path)
      BY <1>1, <1>3, <3>1, MovedCalls
    <3> QED BY <3>2
  <2> QED BY <2>1, <2>2
<1>7. \A c : c \notin ToSet(<<>>)
  BY DEF ToSet
<1>8. \A c : c \notin ToSet(M)
  BY <1>6, <1>7 DEF WokenCalls, path
<1> HIDE DEF M
<1>9. M = <<>>
  <2>1. ASSUME M # <<>> PROVE FALSE
    <3>1. 1 \in DOMAIN M
      BY <1>6, <2>1
    <3>2. M[1] \in ToSet(M)
      BY <3>1 DEF ToSet
    <3> QED BY <1>8, <3>2
  <2> QED BY <2>1
<1>10. Drained(f, t, path) = t
  BY <1>4 DEF Drained, path
<1> QED BY <1>9, <1>10 DEF M, path, AfterQ, AfterT, Joined
-----------------------------------------------------------------------------
(***************************************************************************)
(* How many values the parameters wait for.                                *)
(***************************************************************************)
LEMMA ValuesAre ==
  /\ Values \in Seq(Value) /\ DOMAIN Values = 1..9 /\ Len(Values) = 9
  /\ IsInjective(Values)
  /\ \A k \in 1..9 : Values[k] \in Value
  /\ \A i \in Value : \E k \in 1..9 : Values[k] = i
<1> DEFINE s == FirstRound
           r == SecondRound
<1>1. Value = { "href", "type", "bodyTest", "headerTest", "paramTest",
                "header", "inBody", "param", "body" }
  BY Rounds DEF Value
<1>2. /\ s \in Seq(Value) /\ Len(s) = 5 /\ s[1] = "href" /\ s[2] = "type"
      /\ s[3] = "bodyTest" /\ s[4] = "headerTest" /\ s[5] = "paramTest"
  BY <1>1 DEF FirstRound
<1>3. /\ r \in Seq(Value) /\ Len(r) = 4 /\ r[1] = "header" /\ r[2] = "inBody"
      /\ r[3] = "param" /\ r[4] = "body"
  BY <1>1 DEF SecondRound
<1>4. Values = s \o r
  BY DEF Values
<1> HIDE DEF s, r
<1>5. /\ Values \in Seq(Value) /\ Len(Values) = 9 /\ DOMAIN Values = 1..9
      /\ \A k \in 1..5 : Values[k] = s[k]
      /\ \A k \in 6..9 : Values[k] = r[k - 5]
  <2>1. /\ s \o r \in Seq(Value) /\ Len(s \o r) = Len(s) + Len(r)
        /\ \A k \in 1..Len(s) : (s \o r)[k] = s[k]
        /\ \A k \in 1..Len(s \o r) :
             k > Len(s) => k - Len(s) \in 1..Len(r) /\ (s \o r)[k] = r[k - Len(s)]
    <3>1. s \in Seq(Value) /\ r \in Seq(Value)
      BY <1>2, <1>3
    <3> QED BY <3>1, ConcatPlaces
  <2>2. Len(s) = 5 /\ Len(r) = 4
    BY <1>2, <1>3
  <2>3. Values \in Seq(Value) /\ Len(Values) = 9
    BY <1>4, <2>1, <2>2
  <2>4. \A k \in 1..5 : Values[k] = s[k]
    BY <1>4, <2>1, <2>2
  <2>5. ASSUME NEW k \in 6..9 PROVE Values[k] = r[k - 5]
    <3>1. k \in 1..9 /\ k > 5
      OBVIOUS
    <3>2. k \in 1..Len(s \o r) /\ k > Len(s)
      BY <2>1, <2>2, <3>1
    <3>3. (s \o r)[k] = r[k - Len(s)]
      BY <2>1, <3>2
    <3> QED BY <1>4, <2>2, <3>3
  <2> QED BY <2>3, <2>4, <2>5
<1>6. /\ Values[1] = "href" /\ Values[2] = "type" /\ Values[3] = "bodyTest"
      /\ Values[4] = "headerTest" /\ Values[5] = "paramTest" /\ Values[6] = "header"
      /\ Values[7] = "inBody" /\ Values[8] = "param" /\ Values[9] = "body"
  BY <1>2, <1>3, <1>5
<1>7. IsInjective(Values)
  <2>1. \A k \in 1..9 : k \in {1, 2, 3, 4, 5, 6, 7, 8, 9}
    OBVIOUS
  <2>2. ASSUME NEW k \in 1..9, NEW l \in 1..9, Values[k] = Values[l] PROVE k = l
    BY <1>6, <2>1, <2>2
  <2> QED BY <1>5, <2>2 DEF IsInjective
<1>8. /\ 1 \in 1..9 /\ 2 \in 1..9 /\ 3 \in 1..9 /\ 4 \in 1..9 /\ 5 \in 1..9
      /\ 6 \in 1..9 /\ 7 \in 1..9 /\ 8 \in 1..9 /\ 9 \in 1..9
  OBVIOUS
<1>9. ASSUME NEW i \in Value PROVE \E k \in 1..9 : Values[k] = i
  BY <1>1, <1>6, <1>8
<1>10. \A k \in 1..9 : Values[k] \in Value
  <2>1. \A k \in 1..9 : k \in {1, 2, 3, 4, 5, 6, 7, 8, 9}
    OBVIOUS
  <2> QED BY <1>1, <1>6, <2>1
<1> QED BY <1>5, <1>7, <1>9, <1>10

LEMMA ValueFinite == IsFiniteSet(Value)
<1>1. IsFiniteSet(1..9)
  <2>1. 1 \in Int /\ 9 \in Int
    OBVIOUS
  <2> QED BY <2>1, FS_Interval, Zenon
<1>2. Values \in Surjection(1..9, Value)
  <2>1. Values \in [1..9 -> Value]
    <3>1. \A s \in Seq(Value) : s \in [1..Len(s) -> Value]
      OBVIOUS
    <3> QED BY <3>1, ValuesAre
  <2> QED BY <2>1, ValuesAre DEF Surjection
<1> QED BY <1>1, <1>2, FS_Surjection

\* The calls of one kind are as many as what they are of.
LEMMA OneKind ==
  ASSUME NEW W, W \subseteq Value, NEW kind
  PROVE  /\ IsFiniteSet(W) /\ Cardinality(W) \in Nat
         /\ IsFiniteSet({kind} \X W) /\ Cardinality({kind} \X W) = Cardinality(W)
<1>1. IsFiniteSet(W) /\ Cardinality(W) \in Nat
  BY ValueFinite, FS_Subset, FS_CardinalityType
<1> DEFINE f == [i \in W |-> <<kind, i>>]
<1>2. f \in [W -> {kind} \X W]
  OBVIOUS
<1>3. \A i \in W : f[i] = <<kind, i>>
  OBVIOUS
<1>4. \A c \in {kind} \X W : \E i \in W : c = <<kind, i>>
  OBVIOUS
<1>5. DOMAIN f = W
  OBVIOUS
<1> HIDE DEF f
<1>6. IsInjective(f)
  BY <1>3, <1>5 DEF IsInjective
<1>7. \A c \in {kind} \X W : \E i \in W : f[i] = c
  BY <1>3, <1>4
<1>8. f \in Bijection(W, {kind} \X W)
  BY <1>2, <1>6, <1>7 DEF Bijection, Injection, Surjection
<1>9. ExistsBijection(W, {kind} \X W)
  BY <1>8 DEF ExistsBijection
<1> QED BY <1>1, <1>9, FS_Bijection

LEMMA CallsFinite ==
  ASSUME NEW U, U \subseteq { "xpath", "elementEnd" } \X Value
  PROVE  IsFiniteSet(U) /\ Cardinality(U) \in Nat
<1>1. IsFiniteSet({"xpath"} \X Value) /\ IsFiniteSet({"elementEnd"} \X Value)
  BY OneKind
<1>2. IsFiniteSet(({"xpath"} \X Value) \cup ({"elementEnd"} \X Value))
  BY <1>1, FS_Union
<1>3. U \subseteq ({"xpath"} \X Value) \cup ({"elementEnd"} \X Value)
  OBVIOUS
<1> QED BY <1>2, <1>3, FS_Subset, FS_CardinalityType

LEMMA UnreadyIs ==
  /\ \A i \in Value : /\ XPathC(i) \in Unready <=> XPathC(i) \in Queued
                      /\ ElementEndC(i) \in Unready <=> ElementEndC(i) \in Queued
  /\ \A c \in Unready : \E i \in Value : c = XPathC(i) \/ c = ElementEndC(i)
  /\ IsFiniteSet(Unready) /\ Cardinality(Unready) \in Nat
  /\ Cardinality(Unready) = 0 <=> Unready = {}
<1>1. \A c : c \in Unready <=> c \in Queued /\ \E i \in Value : c = XPathC(i) \/ c = ElementEndC(i)
  BY DEF Unready, XPathC, ElementEndC
<1>2. Unready \subseteq { "xpath", "elementEnd" } \X Value
  BY DEF Unready
<1>3. IsFiniteSet(Unready) /\ Cardinality(Unready) \in Nat
  BY <1>2, CallsFinite
<1> QED BY <1>1, <1>3, FS_EmptySet

LEMMA UnreadySame ==
  ASSUME \A i \in Value : /\ XPathC(i) \in Queued' <=> XPathC(i) \in Queued
                          /\ ElementEndC(i) \in Queued' <=> ElementEndC(i) \in Queued
  PROVE  Unready' = Unready
<1>1. \A c \in { "xpath", "elementEnd" } \X Value :
        \E i \in Value : c = XPathC(i) \/ c = ElementEndC(i)
  BY DEF XPathC, ElementEndC
<1>2. \A c \in { "xpath", "elementEnd" } \X Value : c \in Queued' <=> c \in Queued
  BY <1>1
<1> QED BY <1>2 DEF Unready

LEMMA UnreadyMore ==
  ASSUME NEW i \in Value, ElementEndC(i) \notin Queued,
         \A x : x \in Queued' <=> (x \in Queued /\ x # ElementC(i)) \/ x = ElementEndC(i)
  PROVE  Cardinality(Unready') = Cardinality(Unready) + 1
<1>1. ElementEndC(i) \in { "xpath", "elementEnd" } \X Value
  BY DEF ElementEndC
<1>2. ElementC(i) \notin { "xpath", "elementEnd" } \X Value
  BY DEF ElementC
<1>3. Unready' = Unready \cup {ElementEndC(i)}
  BY <1>1, <1>2 DEF Unready
<1>4. ElementEndC(i) \notin Unready
  BY UnreadyIs
<1> QED BY <1>3, <1>4, UnreadyIs, FS_AddElement

LEMMA UnreadyLess ==
  ASSUME NEW c \in Unready, \A x : x \in Queued' <=> x \in Queued /\ x # c
  PROVE  /\ Cardinality(Unready') = Cardinality(Unready) - 1
         /\ Cardinality(Unready) > 0
         /\ Cardinality(Unready) = 1 => Unready' = {}
<1>1. Unready' = Unready \ {c}
  BY DEF Unready
<1>2. Cardinality(Unready') = Cardinality(Unready) - 1 /\ IsFiniteSet(Unready')
  BY <1>1, UnreadyIs, FS_RemoveElement
<1>3. Cardinality(Unready) # 0
  BY UnreadyIs
<1>4. Cardinality(Unready') = 0 => Unready' = {}
  BY <1>2, FS_EmptySet
<1> QED BY <1>2, <1>3, <1>4, UnreadyIs

\* What is asked for when nothing is waited for.
LEMMA UnreadyAsked ==
  ASSUME NEW W, W \subseteq Value,
         \A i \in Value : (XPathC(i) \in Queued' <=> i \in W) /\ ElementEndC(i) \notin Queued'
  PROVE  Cardinality(Unready') = Cardinality(W) /\ Cardinality(W) \in Nat
<1>1. \A c \in { "xpath", "elementEnd" } \X Value :
        c \in Queued' <=> c \in {"xpath"} \X W
  <2>1. ASSUME NEW i \in Value
        PROVE  (<<"xpath", i>> \in Queued' <=> i \in W) /\ <<"elementEnd", i>> \notin Queued'
    <3>1. XPathC(i) = <<"xpath", i>> /\ ElementEndC(i) = <<"elementEnd", i>>
      BY DEF XPathC, ElementEndC
    <3> QED BY <3>1, Zenon
  <2>2. ASSUME NEW c \in { "xpath", "elementEnd" } \X Value
        PROVE  c \in Queued' <=> c \in {"xpath"} \X W
    <3>1. PICK k \in { "xpath", "elementEnd" }, i \in Value : c = <<k, i>>
      OBVIOUS
    <3>2. c \in {"xpath"} \X W <=> k = "xpath" /\ i \in W
      BY <3>1
    <3>3. k = "xpath" \/ (k = "elementEnd" /\ k # "xpath")
      OBVIOUS
    <3> QED BY <2>1, <3>1, <3>2, <3>3, Zenon
  <2> QED BY <2>2
<1>2. Unready' = {"xpath"} \X W
  BY <1>1 DEF Unready
<1> QED BY <1>2, OneKind
-----------------------------------------------------------------------------
(***************************************************************************)
(* What is scheduled when values are asked for.                            *)
(***************************************************************************)
LEMMA AskedMainIs ==
  ASSUME NEW is, is \subseteq Value
  PROVE  /\ AskedMain(is) \in Seq(Call) /\ IsInjective(AskedMain(is))
         /\ \A c : c \in ToSet(AskedMain(is)) <=>
                     \E i \in Lists(is) : c = ElementC(i) \/ c = StringC(i)
         /\ \A i \in Lists(is) : InFront(AskedMain(is), ElementC(i), StringC(i))
<1> DEFINE piece(i) == IF i \in Lists(is) THEN << ElementC(i), StringC(i) >> ELSE <<>>
           ss == [k \in DOMAIN Values |-> piece(Values[k])]
<1>1. AskedMain(is) = FlattenSeq(ss)
  BY DEF AskedMain, ElementC, StringC
<1>2. \A i \in Value : i \in Item /\ ElementC(i) \in Call /\ StringC(i) \in Call
  BY ItemIs, CallsTyped
<1>3. \A i \in Value : /\ piece(i) \in Seq(Call) /\ IsInjective(piece(i))
                       /\ \A c : c \in ToSet(piece(i)) <=>
                                   i \in Lists(is) /\ (c = ElementC(i) \/ c = StringC(i))
  <2> SUFFICES ASSUME NEW i \in Value
               PROVE  /\ piece(i) \in Seq(Call) /\ IsInjective(piece(i))
                      /\ \A c : c \in ToSet(piece(i)) <=>
                                  i \in Lists(is) /\ (c = ElementC(i) \/ c = StringC(i))
    OBVIOUS
  <2>1. ElementC(i) # StringC(i)
    BY DEF ElementC, StringC
  <2>2. ASSUME NEW a \in Call, NEW b \in Call, a # b
        PROVE  /\ <<a, b>> \in Seq(Call) /\ IsInjective(<<a, b>>)
               /\ \A c : c \in ToSet(<<a, b>>) <=> c = a \/ c = b
    BY <2>2 DEF IsInjective, ToSet
  <2>3. /\ <<>> \in Seq(Call) /\ IsInjective(<<>>) /\ \A c : c \notin ToSet(<<>>)
    BY DEF IsInjective, ToSet
  <2>4. CASE i \in Lists(is)
    <3>1. piece(i) = << ElementC(i), StringC(i) >>
      BY <2>4
    <3> HIDE DEF piece
    <3> QED BY <1>2, <2>1, <2>2, <2>4, <3>1
  <2>5. CASE i \notin Lists(is)
    <3>1. piece(i) = <<>>
      BY <2>5
    <3> HIDE DEF piece
    <3> QED BY <2>3, <2>5, <3>1
  <2> QED BY <2>4, <2>5
<1>4. \A i \in Lists(is) : piece(i) = << ElementC(i), StringC(i) >> /\ i \in Value
  BY DEF Lists
<1> HIDE DEF piece
<1>5. ss \in Seq(Seq(Call)) /\ Len(ss) = 9 /\ \A k \in 1..9 : ss[k] = piece(Values[k])
  <2>1. /\ DOMAIN Values = 1..9 /\ \A k \in 1..9 : Values[k] \in Value
    BY ValuesAre
  <2>2. ss \in [1..9 -> Seq(Call)]
    BY <1>3, <2>1
  <2> QED BY <2>1, <2>2
<1> HIDE DEF ss
<1>6. FlattenSeq(ss) \in Seq(Call)
  BY <1>5, FlattenType
<1>7. \A k \in 1..9 : Values[k] \in Value
  BY ValuesAre
<1>8. \A i, k \in 1..9 : i # k => ToSet(ss[i]) \cap ToSet(ss[k]) = {}
  <2> SUFFICES ASSUME NEW i \in 1..9, NEW k \in 1..9, i # k,
                      NEW c \in ToSet(ss[i]), c \in ToSet(ss[k])
               PROVE  FALSE
    OBVIOUS
  <2>1. Values[i] # Values[k]
    BY ValuesAre DEF IsInjective
  <2>2. \A v, w : v # w => ElementC(v) # ElementC(w) /\ StringC(v) # StringC(w)
                           /\ ElementC(v) # StringC(w)
    BY DEF ElementC, StringC
  <2>3. /\ c = ElementC(Values[i]) \/ c = StringC(Values[i])
        /\ c = ElementC(Values[k]) \/ c = StringC(Values[k])
    BY <1>3, <1>5, <1>7
  <2> QED BY <2>1, <2>2, <2>3
<1>9. IsInjective(FlattenSeq(ss))
  <2>1. \A k \in 1..Len(ss) : IsInjective(ss[k])
    BY <1>3, <1>5, <1>7
  <2> QED BY <1>5, <1>8, <2>1, FlattenInjective
<1>10. ASSUME NEW c, c \in ToSet(FlattenSeq(ss))
       PROVE  \E i \in Lists(is) : c = ElementC(i) \/ c = StringC(i)
  <2>1. PICK k \in 1..Len(ss) : c \in ToSet(ss[k])
    BY <1>5, <1>10, FlattenElements
  <2> QED BY <1>3, <1>5, <1>7, <2>1
<1>11. ASSUME NEW i \in Lists(is)
       PROVE  /\ ElementC(i) \in ToSet(FlattenSeq(ss)) /\ StringC(i) \in ToSet(FlattenSeq(ss))
              /\ InFront(FlattenSeq(ss), ElementC(i), StringC(i))
  <2>1. PICK k \in 1..9 : Values[k] = i
    BY <1>4, ValuesAre
  <2>2. ss[k] = << ElementC(i), StringC(i) >> /\ k \in 1..Len(ss)
    BY <1>4, <1>5, <2>1
  <2>3. PICK o : Laid(o, ss, FlattenSeq(ss))
    BY <1>5, FlattenOffsets
  <2> DEFINE flat == FlattenSeq(ss)
             a == o[k-1]
             p == a + 1
             r == a + 2
  <2> HIDE DEF flat
  <2>4. /\ \A q \in 1..Len(ss[k]) : a + q \in 1..Len(flat) /\ flat[a + q] = ss[k][q]
        /\ a \in Nat
    <3>1. k - 1 \in 0..Len(ss)
      BY <1>5
    <3>2. Laid(o, ss, flat)
      BY <2>3 DEF flat
    <3> QED BY <2>2, <3>1, <3>2 DEF Laid
  <2> HIDE DEF a
  <2> DEFINE e == ElementC(i)
             s == StringC(i)
  <2> HIDE DEF e, s
  <2>5. ss[k] = << e, s >>
    BY <2>2 DEF e, s
  <2>6. 1 \in 1..Len(ss[k]) /\ 2 \in 1..Len(ss[k]) /\ ss[k][1] = e /\ ss[k][2] = s
    BY <2>5
  <2>7. p \in 1..Len(flat) /\ r \in 1..Len(flat) /\ flat[p] = e /\ flat[r] = s /\ p < r
    <3>1. p \in 1..Len(flat) /\ flat[p] = e
      BY <2>4, <2>6
    <3>2. r \in 1..Len(flat) /\ flat[r] = s
      BY <2>4, <2>6
    <3>3. p < r
      BY <2>4
    <3> QED BY <3>1, <3>2, <3>3
  <2>8. DOMAIN flat = 1..Len(flat)
    BY <1>6 DEF flat
  <2> HIDE DEF p, r
  <2>9. InFront(flat, e, s) /\ e \in ToSet(flat) /\ s \in ToSet(flat)
    BY <2>7, <2>8 DEF InFront, ToSet
  <2> QED BY <2>9 DEF flat, e, s
<1> QED BY <1>1, <1>6, <1>9, <1>10, <1>11

\* The expressions that are left on the variable.
AskedXPaths(is) ==
  FlattenSeq([k \in DOMAIN Values |->
                IF Values[k] \in Waiting(is) THEN << <<"xpath", Values[k]>> >> ELSE <<>>])

LEMMA AskedXPathsAre ==
  ASSUME NEW is, is \subseteq Value
  PROVE  /\ AskedXPaths(is) \in Seq(Call) /\ IsInjective(AskedXPaths(is))
         /\ \A c : c \in ToSet(AskedXPaths(is)) <=> \E i \in Waiting(is) : c = XPathC(i)
<1> DEFINE piece(i) == IF i \in Waiting(is) THEN << XPathC(i) >> ELSE <<>>
           ss == [k \in DOMAIN Values |-> piece(Values[k])]
<1>1. AskedXPaths(is) = FlattenSeq(ss)
  BY DEF AskedXPaths, XPathC
<1>2. \A i \in Value : i \in Item /\ XPathC(i) \in Call
  BY ItemIs, CallsTyped
<1>3. ASSUME NEW i \in Value
      PROVE  /\ piece(i) \in Seq(Call) /\ IsInjective(piece(i))
             /\ \A c : c \in ToSet(piece(i)) <=> i \in Waiting(is) /\ c = XPathC(i)
  <2>1. ASSUME NEW a \in Call
        PROVE  /\ <<a>> \in Seq(Call) /\ IsInjective(<<a>>)
               /\ \A c : c \in ToSet(<<a>>) <=> c = a
    BY DEF IsInjective, ToSet
  <2>2. /\ <<>> \in Seq(Call) /\ IsInjective(<<>>) /\ \A c : c \notin ToSet(<<>>)
    BY DEF IsInjective, ToSet
  <2>3. CASE i \in Waiting(is)
    <3>1. piece(i) = << XPathC(i) >>
      BY <2>3
    <3> HIDE DEF piece
    <3> QED BY <1>2, <2>1, <2>3, <3>1
  <2>4. CASE i \notin Waiting(is)
    <3>1. piece(i) = <<>>
      BY <2>4
    <3> HIDE DEF piece
    <3> QED BY <2>2, <2>4, <3>1
  <2> QED BY <2>3, <2>4
<1>4. \A i \in Waiting(is) : i \in Value
  BY DEF Waiting
<1> HIDE DEF piece
<1>5. ss \in Seq(Seq(Call)) /\ Len(ss) = 9 /\ \A k \in 1..9 : ss[k] = piece(Values[k])
  <2>1. /\ DOMAIN Values = 1..9 /\ \A k \in 1..9 : Values[k] \in Value
    BY ValuesAre
  <2>2. ss \in [1..9 -> Seq(Call)]
    BY <1>3, <2>1
  <2> QED BY <2>1, <2>2
<1> HIDE DEF ss
<1>6. FlattenSeq(ss) \in Seq(Call)
  BY <1>5, FlattenType
<1>7. \A k \in 1..9 : Values[k] \in Value
  BY ValuesAre
<1>8. \A i, k \in 1..9 : i # k => ToSet(ss[i]) \cap ToSet(ss[k]) = {}
  <2> SUFFICES ASSUME NEW i \in 1..9, NEW k \in 1..9, i # k,
                      NEW c \in ToSet(ss[i]), c \in ToSet(ss[k])
               PROVE  FALSE
    OBVIOUS
  <2>1. Values[i] # Values[k]
    BY ValuesAre DEF IsInjective
  <2>2. \A v, w : v # w => XPathC(v) # XPathC(w)
    BY DEF XPathC
  <2>3. c = XPathC(Values[i]) /\ c = XPathC(Values[k])
    BY <1>3, <1>5, <1>7
  <2> QED BY <2>1, <2>2, <2>3
<1>9. IsInjective(FlattenSeq(ss))
  <2>1. \A k \in 1..Len(ss) : IsInjective(ss[k])
    BY <1>3, <1>5, <1>7
  <2> QED BY <1>5, <1>8, <2>1, FlattenInjective
<1>10. ASSUME NEW c, c \in ToSet(FlattenSeq(ss))
       PROVE  \E i \in Waiting(is) : c = XPathC(i)
  <2>1. PICK k \in 1..Len(ss) : c \in ToSet(ss[k])
    BY <1>5, <1>10, FlattenElements
  <2> QED BY <1>3, <1>5, <1>7, <2>1
<1>11. ASSUME NEW i \in Waiting(is) PROVE XPathC(i) \in ToSet(FlattenSeq(ss))
  <2>1. PICK k \in 1..9 : Values[k] = i
    BY <1>4, ValuesAre
  <2>2. XPathC(i) \in ToSet(ss[k]) /\ k \in 1..Len(ss)
    BY <1>3, <1>4, <1>5, <2>1
  <2> QED BY <1>5, <2>2, FlattenElements
<1> QED BY <1>1, <1>6, <1>9, <1>10, <1>11
-----------------------------------------------------------------------------
(***************************************************************************)
(* What the invariant says of the counters and the calls of a state.       *)
(***************************************************************************)
LEMMA Held ==
  ASSUME IInv
  PROVE  /\ \A n \in Node : count[n] \in Nat
         /\ { Doc, Var, I, P, S, R } \subseteq Node /\ Value \subseteq Node
         /\ count[Var] > 0 => count[Doc] > 0
         /\ count[P] > 0 \/ count[S] > 0 \/ count[R] > 0 => count[I] > 0
         /\ count[I] > 0 => count[Doc] > 0
         /\ \A i \in Value : XPathC(i) \in Queued \/ ElementEndC(i) \in Queued => count[P] > 0
         /\ \A i \in Value : ElementEndC(i) \in Queued <=> count[i] = 1
         /\ \A i \in Value : ElementEndC(i) \notin Queued <=> count[i] = 0
         /\ XPathC("success") \in Queued <=> count[S] = 1
         /\ XPathC("success") \notin Queued <=> count[S] = 0
         /\ \A s \in Content : ElementEndC(s) \in Queued => count[R] > 0
         /\ FirstC \notin Queued /\ result = {} => count[I] > 0
<1>1. /\ \A n \in Node : count[n] \in Nat
      /\ { Doc, Var, I, P, S, R } \subseteq Node /\ Value \subseteq Node
  BY NodeIs DEF IInv, TypeOK
<1>2. /\ count[Doc] = count[Var] + count[I]
      /\ count[I] = One(FirstC \notin Queued /\ result = {}) + count[P] + count[S] + count[R]
      /\ \A i \in Value : count[i] = One(ElementEndC(i) \in Queued)
      /\ count[S] = One(XPathC("success") \in Queued)
  BY DEF IInv, Counted
<1>3. /\ count[P] \in Nat /\ count[S] \in Nat /\ count[R] \in Nat /\ count[I] \in Nat
      /\ count[Var] \in Nat /\ count[Doc] \in Nat
  BY <1>1
<1> DEFINE own == One(FirstC \notin Queued /\ result = {})
<1>4. /\ own \in Nat
      /\ FirstC \notin Queued /\ result = {} => own = 1
  BY DEF One
<1> HIDE DEF own
<1>12. count[I] = own + count[P] + count[S] + count[R]
  BY <1>2 DEF own
<1>5. \A i \in Value : XPathC(i) \in Queued \/ ElementEndC(i) \in Queued => count[P] > 0
  <2> SUFFICES ASSUME NEW i \in Value, XPathC(i) \in Queued \/ ElementEndC(i) \in Queued
               PROVE  count[P] > 0
    OBVIOUS
  <2>1. Cardinality(Unready) \in Nat /\ Cardinality(Unready) # 0
    BY UnreadyIs
  <2>2. count[P] = Cardinality(Unready) \/ count[P] = Cardinality(Unready) + 1
    BY DEF IInv, ParamsCounted
  <2> QED BY <2>1, <2>2
<1>6. \A s \in Content : ElementEndC(s) \in Queued => count[R] > 0
  <2> SUFFICES ASSUME NEW s \in Content, ElementEndC(s) \in Queued PROVE count[R] > 0
    OBVIOUS
  <2>1. One(ContentWaits) = 1
    BY DEF ContentWaits, One
  <2>2. count[R] = One(ContentWaits) + One(Entered)
    BY DEF IInv, ResultCounted
  <2>3. One(Entered) \in Nat
    BY DEF One
  <2> QED BY <2>1, <2>2, <2>3
<1>7. \A i \in Value : /\ ElementEndC(i) \in Queued <=> count[i] = 1
                       /\ ElementEndC(i) \notin Queued <=> count[i] = 0
  BY <1>2 DEF One
<1>8. /\ XPathC("success") \in Queued <=> count[S] = 1
      /\ XPathC("success") \notin Queued <=> count[S] = 0
  BY <1>2 DEF One
<1>9. FirstC \notin Queued /\ result = {} => count[I] > 0
  BY <1>3, <1>4, <1>12
<1>10. count[P] > 0 \/ count[S] > 0 \/ count[R] > 0 => count[I] > 0
  BY <1>3, <1>4, <1>12
<1>11. (count[Var] > 0 => count[Doc] > 0) /\ (count[I] > 0 => count[Doc] > 0)
  BY <1>2, <1>3
<1> QED BY <1>1, <1>5, <1>6, <1>7, <1>8, <1>9, <1>10, <1>11

\* The calls that are queued are calls.
LEMMA QueuedTyped ==
  ASSUME IInv
  PROVE  /\ \A x \in Queued : x \in Call
         /\ \A i : ElementC(i) \in Queued \/ ElementEndC(i) \in Queued
                   \/ StringC(i) \in Queued \/ XPathC(i) \in Queued => i \in Item
         /\ \A x : InMain(x) => x \in Queued
<1>1. tcb \in [Node -> Seq(Call)] /\ DOMAIN tcb = Node /\ main \in Seq(Call)
  BY QueueTypes DEF IInv
<1>2. \A s \in Seq(Call) : \A x \in ToSet(s) : x \in Call
  BY DEF ToSet
<1>3. \A x \in Queued : x \in Call
  BY <1>1, <1>2 DEF Queued, InQueues
<1>4. \A i : ElementC(i) \in Call \/ ElementEndC(i) \in Call
            \/ StringC(i) \in Call \/ XPathC(i) \in Call => i \in Item
  BY DEF Call, ElementC, ElementEndC, StringC, XPathC
<1>5. \A x : InMain(x) => x \in Queued
  BY DEF InMain, Queued, InQueues
<1> QED BY <1>3, <1>4, <1>5

LEMMA Alone ==
  ASSUME IInv, NEW c, InMain(c)
  PROVE  /\ c # FirstC => FirstC \notin Queued
         /\ c # VariableC => VariableC \notin Queued
<1>1. \A x : ToSet(<<x>>) = {x}
  BY DEF ToSet
<1>2. FirstC \in Queued => main = <<FirstC>>
  BY DEF IInv, Fresh
<1>3. VariableC \in Queued => main = <<VariableC>>
  BY DEF IInv, Ordered
<1> QED BY <1>1, <1>2, <1>3 DEF InMain

\* What a release of n wakes.
LEMMA WakesAre ==
  ASSUME NEW f \in [Node -> Nat], NEW t \in [Node -> Seq(Call)], Placed(t, f)
  PROVE  /\ \A x : ~ Wakes(f, t, I, x)
         /\ \A n \in { P, S, R } : \A x :
              Wakes(f, t, n, x) <=> x = Self /\ f[n] = 1 /\ Self \in ToSet(t[n])
         /\ \A n \in Value : \A x :
              Wakes(f, t, n, x) <=>
                \/ x = StringC(n) /\ f[n] = 1 /\ x \in ToSet(t[n])
                \/ x = Self /\ f[P] = 1 /\ x \in ToSet(t[P])
         /\ \A x : Wakes(f, t, Var, x) <=> f[Var] = 1 /\ x \in ToSet(t[Var])
<1>1. { Doc, Var, I, P, S, R } \subseteq Node /\ Value \subseteq Node
  BY NodeIs
<1>2. \A x : x \notin ToSet(t[I]) /\ x \notin ToSet(t[Doc])
  BY <1>1, Waits
<1>3. \A n \in { P, S, R } : \A x \in ToSet(t[n]) : x = Self
  BY <1>1, Waits
<1>4. \A n \in Value : \A x \in ToSet(t[n]) : x = StringC(n)
  BY <1>1, Waits
<1>5. \A x : ~ Wakes(f, t, I, x)
  BY <1>2, PathSets DEF Wakes
<1>6. ASSUME NEW n \in { P, S, R }, NEW x
      PROVE  Wakes(f, t, n, x) <=> x = Self /\ f[n] = 1 /\ Self \in ToSet(t[n])
  BY <1>2, <1>3, PathSets DEF Wakes
<1>7. ASSUME NEW n \in Value, NEW x
      PROVE  Wakes(f, t, n, x) <=>
               \/ x = StringC(n) /\ f[n] = 1 /\ x \in ToSet(t[n])
               \/ x = Self /\ f[P] = 1 /\ x \in ToSet(t[P])
  <2>1. ToSet(PathOf(n)) = { n, P, I, Doc }
    BY PathSets
  <2>2. /\ x \in ToSet(t[n]) => x = StringC(n)
        /\ x \in ToSet(t[P]) => x = Self
        /\ x \notin ToSet(t[I]) /\ x \notin ToSet(t[Doc])
    BY <1>2, <1>3, <1>4
  <2> QED BY <2>1, <2>2 DEF Wakes
<1>8. \A x : Wakes(f, t, Var, x) <=> f[Var] = 1 /\ x \in ToSet(t[Var])
  BY <1>2, PathSets DEF Wakes
<1> QED BY <1>5, <1>6, <1>7, <1>8

\* A call that releases n.
LEMMA Releasing ==
  ASSUME IInv, NEW c, NEW i, Calls(c, i), NEW n \in Awaited, Releases(n), stage' = stage,
         \A m \in ToSet(PathOf(n)) : count[m] > 0
  PROVE  /\ count' \in [Node -> Nat] /\ tcb' \in [Node -> Seq(Call)] /\ main' \in Seq(Call)
         /\ QueuesApart(main', tcb') /\ Placed(tcb, count)'
         /\ \A m \in Node :
              /\ count'[m] = IF m \in ToSet(PathOf(n)) THEN count[m] - 1 ELSE count[m]
              /\ tcb'[m] = IF m \in ToSet(PathOf(n)) /\ count[m] = 1 THEN <<>> ELSE tcb[m]
         /\ \A x : x \in Queued' <=> x \in Queued /\ x # <<c, i>>
         /\ \A x : InMain(x)' <=> (InMain(x) /\ x # <<c, i>>) \/ Wakes(count, tcb, n, x)
         /\ \A x, y : InFront(main, x, y) /\ x # <<c, i>> => InFront(main', x, y)
         /\ \A x, y : InMain(x) /\ x # <<c, i>> /\ Wakes(count, tcb, n, y) =>
                        InFront(main', x, y)
         /\ n \in Value /\ count[n] = 1 /\ count[P] = 1 =>
              \A x \in ToSet(tcb[n]), y \in ToSet(tcb[P]) : InFront(main', x, y)
<1>1. /\ count \in [Node -> Nat] /\ tcb \in [Node -> Seq(Call)] /\ Placed(tcb, count)
  BY QueueTypes DEF IInv
<1>2. /\ Rest \in Seq(Call) /\ QueuesApart(Rest, tcb)
      /\ \A x : x \in InQueues(Rest, tcb) <=> x \in Queued /\ x # <<c, i>>
      /\ \A x : x \in ToSet(Rest) <=> InMain(x) /\ x # <<c, i>>
      /\ \A x, y : InFront(main, x, y) /\ x # <<c, i>> => InFront(Rest, x, y)
  BY Takes
<1>3. /\ count' = AfterC(count, n) /\ tcb' = AfterT(count, tcb, n)
      /\ main' = AfterQ(count, tcb, Rest, n)
  BY DEF Releases, AfterC, AfterT, AfterQ
<1>4. /\ AfterC(count, n) \in [Node -> Nat]
      /\ AfterT(count, tcb, n) \in [Node -> Seq(Call)]
      /\ AfterQ(count, tcb, Rest, n) \in Seq(Call)
      /\ QueuesApart(AfterQ(count, tcb, Rest, n), AfterT(count, tcb, n))
      /\ Placed(AfterT(count, tcb, n), AfterC(count, n))
      /\ \A m \in Node :
           /\ AfterC(count, n)[m] = IF m \in ToSet(PathOf(n)) THEN count[m] - 1 ELSE count[m]
           /\ AfterT(count, tcb, n)[m] = IF m \in ToSet(PathOf(n)) /\ count[m] = 1
                                         THEN <<>> ELSE tcb[m]
      /\ \A x : x \in InQueues(AfterQ(count, tcb, Rest, n), AfterT(count, tcb, n))
                  <=> x \in InQueues(Rest, tcb)
      /\ \A x : x \in ToSet(AfterQ(count, tcb, Rest, n)) <=>
                  x \in ToSet(Rest) \/ Wakes(count, tcb, n, x)
  BY <1>1, <1>2, Release
<1>5. /\ \A x, y : InFront(Rest, x, y) => InFront(main', x, y)
      /\ \A x \in ToSet(Rest) : \A y :
           Wakes(count, tcb, n, y) => InFront(main', x, y)
      /\ n \in Value /\ count[n] = 1 /\ count[P] = 1 =>
           \A x \in ToSet(tcb[n]), y \in ToSet(tcb[P]) : InFront(main', x, y)
  BY <1>1, <1>2, <1>3, ReleaseOrder
<1>6. Placed(tcb, count)'
  <2>1. Placed(tcb', count')
    BY <1>3, <1>4
  <2> QED BY <2>1 DEF Placed, MayWait
<1>7. \A x : x \in Queued' <=> x \in Queued /\ x # <<c, i>>
  BY <1>2, <1>3, <1>4 DEF Queued
<1>8. \A x : InMain(x)' <=> (InMain(x) /\ x # <<c, i>>) \/ Wakes(count, tcb, n, x)
  BY <1>2, <1>3, <1>4 DEF InMain
<1>9. \A x, y : InFront(main, x, y) /\ x # <<c, i>> => InFront(main', x, y)
  BY <1>2, <1>5
<1>10. \A x, y : InMain(x) /\ x # <<c, i>> /\ Wakes(count, tcb, n, y) =>
                   InFront(main', x, y)
  BY <1>2, <1>5
<1> QED BY <1>3, <1>4, <1>5, <1>6, <1>7, <1>8, <1>9, <1>10
-----------------------------------------------------------------------------
(***************************************************************************)
(* The calls that make values and contents, and the end of the variable:   *)
(* they change nothing that an exchange has.                               *)
(***************************************************************************)
LEMMA XPathApart ==
  \A i : /\ \A j : /\ XPathC(i) = XPathC(j) <=> i = j
                   /\ XPathC(i) # ElementC(j) /\ XPathC(i) # ElementEndC(j)
                   /\ XPathC(i) # StringC(j)
         /\ XPathC(i) # Self /\ XPathC(i) # FirstC /\ XPathC(i) # VariableC
BY DEF ElementC, ElementEndC, StringC, XPathC, Self, FirstC, VariableC

LEMMA StringApart ==
  \A i : /\ \A j : /\ StringC(i) = StringC(j) <=> i = j
                   /\ StringC(i) # ElementC(j) /\ StringC(i) # ElementEndC(j)
                   /\ StringC(i) # XPathC(j)
         /\ StringC(i) # Self /\ StringC(i) # FirstC /\ StringC(i) # VariableC
BY DEF ElementC, ElementEndC, StringC, XPathC, Self, FirstC, VariableC

LEMMA ElementApart ==
  \A i : /\ \A j : /\ ElementC(i) = ElementC(j) <=> i = j
                   /\ ElementC(i) # StringC(j) /\ ElementC(i) # ElementEndC(j)
                   /\ ElementC(i) # XPathC(j)
         /\ ElementC(i) # Self /\ ElementC(i) # FirstC /\ ElementC(i) # VariableC
BY DEF ElementC, ElementEndC, StringC, XPathC, Self, FirstC, VariableC

LEMMA ElementEndApart ==
  \A i : /\ \A j : /\ ElementEndC(i) = ElementEndC(j) <=> i = j
                   /\ ElementEndC(i) # StringC(j) /\ ElementEndC(i) # ElementC(j)
                   /\ ElementEndC(i) # XPathC(j)
         /\ ElementEndC(i) # Self /\ ElementEndC(i) # FirstC /\ ElementEndC(i) # VariableC
BY DEF ElementC, ElementEndC, StringC, XPathC, Self, FirstC, VariableC

LEMMA SelfApart ==
  /\ \A j : Self # StringC(j) /\ Self # ElementC(j) /\ Self # ElementEndC(j) /\ Self # XPathC(j)
  /\ Self # FirstC /\ Self # VariableC
BY DEF ElementC, ElementEndC, StringC, XPathC, Self, FirstC, VariableC

LEMMA VariableApart ==
  /\ \A j : /\ VariableC # StringC(j) /\ VariableC # ElementC(j)
            /\ VariableC # ElementEndC(j) /\ VariableC # XPathC(j)
  /\ VariableC # FirstC /\ VariableC # Self
BY DEF ElementC, ElementEndC, StringC, XPathC, Self, FirstC, VariableC

\* What the sheet means stays what it is.
LEMMA SheetStays ==
  ASSUME UNCHANGED host
  PROVE  /\ config' = config /\ MeantRequest' = MeantRequest /\ MeantTest' = MeantTest
         /\ \A i : (Means(i)' <=> Means(i)) /\ Meaning(i)' = Meaning(i)
<1>1. config' = config
  BY DEF host
<1>2. \A i : (Means(i)' <=> Means(i)) /\ Meaning(i)' = Meaning(i)
  BY <1>1 DEF Means, Meaning
<1>3. MeantTest' = MeantTest
  BY <1>1 DEF MeantTest
<1>4. MeantRequest' = MeantRequest
  BY <1>1 DEF MeantRequest, Contradictory, MeantInBody, Means
<1> QED BY <1>1, <1>2, <1>3, <1>4

LEMMA VerdictStays ==
  ASSUME UNCHANGED <<answer, host>>
  PROVE  Verdict' = Verdict
<1>1. MeantTest' = MeantTest /\ ended' = ended /\ status' = status
  BY SheetStays DEF answer
<1> QED BY <1>1 DEF Verdict, E!Succeeds

Quiet == UNCHANGED <<stage, subrequest, answer, result, host>> /\ Goes /\ running

LEMMA QuietKeeps ==
  ASSUME IInv, Quiet, FirstC \notin Queued'
  PROVE  /\ Fresh' /\ Heard' /\ HostInStep' /\ DoneIsComplete'
         /\ UNCHANGED E!vars
<1>1. /\ stage' = stage /\ request' = request /\ icb' = icb /\ status' = status
      /\ parsed' = parsed /\ ended' = ended /\ result' = result /\ refused' = refused
      /\ over' = over /\ cur' = cur /\ running' = running /\ running
      /\ UNCHANGED host /\ UNCHANGED answer
  BY DEF Quiet, Goes, subrequest, answer, host
<1>2. /\ config' = config /\ MeantRequest' = MeantRequest /\ MeantTest' = MeantTest
      /\ Verdict' = Verdict
  BY <1>1, SheetStays, VerdictStays
<1>3. Fresh'
  BY DEF Fresh
<1>4. Heard'
  BY <1>1, <1>2 DEF Heard, IInv
<1>5. "DONE" \notin cur /\ HostInStep'
  BY <1>1 DEF HostInStep, HostWaits, IInv
<1>6. DoneIsComplete'
  BY <1>1, <1>5 DEF DoneIsComplete
<1>7. UNCHANGED E!vars
  BY <1>1, <1>2 DEF E!vars
<1> QED BY <1>3, <1>4, <1>5, <1>6, <1>7

\* The values as functions.
LEMMA ValTyped ==
  ASSUME IInv
  PROVE  DOMAIN val = Item /\ \A i \in Item : val[i] \in {Meaning(i), "NULL", "empty"} \cup Bool
BY DEF IInv, ValuesKnown, TypeOK
-----------------------------------------------------------------------------
Kept == IInv' /\ [E!Next]_(E!vars)

\* While a value is made, what the include and the contents wait for stays.
LEMMA XPathCallKeeps ==
  ASSUME IInv, NEW i \in Item, XPathCall(i)
  PROVE  Kept
<1> DEFINE n == Asker(i)
<1>1. /\ Calls("xpath", i) /\ Releases(n) /\ Goes
      /\ val' = [val EXCEPT ![i] = Meaning(i)]
      /\ UNCHANGED <<stage, made, subrequest, answer, result, host>>
  BY DEF XPathCall
<1>2. XPathC(i) \in Queued /\ InMain(XPathC(i)) /\ running
  BY <1>1, Takes DEF XPathC
<1>3. i \in Value \cup {"success"} /\ config.how[i] = "xpath"
  BY <1>2 DEF IInv, CallsInStep
<1>4. /\ i \in Value => n = P /\ i # "success"
      /\ i \notin Value => n = S /\ i = "success"
      /\ P # S /\ P \in Node /\ S \in Node
  BY <1>3, ItemsApart, NodesApart, NodeIs DEF Asker
<1> HIDE DEF n
<1>5. n \in Awaited /\ n \in { P, S } /\ ToSet(PathOf(n)) = { n, I, Doc }
  BY <1>4, PathSets DEF Awaited
<1>6. \A m \in { n, I, Doc } : count[m] > 0
  BY <1>2, <1>3, <1>4, <1>5, Held
<1>7. /\ count' \in [Node -> Nat] /\ tcb' \in [Node -> Seq(Call)] /\ main' \in Seq(Call)
      /\ QueuesApart(main', tcb') /\ Placed(tcb, count)'
      /\ \A m \in Node :
           count'[m] = IF m \in { n, I, Doc } THEN count[m] - 1 ELSE count[m]
      /\ \A x : x \in Queued' <=> x \in Queued /\ x # XPathC(i)
      /\ \A x : InMain(x)' <=> (InMain(x) /\ x # XPathC(i)) \/ Wakes(count, tcb, n, x)
      /\ \A x, y : InFront(main, x, y) /\ x # XPathC(i) => InFront(main', x, y)
      /\ \A x, y : InMain(x) /\ x # XPathC(i) /\ Wakes(count, tcb, n, y) =>
                     InFront(main', x, y)
  BY <1>1, <1>5, <1>6, Releasing DEF XPathC
<1>8. \A x : Wakes(count, tcb, n, x) <=> x = Self /\ count[n] = 1 /\ Self \in ToSet(tcb[n])
  BY <1>5, WakesAre, QueueTypes DEF IInv
<1>9. /\ FirstC \notin Queued /\ VariableC \notin Queued
      /\ FirstC \notin Queued' /\ VariableC \notin Queued'
  BY <1>2, <1>7, Alone, XPathApart
<1>10. Quiet
  BY <1>1, <1>2 DEF Quiet
<1>11. Fresh' /\ Heard' /\ HostInStep' /\ DoneIsComplete' /\ UNCHANGED E!vars
  BY <1>9, <1>10, QuietKeeps
<1>12. /\ stage' = stage /\ made' = made /\ result' = result /\ status' = status
       /\ parsed' = parsed /\ ended' = ended /\ request' = request /\ icb' = icb
       /\ refused' = refused /\ over' = over /\ cur' = cur /\ running' = running
       /\ config' = config /\ UNCHANGED host /\ UNCHANGED answer
  BY <1>1 DEF subrequest, answer, host, Goes
<1>13. /\ \A j : (Means(j)' <=> Means(j)) /\ Meaning(j)' = Meaning(j)
       /\ Verdict' = Verdict
  BY <1>12, SheetStays, VerdictStays
<1>14. \A j : /\ ElementC(j) \in Queued' <=> ElementC(j) \in Queued
              /\ ElementEndC(j) \in Queued' <=> ElementEndC(j) \in Queued
              /\ StringC(j) \in Queued' <=> StringC(j) \in Queued
              /\ XPathC(j) \in Queued' <=> XPathC(j) \in Queued /\ j # i
              /\ InMain(ElementEndC(j))' <=> InMain(ElementEndC(j))
              /\ InMain(StringC(j))' <=> InMain(StringC(j))
              /\ InMain(XPathC(j))' <=> InMain(XPathC(j)) /\ j # i
  <2> SUFFICES ASSUME NEW j
       PROVE  /\ ElementC(j) \in Queued' <=> ElementC(j) \in Queued
              /\ ElementEndC(j) \in Queued' <=> ElementEndC(j) \in Queued
              /\ StringC(j) \in Queued' <=> StringC(j) \in Queued
              /\ XPathC(j) \in Queued' <=> XPathC(j) \in Queued /\ j # i
              /\ InMain(ElementEndC(j))' <=> InMain(ElementEndC(j))
              /\ InMain(StringC(j))' <=> InMain(StringC(j))
              /\ InMain(XPathC(j))' <=> InMain(XPathC(j)) /\ j # i
    OBVIOUS
  <2>1. /\ XPathC(i) # ElementC(j) /\ XPathC(i) # ElementEndC(j) /\ XPathC(i) # StringC(j)
        /\ XPathC(i) = XPathC(j) <=> i = j
    BY XPathApart
  <2>2. Self # StringC(j) /\ Self # ElementEndC(j) /\ Self # XPathC(j)
    BY SelfApart
  <2> QED BY <1>7, <1>8, <2>1, <2>2
<1>15. /\ Self \in Queued' <=> Self \in Queued
       /\ ~ InMain(Self)
       /\ InMain(Self)' => count[n] = 1 /\ Self \in ToSet(tcb[n])
  BY <1>2, <1>7, <1>8, XPathApart DEF IInv, Ordered
<1>16. InMain(Self)' => IF i \in Value THEN stage \in Params ELSE stage = "SUCCESS_TEST_END"
  BY <1>4, <1>15, Waits, NodesApart DEF IInv
<1>17. \A j : ElementC(j) \notin Queued
  <2>1. ASSUME NEW j, ElementC(j) \in Queued PROVE FALSE
    <3>1. j \in Item
      BY <2>1, QueuedTyped
    <3>2. InFront(main, ElementC(j), Self)
      BY <2>1, <3>1 DEF IInv, Ordered
    <3>3. InMain(Self)
      BY <3>2, QueueTypes, InFrontMembers DEF IInv, InMain
    <3> QED BY <1>15, <3>3
  <2> QED BY <2>1
<1>18. TypeOK'
  <2>1. ASSUME NEW j \in Item
        PROVE  val'[j] \in {Meaning(j)', "NULL", "empty"} \cup Bool
    BY <1>1, <1>13, ValTyped
  <2> QED BY <1>7, <1>12, <2>1 DEF TypeOK, IInv
<1>19. Counted'
  <2> DEFINE own == One(FirstC \notin Queued /\ result = {})
  <2>1. own' = own
    BY <1>9, <1>12 DEF One
  <2> HIDE DEF own
  <2>2. /\ count[Var] \in {0, 1} /\ count[Doc] = count[Var] + count[I]
        /\ count[I] = own + count[P] + count[S] + count[R]
        /\ \A j \in Value : count[j] = One(ElementEndC(j) \in Queued)
        /\ count[S] = One(XPathC("success") \in Queued)
    BY DEF IInv, Counted, own
  <2>3. own \in Nat
    BY DEF own, One
  <2>4. /\ count'[Var] = count[Var] /\ count'[I] = count[I] - 1 /\ count'[Doc] = count[Doc] - 1
        /\ count'[R] = count[R]
        /\ n = P => count'[P] = count[P] - 1 /\ count'[S] = count[S]
        /\ n = S => count'[P] = count[P] /\ count'[S] = count[S] - 1
    BY <1>4, <1>5, <1>7, NodesApart, NodeIs
  <2>5. count'[Doc] = count'[Var] + count'[I]
    BY <2>2, <2>4, Held
  <2>6. count'[I] = own' + count'[P] + count'[S] + count'[R]
    <3>1. /\ count[P] \in Nat /\ count[S] \in Nat /\ count[R] \in Nat /\ count[I] \in Nat
      BY Held
    <3> QED BY <1>5, <2>1, <2>2, <2>3, <2>4, <3>1
  <2>7. \A j \in Value : count'[j] = One(ElementEndC(j) \in Queued)'
    BY <1>5, <1>7, <1>14, <2>2, NodeIs DEF One
  <2>8. count'[S] = One(XPathC("success") \in Queued)'
    <3>1. CASE i = "success"
      <4>1. count[S] = 1 /\ count'[S] = 0
        BY <1>2, <1>4, <2>4, <3>1, ItemsApart, Held
      <4> QED BY <1>14, <3>1, <4>1 DEF One
    <3>2. CASE i # "success"
      <4>1. count'[S] = count[S]
        BY <1>3, <1>4, <2>4, <3>2
      <4> QED BY <1>14, <2>2, <3>2, <4>1 DEF One
    <3> QED BY <3>1, <3>2
  <2> QED BY <2>2, <2>4, <2>5, <2>6, <2>7, <2>8 DEF Counted, own
<1>20. ParamsCounted'
  <2>1. count[P] = Cardinality(Unready) /\ Cardinality(Unready) \in Nat
    BY <1>15, UnreadyIs DEF IInv, ParamsCounted
  <2>2. ASSUME i \in Value PROVE count'[P] = Cardinality(Unready')
    <3>1. XPathC(i) \in Unready
      BY <1>2, <2>2, UnreadyIs
    <3>2. Cardinality(Unready') = Cardinality(Unready) - 1
      BY <1>7, <3>1, UnreadyLess
    <3> QED BY <1>4, <1>7, <2>1, <2>2, <3>2
  <2>3. ASSUME i \notin Value PROVE count'[P] = Cardinality(Unready')
    <3>1. Unready' = Unready
      BY <1>14, <2>3, UnreadySame
    <3> QED BY <1>4, <1>7, <2>1, <2>3, <3>1, NodesApart
  <2>4. ASSUME stage = "PARAMS_BEGIN", InMain(Self)' PROVE count'[P] = 0
    <3>1. n = P /\ count[P] = 1
      BY <1>4, <1>15, <1>16, <2>4
    <3> QED BY <1>4, <1>7, <3>1
  <2> QED BY <1>12, <1>14, <1>17, <2>2, <2>3, <2>4 DEF ParamsCounted
<1>21. ResultCounted'
  <2>1. ContentWaits' <=> ContentWaits
    BY <1>14 DEF ContentWaits
  <2>2. count'[R] = count[R]
    BY <1>5, <1>7, NodesApart, NodeIs
  <2>3. ~ Entered
    BY <1>15 DEF IInv, ResultCounted
  <2>4. ~ Entered'
    BY <1>12, <2>2, <2>3 DEF Entered
  <2>5. count'[R] = One(ContentWaits)' + One(Entered)'
    BY <2>1, <2>2, <2>3, <2>4 DEF One, IInv, ResultCounted
  <2>6. InMain(Self)' => stage # "END"
    BY <1>16 DEF Params
  <2>7. ASSUME stage = "SUCCESS_TEST_END", InMain(Self)' PROVE count'[S] = 0
    <3>1. n = S /\ count[S] = 1
      BY <1>4, <1>15, <1>16, <2>7 DEF Params
    <3> QED BY <1>4, <1>7, <3>1
  <2> QED BY <1>12, <2>4, <2>5, <2>6, <2>7 DEF ResultCounted
<1>22. ASSUME InMain(Self)', NEW j \in Item
       PROVE  XPathC(j) \notin Queued' /\ ElementEndC(j) \notin Queued'
  <2>1. CASE i \in Value
    <3>1. stage \in Params /\ count[P] = 1
      BY <1>4, <1>15, <1>16, <1>22, <2>1
    <3>2. XPathC(i) \in Unready /\ count[P] = Cardinality(Unready)
      BY <1>2, <1>15, <2>1, UnreadyIs DEF IInv, ParamsCounted
    <3>3. Unready' = {}
      BY <1>7, <3>1, <3>2, UnreadyLess
    <3>4. j \in Value => XPathC(j) \notin Queued' /\ ElementEndC(j) \notin Queued'
      BY <3>3 DEF Unready, XPathC, ElementEndC
    <3>5. XPathC("success") \notin Queued
      BY <3>1 DEF IInv, CallsInStep, Params
    <3>6. ASSUME j \in Content, ElementEndC(j) \in Queued PROVE FALSE
      BY <3>1, <3>6 DEF IInv, CallsInStep, Entered, Params, Content
    <3>7. XPathC(j) \in Queued => j \in Value \cup {"success"}
      BY DEF IInv, CallsInStep
    <3>8. ElementEndC(j) \in Queued => j \in Value \cup Content
      BY DEF IInv, CallsInStep
    <3> QED BY <1>14, <3>4, <3>5, <3>6, <3>7, <3>8
  <2>2. CASE i \notin Value
    <3>1. stage = "SUCCESS_TEST_END" /\ i = "success"
      BY <1>4, <1>16, <1>22, <2>2
    <3>2. j \in Value => XPathC(j) \notin Queued /\ ElementEndC(j) \notin Queued
      BY <3>1 DEF IInv, CallsInStep, Round
    <3>3. ASSUME j \in Content, ElementEndC(j) \in Queued PROVE FALSE
      BY <3>1, <3>3 DEF IInv, CallsInStep, Entered, Content
    <3>4. XPathC(j) \in Queued => j \in Value \cup {"success"}
      BY DEF IInv, CallsInStep
    <3>5. ElementEndC(j) \in Queued => j \in Value \cup Content
      BY DEF IInv, CallsInStep
    <3> QED BY <1>14, <3>1, <3>2, <3>3, <3>4, <3>5
  <2> QED BY <2>1, <2>2
<1>23. Ordered'
  <2>1. \A x : InMain(x)' => x \in Queued'
    BY DEF InMain, Queued, InQueues
  <2>2. ASSUME NEW j \in Item, InMain(StringC(j))', InMain(Self)'
        PROVE  InFront(main', StringC(j), Self)
    BY <1>7, <1>8, <1>14, <1>15, <2>2, XPathApart
  <2>3. ASSUME NEW j \in Item
        PROVE  StringC(j) \in Queued' => \/ ElementC(j) \in Queued' \/ ElementEndC(j) \in Queued'
                                         \/ j \in made'
    BY <1>12, <1>14 DEF IInv, Ordered
  <2> QED BY <1>9, <1>14, <1>17, <1>22, <2>1, <2>2, <2>3 DEF Ordered
<1>24. Entered' <=> Entered
  BY <1>5, <1>7, <1>12, NodesApart, NodeIs DEF Entered
<1>25. CallsInStep'
  BY <1>12, <1>13, <1>14, <1>15, <1>24 DEF IInv, CallsInStep, Round
<1>26. ValuesKnown'
  <2>1. /\ val' = [j \in Item |-> val'[j]]
        /\ \A j \in Item : val'[j] = IF j = i THEN Meaning(i) ELSE val[j]
    BY <1>1, ValTyped
  <2>2. \A j \in Item : UnderWay(j)' <=> UnderWay(j) /\ j # i
    BY <1>3, <1>14 DEF UnderWay, IInv, CallsInStep
  <2>3. \A j \in First : Answered(j)' \/ UnderWay(j)'
    <3> SUFFICES ASSUME NEW j \in First PROVE Answered(j)' \/ UnderWay(j)'
      OBVIOUS
    <3>1. Answered(j) \/ UnderWay(j)
      BY <1>9 DEF IInv, ValuesKnown
    <3>2. j \in Item
      BY ItemIs DEF Value
    <3> QED BY <1>3, <1>12, <1>13, <2>1, <2>2, <3>1, <3>2 DEF Answered
  <2>4. ASSUME NEW j \in Second
        PROVE  /\ stage = "PARAMS_BEGIN" \/ ~ Means(j) => val'[j] = "NULL"
               /\ stage # "PARAMS_BEGIN" /\ Means(j) => val'[j] = Meaning(j) \/ UnderWay(j)'
    <3>1. j \in Item /\ j \in Value /\ j \notin First
      BY ItemIs, ItemsApart DEF Value
    <3>2. j = i => stage = "PARAMS_END" /\ Means(j)
      BY <1>2, <3>1 DEF IInv, CallsInStep, Round
    <3>3. /\ stage = "PARAMS_BEGIN" \/ ~ Means(j) => val[j] = "NULL"
          /\ stage # "PARAMS_BEGIN" /\ Means(j) => val[j] = Meaning(j) \/ UnderWay(j)
      BY DEF IInv, ValuesKnown
    <3> QED BY <2>1, <2>2, <3>1, <3>2, <3>3
  <2>5. stage = "SUCCESS_TEST_END" =>
          val'["success"] = Meaning("success") \/ XPathC("success") \in Queued'
    BY <1>14, <2>1, ItemIs DEF IInv, ValuesKnown
  <2> QED BY <1>9, <1>12, <1>13, <2>1, <2>3, <2>4, <2>5 DEF ValuesKnown
<1>27. Replaces'
  BY <1>12, <1>13, <1>14, <1>15, <1>24 DEF IInv, Replaces
<1> QED BY <1>7, <1>11, <1>18, <1>19, <1>20, <1>21, <1>23, <1>25, <1>26, <1>27 DEF Kept, IInv

\* Without a call of the include in the main queue no element is left to run.
LEMMA NoElement ==
  ASSUME IInv, ~ InMain(Self)
  PROVE  \A j : ElementC(j) \notin Queued
<1> SUFFICES ASSUME NEW j, ElementC(j) \in Queued PROVE FALSE
  OBVIOUS
<1>1. j \in Item
  BY QueuedTyped
<1>2. InFront(main, ElementC(j), Self)
  BY <1>1 DEF IInv, Ordered
<1>3. InMain(Self)
  BY <1>2, QueueTypes, InFrontMembers DEF IInv, InMain
<1> QED BY <1>3

LEMMA QuietFacts ==
  ASSUME Quiet
  PROVE  /\ stage' = stage /\ result' = result /\ status' = status
         /\ parsed' = parsed /\ ended' = ended /\ request' = request /\ icb' = icb
         /\ refused' = refused /\ over' = over /\ cur' = cur /\ running' = running
         /\ config' = config
         /\ \A j : (Means(j)' <=> Means(j)) /\ Meaning(j)' = Meaning(j)
         /\ Verdict' = Verdict
<1>1. UNCHANGED host /\ UNCHANGED answer
  BY DEF Quiet
<1>2. /\ \A j : (Means(j)' <=> Means(j)) /\ Meaning(j)' = Meaning(j)
      /\ Verdict' = Verdict
  BY <1>1, SheetStays, VerdictStays
<1> QED BY <1>2 DEF Quiet, subrequest, answer, host, Goes

LEMMA ValueEndKeeps ==
  ASSUME IInv, NEW i \in Value, ElementEnd(i)
  PROVE  Kept
<1>1. /\ Calls("elementEnd", i) /\ Releases(i) /\ Goes
      /\ made' = made \cup {i} /\ val' = val
      /\ UNCHANGED <<stage, subrequest, answer, result, host>>
  <2>1. Tmp(i) = i
    BY ItemsApart DEF Tmp, Content
  <2> QED BY <2>1 DEF ElementEnd
<1>2. ElementEndC(i) \in Queued /\ InMain(ElementEndC(i)) /\ running
  BY <1>1, Takes DEF ElementEndC
<1>3. i \in Item /\ i \in Node /\ i \notin { Doc, Var, I, P, S, R } /\ i \notin Content
  BY ItemIs, NodeIs, ItemsApart
<1>5. i \in Awaited /\ ToSet(PathOf(i)) = { i, P, I, Doc }
  BY PathSets DEF Awaited
<1>6. count[i] = 1 /\ \A m \in { i, P, I, Doc } : count[m] > 0
  <2>1. count[i] = 1 /\ count[P] > 0
    BY <1>2, Held
  <2>2. count[I] > 0 /\ count[Doc] > 0
    BY <2>1, Held
  <2> QED BY <2>1, <2>2
<1>7. /\ count' \in [Node -> Nat] /\ tcb' \in [Node -> Seq(Call)] /\ main' \in Seq(Call)
      /\ QueuesApart(main', tcb') /\ Placed(tcb, count)'
      /\ \A m \in Node :
           count'[m] = IF m \in { i, P, I, Doc } THEN count[m] - 1 ELSE count[m]
      /\ \A x : x \in Queued' <=> x \in Queued /\ x # ElementEndC(i)
      /\ \A x : InMain(x)' <=> (InMain(x) /\ x # ElementEndC(i)) \/ Wakes(count, tcb, i, x)
      /\ \A x, y : InFront(main, x, y) /\ x # ElementEndC(i) => InFront(main', x, y)
      /\ \A x, y : InMain(x) /\ x # ElementEndC(i) /\ Wakes(count, tcb, i, y) =>
                     InFront(main', x, y)
      /\ count[i] = 1 /\ count[P] = 1 =>
           \A x \in ToSet(tcb[i]), y \in ToSet(tcb[P]) : InFront(main', x, y)
  BY <1>1, <1>5, <1>6, Releasing DEF ElementEndC
<1>8. \A x : Wakes(count, tcb, i, x) <=>
               \/ x = StringC(i) /\ StringC(i) \in ToSet(tcb[i])
               \/ x = Self /\ count[P] = 1 /\ Self \in ToSet(tcb[P])
  <2>1. /\ Placed(tcb, count)
        /\ count \in [Node -> Nat] /\ tcb \in [Node -> Seq(Call)]
    BY QueueTypes DEF IInv
  <2>2. \A x : Wakes(count, tcb, i, x) <=>
               \/ x = StringC(i) /\ count[i] = 1 /\ x \in ToSet(tcb[i])
               \/ x = Self /\ count[P] = 1 /\ x \in ToSet(tcb[P])
    BY <2>1, WakesAre
  <2> QED BY <1>6, <2>2
<1>9. /\ FirstC \notin Queued /\ VariableC \notin Queued
      /\ FirstC \notin Queued' /\ VariableC \notin Queued'
  BY <1>2, <1>7, Alone, ElementEndApart
<1>10. Quiet
  BY <1>1, <1>2 DEF Quiet
<1>11. Fresh' /\ Heard' /\ HostInStep' /\ DoneIsComplete' /\ UNCHANGED E!vars
  BY <1>9, <1>10, QuietKeeps
<1>12. /\ stage' = stage /\ result' = result /\ status' = status
       /\ parsed' = parsed /\ ended' = ended /\ request' = request /\ icb' = icb
       /\ refused' = refused /\ over' = over /\ cur' = cur /\ running' = running
       /\ config' = config
       /\ \A j : (Means(j)' <=> Means(j)) /\ Meaning(j)' = Meaning(j)
       /\ Verdict' = Verdict
  BY <1>10, QuietFacts
<1>14. ASSUME NEW j
       PROVE  /\ ElementC(j) \in Queued' <=> ElementC(j) \in Queued
              /\ ElementEndC(j) \in Queued' <=> ElementEndC(j) \in Queued /\ j # i
              /\ StringC(j) \in Queued' <=> StringC(j) \in Queued
              /\ XPathC(j) \in Queued' <=> XPathC(j) \in Queued
              /\ InMain(ElementEndC(j))' => InMain(ElementEndC(j)) /\ j # i
              /\ InMain(StringC(j))' =>
                   InMain(StringC(j)) \/ (j = i /\ StringC(i) \in ToSet(tcb[i]))
              /\ InMain(XPathC(j))' => InMain(XPathC(j))
  <2>1. /\ ElementEndC(i) # ElementC(j) /\ ElementEndC(i) # XPathC(j)
        /\ ElementEndC(i) # StringC(j)
        /\ ElementEndC(i) = ElementEndC(j) <=> i = j
    BY ElementEndApart
  <2>2. Self # StringC(j) /\ Self # ElementEndC(j) /\ Self # XPathC(j)
    BY SelfApart
  <2>3. /\ StringC(i) # ElementEndC(j) /\ StringC(i) # XPathC(j)
        /\ StringC(i) = StringC(j) <=> i = j
    BY StringApart
  <2> QED BY <1>7, <1>8, <2>1, <2>2, <2>3
<1>15. /\ Self \in Queued' <=> Self \in Queued
       /\ ~ InMain(Self)
       /\ InMain(Self)' => count[P] = 1 /\ Self \in ToSet(tcb[P])
  <2>1. Self # ElementEndC(i) /\ Self # StringC(i)
    BY SelfApart
  <2> QED BY <1>2, <1>3, <1>7, <1>8, <2>1 DEF IInv, Ordered
<1>16. InMain(Self)' => stage \in Params
  <2>1. Placed(tcb, count) /\ P \in Node
    BY NodeIs DEF IInv
  <2> QED BY <1>15, <2>1, Waits, NodesApart
<1>17. \A j : ElementC(j) \notin Queued
  BY <1>15, NoElement
<1>18. TypeOK'
  BY <1>1, <1>3, <1>7, <1>12 DEF TypeOK, IInv
<1>19. Counted'
  <2> DEFINE own == One(FirstC \notin Queued /\ result = {})
  <2>1. own' = own
    BY <1>9, <1>12 DEF One
  <2> HIDE DEF own
  <2>2. /\ count[Var] \in {0, 1} /\ count[Doc] = count[Var] + count[I]
        /\ count[I] = own + count[P] + count[S] + count[R]
        /\ \A j \in Value : count[j] = One(ElementEndC(j) \in Queued)
        /\ count[S] = One(XPathC("success") \in Queued)
    BY DEF IInv, Counted, own
  <2>3. own \in Nat
    BY DEF own, One
  <2>4. /\ count'[Var] = count[Var] /\ count'[I] = count[I] - 1 /\ count'[Doc] = count[Doc] - 1
        /\ count'[R] = count[R] /\ count'[P] = count[P] - 1 /\ count'[S] = count[S]
    BY <1>3, <1>7, NodesApart, NodeIs
  <2>5. /\ count[P] \in Nat /\ count[S] \in Nat /\ count[R] \in Nat /\ count[I] \in Nat
        /\ count[Var] \in Nat /\ count[Doc] \in Nat
    BY Held
  <2>6. count'[Doc] = count'[Var] + count'[I]
    BY <2>2, <2>4, <2>5
  <2>7. count'[I] = own' + count'[P] + count'[S] + count'[R]
    BY <2>1, <2>2, <2>3, <2>4, <2>5
  <2>8. \A j \in Value : count'[j] = One(ElementEndC(j) \in Queued)'
    <3> SUFFICES ASSUME NEW j \in Value PROVE count'[j] = One(ElementEndC(j) \in Queued)'
      OBVIOUS
    <3>1. count'[j] = IF j = i THEN count[j] - 1 ELSE count[j]
      BY <1>7, NodeIs
    <3> QED BY <1>6, <1>14, <2>2, <3>1 DEF One
  <2>9. count'[S] = One(XPathC("success") \in Queued)'
    BY <1>14, <2>2, <2>4 DEF One
  <2> QED BY <2>2, <2>4, <2>6, <2>7, <2>8, <2>9 DEF Counted, own
<1>20. /\ count'[P] = Cardinality(Unready')
       /\ InMain(Self)' => Unready' = {} /\ count'[P] = 0
  <2>1. count[P] = Cardinality(Unready) /\ Cardinality(Unready) \in Nat
    BY <1>15, UnreadyIs DEF IInv, ParamsCounted
  <2>2. ElementEndC(i) \in Unready
    BY <1>2, UnreadyIs
  <2>3. /\ Cardinality(Unready') = Cardinality(Unready) - 1
        /\ Cardinality(Unready) = 1 => Unready' = {}
    BY <1>7, <2>2, UnreadyLess
  <2>4. count'[P] = count[P] - 1
    BY <1>7, NodeIs
  <2> QED BY <1>15, <2>1, <2>3, <2>4
<1>21. ParamsCounted'
  BY <1>14, <1>17, <1>20 DEF ParamsCounted
<1>22. Entered' <=> Entered
  BY <1>3, <1>7, <1>12, NodesApart, NodeIs DEF Entered
<1>23. ~ Entered
  BY <1>15 DEF IInv, ResultCounted
<1>24. ResultCounted'
  <2>1. ContentWaits' <=> ContentWaits
    BY <1>3, <1>14 DEF ContentWaits
  <2>2. count'[R] = count[R]
    BY <1>3, <1>7, NodesApart, NodeIs
  <2>3. count'[R] = One(ContentWaits)' + One(Entered)'
    BY <1>22, <2>1, <2>2 DEF One, IInv, ResultCounted
  <2>4. InMain(Self)' => stage # "END" /\ stage # "SUCCESS_TEST_END"
    BY <1>16 DEF Params
  <2> QED BY <1>12, <1>22, <1>23, <2>3, <2>4 DEF ResultCounted
<1>25. ASSUME InMain(Self)', NEW j \in Item
       PROVE  XPathC(j) \notin Queued' /\ ElementEndC(j) \notin Queued'
  <2>1. stage \in Params /\ Unready' = {}
    BY <1>16, <1>20, <1>25
  <2>2. j \in Value => XPathC(j) \notin Queued' /\ ElementEndC(j) \notin Queued'
    BY <2>1 DEF Unready, XPathC, ElementEndC
  <2>3. XPathC("success") \notin Queued
    BY <2>1 DEF IInv, CallsInStep, Params
  <2>4. ASSUME j \in Content, ElementEndC(j) \in Queued PROVE FALSE
    BY <2>1, <2>4 DEF IInv, CallsInStep, Entered, Params, Content
  <2>5. XPathC(j) \in Queued => j \in Value \cup {"success"}
    BY DEF IInv, CallsInStep
  <2>6. ElementEndC(j) \in Queued => j \in Value \cup Content
    BY DEF IInv, CallsInStep
  <2> QED BY <1>14, <2>2, <2>3, <2>4, <2>5, <2>6
<1>26. Ordered'
  <2>1. \A x : InMain(x)' => x \in Queued'
    BY DEF InMain, Queued, InQueues
  <2>2. ASSUME NEW j \in Item, InMain(StringC(j))', InMain(Self)'
        PROVE  InFront(main', StringC(j), Self)
    <3>1. Wakes(count, tcb, i, Self)
      BY <1>7, <1>15, <2>2
    <3>2. InMain(StringC(j)) => InFront(main', StringC(j), Self)
      <4>1. StringC(j) # ElementEndC(i)
        BY StringApart
      <4> QED BY <1>7, <3>1, <4>1
    <3>3. j = i /\ StringC(i) \in ToSet(tcb[i]) => InFront(main', StringC(j), Self)
      BY <1>6, <1>7, <1>15, <2>2
    <3> QED BY <1>14, <2>2, <3>2, <3>3
  <2>3. ASSUME NEW j \in Item
        PROVE  StringC(j) \in Queued' => \/ ElementC(j) \in Queued' \/ ElementEndC(j) \in Queued'
                                         \/ j \in made'
    BY <1>1, <1>14 DEF IInv, Ordered
  <2> QED BY <1>9, <1>14, <1>17, <1>25, <2>1, <2>2, <2>3 DEF Ordered
<1>27. CallsInStep'
  BY <1>12, <1>14, <1>15, <1>22 DEF IInv, CallsInStep, Round
<1>28. ValuesKnown'
  <2>1. \A j : UnderWay(j)' <=> UnderWay(j)
    BY <1>14 DEF UnderWay
  <2>2. \A j \in First : Answered(j)' <=> Answered(j)
    BY <1>1, <1>12 DEF Answered
  <2> QED BY <1>1, <1>9, <1>12, <1>14, <2>1, <2>2 DEF ValuesKnown, IInv
<1>29. Replaces'
  BY <1>1, <1>3, <1>12, <1>14, <1>15, <1>22 DEF IInv, Replaces
<1> QED BY <1>7, <1>11, <1>18, <1>19, <1>21, <1>24, <1>26, <1>27, <1>28, <1>29 DEF Kept, IInv

LEMMA ContentEndKeeps ==
  ASSUME IInv, NEW i \in Content, ElementEnd(i)
  PROVE  Kept
<1>1. /\ Calls("elementEnd", i) /\ Releases(R) /\ Goes
      /\ made' = made \cup {i} /\ val' = val
      /\ UNCHANGED <<stage, subrequest, answer, result, host>>
  <2>1. Tmp(i) = R
    BY DEF Tmp, Content
  <2> QED BY <2>1 DEF ElementEnd
<1>2. ElementEndC(i) \in Queued /\ InMain(ElementEndC(i)) /\ running
  BY <1>1, Takes DEF ElementEndC
<1>3. i \in Item /\ i \notin Value
  BY ItemIs, ItemsApart
<1>4. ~ InMain(Self) /\ ~ Entered /\ ContentWaits
  <2>1. ~ InMain(Self)
    BY <1>2, <1>3 DEF IInv, Ordered
  <2> QED BY <1>2, <2>1 DEF IInv, ResultCounted, ContentWaits
<1>5. R \in Awaited /\ ToSet(PathOf(R)) = { R, I, Doc } /\ R \in Node
  BY PathSets, NodeIs DEF Awaited
<1>6. count[R] = 1 /\ \A m \in { R, I, Doc } : count[m] > 0
  <2>1. count[R] = 1
    BY <1>4 DEF IInv, ResultCounted, One
  <2>2. count[I] > 0 /\ count[Doc] > 0
    BY <2>1, Held
  <2> QED BY <2>1, <2>2
<1>7. /\ count' \in [Node -> Nat] /\ tcb' \in [Node -> Seq(Call)] /\ main' \in Seq(Call)
      /\ QueuesApart(main', tcb') /\ Placed(tcb, count)'
      /\ \A m \in Node :
           count'[m] = IF m \in { R, I, Doc } THEN count[m] - 1 ELSE count[m]
      /\ \A x : x \in Queued' <=> x \in Queued /\ x # ElementEndC(i)
      /\ \A x : InMain(x)' <=> (InMain(x) /\ x # ElementEndC(i)) \/ Wakes(count, tcb, R, x)
      /\ \A x, y : InMain(x) /\ x # ElementEndC(i) /\ Wakes(count, tcb, R, y) =>
                     InFront(main', x, y)
  BY <1>1, <1>5, <1>6, Releasing DEF ElementEndC
<1>8. \A x : Wakes(count, tcb, R, x) <=> x = Self /\ Self \in ToSet(tcb[R])
  <2>1. /\ Placed(tcb, count)
        /\ count \in [Node -> Nat] /\ tcb \in [Node -> Seq(Call)]
    BY QueueTypes DEF IInv
  <2>2. \A x : Wakes(count, tcb, R, x) <=> x = Self /\ count[R] = 1 /\ Self \in ToSet(tcb[R])
    BY <2>1, WakesAre
  <2> QED BY <1>6, <2>2
<1>9. /\ FirstC \notin Queued /\ VariableC \notin Queued
      /\ FirstC \notin Queued' /\ VariableC \notin Queued'
  BY <1>2, <1>7, Alone, ElementEndApart
<1>10. Quiet
  BY <1>1, <1>2 DEF Quiet
<1>11. Fresh' /\ Heard' /\ HostInStep' /\ DoneIsComplete' /\ UNCHANGED E!vars
  BY <1>9, <1>10, QuietKeeps
<1>12. /\ stage' = stage /\ result' = result /\ status' = status
       /\ parsed' = parsed /\ ended' = ended /\ request' = request /\ icb' = icb
       /\ refused' = refused /\ over' = over /\ cur' = cur /\ running' = running
       /\ config' = config
       /\ \A j : (Means(j)' <=> Means(j)) /\ Meaning(j)' = Meaning(j)
       /\ Verdict' = Verdict
  BY <1>10, QuietFacts
<1>13. stage = "END" /\ i = Verdict
  BY <1>2, <1>4 DEF IInv, CallsInStep
<1>14. ASSUME NEW j
       PROVE  /\ ElementC(j) \in Queued' <=> ElementC(j) \in Queued
              /\ ElementEndC(j) \in Queued' <=> ElementEndC(j) \in Queued /\ j # i
              /\ StringC(j) \in Queued' <=> StringC(j) \in Queued
              /\ XPathC(j) \in Queued' <=> XPathC(j) \in Queued
              /\ InMain(StringC(j))' <=> InMain(StringC(j))
  <2>1. /\ ElementEndC(i) # ElementC(j) /\ ElementEndC(i) # XPathC(j)
        /\ ElementEndC(i) # StringC(j)
        /\ ElementEndC(i) = ElementEndC(j) <=> i = j
    BY ElementEndApart
  <2>2. Self # StringC(j)
    BY SelfApart
  <2> QED BY <1>7, <1>8, <2>1, <2>2
<1>15. Self \in Queued' <=> Self \in Queued
  <2>1. Self # ElementEndC(i)
    BY SelfApart
  <2> QED BY <1>7, <2>1
<1>17. \A j : ElementC(j) \notin Queued
  BY <1>4, NoElement
<1>18. TypeOK'
  BY <1>1, <1>3, <1>7, <1>12 DEF TypeOK, IInv
<1>19. Counted'
  <2> DEFINE own == One(FirstC \notin Queued /\ result = {})
  <2>1. own' = own
    BY <1>9, <1>12 DEF One
  <2> HIDE DEF own
  <2>2. /\ count[Var] \in {0, 1} /\ count[Doc] = count[Var] + count[I]
        /\ count[I] = own + count[P] + count[S] + count[R]
        /\ \A j \in Value : count[j] = One(ElementEndC(j) \in Queued)
        /\ count[S] = One(XPathC("success") \in Queued)
    BY DEF IInv, Counted, own
  <2>3. own \in Nat
    BY DEF own, One
  <2>4. /\ count'[Var] = count[Var] /\ count'[I] = count[I] - 1 /\ count'[Doc] = count[Doc] - 1
        /\ count'[R] = count[R] - 1 /\ count'[P] = count[P] /\ count'[S] = count[S]
    BY <1>7, NodesApart, NodeIs
  <2>5. /\ count[P] \in Nat /\ count[S] \in Nat /\ count[R] \in Nat /\ count[I] \in Nat
        /\ count[Var] \in Nat /\ count[Doc] \in Nat
    BY Held
  <2>6. count'[Doc] = count'[Var] + count'[I]
    BY <2>2, <2>4, <2>5
  <2>7. count'[I] = own' + count'[P] + count'[S] + count'[R]
    BY <2>1, <2>2, <2>3, <2>4, <2>5
  <2>8. \A j \in Value : count'[j] = One(ElementEndC(j) \in Queued)'
    <3> SUFFICES ASSUME NEW j \in Value PROVE count'[j] = One(ElementEndC(j) \in Queued)'
      OBVIOUS
    <3>1. count'[j] = count[j] /\ j # i
      BY <1>3, <1>7, NodeIs
    <3> QED BY <1>14, <2>2, <3>1 DEF One
  <2>9. count'[S] = One(XPathC("success") \in Queued)'
    BY <1>14, <2>2, <2>4 DEF One
  <2> QED BY <2>2, <2>4, <2>6, <2>7, <2>8, <2>9 DEF Counted, own
<1>20. ParamsCounted'
  <2>1. Unready' = Unready
    BY <1>3, <1>14, UnreadySame
  <2>2. count'[P] = count[P] /\ count[P] = Cardinality(Unready)
    BY <1>4, <1>7, NodesApart, NodeIs DEF IInv, ParamsCounted
  <2> QED BY <1>12, <1>13, <2>1, <2>2 DEF ParamsCounted
<1>21. ~ Entered'
  BY <1>12, <1>13 DEF Entered, Content
<1>22. ASSUME NEW s \in Content PROVE ElementEndC(s) \notin Queued'
  BY <1>13, <1>14 DEF IInv, CallsInStep
<1>24. ResultCounted'
  <2>1. ~ ContentWaits'
    BY <1>22 DEF ContentWaits
  <2>2. count'[R] = 0
    BY <1>5, <1>6, <1>7
  <2> QED BY <1>12, <1>13, <1>21, <2>1, <2>2 DEF ResultCounted, One
<1>25. ASSUME NEW j \in Item
       PROVE  XPathC(j) \notin Queued' /\ ElementEndC(j) \notin Queued'
  <2>1. j \in Value => XPathC(j) \notin Queued /\ ElementEndC(j) \notin Queued
    BY <1>13 DEF IInv, CallsInStep, Round
  <2>2. XPathC("success") \notin Queued
    BY <1>13 DEF IInv, CallsInStep
  <2>3. XPathC(j) \in Queued => j \in Value \cup {"success"}
    BY DEF IInv, CallsInStep
  <2>4. ElementEndC(j) \in Queued => j \in Value \cup Content
    BY DEF IInv, CallsInStep
  <2> QED BY <1>14, <1>22, <2>1, <2>2, <2>3, <2>4
<1>26. Ordered'
  <2>1. \A x : InMain(x)' => x \in Queued'
    BY DEF InMain, Queued, InQueues
  <2>2. ASSUME NEW j \in Item, InMain(StringC(j))', InMain(Self)'
        PROVE  InFront(main', StringC(j), Self)
    <3>1. Wakes(count, tcb, R, Self)
      BY <1>4, <1>7, <2>2
    <3>2. StringC(j) # ElementEndC(i) /\ InMain(StringC(j))
      BY <1>14, <2>2, StringApart
    <3> QED BY <1>7, <3>1, <3>2
  <2>3. ASSUME NEW j \in Item
        PROVE  StringC(j) \in Queued' => \/ ElementC(j) \in Queued' \/ ElementEndC(j) \in Queued'
                                         \/ j \in made'
    BY <1>1, <1>14 DEF IInv, Ordered
  <2> QED BY <1>9, <1>14, <1>17, <1>25, <2>1, <2>2, <2>3 DEF Ordered
<1>27. CallsInStep'
  BY <1>12, <1>13, <1>14, <1>15, <1>17, <1>25 DEF IInv, CallsInStep, Round
<1>28. ValuesKnown'
  <2>1. \A j : UnderWay(j)' <=> UnderWay(j)
    BY <1>14 DEF UnderWay
  <2>2. \A j \in First : Answered(j)' <=> Answered(j)
    BY <1>1, <1>12 DEF Answered
  <2> QED BY <1>1, <1>9, <1>12, <1>14, <2>1, <2>2 DEF ValuesKnown, IInv
<1>29. Replaces'
  <2>1. ended # "no"
    BY <1>13 DEF IInv, Heard, Params
  <2> QED BY <1>1, <1>12, <1>13, <1>15, <1>21, <2>1 DEF IInv, Replaces
<1> QED BY <1>7, <1>11, <1>18, <1>19, <1>20, <1>24, <1>26, <1>27, <1>28, <1>29 DEF Kept, IInv

LEMMA ElementEndKeeps ==
  ASSUME IInv, NEW i \in Item, ElementEnd(i)
  PROVE  Kept
<1>1. ElementEndC(i) \in Queued
  BY Takes DEF ElementEnd, ElementEndC
<1>2. i \in Value \cup Content
  BY <1>1 DEF IInv, CallsInStep
<1> QED BY <1>2, ValueEndKeeps, ContentEndKeeps

\* With the variable come all calls that read it.
LEMMA VariableEndKeeps ==
  ASSUME IInv, VariableEnd
  PROVE  Kept
<1>1. /\ Calls("variable", "self") /\ Releases(Var) /\ Goes
      /\ UNCHANGED <<stage, values, subrequest, answer, result, host>>
  BY DEF VariableEnd
<1>2. VariableC \in Queued /\ InMain(VariableC) /\ running
  BY <1>1, Takes DEF VariableC
<1>3. main = <<VariableC>> /\ count[Var] = 1
  BY <1>2 DEF IInv, Ordered
<1>4. \A x : InMain(x) <=> x = VariableC
  <2>1. \A x : ToSet(<<x>>) = {x}
    BY DEF ToSet
  <2> QED BY <1>3, <2>1 DEF InMain
<1>5. Var \in Awaited /\ ToSet(PathOf(Var)) = { Var, Doc } /\ Var \in Node /\ Doc \in Node
  BY PathSets, NodeIs DEF Awaited
<1>6. \A m \in { Var, Doc } : count[m] > 0
  BY <1>3, Held
<1>7. /\ count' \in [Node -> Nat] /\ tcb' \in [Node -> Seq(Call)] /\ main' \in Seq(Call)
      /\ QueuesApart(main', tcb') /\ Placed(tcb, count)'
      /\ \A m \in Node :
           count'[m] = IF m \in { Var, Doc } THEN count[m] - 1 ELSE count[m]
      /\ \A x : x \in Queued' <=> x \in Queued /\ x # VariableC
      /\ \A x : InMain(x)' <=> (InMain(x) /\ x # VariableC) \/ Wakes(count, tcb, Var, x)
  BY <1>1, <1>5, <1>6, Releasing DEF VariableC
<1>8. \A x : InMain(x)' => x \in ToSet(tcb[Var])
  <2>1. /\ Placed(tcb, count)
        /\ count \in [Node -> Nat] /\ tcb \in [Node -> Seq(Call)]
    BY QueueTypes DEF IInv
  <2>2. \A x : Wakes(count, tcb, Var, x) <=> count[Var] = 1 /\ x \in ToSet(tcb[Var])
    BY <2>1, WakesAre
  <2> QED BY <1>4, <1>7, <2>2
<1>9. /\ FirstC \notin Queued /\ FirstC \notin Queued' /\ VariableC \notin Queued'
  BY <1>2, <1>7, Alone, VariableApart
<1>10. Quiet
  BY <1>1, <1>2 DEF Quiet
<1>11. Fresh' /\ Heard' /\ HostInStep' /\ DoneIsComplete' /\ UNCHANGED E!vars
  BY <1>9, <1>10, QuietKeeps
<1>12. /\ stage' = stage /\ result' = result /\ status' = status
       /\ parsed' = parsed /\ ended' = ended /\ request' = request /\ icb' = icb
       /\ refused' = refused /\ over' = over /\ cur' = cur /\ running' = running
       /\ config' = config /\ val' = val /\ made' = made
       /\ \A j : (Means(j)' <=> Means(j)) /\ Meaning(j)' = Meaning(j)
       /\ Verdict' = Verdict
  BY <1>1, <1>10, QuietFacts DEF values
<1>13. ~ InMain(Self) /\ ~ InMain(Self)' /\ \A j : ~ InMain(StringC(j))'
  <2>1. /\ Placed(tcb, count) /\ Var \in Node
    BY NodeIs DEF IInv
  <2>2. Self \notin ToSet(tcb[Var]) /\ \A j : StringC(j) \in ToSet(tcb[Var]) => Var \in Value
    BY <2>1, Waits, NodesApart
  <2>3. Var \notin Value
    BY NodeIs
  <2> QED BY <1>4, <1>8, <2>2, <2>3, SelfApart, VariableApart
<1>14. /\ Self \in Queued' <=> Self \in Queued
       /\ \A j : /\ ElementC(j) \in Queued' <=> ElementC(j) \in Queued
                 /\ ElementEndC(j) \in Queued' <=> ElementEndC(j) \in Queued
                 /\ StringC(j) \in Queued' <=> StringC(j) \in Queued
                 /\ XPathC(j) \in Queued' <=> XPathC(j) \in Queued
  BY <1>7, VariableApart
<1>15. ~ Entered
  BY <1>13 DEF IInv, ResultCounted
<1>17. \A j : ElementC(j) \notin Queued
  BY <1>13, NoElement
<1>18. TypeOK'
  BY <1>7, <1>12 DEF TypeOK, IInv
<1>19. /\ count'[Var] = 0 /\ count'[I] = count[I] /\ count'[Doc] = count[Doc] - 1
       /\ count'[R] = count[R] /\ count'[P] = count[P] /\ count'[S] = count[S]
       /\ \A j \in Value : count'[j] = count[j]
  BY <1>3, <1>7, NodesApart, NodeIs
<1>20. Counted'
  <2>1. One(FirstC \notin Queued /\ result = {})' = One(FirstC \notin Queued /\ result = {})
    BY <1>9, <1>12 DEF One
  <2>2. count[Doc] = count[Var] + count[I]
    BY DEF IInv, Counted
  <2>3. count[I] = One(FirstC \notin Queued /\ result = {}) + count[P] + count[S] + count[R]
    BY DEF IInv, Counted
  <2>4. count'[Doc] = count'[Var] + count'[I]
    BY <1>3, <1>19, <2>2, Held
  <2>5. count'[I] = One(FirstC \notin Queued /\ result = {})' + count'[P] + count'[S] + count'[R]
    BY <1>19, <2>1, <2>3
  <2>6. \A j \in Value : count'[j] = One(ElementEndC(j) \in Queued)'
    BY <1>14, <1>19 DEF One, IInv, Counted
  <2>7. count'[S] = One(XPathC("success") \in Queued)'
    BY <1>14, <1>19 DEF One, IInv, Counted
  <2> QED BY <1>19, <2>4, <2>5, <2>6, <2>7 DEF Counted
<1>21. ParamsCounted'
  <2>1. Unready' = Unready
    BY <1>14, UnreadySame
  <2> QED BY <1>12, <1>13, <1>19, <2>1 DEF ParamsCounted, IInv
<1>22. Entered' <=> Entered
  BY <1>12, <1>19 DEF Entered
<1>24. ResultCounted'
  <2>1. ContentWaits' <=> ContentWaits
    BY <1>14 DEF ContentWaits
  <2>2. count'[R] = One(ContentWaits)' + One(Entered)'
    BY <1>19, <1>22, <2>1 DEF One, IInv, ResultCounted
  <2> QED BY <1>13, <1>15, <1>22, <2>2 DEF ResultCounted
<1>26. Ordered'
  <2>1. ASSUME NEW j \in Item
        PROVE  StringC(j) \in Queued' => \/ ElementC(j) \in Queued' \/ ElementEndC(j) \in Queued'
                                         \/ j \in made'
    BY <1>12, <1>14 DEF IInv, Ordered
  <2> QED BY <1>9, <1>13, <1>14, <1>17, <2>1 DEF Ordered
<1>27. CallsInStep'
  BY <1>12, <1>14, <1>22 DEF IInv, CallsInStep, Round
<1>28. ValuesKnown'
  <2>1. \A j : UnderWay(j)' <=> UnderWay(j)
    BY <1>14 DEF UnderWay
  <2>2. \A j \in First : Answered(j)' <=> Answered(j)
    BY <1>12 DEF Answered
  <2> QED BY <1>9, <1>12, <1>14, <2>1, <2>2 DEF ValuesKnown, IInv
<1>29. Replaces'
  BY <1>12, <1>14, <1>22 DEF IInv, Replaces
<1> QED BY <1>7, <1>11, <1>18, <1>20, <1>21, <1>24, <1>26, <1>27, <1>28, <1>29 DEF Kept, IInv

\* The call that is made leaves the main queue, and another one, or itself, is
\* left on a node.
LEMMA Parking ==
  ASSUME IInv, NEW c, NEW i, Calls(c, i), NEW n \in Node, NEW d \in Call,
         d \in Queued => d = <<c, i>>,
         main' = Rest, tcb' = Parked(tcb, n, d), count' \in [Node -> Nat],
         \A m \in Node : tcb[m] # <<>> => count'[m] > 0, count'[n] > 0,
         \A x, m : MayWait(x, m) /\ x # <<c, i>> => MayWait(x, m)', MayWait(d, n)'
  PROVE  /\ tcb' \in [Node -> Seq(Call)] /\ main' \in Seq(Call)
         /\ QueuesApart(main', tcb') /\ Placed(tcb, count)'
         /\ \A x : x \in Queued' <=> (x \in Queued /\ x # <<c, i>>) \/ x = d
         /\ \A x : InMain(x)' <=> InMain(x) /\ x # <<c, i>>
         /\ \A x, y : InFront(main, x, y) /\ x # <<c, i>> => InFront(main', x, y)
<1>1. /\ tcb \in [Node -> Seq(Call)] /\ Placed(tcb, count)
  BY QueueTypes DEF IInv
<1>2. /\ Rest \in Seq(Call) /\ QueuesApart(Rest, tcb)
      /\ \A x : x \in InQueues(Rest, tcb) <=> x \in Queued /\ x # <<c, i>>
      /\ \A x : x \in ToSet(Rest) <=> InMain(x) /\ x # <<c, i>>
      /\ \A m \in Node : <<c, i>> \notin ToSet(tcb[m])
      /\ \A x, y : InFront(main, x, y) /\ x # <<c, i>> => InFront(Rest, x, y)
  BY Takes
<1>3. d \notin InQueues(Rest, tcb)
  BY <1>2
<1>4. /\ Parked(tcb, n, d) \in [Node -> Seq(Call)]
      /\ QueuesApart(Rest, Parked(tcb, n, d))
      /\ InQueues(Rest, Parked(tcb, n, d)) = InQueues(Rest, tcb) \cup {d}
  <2>1. tcb \in [Node -> Seq(Call)] /\ Rest \in Seq(Call) /\ QueuesApart(Rest, tcb)
    BY <1>1, <1>2
  <2>2. ASSUME NEW q \in Seq(Call), NEW t \in [Node -> Seq(Call)],
               d \notin InQueues(q, t), QueuesApart(q, t)
        PROVE  /\ Parked(t, n, d) \in [Node -> Seq(Call)]
               /\ QueuesApart(q, Parked(t, n, d))
               /\ InQueues(q, Parked(t, n, d)) = InQueues(q, t) \cup {d}
    BY <2>2, ParkApart
  <2> QED BY <1>3, <2>1, <2>2
<1>5. \A x : x \in Queued' <=> (x \in Queued /\ x # <<c, i>>) \/ x = d
  BY <1>2, <1>4 DEF Queued
<1>6. \A x : InMain(x)' <=> InMain(x) /\ x # <<c, i>>
  BY <1>2 DEF InMain
<1>7. \A m \in Node : tcb'[m] = IF m = n THEN Append(tcb[m], d) ELSE tcb[m]
  BY <1>1 DEF Parked
<1>8. ASSUME NEW m \in Node
      PROVE  /\ tcb'[m] # <<>> => count'[m] > 0
             /\ \A x \in ToSet(tcb'[m]) : MayWait(x, m)'
  <2>1. \A x \in ToSet(tcb[m]) : MayWait(x, m) /\ x # <<c, i>>
    BY <1>1, <1>2 DEF Placed
  <2>2. \A x \in ToSet(tcb[m]) : MayWait(x, m)'
    BY <2>1
  <2>3. CASE m = n
    <3>1. tcb[m] \in Seq(Call) /\ tcb'[m] = Append(tcb[m], d)
      BY <1>1, <1>7, <2>3
    <3>2. ToSet(tcb'[m]) = ToSet(tcb[m]) \cup {d}
      BY <3>1, Appended
    <3> QED BY <2>2, <2>3, <3>2
  <2>4. CASE m # n
    BY <1>7, <2>2, <2>4
  <2> QED BY <2>3, <2>4
<1>9. Placed(tcb, count)'
  BY <1>8 DEF Placed
<1> QED BY <1>2, <1>4, <1>5, <1>6, <1>9

\* The call that is made leaves the main queue.
LEMMA Dropping ==
  ASSUME IInv, NEW c, NEW i, Calls(c, i),
         main' = Rest, tcb' = tcb, count' \in [Node -> Nat],
         \A m \in Node : tcb[m] # <<>> => count'[m] > 0,
         \A x, m : MayWait(x, m) /\ x # <<c, i>> => MayWait(x, m)'
  PROVE  /\ tcb' \in [Node -> Seq(Call)] /\ main' \in Seq(Call)
         /\ QueuesApart(main', tcb') /\ Placed(tcb, count)'
         /\ \A x : x \in Queued' <=> x \in Queued /\ x # <<c, i>>
         /\ \A x : InMain(x)' <=> InMain(x) /\ x # <<c, i>>
         /\ \A x, y : InFront(main, x, y) /\ x # <<c, i>> => InFront(main', x, y)
<1>1. /\ tcb \in [Node -> Seq(Call)] /\ Placed(tcb, count)
  BY QueueTypes DEF IInv
<1>2. /\ Rest \in Seq(Call) /\ QueuesApart(Rest, tcb)
      /\ \A x : x \in InQueues(Rest, tcb) <=> x \in Queued /\ x # <<c, i>>
      /\ \A x : x \in ToSet(Rest) <=> InMain(x) /\ x # <<c, i>>
      /\ \A m \in Node : <<c, i>> \notin ToSet(tcb[m])
      /\ \A x, y : InFront(main, x, y) /\ x # <<c, i>> => InFront(Rest, x, y)
  BY Takes
<1>3. \A x : x \in Queued' <=> x \in Queued /\ x # <<c, i>>
  BY <1>2 DEF Queued
<1>4. \A x : InMain(x)' <=> InMain(x) /\ x # <<c, i>>
  BY <1>2 DEF InMain
<1>5. ASSUME NEW m \in Node
      PROVE  /\ tcb'[m] # <<>> => count'[m] > 0
             /\ \A x \in ToSet(tcb'[m]) : MayWait(x, m)'
  <2>1. \A x \in ToSet(tcb[m]) : MayWait(x, m) /\ x # <<c, i>>
    BY <1>1, <1>2 DEF Placed
  <2> QED BY <2>1
<1>6. Placed(tcb, count)'
  BY <1>5 DEF Placed
<1> QED BY <1>1, <1>2, <1>3, <1>4, <1>6

LEMMA WaitsAlike ==
  ASSUME stage' = stage
  PROVE  \A x, m : MayWait(x, m)' <=> MayWait(x, m)
BY DEF MayWait

\* A node is held for one reason more.
LEMMA Holding ==
  ASSUME NEW f \in [Node -> Nat], NEW n \in Awaited
  PROVE  /\ Increased(f, PathOf(n)) \in [Node -> Nat]
         /\ \A m \in Node :
              Increased(f, PathOf(n))[m] = IF m \in ToSet(PathOf(n)) THEN f[m] + 1 ELSE f[m]
BY DEF Increased

LEMMA StringCallKeeps ==
  ASSUME IInv, NEW i \in Item, StringCall(i)
  PROVE  Kept
<1>1. /\ Calls("string", i) /\ main' = Rest /\ Goes
      /\ UNCHANGED <<count, stage, made, subrequest, answer, result, host>>
  BY DEF StringCall
<1>2. /\ StringC(i) \in Queued /\ InMain(StringC(i)) /\ running /\ StringC(i) \in Call
      /\ main # <<>> /\ Head(main) = StringC(i)
      /\ \A x : ~ InFront(main, x, StringC(i))
  BY <1>1, Takes DEF StringC, Calls
<1>3. i \in Value /\ config.how[i] = "list" /\ i \in Node /\ i \notin { "success" } \cup Content
  BY <1>2, NodeIs, ItemsApart DEF IInv, CallsInStep
<1>4. Tmp(i) = i
  BY <1>3 DEF Tmp, Content
<1>5. /\ count \in [Node -> Nat] /\ count' \in [Node -> Nat]
      /\ \A m \in Node : tcb[m] # <<>> => count'[m] > 0
      /\ \A x, m : MayWait(x, m)' <=> MayWait(x, m)
  BY <1>1, QueueTypes, WaitsAlike DEF IInv, Placed
<1>6. \/ /\ count[i] > 0
         /\ tcb' = Parked(tcb, i, StringC(i))
         /\ val' = val
      \/ /\ count[i] = 0
         /\ val' = [val EXCEPT ![i] = IF i \in made THEN Meaning(i) ELSE "empty"]
         /\ tcb' = tcb
  BY <1>2, <1>4 DEF StringCall
<1>7. /\ tcb' \in [Node -> Seq(Call)] /\ main' \in Seq(Call)
      /\ QueuesApart(main', tcb') /\ Placed(tcb, count)'
      /\ \A x : x # StringC(i) => (x \in Queued' <=> x \in Queued)
      /\ StringC(i) \in Queued' <=> count[i] > 0
      /\ \A x : InMain(x)' <=> InMain(x) /\ x # StringC(i)
      /\ \A x, y : InFront(main, x, y) /\ x # StringC(i) => InFront(main', x, y)
  <2>1. CASE count[i] > 0
    <3>1. MayWait(StringC(i), i)'
      BY <1>3 DEF MayWait
    <3>2. count'[i] > 0 /\ tcb' = Parked(tcb, i, StringC(i))
      BY <1>1, <1>6, <2>1
    <3>3. /\ tcb' \in [Node -> Seq(Call)] /\ main' \in Seq(Call)
          /\ QueuesApart(main', tcb') /\ Placed(tcb, count)'
          /\ \A x : x \in Queued' <=> (x \in Queued /\ x # StringC(i)) \/ x = StringC(i)
          /\ \A x : InMain(x)' <=> InMain(x) /\ x # StringC(i)
          /\ \A x, y : InFront(main, x, y) /\ x # StringC(i) => InFront(main', x, y)
      BY <1>1, <1>2, <1>3, <1>5, <3>1, <3>2, Parking DEF StringC
    <3> QED BY <2>1, <3>3
  <2>2. CASE count[i] = 0
    <3>1. tcb' = tcb
      BY <1>6, <2>2
    <3>2. /\ tcb' \in [Node -> Seq(Call)] /\ main' \in Seq(Call)
          /\ QueuesApart(main', tcb') /\ Placed(tcb, count)'
          /\ \A x : x \in Queued' <=> x \in Queued /\ x # StringC(i)
          /\ \A x : InMain(x)' <=> InMain(x) /\ x # StringC(i)
          /\ \A x, y : InFront(main, x, y) /\ x # StringC(i) => InFront(main', x, y)
      BY <1>1, <1>5, <3>1, Dropping DEF StringC
    <3> QED BY <2>2, <3>2
  <2> QED BY <1>3, <1>5, <2>1, <2>2
<1>8. count[i] = 0 => i \in made
  <2>1. ElementC(i) \notin Queued
    BY <1>2, <1>3 DEF IInv, Ordered
  <2>2. count[i] = 0 => ElementEndC(i) \notin Queued
    BY <1>3, Held
  <2> QED BY <1>2, <2>1, <2>2 DEF IInv, Ordered
<1>9. /\ FirstC \notin Queued /\ VariableC \notin Queued
      /\ FirstC \notin Queued' /\ VariableC \notin Queued'
  BY <1>2, <1>7, Alone, StringApart
<1>10. Quiet
  BY <1>1, <1>2 DEF Quiet
<1>11. Fresh' /\ Heard' /\ HostInStep' /\ DoneIsComplete' /\ UNCHANGED E!vars
  BY <1>9, <1>10, QuietKeeps
<1>12. /\ stage' = stage /\ result' = result /\ status' = status
       /\ parsed' = parsed /\ ended' = ended /\ request' = request /\ icb' = icb
       /\ refused' = refused /\ over' = over /\ cur' = cur /\ running' = running
       /\ config' = config /\ made' = made /\ count' = count
       /\ \A j : (Means(j)' <=> Means(j)) /\ Meaning(j)' = Meaning(j)
       /\ Verdict' = Verdict
  BY <1>1, <1>10, QuietFacts
<1>14. /\ Self \in Queued' <=> Self \in Queued
       /\ InMain(Self)' <=> InMain(Self)
       /\ \A j : /\ ElementC(j) \in Queued' <=> ElementC(j) \in Queued
                 /\ ElementEndC(j) \in Queued' <=> ElementEndC(j) \in Queued
                 /\ XPathC(j) \in Queued' <=> XPathC(j) \in Queued
                 /\ InMain(ElementEndC(j))' <=> InMain(ElementEndC(j))
                 /\ InMain(XPathC(j))' <=> InMain(XPathC(j))
                 /\ j # i => (StringC(j) \in Queued' <=> StringC(j) \in Queued)
                 /\ InMain(StringC(j))' => InMain(StringC(j)) /\ j # i
                 /\ StringC(j) \in Queued' => StringC(j) \in Queued
  BY <1>2, <1>7, StringApart
<1>15. TypeOK'
  <2>1. ASSUME NEW j \in Item
        PROVE  val'[j] \in {Meaning(j)', "NULL", "empty"} \cup Bool
    BY <1>6, <1>12, ValTyped
  <2> QED BY <1>5, <1>7, <1>12, <2>1 DEF TypeOK, IInv
<1>16. Counted'
  <2>1. One(FirstC \notin Queued /\ result = {})' = One(FirstC \notin Queued /\ result = {})
    BY <1>9, <1>12 DEF One
  <2>2. \A j \in Value : count'[j] = One(ElementEndC(j) \in Queued)'
    BY <1>12, <1>14 DEF One, IInv, Counted
  <2>3. count'[S] = One(XPathC("success") \in Queued)'
    BY <1>12, <1>14 DEF One, IInv, Counted
  <2> QED BY <1>12, <2>1, <2>2, <2>3 DEF Counted, IInv
<1>17. ParamsCounted'
  <2>1. Unready' = Unready
    BY <1>14, UnreadySame
  <2> QED BY <1>12, <1>14, <2>1 DEF ParamsCounted, IInv
<1>18. Entered' <=> Entered
  BY <1>12 DEF Entered
<1>19. ResultCounted'
  <2>1. ContentWaits' <=> ContentWaits
    BY <1>14 DEF ContentWaits
  <2>2. count'[R] = One(ContentWaits)' + One(Entered)'
    BY <1>12, <1>18, <2>1 DEF One, IInv, ResultCounted
  <2> QED BY <1>12, <1>14, <1>18, <2>2 DEF ResultCounted, IInv
<1>20. Ordered'
  <2> SUFFICES ASSUME NEW j \in Item
       PROVE
       /\ InMain(Self)' => ~ InMain(XPathC(j))' /\ ~ InMain(ElementEndC(j))'
       /\ ElementC(j) \in Queued' => InFront(main', ElementC(j), Self)
       /\ ElementC(j) \in Queued' /\ j \in Value => InFront(main', ElementC(j), StringC(j))
       /\ InMain(StringC(j))' /\ InMain(Self)' => InFront(main', StringC(j), Self)
       /\ StringC(j) \in Queued' =>
            ElementC(j) \in Queued' \/ ElementEndC(j) \in Queued' \/ j \in made'
    BY <1>9 DEF Ordered
  <2>1. /\ InMain(Self) => ~ InMain(XPathC(j)) /\ ~ InMain(ElementEndC(j))
        /\ ElementC(j) \in Queued => InFront(main, ElementC(j), Self)
        /\ ElementC(j) \in Queued /\ j \in Value => InFront(main, ElementC(j), StringC(j))
        /\ InMain(StringC(j)) /\ InMain(Self) => InFront(main, StringC(j), Self)
        /\ StringC(j) \in Queued =>
             ElementC(j) \in Queued \/ ElementEndC(j) \in Queued \/ j \in made
    BY DEF IInv, Ordered
  <2>2. ElementC(j) # StringC(i) /\ (j # i => StringC(j) # StringC(i))
    BY ElementApart, StringApart
  <2> QED BY <1>7, <1>12, <1>14, <2>1, <2>2
<1>21. CallsInStep'
  BY <1>12, <1>14, <1>18 DEF IInv, CallsInStep, Round
<1>22. ValuesKnown'
  <2>1. /\ val' = [j \in Item |-> val'[j]]
        /\ \A j \in Item : j # i => val'[j] = val[j]
        /\ count[i] = 0 => val'[i] = Meaning(i)
        /\ count[i] # 0 => val'[i] = val[i]
    <3>1. DOMAIN val = Item /\ val = [j \in Item |-> val[j]]
      BY DEF IInv, ValuesKnown
    <3>2. CASE count[i] > 0
      BY <1>6, <3>1, <3>2
    <3>3. CASE count[i] = 0
      <4>1. val' = [val EXCEPT ![i] = Meaning(i)]
        BY <1>6, <1>8, <3>3
      <4> QED BY <3>1, <3>3, <4>1
    <3> QED BY <1>6, <3>2, <3>3
  <2>2. /\ \A j \in Item : j # i => (UnderWay(j)' <=> UnderWay(j))
        /\ count[i] # 0 => UnderWay(i)'
    BY <1>3, <1>5, <1>7, <1>14 DEF UnderWay
  <2>3. \A j \in First : Answered(j)' \/ UnderWay(j)'
    <3> SUFFICES ASSUME NEW j \in First PROVE Answered(j)' \/ UnderWay(j)'
      OBVIOUS
    <3>1. Answered(j) \/ UnderWay(j)
      BY <1>9 DEF IInv, ValuesKnown
    <3>2. j \in Item
      BY ItemIs DEF Value
    <3> QED BY <1>3, <1>12, <2>1, <2>2, <3>1, <3>2 DEF Answered
  <2>4. ASSUME NEW j \in Second
        PROVE  /\ stage = "PARAMS_BEGIN" \/ ~ Means(j) => val'[j] = "NULL"
               /\ stage # "PARAMS_BEGIN" /\ Means(j) => val'[j] = Meaning(j) \/ UnderWay(j)'
    <3>1. j \in Item /\ j \in Value /\ j \notin First
      BY ItemIs, ItemsApart DEF Value
    <3>2. j = i => stage = "PARAMS_END" /\ Means(j)
      BY <1>2, <3>1 DEF IInv, CallsInStep, Round
    <3>3. /\ stage = "PARAMS_BEGIN" \/ ~ Means(j) => val[j] = "NULL"
          /\ stage # "PARAMS_BEGIN" /\ Means(j) => val[j] = Meaning(j) \/ UnderWay(j)
      BY DEF IInv, ValuesKnown
    <3> QED BY <2>1, <2>2, <3>1, <3>2, <3>3
  <2>5. stage = "SUCCESS_TEST_END" =>
          val'["success"] = Meaning("success") \/ XPathC("success") \in Queued'
    BY <1>3, <1>14, <2>1, ItemIs DEF IInv, ValuesKnown
  <2> QED BY <1>9, <1>12, <2>1, <2>3, <2>4, <2>5 DEF ValuesKnown
<1>23. Replaces'
  BY <1>12, <1>14, <1>18 DEF IInv, Replaces
<1> QED BY <1>7, <1>11, <1>15, <1>16, <1>17, <1>19, <1>20, <1>21, <1>22, <1>23 DEF Kept, IInv

\* An element that is run: it is made, or waits for the variable.
LEMMA ElementFacts ==
  ASSUME IInv, NEW i \in Item, Element(i), NEW n, n = Tmp(i)
  PROVE  /\ Quiet /\ val' = val /\ i \in Value \cup Content /\ config.how[i] = "list"
         /\ ElementC(i) \in Queued /\ ElementEndC(i) \notin Queued
         /\ InMain(Self) /\ InMain(Self)' /\ (Self \in Queued' <=> Self \in Queued)
         /\ n \in Awaited
         /\ count' \in [Node -> Nat] /\ tcb' \in [Node -> Seq(Call)] /\ main' \in Seq(Call)
         /\ QueuesApart(main', tcb') /\ Placed(tcb, count)'
         /\ \/ /\ count' = count /\ made' = made \cup {i}
               /\ \A x : x \in Queued' <=> x \in Queued /\ x # ElementC(i)
            \/ /\ \A m \in Node : count'[m] = IF m \in ToSet(PathOf(n)) THEN count[m] + 1
                                                                       ELSE count[m]
               /\ made' = made
               /\ \A x : x \in Queued' <=> (x \in Queued /\ x # ElementC(i)) \/ x = ElementEndC(i)
         /\ \A x : InMain(x)' <=> InMain(x) /\ x # ElementC(i)
         /\ \A x, y : InFront(main, x, y) /\ x # ElementC(i) => InFront(main', x, y)
         /\ FirstC \notin Queued /\ VariableC \notin Queued
         /\ FirstC \notin Queued' /\ VariableC \notin Queued'
<1>1. /\ Calls("element", i) /\ main' = Rest /\ Goes /\ val' = val
      /\ UNCHANGED <<stage, subrequest, answer, result, host>>
      /\ \/ VariableReady /\ made' = made \cup {i} /\ count' = count /\ tcb' = tcb
         \/ /\ ~ VariableReady /\ count' = Increased(count, PathOf(n))
            /\ tcb' = Parked(tcb, Var, ElementEndC(i)) /\ made' = made
  BY DEF Element, ElementEndC
<1>2. ElementC(i) \in Queued /\ InMain(ElementC(i)) /\ running
  BY <1>1, Takes DEF ElementC
<1>3. i \in Value \cup Content /\ config.how[i] = "list" /\ ElementEndC(i) \notin Queued
  BY <1>2 DEF IInv, CallsInStep
<1>4. n \in Awaited
  <2>1. i \in Content => n = R
    BY DEF Content, Tmp
  <2>2. i \in Value => n = i
    BY ItemsApart DEF Content, Tmp
  <2> QED BY <1>3, <2>1, <2>2 DEF Awaited
<1>5. InMain(Self)
  <2>1. InFront(main, ElementC(i), Self)
    BY <1>2 DEF IInv, Ordered
  <2> QED BY <2>1, QueueTypes, InFrontMembers DEF IInv, InMain
<1>6. /\ count \in [Node -> Nat] /\ Var \in Node
      /\ \A m \in Node : tcb[m] # <<>> => count[m] > 0
      /\ \A x, m : MayWait(x, m)' <=> MayWait(x, m)
  BY <1>1, QueueTypes, WaitsAlike, NodeIs DEF IInv, Placed
<1>7. CASE VariableReady /\ made' = made \cup {i} /\ count' = count /\ tcb' = tcb
  <2>1. \A m \in Node : tcb[m] # <<>> => count'[m] > 0
    BY <1>6, <1>7
  <2>2. /\ tcb' \in [Node -> Seq(Call)] /\ main' \in Seq(Call)
        /\ QueuesApart(main', tcb') /\ Placed(tcb, count)'
        /\ \A x : x \in Queued' <=> x \in Queued /\ x # ElementC(i)
        /\ \A x : InMain(x)' <=> InMain(x) /\ x # ElementC(i)
        /\ \A x, y : InFront(main, x, y) /\ x # ElementC(i) => InFront(main', x, y)
    BY <1>1, <1>6, <1>7, <2>1, Dropping DEF ElementC
  <2>3. /\ FirstC \notin Queued /\ VariableC \notin Queued
        /\ FirstC \notin Queued' /\ VariableC \notin Queued'
    BY <1>2, <2>2, Alone, ElementApart
  <2>4. InMain(Self)' /\ (Self \in Queued' <=> Self \in Queued)
    BY <1>5, <2>2, SelfApart
  <2> QED BY <1>1, <1>2, <1>3, <1>4, <1>5, <1>6, <1>7, <2>2, <2>3, <2>4 DEF Quiet
<1>8. CASE /\ ~ VariableReady /\ count' = Increased(count, PathOf(n))
           /\ tcb' = Parked(tcb, Var, ElementEndC(i)) /\ made' = made
  <2>1. /\ count' \in [Node -> Nat]
        /\ \A m \in Node : count'[m] = IF m \in ToSet(PathOf(n)) THEN count[m] + 1
                                                                ELSE count[m]
    BY <1>4, <1>6, <1>8, Holding
  <2>2. \A m \in Node : count[m] > 0 => count'[m] > 0
    BY <1>6, <2>1
  <2>3. count[Var] > 0
    BY <1>6, <1>8 DEF VariableReady
  <2>4. (\A m \in Node : tcb[m] # <<>> => count'[m] > 0) /\ count'[Var] > 0
    BY <1>6, <2>2, <2>3
  <2>5. MayWait(ElementEndC(i), Var)' /\ ElementEndC(i) \in Call
    BY CallsTyped DEF MayWait
  <2>6. /\ tcb' \in [Node -> Seq(Call)] /\ main' \in Seq(Call)
        /\ QueuesApart(main', tcb') /\ Placed(tcb, count)'
        /\ \A x : x \in Queued' <=> (x \in Queued /\ x # ElementC(i)) \/ x = ElementEndC(i)
        /\ \A x : InMain(x)' <=> InMain(x) /\ x # ElementC(i)
        /\ \A x, y : InFront(main, x, y) /\ x # ElementC(i) => InFront(main', x, y)
    BY <1>1, <1>3, <1>6, <1>8, <2>1, <2>4, <2>5, Parking DEF ElementC
  <2>7. /\ FirstC \notin Queued /\ VariableC \notin Queued
        /\ FirstC \notin Queued' /\ VariableC \notin Queued'
    BY <1>2, <2>6, Alone, ElementApart, ElementEndApart
  <2>8. InMain(Self)' /\ (Self \in Queued' <=> Self \in Queued)
    BY <1>5, <2>6, SelfApart
  <2> QED BY <1>1, <1>2, <1>3, <1>4, <1>5, <1>8, <2>1, <2>6, <2>7, <2>8 DEF Quiet
<1> QED BY <1>1, <1>7, <1>8

\* What the calls in the queues are is kept by an element.
LEMMA ElementOrder ==
  ASSUME IInv, NEW i \in Item, Element(i)
  PROVE  /\ Ordered'
         /\ \A j : /\ ElementC(j) \in Queued' <=> ElementC(j) \in Queued /\ j # i
                   /\ j # i => (ElementEndC(j) \in Queued' <=> ElementEndC(j) \in Queued)
                   /\ StringC(j) \in Queued' <=> StringC(j) \in Queued
                   /\ XPathC(j) \in Queued' <=> XPathC(j) \in Queued
<1> DEFINE n == Tmp(i)
<1>1. /\ ElementEndC(i) \notin Queued
      /\ InMain(Self) /\ InMain(Self)'
      /\ main' \in Seq(Call)
      /\ \/ /\ count' = count /\ made' = made \cup {i}
            /\ \A x : x \in Queued' <=> x \in Queued /\ x # ElementC(i)
         \/ /\ made' = made
            /\ \A x : x \in Queued' <=> (x \in Queued /\ x # ElementC(i)) \/ x = ElementEndC(i)
      /\ \A x : InMain(x)' <=> InMain(x) /\ x # ElementC(i)
      /\ \A x, y : InFront(main, x, y) /\ x # ElementC(i) => InFront(main', x, y)
      /\ VariableC \notin Queued'
  BY ElementFacts
<1>2. ASSUME NEW j
      PROVE  /\ ElementC(j) \in Queued' <=> ElementC(j) \in Queued /\ j # i
             /\ j # i => (ElementEndC(j) \in Queued' <=> ElementEndC(j) \in Queued)
             /\ StringC(j) \in Queued' <=> StringC(j) \in Queued
             /\ XPathC(j) \in Queued' <=> XPathC(j) \in Queued
             /\ InMain(ElementEndC(j))' <=> InMain(ElementEndC(j))
             /\ InMain(StringC(j))' <=> InMain(StringC(j))
             /\ InMain(XPathC(j))' <=> InMain(XPathC(j))
             /\ ElementEndC(i) \in Queued' \/ i \in made'
  <2>1. /\ ElementC(i) # ElementEndC(j) /\ ElementC(i) # XPathC(j)
        /\ ElementC(i) # StringC(j)
        /\ ElementC(i) = ElementC(j) <=> i = j
    BY ElementApart
  <2>2. /\ ElementEndC(i) # ElementC(j) /\ ElementEndC(i) # XPathC(j)
        /\ ElementEndC(i) # StringC(j)
        /\ ElementEndC(i) = ElementEndC(j) <=> i = j
    BY ElementEndApart
  <2> QED BY <1>1, <2>1, <2>2
<1>3. made \subseteq made'
  BY <1>1
<1>4. Ordered'
  <2> SUFFICES ASSUME NEW j \in Item
       PROVE
       /\ InMain(Self)' => ~ InMain(XPathC(j))' /\ ~ InMain(ElementEndC(j))'
       /\ ElementC(j) \in Queued' => InFront(main', ElementC(j), Self)
       /\ ElementC(j) \in Queued' /\ j \in Value => InFront(main', ElementC(j), StringC(j))
       /\ InMain(StringC(j))' /\ InMain(Self)' => InFront(main', StringC(j), Self)
       /\ StringC(j) \in Queued' =>
            ElementC(j) \in Queued' \/ ElementEndC(j) \in Queued' \/ j \in made'
    BY <1>1 DEF Ordered
  <2>1. /\ InMain(Self) => ~ InMain(XPathC(j)) /\ ~ InMain(ElementEndC(j))
        /\ ElementC(j) \in Queued => InFront(main, ElementC(j), Self)
        /\ ElementC(j) \in Queued /\ j \in Value => InFront(main, ElementC(j), StringC(j))
        /\ InMain(StringC(j)) /\ InMain(Self) => InFront(main, StringC(j), Self)
        /\ StringC(j) \in Queued =>
             ElementC(j) \in Queued \/ ElementEndC(j) \in Queued \/ j \in made
    BY DEF IInv, Ordered
  <2>2. StringC(j) # ElementC(i) /\ (j # i => ElementC(j) # ElementC(i))
    BY ElementApart, StringApart
  <2>3. /\ ElementC(j) \in Queued' <=> ElementC(j) \in Queued /\ j # i
        /\ j # i => (ElementEndC(j) \in Queued' <=> ElementEndC(j) \in Queued)
        /\ StringC(j) \in Queued' <=> StringC(j) \in Queued
        /\ InMain(ElementEndC(j))' <=> InMain(ElementEndC(j))
        /\ InMain(StringC(j))' <=> InMain(StringC(j))
        /\ InMain(XPathC(j))' <=> InMain(XPathC(j))
        /\ ElementEndC(i) \in Queued' \/ i \in made'
    BY <1>2
  <2>4. /\ InMain(Self)' => ~ InMain(XPathC(j))' /\ ~ InMain(ElementEndC(j))'
        /\ StringC(j) \in Queued' =>
             ElementC(j) \in Queued' \/ ElementEndC(j) \in Queued' \/ j \in made'
    BY <1>1, <1>3, <2>1, <2>3
  <2>5. /\ ElementC(j) \in Queued' => InFront(main', ElementC(j), Self)
        /\ ElementC(j) \in Queued' /\ j \in Value => InFront(main', ElementC(j), StringC(j))
    BY <1>1, <2>1, <2>2, <2>3
  <2>6. InMain(StringC(j))' /\ InMain(Self)' => InFront(main', StringC(j), Self)
    BY <1>1, <2>1, <2>2, <2>3
  <2> QED BY <2>4, <2>5, <2>6
<1> QED BY <1>2, <1>4

LEMMA ElementOfValueKeeps ==
  ASSUME IInv, NEW i \in Value, Element(i)
  PROVE  Kept
<1> DEFINE n == i
<1>0. n = Tmp(i) /\ i \in Item
  BY ItemIs, ItemsApart DEF Tmp, Content
<1>1. /\ Quiet /\ val' = val /\ config.how[i] = "list"
      /\ ElementC(i) \in Queued /\ ElementEndC(i) \notin Queued
      /\ InMain(Self) /\ InMain(Self)' /\ (Self \in Queued' <=> Self \in Queued)
      /\ count' \in [Node -> Nat] /\ tcb' \in [Node -> Seq(Call)] /\ main' \in Seq(Call)
      /\ QueuesApart(main', tcb') /\ Placed(tcb, count)'
      /\ \/ /\ count' = count /\ made' = made \cup {i}
            /\ \A x : x \in Queued' <=> x \in Queued /\ x # ElementC(i)
         \/ /\ \A m \in Node : count'[m] = IF m \in ToSet(PathOf(n)) THEN count[m] + 1
                                                                    ELSE count[m]
            /\ made' = made
            /\ \A x : x \in Queued' <=> (x \in Queued /\ x # ElementC(i)) \/ x = ElementEndC(i)
      /\ FirstC \notin Queued /\ VariableC \notin Queued
      /\ FirstC \notin Queued' /\ VariableC \notin Queued'
  BY <1>0, ElementFacts
<1>2. /\ Ordered'
      /\ \A j : /\ ElementC(j) \in Queued' <=> ElementC(j) \in Queued /\ j # i
                /\ j # i => (ElementEndC(j) \in Queued' <=> ElementEndC(j) \in Queued)
                /\ StringC(j) \in Queued' <=> StringC(j) \in Queued
                /\ XPathC(j) \in Queued' <=> XPathC(j) \in Queued
  BY <1>0, ElementOrder
<1>3. Fresh' /\ Heard' /\ HostInStep' /\ DoneIsComplete' /\ UNCHANGED E!vars
  BY <1>1, QuietKeeps
<1>4. /\ stage' = stage /\ result' = result /\ status' = status
      /\ parsed' = parsed /\ ended' = ended /\ request' = request /\ icb' = icb
      /\ refused' = refused /\ over' = over /\ cur' = cur /\ running' = running
      /\ config' = config
      /\ \A j : (Means(j)' <=> Means(j)) /\ Meaning(j)' = Meaning(j)
      /\ Verdict' = Verdict
  BY <1>1, QuietFacts
<1>5. made' \subseteq made \cup {i} /\ made \subseteq made'
  BY <1>1
<1>6. i \in Node /\ i \notin { Doc, Var, I, P, S, R } /\ i \notin Content
      /\ ToSet(PathOf(i)) = { i, P, I, Doc }
  BY NodeIs, ItemsApart, PathSets
<1>7. /\ count'[Var] = count[Var] /\ count'[S] = count[S] /\ count'[R] = count[R]
      /\ \A j \in Value : j # i => count'[j] = count[j]
      /\ \/ /\ count'[P] = count[P] /\ count'[I] = count[I] /\ count'[Doc] = count[Doc]
            /\ count'[i] = count[i] /\ ElementEndC(i) \notin Queued'
            /\ Cardinality(Unready') = Cardinality(Unready)
         \/ /\ count'[P] = count[P] + 1 /\ count'[I] = count[I] + 1
            /\ count'[Doc] = count[Doc] + 1
            /\ count'[i] = count[i] + 1 /\ ElementEndC(i) \in Queued'
            /\ Cardinality(Unready') = Cardinality(Unready) + 1
  <2>1. CASE /\ count' = count
             /\ \A x : x \in Queued' <=> x \in Queued /\ x # ElementC(i)
    <3>1. ElementEndC(i) \notin Queued'
      BY <1>1, <2>1
    <3>2. Unready' = Unready
      BY <1>1, <1>2, <3>1, UnreadySame
    <3> QED BY <2>1, <3>1, <3>2
  <2>2. CASE /\ \A m \in Node : count'[m] = IF m \in ToSet(PathOf(n)) THEN count[m] + 1
                                                                     ELSE count[m]
             /\ \A x : x \in Queued' <=> (x \in Queued /\ x # ElementC(i)) \/ x = ElementEndC(i)
    <3>1. ElementEndC(i) \in Queued'
      BY <2>2
    <3>2. Cardinality(Unready') = Cardinality(Unready) + 1
      BY <1>1, <2>2, UnreadyMore
    <3>3. \A m \in Node : count'[m] = IF m \in { i, P, I, Doc } THEN count[m] + 1 ELSE count[m]
      BY <1>6, <2>2
    <3>4. /\ count'[Var] = count[Var] /\ count'[S] = count[S] /\ count'[R] = count[R]
          /\ count'[P] = count[P] + 1 /\ count'[I] = count[I] + 1
          /\ count'[Doc] = count[Doc] + 1 /\ count'[i] = count[i] + 1
      BY <1>6, <3>3, NodesApart, NodeIs
    <3>5. \A j \in Value : j # i => count'[j] = count[j]
      BY <3>3, NodeIs
    <3> QED BY <3>1, <3>2, <3>4, <3>5
  <2> QED BY <1>1, <2>1, <2>2
<1>8. Round(i)
  BY <1>1 DEF IInv, CallsInStep
<1>9. TypeOK'
  BY <1>0, <1>1, <1>4, <1>5 DEF TypeOK, IInv
<1>11. Counted'
  <2> DEFINE own == One(FirstC \notin Queued /\ result = {})
  <2>1. own' = own
    BY <1>1, <1>4 DEF One
  <2> HIDE DEF own
  <2>2. /\ count[Var] \in {0, 1} /\ count[Doc] = count[Var] + count[I]
        /\ count[I] = own + count[P] + count[S] + count[R]
        /\ \A j \in Value : count[j] = One(ElementEndC(j) \in Queued)
        /\ count[S] = One(XPathC("success") \in Queued)
    BY DEF IInv, Counted, own
  <2>3. own \in Nat
    BY DEF own, One
  <2>5. /\ count[P] \in Nat /\ count[S] \in Nat /\ count[R] \in Nat /\ count[I] \in Nat
        /\ count[Var] \in Nat /\ count[Doc] \in Nat
    BY Held
  <2>6. count'[Doc] = count'[Var] + count'[I]
    BY <1>7, <2>2, <2>5
  <2>7. count'[I] = own' + count'[P] + count'[S] + count'[R]
    BY <1>7, <2>1, <2>2, <2>3, <2>5
  <2>8. \A j \in Value : count'[j] = One(ElementEndC(j) \in Queued)'
    <3> SUFFICES ASSUME NEW j \in Value PROVE count'[j] = One(ElementEndC(j) \in Queued)'
      OBVIOUS
    <3>1. CASE j = i
      <4>1. count[i] = 0
        BY <1>1, Held
      <4> QED BY <1>7, <3>1, <4>1 DEF One
    <3>2. CASE j # i
      BY <1>2, <1>7, <2>2, <3>2 DEF One
    <3> QED BY <3>1, <3>2
  <2>9. count'[S] = One(XPathC("success") \in Queued)'
    BY <1>2, <1>7, <2>2 DEF One
  <2> QED BY <1>7, <2>2, <2>6, <2>7, <2>8, <2>9 DEF Counted, own
<1>12. ParamsCounted'
  <2>1. Cardinality(Unready) \in Nat /\ count[P] \in Nat
    BY UnreadyIs, Held
  <2>2. stage = "PARAMS_BEGIN" => count[P] = Cardinality(Unready) + 1
    BY <1>1, <2>1 DEF IInv, ParamsCounted
  <2>3. stage # "PARAMS_BEGIN" => count[P] = Cardinality(Unready)
    BY DEF IInv, ParamsCounted
  <2>4. stage = "PARAMS_BEGIN" => count'[P] = Cardinality(Unready') + 1
    BY <1>7, <2>1, <2>2
  <2>5. stage # "PARAMS_BEGIN" => count'[P] = Cardinality(Unready')
    BY <1>7, <2>1, <2>3
  <2>6. Cardinality(Unready') \in Nat
    BY <1>7, <2>1
  <2> QED BY <1>1, <1>4, <2>4, <2>5, <2>6 DEF ParamsCounted
<1>13. Entered' <=> Entered
  BY <1>4, <1>7 DEF Entered
<1>14. ResultCounted'
  <2>1. ContentWaits' <=> ContentWaits
    BY <1>2, <1>6 DEF ContentWaits
  <2>2. count'[R] = One(ContentWaits)' + One(Entered)'
    BY <1>7, <1>13, <2>1 DEF One, IInv, ResultCounted
  <2> QED BY <1>1, <1>4, <1>7, <1>13, <2>2 DEF ResultCounted, IInv
<1>15. CallsInStep'
  BY <1>1, <1>2, <1>4, <1>8, <1>13, <1>6 DEF IInv, CallsInStep, Round
<1>16. ValuesKnown'
  <2>1. \A j : UnderWay(j)' <=> UnderWay(j)
    BY <1>2 DEF UnderWay
  <2>2. \A j \in First : Answered(j)' <=> Answered(j)
    BY <1>1, <1>4 DEF Answered
  <2> QED BY <1>1, <1>2, <1>4, <2>1, <2>2 DEF ValuesKnown, IInv
<1>17. Replaces'
  <2>1. made' \cap Content = made \cap Content
    BY <1>5, <1>6
  <2>2. Verdict \in Content
    BY DEF Verdict, Content
  <2>3. /\ ElementC(Verdict) \in Queued' <=> ElementC(Verdict) \in Queued
        /\ ElementEndC(Verdict) \in Queued' <=> ElementEndC(Verdict) \in Queued
        /\ Verdict \in made' <=> Verdict \in made
    BY <1>2, <1>6, <2>1, <2>2
  <2> QED BY <1>1, <1>4, <1>13, <2>1, <2>3 DEF IInv, Replaces
<1> QED BY <1>1, <1>2, <1>3, <1>9, <1>11, <1>12, <1>14, <1>15, <1>16, <1>17 DEF Kept, IInv

LEMMA ElementOfContentKeeps ==
  ASSUME IInv, NEW i \in Content, Element(i)
  PROVE  Kept
<1> DEFINE n == R
<1>0. n = Tmp(i) /\ i \in Item
  BY ItemIs DEF Tmp, Content
<1>1. /\ Quiet /\ val' = val /\ config.how[i] = "list"
      /\ ElementC(i) \in Queued /\ ElementEndC(i) \notin Queued
      /\ InMain(Self) /\ InMain(Self)' /\ (Self \in Queued' <=> Self \in Queued)
      /\ count' \in [Node -> Nat] /\ tcb' \in [Node -> Seq(Call)] /\ main' \in Seq(Call)
      /\ QueuesApart(main', tcb') /\ Placed(tcb, count)'
      /\ \/ /\ count' = count /\ made' = made \cup {i}
            /\ \A x : x \in Queued' <=> x \in Queued /\ x # ElementC(i)
         \/ /\ \A m \in Node : count'[m] = IF m \in ToSet(PathOf(n)) THEN count[m] + 1
                                                                    ELSE count[m]
            /\ made' = made
            /\ \A x : x \in Queued' <=> (x \in Queued /\ x # ElementC(i)) \/ x = ElementEndC(i)
      /\ FirstC \notin Queued /\ VariableC \notin Queued
      /\ FirstC \notin Queued' /\ VariableC \notin Queued'
  BY <1>0, ElementFacts
<1>2. /\ Ordered'
      /\ \A j : /\ ElementC(j) \in Queued' <=> ElementC(j) \in Queued /\ j # i
                /\ j # i => (ElementEndC(j) \in Queued' <=> ElementEndC(j) \in Queued)
                /\ StringC(j) \in Queued' <=> StringC(j) \in Queued
                /\ XPathC(j) \in Queued' <=> XPathC(j) \in Queued
  BY <1>0, ElementOrder
<1>3. Fresh' /\ Heard' /\ HostInStep' /\ DoneIsComplete' /\ UNCHANGED E!vars
  BY <1>1, QuietKeeps
<1>4. /\ stage' = stage /\ result' = result /\ status' = status
      /\ parsed' = parsed /\ ended' = ended /\ request' = request /\ icb' = icb
      /\ refused' = refused /\ over' = over /\ cur' = cur /\ running' = running
      /\ config' = config
      /\ \A j : (Means(j)' <=> Means(j)) /\ Meaning(j)' = Meaning(j)
      /\ Verdict' = Verdict
  BY <1>1, QuietFacts
<1>5. made' \subseteq made \cup {i} /\ made \subseteq made'
  BY <1>1
<1>6. /\ i \notin Value /\ R \in Node /\ ToSet(PathOf(R)) = { R, I, Doc }
      /\ stage = i /\ i = Verdict /\ Entered /\ ended # "no"
      /\ stage \notin { "END", "SUCCESS_TEST_END", "PARAMS_BEGIN" }
  <2>1. stage = i /\ Entered
    BY <1>1 DEF IInv, CallsInStep
  <2>2. i = Verdict /\ ended # "no"
    BY <2>1 DEF IInv, Heard, Content, Params
  <2> QED BY <2>1, <2>2, NodeIs, ItemsApart, PathSets DEF Content
<1>7. /\ count'[Var] = count[Var] /\ count'[S] = count[S] /\ count'[P] = count[P]
      /\ \A j \in Value : count'[j] = count[j]
      /\ \/ /\ count'[R] = count[R] /\ count'[I] = count[I] /\ count'[Doc] = count[Doc]
            /\ i \in made' /\ ElementEndC(i) \notin Queued'
         \/ /\ count'[R] = count[R] + 1 /\ count'[I] = count[I] + 1
            /\ count'[Doc] = count[Doc] + 1
            /\ made' = made /\ ElementEndC(i) \in Queued'
  <2>1. CASE /\ count' = count /\ made' = made \cup {i}
             /\ \A x : x \in Queued' <=> x \in Queued /\ x # ElementC(i)
    BY <1>1, <2>1
  <2>2. CASE /\ \A m \in Node : count'[m] = IF m \in ToSet(PathOf(n)) THEN count[m] + 1
                                                                     ELSE count[m]
             /\ made' = made
             /\ \A x : x \in Queued' <=> (x \in Queued /\ x # ElementC(i)) \/ x = ElementEndC(i)
    <3>1. ElementEndC(i) \in Queued'
      BY <2>2
    <3>3. \A m \in Node : count'[m] = IF m \in { R, I, Doc } THEN count[m] + 1 ELSE count[m]
      BY <1>6, <2>2
    <3>4. /\ count'[Var] = count[Var] /\ count'[S] = count[S] /\ count'[P] = count[P]
          /\ count'[R] = count[R] + 1 /\ count'[I] = count[I] + 1
          /\ count'[Doc] = count[Doc] + 1
      BY <3>3, NodesApart, NodeIs
    <3>5. \A j \in Value : count'[j] = count[j]
      BY <3>3, NodeIs
    <3> QED BY <2>2, <3>1, <3>4, <3>5
  <2> QED BY <1>1, <2>1, <2>2
<1>8. \A s \in Content : ElementEndC(s) \notin Queued /\ (ElementEndC(s) \in Queued' => s = i)
  <2> SUFFICES ASSUME NEW s \in Content
               PROVE  ElementEndC(s) \notin Queued /\ (ElementEndC(s) \in Queued' => s = i)
    OBVIOUS
  <2>1. ElementEndC(s) \in Queued => s = Verdict
    BY DEF IInv, CallsInStep
  <2> QED BY <1>1, <1>2, <1>6, <2>1
<1>9. TypeOK'
  BY <1>0, <1>1, <1>4, <1>5 DEF TypeOK, IInv
<1>11. Counted'
  <2> DEFINE own == One(FirstC \notin Queued /\ result = {})
  <2>1. own' = own
    BY <1>1, <1>4 DEF One
  <2> HIDE DEF own
  <2>2. /\ count[Var] \in {0, 1} /\ count[Doc] = count[Var] + count[I]
        /\ count[I] = own + count[P] + count[S] + count[R]
        /\ \A j \in Value : count[j] = One(ElementEndC(j) \in Queued)
        /\ count[S] = One(XPathC("success") \in Queued)
    BY DEF IInv, Counted, own
  <2>3. own \in Nat
    BY DEF own, One
  <2>5. /\ count[P] \in Nat /\ count[S] \in Nat /\ count[R] \in Nat /\ count[I] \in Nat
        /\ count[Var] \in Nat /\ count[Doc] \in Nat
    BY Held
  <2>6. count'[Doc] = count'[Var] + count'[I]
    BY <1>7, <2>2, <2>5
  <2>7. count'[I] = own' + count'[P] + count'[S] + count'[R]
    BY <1>7, <2>1, <2>2, <2>3, <2>5
  <2>8. \A j \in Value : count'[j] = One(ElementEndC(j) \in Queued)'
    BY <1>2, <1>6, <1>7, <2>2 DEF One
  <2>9. count'[S] = One(XPathC("success") \in Queued)'
    BY <1>2, <1>7, <2>2 DEF One
  <2> QED BY <1>7, <2>2, <2>6, <2>7, <2>8, <2>9 DEF Counted, own
<1>12. ParamsCounted'
  <2>1. \A j \in Value : j # i
    BY <1>6
  <2>2. Unready' = Unready
    BY <1>2, <2>1, UnreadySame
  <2>3. count'[P] = Cardinality(Unready')
    BY <1>6, <1>7, <2>2 DEF IInv, ParamsCounted
  <2> QED BY <1>4, <1>6, <2>3 DEF ParamsCounted
<1>13. count[R] = 1 /\ Entered'
  <2>1. ~ ContentWaits
    BY <1>8 DEF ContentWaits
  <2>2. count[R] = 1
    BY <1>6, <2>1 DEF IInv, ResultCounted, One
  <2> QED BY <1>4, <1>6, <1>7, <2>2 DEF Entered
<1>14. ResultCounted'
  <2>1. ContentWaits' <=> ElementEndC(i) \in Queued'
    BY <1>8 DEF ContentWaits
  <2>2. count'[R] = One(ContentWaits)' + One(Entered)'
    BY <1>7, <1>13, <2>1 DEF One
  <2> QED BY <1>1, <1>4, <1>6, <2>2 DEF ResultCounted
<1>15. CallsInStep'
  BY <1>1, <1>2, <1>4, <1>6, <1>8, <1>13 DEF IInv, CallsInStep, Round
<1>16. ValuesKnown'
  <2>1. \A j : UnderWay(j)' <=> UnderWay(j)
    BY <1>2 DEF UnderWay
  <2>2. \A j \in First : Answered(j)' <=> Answered(j)
    BY <1>1, <1>4 DEF Answered
  <2> QED BY <1>1, <1>2, <1>4, <2>1, <2>2 DEF ValuesKnown, IInv
<1>17. Replaces'
  <2>1. made' \cap Content \subseteq { s \in {Verdict} : ended # "no" }
    BY <1>5, <1>6 DEF IInv, Replaces
  <2>2. Verdict \in made' \/ ElementEndC(Verdict) \in Queued'
    BY <1>6, <1>7
  <2>3. result = {}
    BY <1>6 DEF IInv, Replaces
  <2> QED BY <1>4, <1>6, <2>1, <2>2, <2>3 DEF Replaces
<1> QED BY <1>1, <1>2, <1>3, <1>9, <1>11, <1>12, <1>14, <1>15, <1>16, <1>17 DEF Kept, IInv

LEMMA ElementKeeps ==
  ASSUME IInv, NEW i \in Item, Element(i)
  PROVE  Kept
<1>1. i \in Value \cup Content
  BY ElementFacts
<1> QED BY <1>1, ElementOfValueKeeps, ElementOfContentKeeps

LEMMA NothingQueued ==
  ASSUME NEW C, NEW s \in Seq(C), \A c : c \notin ToSet(s)
  PROVE  s = <<>>
<1>1. s # <<>> => 1 \in DOMAIN s
  OBVIOUS
<1>2. 1 \in DOMAIN s => s[1] \in ToSet(s)
  BY DEF ToSet
<1> QED BY <1>1, <1>2

\* When the include is called and waits for nothing, nothing else is queued.
LEMMA Settled ==
  ASSUME IInv, Calls("include", "self"), stage \in Params => Unready = {}, ~ ContentWaits
  PROVE  /\ Rest = <<>> /\ \A m \in Node : tcb[m] = <<>>
         /\ \A x : x \in Queued <=> x = Self
         /\ result = {} /\ count[S] = 0 /\ \A i \in Value : count[i] = 0
         /\ Unready = {}
<1>1. /\ Self \in Queued /\ InMain(Self)
      /\ \A x : x \in InQueues(Rest, tcb) <=> x \in Queued /\ x # Self
      /\ \A x : ~ InFront(main, x, Self)
      /\ Rest \in Seq(Call)
  BY Takes DEF Self
<1>2. FirstC \notin Queued /\ VariableC \notin Queued
  BY <1>1, Alone, SelfApart
<1>3. tcb \in [Node -> Seq(Call)] /\ DOMAIN tcb = Node /\ Placed(tcb, count) /\ main \in Seq(Call)
  BY QueueTypes DEF IInv
<1>4. ASSUME NEW i \in Item
      PROVE  /\ ElementC(i) \notin Queued /\ XPathC(i) \notin Queued
             /\ ElementEndC(i) \notin Queued /\ StringC(i) \notin Queued
  <2>1. ElementC(i) \notin Queued
    BY <1>1 DEF IInv, Ordered
  <2>2. ASSUME i \in Value PROVE XPathC(i) \notin Queued /\ ElementEndC(i) \notin Queued
    <3>1. CASE stage \in Params
      BY <2>2, <3>1, UnreadyIs
    <3>2. CASE stage \notin Params
      BY <2>2, <3>2 DEF IInv, CallsInStep, Round, Params
    <3> QED BY <3>1, <3>2
  <2>3. ASSUME i \in Content PROVE ElementEndC(i) \notin Queued
    BY <2>3 DEF ContentWaits
  <2>4. XPathC("success") \notin Queued
    <3>1. ASSUME XPathC("success") \in Queued PROVE FALSE
      <4>1. count[S] = 1 /\ stage = "SUCCESS_TEST_END"
        BY <3>1, Held DEF IInv, CallsInStep
      <4>2. count[S] = 0
        BY <1>1, <4>1 DEF IInv, ResultCounted
      <4> QED BY <4>1, <4>2
    <3> QED BY <3>1
  <2>5. XPathC(i) \notin Queued
    BY <2>2, <2>4 DEF IInv, CallsInStep
  <2>6. ElementEndC(i) \notin Queued
    BY <2>2, <2>3 DEF IInv, CallsInStep
  <2>7. StringC(i) \notin Queued
    <3>1. ASSUME StringC(i) \in Queued PROVE FALSE
      <4>1. i \in Value
        BY <3>1 DEF IInv, CallsInStep
      <4>2. ~ InMain(StringC(i))
        BY <1>1 DEF IInv, Ordered
      <4>3. StringC(i) \in ToSet(tcb[i])
        BY <1>3, <3>1, <4>1, <4>2, QueuedWhere DEF Queued, InMain
      <4>4. i \in Node /\ tcb[i] # <<>>
        BY <4>1, <4>3, NodeIs DEF ToSet
      <4>5. count[i] > 0
        BY <1>3, <4>4 DEF Placed
      <4> QED BY <2>6, <4>1, <4>5, Held
    <3> QED BY <3>1
  <2> QED BY <2>1, <2>5, <2>6, <2>7
<1>5. ASSUME NEW x \in Call PROVE x \in { Self, FirstC, VariableC } \/ \E i \in Item :
               x = ElementC(i) \/ x = ElementEndC(i) \/ x = StringC(i) \/ x = XPathC(i)
  BY DEF Call, Self, FirstC, VariableC, ElementC, ElementEndC, StringC, XPathC
<1>6. \A x : x \in Queued <=> x = Self
  BY <1>1, <1>2, <1>4, <1>5, QueuedTyped
<1>7. \A x : x \notin InQueues(Rest, tcb)
  BY <1>1, <1>6
<1>8. \A s \in Seq(Call) : (\A x : x \notin ToSet(s)) => s = <<>>
  BY NothingQueued
<1>9. Rest = <<>>
  BY <1>1, <1>7, <1>8 DEF InQueues
<1>10. ASSUME NEW m \in Node PROVE tcb[m] = <<>>
  <2>1. tcb[m] \in Seq(Call)
    BY <1>3
  <2>2. \A x : x \notin ToSet(tcb[m])
    BY <1>3, <1>7 DEF InQueues
  <2> QED BY <1>8, <2>1, <2>2
<1>11. count[S] = 0 /\ \A i \in Value : count[i] = 0
  <2>1. XPathC("success") \notin Queued
    BY <1>4, ItemIs
  <2>2. \A i \in Value : ElementEndC(i) \notin Queued
    BY <1>4, ItemIs
  <2> QED BY <2>1, <2>2, Held
<1>12. Unready = {}
  <2>1. \A i \in Value : XPathC(i) \notin Queued /\ ElementEndC(i) \notin Queued
    BY <1>4, ItemIs
  <2> QED BY <2>1, UnreadyIs
<1>13. result = {}
  BY <1>1 DEF IInv, CallsInStep
<1> QED BY <1>6, <1>9, <1>10, <1>11, <1>12, <1>13

\* Values are asked for when nothing else is queued.
LEMMA Asking ==
  ASSUME IInv, NEW is, is \subseteq Value, NEW q, q = <<>>, \A m \in Node : tcb[m] = <<>>,
         main' = q \o AskedMain(is) \o <<Self>>, tcb' = AskedTcb(is, tcb), config' = config,
         count' \in [Node -> Nat], count'[Var] = count[Var]
  PROVE  /\ tcb' \in [Node -> Seq(Call)] /\ main' \in Seq(Call)
         /\ QueuesApart(main', tcb') /\ Placed(tcb, count)' /\ Ordered'
         /\ InMain(Self)' /\ Self \in Queued' /\ FirstC \notin Queued' /\ VariableC \notin Queued'
         /\ \A j : /\ ElementC(j) \in Queued' <=> j \in Lists(is)
                   /\ StringC(j) \in Queued' <=> j \in Lists(is)
                   /\ XPathC(j) \in Queued' <=> j \in Waiting(is)
                   /\ ElementEndC(j) \notin Queued'
         /\ Cardinality(Unready') = Cardinality(Waiting(is))
         /\ Cardinality(Waiting(is)) \in Nat
<1> DEFINE a == AskedMain(is)
           x == AskedXPaths(is)
<1>1. /\ a \in Seq(Call) /\ IsInjective(a)
      /\ \A c : c \in ToSet(a) <=> \E i \in Lists(is) : c = ElementC(i) \/ c = StringC(i)
      /\ \A i \in Lists(is) : InFront(a, ElementC(i), StringC(i))
  BY AskedMainIs
<1>2. /\ x \in Seq(Call) /\ IsInjective(x)
      /\ \A c : c \in ToSet(x) <=> \E i \in Waiting(is) : c = XPathC(i)
  BY AskedXPathsAre
<1>3. tcb \in [Node -> Seq(Call)] /\ DOMAIN tcb = Node /\ Var \in Node
  BY QueueTypes, NodeIs DEF IInv
<1>4. tcb' = [tcb EXCEPT ![Var] = @ \o x]
  BY DEF AskedTcb, AskedXPaths
<1> HIDE DEF a, x
<1>5. \A m \in Node : tcb'[m] = IF m = Var THEN x ELSE <<>>
  <2>1. \A s \in Seq(Call) : <<>> \o s = s
    OBVIOUS
  <2> QED BY <1>2, <1>3, <1>4, <2>1
<1>6. tcb' \in [Node -> Seq(Call)] /\ DOMAIN tcb' = Node
  <2>1. x \in Seq(Call) /\ <<>> \in Seq(Call)
    BY <1>2
  <2> QED BY <1>3, <1>4, <1>5, <2>1
<1>7. main' = Append(a, Self)
  <2>1. \A s \in Seq(Call) : <<>> \o s = s
    OBVIOUS
  <2>2. \A s \in Seq(Call) : \A c \in Call : s \o <<c>> = Append(s, c)
    OBVIOUS
  <2> QED BY <1>1, <2>1, <2>2, CallsTyped DEF a
<1>8. Self \notin ToSet(a)
  BY <1>1, SelfApart
<1>9. /\ main' \in Seq(Call) /\ IsInjective(main') /\ ToSet(main') = ToSet(a) \cup {Self}
      /\ \A c, d : InFront(a, c, d) => InFront(main', c, d)
      /\ \A c \in ToSet(a) : InFront(main', c, Self)
  <2>1. Self \in Call
    BY CallsTyped
  <2>2. IsInjective(main') /\ ToSet(main') = ToSet(a) \cup {Self} /\ main' \in Seq(Call)
    <3>1. IsInjective(Append(a, Self)) /\ ToSet(Append(a, Self)) = ToSet(a) \cup {Self}
      BY <1>1, <1>8, <2>1, AppendsInjective
    <3>2. Append(a, Self) \in Seq(Call)
      BY <1>1, <2>1
    <3> QED BY <1>7, <3>1, <3>2
  <2>3. /\ \A c, d : InFront(a, c, d) => InFront(main', c, d)
        /\ \A c \in ToSet(a) : InFront(main', c, Self)
    <3>1. a \in Seq(Call)
      BY <1>1
    <3>2. ASSUME NEW c, NEW d
          PROVE  /\ InFront(a, c, d) => InFront(Append(a, Self), c, d)
                 /\ c \in ToSet(a) => InFront(Append(a, Self), c, Self)
      BY <2>1, <3>1, InFrontAppended
    <3> QED BY <1>7, <3>2
  <2> QED BY <2>2, <2>3
<1>10. \A c : c \notin ToSet(<<>>)
  BY DEF ToSet
<1>11. ToSet(main') \cap ToSet(x) = {}
  <2> SUFFICES ASSUME NEW c \in ToSet(main'), c \in ToSet(x) PROVE FALSE
    OBVIOUS
  <2>1. PICK i \in Waiting(is) : c = XPathC(i)
    BY <1>2
  <2> QED BY <1>1, <1>9, <2>1, XPathApart
<1>12. QueuesApart(main', tcb')
  <2>1. IsInjective(<<>>)
    BY DEF IsInjective
  <2>2. \A m \in Node : IsInjective(tcb'[m])
    BY <1>2, <1>5, <2>1
  <2>3. \A m \in Node : ToSet(main') \cap ToSet(tcb'[m]) = {}
    BY <1>5, <1>10, <1>11
  <2>4. \A m, n \in Node : m # n => ToSet(tcb'[m]) \cap ToSet(tcb'[n]) = {}
    BY <1>5, <1>10
  <2> QED BY <1>6, <1>9, <2>2, <2>3, <2>4 DEF QueuesApart
<1>13. \A c : c \in Queued' <=> c \in ToSet(a) \/ c = Self \/ c \in ToSet(x)
  <2>1. \A c : c \in InQueues(main', tcb') <=> c \in ToSet(main') \/ \E m \in Node : c \in ToSet(tcb'[m])
    BY <1>6 DEF InQueues
  <2> QED BY <1>3, <1>5, <1>9, <1>10, <2>1 DEF Queued
<1>20. \A c : InMain(c)' <=> c \in ToSet(a) \/ c = Self
  BY <1>9 DEF InMain
<1>14. ASSUME NEW j
       PROVE  /\ ElementC(j) \in Queued' <=> j \in Lists(is)
              /\ StringC(j) \in Queued' <=> j \in Lists(is)
              /\ XPathC(j) \in Queued' <=> j \in Waiting(is)
              /\ ElementEndC(j) \notin Queued'
              /\ ~ InMain(XPathC(j))' /\ ~ InMain(ElementEndC(j))'
              /\ InMain(ElementC(j))' => j \in Lists(is)
              /\ InMain(StringC(j))' => j \in Lists(is)
  <2>1. ElementC(j) \in Queued' <=> j \in Lists(is)
    BY <1>1, <1>2, <1>13, ElementApart
  <2>2. StringC(j) \in Queued' <=> j \in Lists(is)
    BY <1>1, <1>2, <1>13, StringApart
  <2>3. (XPathC(j) \in Queued' <=> j \in Waiting(is)) /\ ~ InMain(XPathC(j))'
    <3>1. XPathC(j) \notin ToSet(a) /\ XPathC(j) # Self
      BY <1>1, XPathApart
    <3>2. XPathC(j) \in ToSet(x) <=> j \in Waiting(is)
      BY <1>2, XPathApart
    <3> QED BY <1>13, <1>20, <3>1, <3>2
  <2>4. ElementEndC(j) \notin Queued' /\ ~ InMain(ElementEndC(j))'
    <3>1. ElementEndC(j) \notin ToSet(a) /\ ElementEndC(j) # Self
      BY <1>1, ElementEndApart
    <3>2. ElementEndC(j) \notin ToSet(x)
      BY <1>2, ElementEndApart
    <3> QED BY <1>13, <1>20, <3>1, <3>2
  <2>5. \A c : InMain(c)' => c \in Queued'
    BY <1>20, <1>13
  <2> QED BY <2>1, <2>2, <2>3, <2>4, <2>5
<1>15. /\ InMain(Self)' /\ Self \in Queued' /\ FirstC \notin Queued' /\ VariableC \notin Queued'
  <2>1. FirstC \notin ToSet(a) /\ VariableC \notin ToSet(a)
    BY <1>1, ElementApart, StringApart
  <2>2. FirstC \notin ToSet(x) /\ VariableC \notin ToSet(x)
    BY <1>2, XPathApart
  <2> QED BY <1>9, <1>13, <2>1, <2>2, SelfApart DEF InMain
<1>16. Ordered'
  <2>1. ASSUME NEW j \in Lists(is)
        PROVE  /\ InFront(main', ElementC(j), Self) /\ InFront(main', StringC(j), Self)
               /\ InFront(main', ElementC(j), StringC(j))
    BY <1>1, <1>9, <2>1
  <2> QED BY <1>14, <1>15, <2>1 DEF Ordered
<1>17. Placed(tcb, count)'
  <2>1. x # <<>> => count[Var] > 0
    <3>1. ASSUME x # <<>> PROVE count[Var] > 0
      <4>1. \A s \in Seq(Call) : s # <<>> => \E c : c \in ToSet(s)
        <5>1. \A s \in Seq(Call) : s # <<>> => 1 \in DOMAIN s
          OBVIOUS
        <5>2. \A s : 1 \in DOMAIN s => s[1] \in ToSet(s)
          BY DEF ToSet
        <5> QED BY <5>1, <5>2
      <4>2. PICK i \in Waiting(is) : TRUE
        BY <1>2, <3>1, <4>1
      <4>3. ~ VariableReady
        BY <4>2 DEF Waiting
      <4> QED BY <4>3, Held DEF VariableReady
    <3> QED BY <3>1
  <2>2. \A c \in ToSet(x) : MayWait(c, Var)'
    <3>1. \A i \in Waiting(is) : i \in Item
      BY ItemIs DEF Waiting
    <3> QED BY <1>2, <3>1 DEF MayWait
  <2>3. ASSUME NEW m \in Node
        PROVE  /\ tcb'[m] # <<>> => count'[m] > 0
               /\ \A c \in ToSet(tcb'[m]) : MayWait(c, m)'
    BY <1>5, <1>10, <2>1, <2>2
  <2> QED BY <2>3 DEF Placed
<1>18. Cardinality(Unready') = Cardinality(Waiting(is)) /\ Cardinality(Waiting(is)) \in Nat
  <2>1. Waiting(is) \subseteq Value
    BY DEF Waiting
  <2> QED BY <1>14, <2>1, UnreadyAsked
<1> QED BY <1>6, <1>9, <1>12, <1>14, <1>15, <1>16, <1>17, <1>18

LEMMA AskedCountIs ==
  ASSUME NEW is, is \subseteq Value, NEW f \in [Node -> Nat]
  PROVE  /\ Cardinality(Waiting(is)) \in Nat
         /\ AskedCount(is, f) \in [Node -> Nat]
         /\ \A m \in Node : AskedCount(is, f)[m] =
              IF m \in { P, I, Doc } THEN f[m] + Cardinality(Waiting(is)) ELSE f[m]
<1>1. Waiting(is) \subseteq Value
  BY DEF Waiting
<1>2. Cardinality(Waiting(is)) \in Nat
  BY <1>1, OneKind
<1>3. ToSet(PathOf(P)) = { P, I, Doc }
  BY PathSets
<1> QED BY <1>2, <1>3 DEF AskedCount

\* A value that is there is known when it is asked for, or has to be waited for.
LEMMA KnownOrAsked ==
  ASSUME TypeOK, NEW i \in Item
  PROVE  /\ config.how[i] \in How
         /\ config.how[i] = "none" => ~ Known(i)
         /\ \A is : i \in is /\ config.how[i] # "none" =>
                     Known(i) \/ i \in Waiting(is) \/ i \in Lists(is)
<1>1. config \in Config
  BY DEF TypeOK
<1>2. config.how \in [Item -> How]
  BY <1>1 DEF Config
<1>3. config.how[i] \in How
  BY <1>2
<1> QED BY <1>3 DEF How, Known, Waiting, Lists

LEMMA IncludeFirstKeeps ==
  ASSUME IInv, IncludeFirst
  PROVE  Kept
<1> DEFINE V == [i \in Item |-> IF i \in Test \ {"success"} /\ config.how[i] = "none"
                                THEN "true" ELSE val[i]]
           k == Cardinality(Waiting(First))
<1>1. /\ Calls("first", "self") /\ Goes /\ made' = made
      /\ val' = AskedVal(First, V)
      /\ count' = Increased(AskedCount(First, Increased(count, PathOf(I))), PathOf(P))
      /\ tcb' = AskedTcb(First, tcb)
      /\ main' = Rest \o AskedMain(First) \o <<Self>>
      /\ UNCHANGED <<stage, subrequest, answer, result, host>>
  BY DEF IncludeFirst, First
<1> HIDE DEF V
<1>2. FirstC \in Queued /\ InMain(FirstC) /\ running
  BY <1>1, Takes DEF FirstC
<1>3. /\ main = <<FirstC>> /\ stage = "PARAMS_BEGIN"
      /\ \A n \in Node : tcb[n] = <<>> /\ count[n] = One(config.pending /\ n \in { Var, Doc })
      /\ \A i \in Item : val[i] = IF i \in Test THEN "false" ELSE "NULL"
  BY <1>2 DEF IInv, Fresh
<1>4. Rest = <<>> /\ First \subseteq Value /\ config' = config
  BY <1>1, <1>3 DEF Rest, Value, host
<1>5. count \in [Node -> Nat]
  BY QueueTypes DEF IInv
<1>6. /\ k \in Nat /\ count' \in [Node -> Nat]
      /\ count'[Var] = count[Var] /\ count'[Doc] = count[Doc] + 1 + k + 1
      /\ count'[I] = count[I] + 1 + k + 1 /\ count'[P] = count[P] + k + 1
      /\ count'[S] = count[S] /\ count'[R] = count[R]
      /\ \A j \in Value : count'[j] = count[j]
  <2> DEFINE f == Increased(count, PathOf(I))
             g == AskedCount(First, f)
  <2>1. I \in Awaited /\ P \in Awaited
    BY DEF Awaited
  <2>2. /\ f \in [Node -> Nat]
        /\ \A m \in Node : f[m] = IF m \in { I, Doc } THEN count[m] + 1 ELSE count[m]
    BY <1>5, <2>1, Holding, PathSets
  <2> HIDE DEF f
  <2>3. /\ k \in Nat /\ g \in [Node -> Nat]
        /\ \A m \in Node : g[m] = IF m \in { P, I, Doc } THEN f[m] + k ELSE f[m]
    <3>1. ASSUME NEW h \in [Node -> Nat]
          PROVE  /\ k \in Nat /\ AskedCount(First, h) \in [Node -> Nat]
                 /\ \A m \in Node : AskedCount(First, h)[m] =
                      IF m \in { P, I, Doc } THEN h[m] + k ELSE h[m]
      BY <1>4, <3>1, AskedCountIs
    <3> QED BY <2>2, <3>1
  <2> HIDE DEF g, k
  <2>4. /\ Increased(g, PathOf(P)) \in [Node -> Nat]
        /\ \A m \in Node : Increased(g, PathOf(P))[m] = IF m \in { P, I, Doc } THEN g[m] + 1 ELSE g[m]
    BY <2>1, <2>3, Holding, PathSets
  <2>5. /\ count' \in [Node -> Nat]
        /\ \A m \in Node : count'[m] = IF m \in { P, I, Doc } THEN g[m] + 1 ELSE g[m]
    BY <1>1, <2>4 DEF f, g
  <2>6. { Doc, Var, I, P, S, R } \subseteq Node /\ Value \subseteq Node
    BY NodeIs
  <2>7. \A m \in Node : count'[m] =
          IF m = P THEN count[m] + k + 1
          ELSE IF m \in { I, Doc } THEN count[m] + 1 + k + 1 ELSE count[m]
    BY <1>5, <2>2, <2>3, <2>5, NodesApart
  <2> QED BY <2>3, <2>5, <2>6, <2>7, NodesApart, NodeIs
<1>7. /\ tcb' \in [Node -> Seq(Call)] /\ main' \in Seq(Call)
      /\ QueuesApart(main', tcb') /\ Placed(tcb, count)' /\ Ordered'
      /\ InMain(Self)' /\ Self \in Queued' /\ FirstC \notin Queued'
      /\ \A j : /\ ElementC(j) \in Queued' <=> j \in Lists(First)
                /\ StringC(j) \in Queued' <=> j \in Lists(First)
                /\ XPathC(j) \in Queued' <=> j \in Waiting(First)
                /\ ElementEndC(j) \notin Queued'
      /\ Cardinality(Unready') = k
  BY <1>1, <1>3, <1>4, <1>6, Asking
<1> HIDE DEF k
<1>8. Quiet
  BY <1>1, <1>2 DEF Quiet
<1>9. Fresh' /\ Heard' /\ HostInStep' /\ DoneIsComplete' /\ UNCHANGED E!vars
  BY <1>7, <1>8, QuietKeeps
<1>10. /\ stage' = stage /\ result' = result /\ status' = status
       /\ parsed' = parsed /\ ended' = ended /\ request' = request /\ icb' = icb
       /\ refused' = refused /\ over' = over /\ cur' = cur /\ running' = running
       /\ config' = config
       /\ \A j : (Means(j)' <=> Means(j)) /\ Meaning(j)' = Meaning(j)
       /\ Verdict' = Verdict
  BY <1>8, QuietFacts
<1>11. result = {} /\ ended = "no"
  BY <1>3 DEF IInv, Replaces, Heard, Params
<1>12. /\ count[P] = 0 /\ count[S] = 0 /\ count[I] = 0 /\ count[R] = 0
       /\ count[Doc] = count[Var] /\ count[Var] \in {0, 1}
       /\ \A j \in Value : count[j] = 0
  BY <1>3, NodesApart, NodeIs DEF One
<1>13. \A i \in Item :
         /\ val' = [j \in Item |-> val'[j]]
         /\ val'[i] = IF i \in First /\ Known(i) THEN Meaning(i)
                      ELSE IF i \in Test \ {"success"} /\ config.how[i] = "none" THEN "true"
                      ELSE IF i \in Test THEN "false" ELSE "NULL"
         /\ i \in First /\ config.how[i] # "none" =>
              Known(i) \/ i \in Waiting(First) \/ i \in Lists(First)
         /\ config.how[i] = "none" => ~ Known(i)
  <2>1. \A i \in Item : V[i] = IF i \in Test \ {"success"} /\ config.how[i] = "none" THEN "true"
                               ELSE IF i \in Test THEN "false" ELSE "NULL"
    BY <1>3 DEF V
  <2>2. TypeOK
    BY DEF IInv
  <2>3. ASSUME NEW i \in Item
        PROVE  /\ AskedVal(First, V) = [j \in Item |-> AskedVal(First, V)[j]]
               /\ AskedVal(First, V)[i] = IF i \in First /\ Known(i) THEN Meaning(i) ELSE V[i]
               /\ i \in First /\ config.how[i] # "none" =>
                    Known(i) \/ i \in Waiting(First) \/ i \in Lists(First)
               /\ config.how[i] = "none" => ~ Known(i)
    BY <2>2, KnownOrAsked DEF AskedVal
  <2> QED BY <1>1, <2>1, <2>3
<1>14. TypeOK'
  <2>1. ASSUME NEW j \in Item
        PROVE  val'[j] \in {Meaning(j)', "NULL", "empty"} \cup Bool
    BY <1>10, <1>13 DEF Bool
  <2> QED BY <1>1, <1>6, <1>7, <1>10, <2>1 DEF TypeOK, IInv
<1>15. Counted'
  <2>1. One(FirstC \notin Queued /\ result = {})' = 1
    BY <1>7, <1>10, <1>11 DEF One
  <2>2. count'[I] = 1 + count'[P] + count'[S] + count'[R]
    BY <1>6, <1>12
  <2>3. count'[Doc] = count'[Var] + count'[I] /\ count'[Var] \in {0, 1}
    BY <1>6, <1>12
  <2>4. \A j \in Value : count'[j] = One(ElementEndC(j) \in Queued)'
    BY <1>6, <1>7, <1>12 DEF One
  <2>5. count'[S] = One(XPathC("success") \in Queued)'
    <3>1. "success" \notin Waiting(First)
      BY ItemsApart, <1>4 DEF Waiting
    <3> QED BY <1>6, <1>7, <1>12, <3>1 DEF One
  <2> QED BY <2>1, <2>2, <2>3, <2>4, <2>5 DEF Counted
<1>16. ParamsCounted'
  <2>1. count'[P] = Cardinality(Unready') + 1 /\ Cardinality(Unready') \in Nat
    BY <1>6, <1>7, <1>12
  <2> QED BY <1>3, <1>7, <1>10, <2>1 DEF ParamsCounted
<1>17. ~ Entered'
  BY <1>3, <1>10 DEF Entered, Content
<1>18. ResultCounted'
  <2>1. ~ ContentWaits'
    BY <1>7 DEF ContentWaits
  <2>2. count'[R] = One(ContentWaits)' + One(Entered)'
    BY <1>6, <1>12, <1>17, <2>1 DEF One
  <2> QED BY <1>3, <1>10, <1>17, <2>2 DEF ResultCounted
<1>19. CallsInStep'
  <2>1. \A j \in Lists(First) : j \in First /\ j \in Value /\ config.how[j] = "list"
    BY <1>4 DEF Lists
  <2>2. \A j \in Waiting(First) : j \in First /\ j \in Value /\ config.how[j] = "xpath"
    BY <1>4 DEF Waiting
  <2>3. Value \cap Content = {} /\ "success" \notin Value
    BY ItemsApart
  <2>4. \A s \in Content : s \notin Lists(First)
    BY <2>1, <2>3
  <2> QED BY <1>3, <1>7, <1>10, <1>11, <2>1, <2>2, <2>3, <2>4 DEF CallsInStep, Round
<1>20. ValuesKnown'
  <2>1. \A j \in First : Answered(j)' \/ UnderWay(j)'
    <3> SUFFICES ASSUME NEW j \in First PROVE Answered(j)' \/ UnderWay(j)'
      OBVIOUS
    <3>1. j \in Item /\ j # "success"
      BY ItemIs, ItemsApart DEF Value
    <3>2. CASE config.how[j] = "none"
      BY <1>10, <1>13, <3>1, <3>2 DEF Answered
    <3>3. CASE config.how[j] # "none"
      BY <1>7, <1>10, <1>13, <3>1, <3>3 DEF Answered, UnderWay
    <3> QED BY <3>2, <3>3
  <2>2. \A j \in Second : val'[j] = "NULL"
    <3> SUFFICES ASSUME NEW j \in Second PROVE val'[j] = "NULL"
      OBVIOUS
    <3>1. j \in Item /\ j \notin First /\ j \notin Test
      BY ItemIs, ItemsApart DEF Value
    <3> QED BY <1>13, <3>1
  <2>3. val' = [j \in Item |-> val'[j]]
    BY <1>13, ItemIs
  <2> QED BY <1>3, <1>10, <2>1, <2>2, <2>3 DEF ValuesKnown
<1>21. Replaces'
  BY <1>1, <1>3, <1>10, <1>11, <1>17 DEF IInv, Replaces
<1> QED BY <1>7, <1>9, <1>14, <1>15, <1>16, <1>18, <1>19, <1>20, <1>21 DEF Kept, IInv

\* Nothing waits where the parameters are released while the include is called.
LEMMA ParamsReleased ==
  ASSUME IInv, Calls("include", "self"), count[P] > 0
  PROVE  /\ AfterC(count, P) \in [Node -> Nat]
         /\ \A m \in Node : AfterC(count, P)[m] = IF m \in { P, I, Doc } THEN count[m] - 1
                                                                         ELSE count[m]
         /\ \A m \in { P, I, Doc } : tcb[m] = <<>> /\ count[m] > 0
         /\ AfterT(count, tcb, P) = tcb /\ AfterQ(count, tcb, Rest, P) = Rest
<1>1. /\ count \in [Node -> Nat] /\ tcb \in [Node -> Seq(Call)] /\ Placed(tcb, count)
      /\ Rest \in Seq(Call) /\ QueuesApart(Rest, tcb)
      /\ \A m \in Node : Self \notin ToSet(tcb[m])
  BY QueueTypes, Takes DEF IInv, Self
<1>2. /\ P \in Awaited /\ ToSet(PathOf(P)) = { P, I, Doc } /\ { P, I, Doc } \subseteq Node
  BY PathSets, NodeIs DEF Awaited
<1>3. \A m \in { P, I, Doc } : count[m] > 0
  BY Held
<1>4. ASSUME NEW m \in { P, I, Doc } PROVE tcb[m] = <<>>
  <2>1. tcb[m] \in Seq(Call) /\ m \in Node
    BY <1>1, <1>2
  <2>2. \A c : c \notin ToSet(tcb[m])
    <3>1. m = P => \A c \in ToSet(tcb[m]) : c = Self
      BY <1>1, <2>1, Waits
    <3>2. m # P => \A c : c \notin ToSet(tcb[m])
      BY <1>1, <2>1, Waits
    <3> QED BY <1>1, <2>1, <3>1, <3>2
  <2> QED BY <2>1, <2>2, NothingQueued
<1>5. AfterT(count, tcb, P) = tcb /\ AfterQ(count, tcb, Rest, P) = Rest
  BY <1>1, <1>2, <1>3, <1>4, NoneWoken
<1>6. /\ AfterC(count, P) \in [Node -> Nat]
      /\ \A m \in Node : AfterC(count, P)[m] = IF m \in { P, I, Doc } THEN count[m] - 1
                                                                      ELSE count[m]
  <2>1. \A m \in ToSet(PathOf(P)) : count[m] > 0
    BY <1>2, <1>3
  <2>2. /\ AfterC(count, P) \in [Node -> Nat]
        /\ \A m \in Node : AfterC(count, P)[m] =
             IF m \in ToSet(PathOf(P)) THEN count[m] - 1 ELSE count[m]
    <3>1. ~ DecreaseFails(count, PathOf(P)) /\ PathOf(P) \in Seq(Node)
      BY <1>1, <1>2, <2>1, Walks DEF DecreaseFails
    <3>2. Walked(count, PathOf(P)) = ToSet(PathOf(P))
      BY <1>1, <3>1, WholeWalk
    <3> QED BY <1>1, <2>1, <3>2 DEF AfterC, Decreased
  <2> QED BY <1>2, <2>2
<1> QED BY <1>3, <1>4, <1>5, <1>6

\* The parameters are waited for: the call is left on their node.
LEMMA ParamsBeginWaits ==
  ASSUME IInv, Calls("include", "self"), Goes, stage = "PARAMS_BEGIN", count[P] > 0,
         count' = AfterC(count, P), count'[P] > 0,
         tcb' = Parked(tcb, P, Self), main' = Rest,
         val' = val, made' = made,
         UNCHANGED <<stage, subrequest, answer, result, host>>
  PROVE  Kept
<1>1. /\ count' \in [Node -> Nat]
      /\ \A m \in Node : count'[m] = IF m \in { P, I, Doc } THEN count[m] - 1 ELSE count[m]
      /\ \A m \in { P, I, Doc } : tcb[m] = <<>> /\ count[m] > 0
  BY ParamsReleased
<1>2. /\ Self \in Queued /\ InMain(Self) /\ running /\ P \in Node /\ Self \in Call
      /\ \A x : ~ InFront(main, x, Self)
  BY Takes, NodeIs DEF Self
<1>3. \A m \in Node : tcb[m] # <<>> => count'[m] > 0
  BY <1>1 DEF IInv, Placed
<1>4. MayWait(Self, P)' /\ \A x, m : MayWait(x, m) => MayWait(x, m)'
  BY WaitsAlike DEF MayWait, Params
<1>5. /\ tcb' \in [Node -> Seq(Call)] /\ main' \in Seq(Call)
      /\ QueuesApart(main', tcb') /\ Placed(tcb, count)'
      /\ \A x : x \in Queued' <=> x \in Queued
      /\ \A x : InMain(x)' <=> InMain(x) /\ x # Self
      /\ \A x, y : InFront(main, x, y) /\ x # Self => InFront(main', x, y)
  <2>1. /\ tcb' \in [Node -> Seq(Call)] /\ main' \in Seq(Call)
        /\ QueuesApart(main', tcb') /\ Placed(tcb, count)'
        /\ \A x : x \in Queued' <=> (x \in Queued /\ x # Self) \/ x = Self
        /\ \A x : InMain(x)' <=> InMain(x) /\ x # Self
        /\ \A x, y : InFront(main, x, y) /\ x # Self => InFront(main', x, y)
    BY <1>1, <1>2, <1>3, <1>4, Parking DEF Self
  <2> QED BY <1>2, <2>1
<1>6. /\ FirstC \notin Queued /\ VariableC \notin Queued
      /\ FirstC \notin Queued' /\ VariableC \notin Queued'
  BY <1>2, <1>5, Alone, SelfApart
<1>7. Quiet
  BY <1>2 DEF Quiet
<1>8. Fresh' /\ Heard' /\ HostInStep' /\ DoneIsComplete' /\ UNCHANGED E!vars
  BY <1>6, <1>7, QuietKeeps
<1>9. /\ stage' = stage /\ result' = result /\ status' = status
      /\ parsed' = parsed /\ ended' = ended /\ request' = request /\ icb' = icb
      /\ refused' = refused /\ over' = over /\ cur' = cur /\ running' = running
      /\ config' = config
      /\ \A j : (Means(j)' <=> Means(j)) /\ Meaning(j)' = Meaning(j)
      /\ Verdict' = Verdict
  BY <1>7, QuietFacts
<1>10. ~ InMain(Self)' /\ \A j : ElementC(j) \notin Queued
  <2>1. ASSUME NEW j, ElementC(j) \in Queued PROVE FALSE
    BY <1>2, <2>1, QueuedTyped DEF IInv, Ordered
  <2> QED BY <1>5, <2>1
<1>11. TypeOK'
  BY <1>1, <1>5, <1>9 DEF TypeOK, IInv
<1>12. /\ count'[Var] = count[Var] /\ count'[Doc] = count[Doc] - 1 /\ count'[I] = count[I] - 1
       /\ count'[P] = count[P] - 1 /\ count'[S] = count[S] /\ count'[R] = count[R]
       /\ \A j \in Value : count'[j] = count[j]
  BY <1>1, NodesApart, NodeIs
<1>13. Counted'
  <2> DEFINE own == One(FirstC \notin Queued /\ result = {})
  <2>1. own' = own
    BY <1>6, <1>9 DEF One
  <2> HIDE DEF own
  <2>2. /\ count[Var] \in {0, 1} /\ count[Doc] = count[Var] + count[I]
        /\ count[I] = own + count[P] + count[S] + count[R]
        /\ \A j \in Value : count[j] = One(ElementEndC(j) \in Queued)
        /\ count[S] = One(XPathC("success") \in Queued)
    BY DEF IInv, Counted, own
  <2>3. own \in Nat
    BY DEF own, One
  <2>5. /\ count[P] \in Nat /\ count[S] \in Nat /\ count[R] \in Nat /\ count[I] \in Nat
        /\ count[Var] \in Nat /\ count[Doc] \in Nat
    BY Held
  <2>6. count'[Doc] = count'[Var] + count'[I]
    BY <1>12, <2>2, <2>5
  <2>7. count'[I] = own' + count'[P] + count'[S] + count'[R]
    BY <1>12, <2>1, <2>2, <2>3, <2>5
  <2>8. \A j \in Value : count'[j] = One(ElementEndC(j) \in Queued)'
    BY <1>5, <1>12, <2>2 DEF One
  <2>9. count'[S] = One(XPathC("success") \in Queued)'
    BY <1>5, <1>12, <2>2 DEF One
  <2> QED BY <1>12, <2>2, <2>6, <2>7, <2>8, <2>9 DEF Counted, own
<1>14. ParamsCounted'
  <2>1. Unready' = Unready
    BY <1>5, UnreadySame
  <2>2. Cardinality(Unready) \in Nat
    BY UnreadyIs
  <2>3. count[P] = Cardinality(Unready) + 1
    BY <1>2 DEF IInv, ParamsCounted
  <2> QED BY <1>10, <1>12, <2>1, <2>2, <2>3 DEF ParamsCounted
<1>15. Entered' <=> Entered
  BY <1>9, <1>12 DEF Entered
<1>16. ~ Entered
  BY DEF Entered, Content
<1>17. ResultCounted'
  <2>1. ContentWaits' <=> ContentWaits
    BY <1>5 DEF ContentWaits
  <2>2. count'[R] = One(ContentWaits)' + One(Entered)'
    BY <1>12, <1>15, <2>1 DEF One, IInv, ResultCounted
  <2> QED BY <1>10, <1>15, <1>16, <2>2 DEF ResultCounted
<1>18. Ordered'
  <2>1. ASSUME NEW j \in Item
        PROVE  StringC(j) \in Queued' =>
                 ElementC(j) \in Queued' \/ ElementEndC(j) \in Queued' \/ j \in made'
    BY <1>5 DEF IInv, Ordered
  <2> QED BY <1>5, <1>6, <1>10, <2>1 DEF Ordered
<1>19. CallsInStep'
  BY <1>5, <1>9, <1>15 DEF IInv, CallsInStep, Round
<1>20. ValuesKnown'
  <2>1. \A j : UnderWay(j)' <=> UnderWay(j)
    BY <1>5 DEF UnderWay
  <2>2. \A j \in First : Answered(j)' <=> Answered(j)
    BY <1>9 DEF Answered
  <2> QED BY <1>5, <1>6, <1>9, <2>1, <2>2 DEF ValuesKnown, IInv
<1>21. Replaces'
  BY <1>5, <1>9, <1>15 DEF IInv, Replaces
<1> QED BY <1>5, <1>8, <1>11, <1>13, <1>14, <1>17, <1>18, <1>19, <1>20, <1>21 DEF Kept, IInv

\* While the loop runs nothing has been told to the host.
LEMMA LoopGoes ==
  ASSUME IInv, Goes, running
  PROVE  cur' = cur /\ running' = running /\ HostInStep' /\ DoneIsComplete'
<1>1. cur' = cur /\ running' = running /\ "DONE" \notin cur
  BY DEF Goes, IInv, HostInStep
<1> QED BY <1>1 DEF HostInStep, HostWaits, DoneIsComplete

\* With nothing under way every value of the first round is what it means, and
\* the values of the second that are wanted are the ones the sheet means.
LEMMA FirstAnswered ==
  ASSUME IInv, Calls("include", "self"), \A x : x \in Queued <=> x = Self
  PROVE  /\ \A i \in Item : ~ UnderWay(i)
         /\ \A i \in First : Answered(i)
         /\ \A i \in Second : config.how[i] # "none" => (Wanted(i) <=> Means(i))
<1>1. \A i \in Item : ~ UnderWay(i)
  BY SelfApart DEF UnderWay
<1>2. FirstC \notin Queued
  BY SelfApart
<1>3. \A i \in First : Answered(i) /\ i \in Item
  BY <1>1, <1>2, ItemIs DEF IInv, ValuesKnown, Value
<1>4. ASSUME NEW i \in Second, config.how[i] # "none" PROVE Wanted(i) <=> Means(i)
  <2>1. TestOf(i) \in First /\ TestOf(i) \in Test
    BY Rounds DEF TestOf, Test
  <2>2. Answered(TestOf(i))
    BY <1>3, <2>1
  <2>3. CASE config.how[TestOf(i)] = "none"
    BY <1>4, <2>1, <2>2, <2>3 DEF Answered, Wanted, Means
  <2>4. CASE config.how[TestOf(i)] # "none"
    <3>1. val[TestOf(i)] = config.says[TestOf(i)]
      <4>1. "type" \notin Test
        BY DEF Test
      <4>2. \A t \in Test : Meaning(t) = config.says[t]
        BY <4>1 DEF Meaning
      <4> QED BY <2>1, <2>2, <2>4, <4>2 DEF Answered
    <3> QED BY <1>4, <2>4, <3>1 DEF Wanted, Means
  <2> QED BY <2>3, <2>4
<1> QED BY <1>1, <1>3, <1>4

\* The parameters are ready: the second round is asked for.
LEMMA ParamsBeginAsks ==
  ASSUME IInv, Calls("include", "self"), Goes, stage = "PARAMS_BEGIN", Unready = {},
         NEW C \in [Node -> Nat], NEW d \in {0, 1}, count[P] = d,
         \A m \in Node : C[m] = IF m \in { P, I, Doc } THEN count[m] - d ELSE count[m],
         NEW is, is = { i \in Second : Wanted(i) },
         count' = AskedCount(is, C), tcb' = AskedTcb(is, tcb),
         main' = Rest \o AskedMain(is) \o <<Self>>,
         val' = AskedVal(is, val), stage' = "PARAMS_END", made' = made,
         UNCHANGED <<subrequest, answer, result, host>>
  PROVE  Kept
<1> DEFINE k == Cardinality(Waiting(is))
<1>1. ~ ContentWaits
  BY DEF ContentWaits, IInv, CallsInStep, Entered, Content
<1>2. /\ Rest = <<>> /\ \A m \in Node : tcb[m] = <<>>
      /\ \A x : x \in Queued <=> x = Self
      /\ result = {} /\ count[S] = 0 /\ \A i \in Value : count[i] = 0
  BY <1>1, Settled
<1>3. /\ \A i \in Item : ~ UnderWay(i)
      /\ \A i \in First : Answered(i)
      /\ \A i \in Second : config.how[i] # "none" => (Wanted(i) <=> Means(i))
  BY <1>2, FirstAnswered
<1>4. running
  BY Takes
<1>5. cur' = cur /\ running' = running /\ HostInStep' /\ DoneIsComplete'
  BY <1>4, LoopGoes
<1>6. /\ result' = result /\ status' = status
      /\ parsed' = parsed /\ ended' = ended /\ request' = request /\ icb' = icb
      /\ refused' = refused /\ over' = over /\ config' = config /\ UNCHANGED <<answer, host>>
  BY DEF subrequest, answer, host
<1>7. /\ MeantRequest' = MeantRequest /\ MeantTest' = MeantTest
      /\ \A j : (Means(j)' <=> Means(j)) /\ Meaning(j)' = Meaning(j)
      /\ Verdict' = Verdict
  BY <1>6, SheetStays, VerdictStays
<1>8. is \subseteq Value /\ is \subseteq Second /\ \A i \in is : i \in Item
  BY ItemIs DEF Value
<1>9. /\ k \in Nat /\ count' \in [Node -> Nat]
      /\ \A m \in Node : count'[m] = IF m \in { P, I, Doc } THEN C[m] + k ELSE C[m]
  <2>1. Waiting(is) \subseteq Value
    BY <1>8 DEF Waiting
  <2>2. k \in Nat
    BY <2>1, OneKind
  <2>3. ToSet(PathOf(P)) = { P, I, Doc }
    BY PathSets
  <2>4. count' = [m \in Node |-> IF m \in { P, I, Doc } THEN C[m] + k ELSE C[m]]
    BY <2>3 DEF AskedCount
  <2> HIDE DEF k
  <2>5. \A m \in Node : C[m] \in Nat /\ C[m] + k \in Nat
    BY <2>2
  <2>6. count' \in [Node -> Nat]
    BY <2>4, <2>5
  <2>7. \A m \in Node : count'[m] = IF m \in { P, I, Doc } THEN C[m] + k ELSE C[m]
    BY <2>4
  <2> QED BY <2>2, <2>6, <2>7
<1>10. count'[Var] = count[Var]
  BY <1>9, NodesApart, NodeIs
<1>11. /\ tcb' \in [Node -> Seq(Call)] /\ main' \in Seq(Call)
       /\ QueuesApart(main', tcb') /\ Placed(tcb, count)' /\ Ordered'
       /\ InMain(Self)' /\ Self \in Queued' /\ FirstC \notin Queued'
       /\ \A j : /\ ElementC(j) \in Queued' <=> j \in Lists(is)
                 /\ StringC(j) \in Queued' <=> j \in Lists(is)
                 /\ XPathC(j) \in Queued' <=> j \in Waiting(is)
                 /\ ElementEndC(j) \notin Queued'
       /\ Cardinality(Unready') = k
  BY <1>2, <1>6, <1>8, <1>9, <1>10, Asking
<1> HIDE DEF k
<1>12. Fresh'
  BY <1>11 DEF Fresh
<1>13. Heard'
  BY <1>6, <1>7 DEF Heard, IInv, Params, Content
<1>14. UNCHANGED E!vars
  BY <1>6, <1>7 DEF E!vars
<1>15. ~ Entered /\ ~ Entered' /\ ~ ContentWaits'
  BY <1>11 DEF Entered, Content, ContentWaits
<1>16. /\ \A i \in Second : /\ config.how[i] = "none" => ~ Means(i)
                            /\ val[i] = "NULL" /\ i \in Item /\ i \notin First
       /\ \A i \in First : i \notin is /\ i \in Item
  BY ItemIs, ItemsApart, <1>8 DEF Means, IInv, ValuesKnown, Value
<1>17. /\ val' = [i \in Item |-> val'[i]]
       /\ \A i \in Item : val'[i] = IF i \in is /\ Known(i) THEN Meaning(i) ELSE val[i]
  BY DEF AskedVal
<1>18. TypeOK'
  <2>1. ASSUME NEW j \in Item
        PROVE  val'[j] \in {Meaning(j)', "NULL", "empty"} \cup Bool
    BY <1>7, <1>17, ValTyped
  <2>2. stage' \in Stage
    BY DEF Stage
  <2> QED BY <1>5, <1>6, <1>9, <1>11, <2>1, <2>2 DEF TypeOK, IInv
<1>19. Counted'
  <2>1. One(FirstC \notin Queued /\ result = {}) = 1
    BY <1>2, SelfApart DEF One
  <2>2. One(FirstC \notin Queued /\ result = {})' = 1
    BY <1>2, <1>6, <1>11 DEF One
  <2>3. /\ count[R] = 0 /\ count[I] = 1 + d /\ count[Doc] = count[Var] + count[I]
        /\ count[Var] \in {0, 1}
    <3>1. count[R] = 0
      BY <1>1, <1>15 DEF IInv, ResultCounted, One
    <3>2. count[I] = One(FirstC \notin Queued /\ result = {}) + count[P] + count[S] + count[R]
      BY DEF IInv, Counted
    <3> QED BY <1>2, <2>1, <3>1, <3>2 DEF IInv, Counted
  <2>4. /\ C[Var] = count[Var] /\ C[Doc] = count[Doc] - d /\ C[I] = count[I] - d
        /\ C[P] = count[P] - d /\ C[S] = count[S] /\ C[R] = count[R]
        /\ \A j \in Value : C[j] = count[j]
    BY NodesApart, NodeIs
  <2>5. /\ count'[Var] = C[Var] /\ count'[Doc] = C[Doc] + k /\ count'[I] = C[I] + k
        /\ count'[P] = C[P] + k /\ count'[S] = C[S] /\ count'[R] = C[R]
        /\ \A j \in Value : count'[j] = C[j]
    BY <1>9, NodesApart, NodeIs
  <2>6. count[Doc] \in Nat
    BY Held
  <2>7. count'[I] = 1 + count'[P] + count'[S] + count'[R]
    BY <1>2, <1>9, <2>3, <2>4, <2>5
  <2>8. count'[Doc] = count'[Var] + count'[I] /\ count'[Var] \in {0, 1}
    <3>1. C[I] = 1 /\ C[Doc] = count[Var] + 1
      BY <2>3, <2>4, <2>6
    <3>2. count'[Doc] = C[Doc] + k /\ count'[I] = C[I] + k /\ count'[Var] = count[Var]
      BY <2>4, <2>5
    <3>3. k \in Nat /\ count[Var] \in {0, 1}
      BY <1>9, <2>3
    <3>4. count'[I] = 1 + k /\ count'[Doc] = count[Var] + 1 + k
      BY <3>1, <3>2
    <3> QED BY <3>2, <3>3, <3>4
  <2>9. \A j \in Value : count'[j] = One(ElementEndC(j) \in Queued)'
    BY <1>2, <1>11, <2>4, <2>5 DEF One
  <2>10. count'[S] = One(XPathC("success") \in Queued)'
    <3>1. "success" \notin Waiting(is)
      BY ItemsApart, <1>8 DEF Waiting
    <3> QED BY <1>2, <1>11, <2>4, <2>5, <3>1 DEF One
  <2> QED BY <2>2, <2>7, <2>8, <2>9, <2>10 DEF Counted
<1>20. ParamsCounted'
  <2>1. C[P] = 0 /\ P \in Node
    BY NodeIs
  <2>2. count'[P] = k
    BY <1>9, <2>1
  <2> QED BY <1>11, <2>2 DEF ParamsCounted
<1>21. ResultCounted'
  <2>1. count[R] = 0
    BY <1>1, <1>15 DEF IInv, ResultCounted, One
  <2>2. count'[R] = 0
    BY <1>9, <2>1, NodesApart, NodeIs
  <2> QED BY <1>15, <2>2 DEF ResultCounted, One
<1>22. CallsInStep'
  <2>1. \A j \in Lists(is) : j \in Second /\ j \in Value /\ config.how[j] = "list"
    BY <1>8 DEF Lists
  <2>2. \A j \in Waiting(is) : j \in Second /\ j \in Value /\ config.how[j] = "xpath"
    BY <1>8 DEF Waiting
  <2>3. Value \cap Content = {} /\ "success" \notin Value /\ \A j \in Second : j \notin First
    BY ItemsApart
  <2>4. \A s \in Content : s \notin Lists(is)
    BY <2>1, <2>3
  <2>5. \A j : j \in Lists(is) \/ j \in Waiting(is) => Means(j)
    BY <1>3, <2>1, <2>2 DEF Lists, Waiting
  <2>6. \A i \in Item :
          /\ XPathC(i) \in Queued' => i \in Value \cup {"success"} /\ config'.how[i] = "xpath"
          /\ StringC(i) \in Queued' => i \in Value /\ config'.how[i] = "list"
          /\ ElementC(i) \in Queued' =>
               /\ i \in Value \cup Content /\ config'.how[i] = "list"
               /\ ElementEndC(i) \notin Queued'
          /\ ElementEndC(i) \in Queued' => i \in Value \cup Content
    BY <1>6, <1>11, <2>1, <2>2
  <2>7. \A i \in Value :
          XPathC(i) \in Queued' \/ StringC(i) \in Queued' \/ ElementC(i) \in Queued'
            \/ ElementEndC(i) \in Queued' => Round(i)'
    BY <1>7, <1>11, <2>1, <2>2, <2>3, <2>5 DEF Round
  <2>8. XPathC("success") \notin Queued'
    BY <1>11, <2>2, <2>3
  <2>9. \A s \in Content : ElementC(s) \notin Queued' /\ ElementEndC(s) \notin Queued'
    BY <1>11, <2>4
  <2> QED BY <1>2, <1>6, <2>6, <2>7, <2>8, <2>9 DEF CallsInStep
<1>23. ValuesKnown'
  <2>1. \A j \in First : Answered(j)'
    BY <1>3, <1>6, <1>7, <1>16, <1>17 DEF Answered
  <2>2. ASSUME NEW i \in Second
        PROVE  /\ ~ Means(i)' => val'[i] = "NULL"
               /\ Means(i)' => val'[i] = Meaning(i)' \/ UnderWay(i)'
    <3>1. CASE config.how[i] = "none"
      <4>1. ~ Known(i)
        BY <1>16, <3>1, KnownOrAsked DEF IInv
      <4> QED BY <1>7, <1>16, <1>17, <3>1, <4>1
    <3>2. CASE config.how[i] # "none"
      <4>1. Means(i) => Known(i) \/ i \in Waiting(is) \/ i \in Lists(is)
        BY <1>3, <1>16, <3>2, KnownOrAsked DEF IInv
      <4>2. i \in is <=> Means(i)
        BY <1>3, <3>2
      <4>3. i \in Item /\ val[i] = "NULL"
        BY <1>16
      <4> QED BY <1>7, <1>11, <1>17, <4>1, <4>2, <4>3 DEF UnderWay
    <3> QED BY <3>1, <3>2
  <2> QED BY <1>17, <2>1, <2>2 DEF ValuesKnown
<1>24. Replaces'
  BY <1>2, <1>6, <1>7, <1>15 DEF IInv, Replaces
<1> QED BY <1>5, <1>11, <1>12, <1>13, <1>14, <1>18, <1>19, <1>20, <1>21, <1>22, <1>23, <1>24
  DEF Kept, IInv

LEMMA ParamsBeginKeeps ==
  ASSUME IInv, ParamsBegin
  PROVE  Kept
<1> DEFINE is == { i \in Second : Wanted(i) }
           holds == count[P] > 0
           C == IF holds THEN AfterC(count, P) ELSE count
           T == IF holds THEN AfterT(count, tcb, P) ELSE tcb
           M == IF holds THEN AfterQ(count, tcb, Rest, P) ELSE Rest
<1>1. /\ Calls("include", "self") /\ stage = "PARAMS_BEGIN" /\ Goes /\ made' = made
      /\ UNCHANGED <<subrequest, answer, result, host>>
      /\ IF C[P] > 0
         THEN /\ count' = C /\ tcb' = Parked(T, P, Self) /\ main' = M
              /\ stage' = stage /\ val' = val
         ELSE /\ stage' = "PARAMS_END" /\ val' = AskedVal(is, val)
              /\ count' = AskedCount(is, C) /\ tcb' = AskedTcb(is, T)
              /\ main' = M \o AskedMain(is) \o <<Self>>
  BY DEF ParamsBegin, AfterC, AfterT, AfterQ, Second
<1>2. /\ count \in [Node -> Nat] /\ P \in Node /\ count[P] \in Nat /\ Cardinality(Unready) \in Nat
      /\ Cardinality(Unready) = 0 => Unready = {}
  BY QueueTypes, NodeIs, UnreadyIs DEF IInv
<1>3. InMain(Self)
  BY <1>1, Takes DEF Self
<1>4. CASE holds
  <2>1. /\ AfterC(count, P) \in [Node -> Nat]
        /\ \A m \in Node : AfterC(count, P)[m] = IF m \in { P, I, Doc } THEN count[m] - 1
                                                                       ELSE count[m]
        /\ T = tcb /\ M = Rest /\ C = AfterC(count, P)
    BY <1>1, <1>4, ParamsReleased
  <2>2. CASE C[P] > 0
    <3>1. /\ count' = AfterC(count, P) /\ count'[P] > 0 /\ count[P] > 0
          /\ tcb' = Parked(tcb, P, Self) /\ main' = Rest /\ val' = val /\ made' = made
          /\ UNCHANGED <<stage, subrequest, answer, result, host>>
      BY <1>1, <1>4, <2>1, <2>2
    <3> HIDE DEF holds, C, T, M, is
    <3> QED BY <1>1, <3>1, ParamsBeginWaits
  <2>3. CASE ~ (C[P] > 0)
    <3>1. /\ count' = AskedCount(is, C) /\ tcb' = AskedTcb(is, tcb)
          /\ main' = Rest \o AskedMain(is) \o <<Self>>
          /\ val' = AskedVal(is, val) /\ stage' = "PARAMS_END"
      BY <1>1, <2>1, <2>3
    <3>2. count[P] = 1
      BY <1>2, <1>4, <2>1, <2>3
    <3>3. Unready = {}
      BY <1>1, <1>2, <1>3, <3>2 DEF IInv, ParamsCounted
    <3>4. /\ C \in [Node -> Nat]
          /\ \A m \in Node : C[m] = IF m \in { P, I, Doc } THEN count[m] - 1 ELSE count[m]
      BY <2>1
    <3>5. is = { i \in Second : Wanted(i) }
      OBVIOUS
    <3> HIDE DEF holds, C, T, M, is
    <3>6. ASSUME NEW d \in {0, 1}, d = 1 PROVE Kept
      <4>1. /\ count[P] = d
            /\ \A m \in Node : C[m] = IF m \in { P, I, Doc } THEN count[m] - d ELSE count[m]
        BY <3>2, <3>4, <3>6
      <4> QED BY <1>1, <3>1, <3>3, <3>4, <3>5, <4>1, ParamsBeginAsks
    <3> QED BY <3>6
  <2> QED BY <2>2, <2>3
<1>5. CASE ~ holds
  <2>1. count[P] = 0 /\ C = count /\ T = tcb /\ M = Rest
    BY <1>2, <1>5
  <2>2. /\ count' = AskedCount(is, C) /\ tcb' = AskedTcb(is, tcb)
        /\ main' = Rest \o AskedMain(is) \o <<Self>>
        /\ val' = AskedVal(is, val) /\ stage' = "PARAMS_END"
    <3> HIDE DEF holds, C, T, M, is
    <3>1. ~ (C[P] > 0)
      BY <2>1
    <3>2. /\ count' = AskedCount(is, C) /\ tcb' = AskedTcb(is, T)
          /\ main' = M \o AskedMain(is) \o <<Self>>
          /\ val' = AskedVal(is, val) /\ stage' = "PARAMS_END"
      BY <1>1, <3>1
    <3> QED BY <2>1, <3>2
  <2>3. Unready = {}
    BY <1>2, <2>1 DEF IInv, ParamsCounted
  <2>4. is = { i \in Second : Wanted(i) } /\ C \in [Node -> Nat]
    BY <1>2, <2>1
  <2> HIDE DEF holds, C, T, M, is
  <2>5. ASSUME NEW d \in {0, 1}, d = 0 PROVE Kept
    <3>1. \A n \in Node : count[n] \in Nat
      BY <1>2
    <3>2. /\ count[P] = d
          /\ \A m \in Node : C[m] = IF m \in { P, I, Doc } THEN count[m] - d ELSE count[m]
      BY <2>1, <2>5, <3>1
    <3> QED BY <1>1, <2>2, <2>3, <2>4, <3>2, ParamsBeginAsks
  <2> QED BY <2>5
<1> QED BY <1>4, <1>5

(***************************************************************************)
(* When the answer has ended, the calls there are are those of the content *)
(* that the answer calls for.                                              *)
(***************************************************************************)
LEMMA LateCalls ==
  ASSUME IInv, stage \notin Params
  PROVE  /\ \A i \in Value : /\ XPathC(i) \notin Queued /\ StringC(i) \notin Queued
                             /\ ElementC(i) \notin Queued /\ ElementEndC(i) \notin Queued
                             /\ ~ UnderWay(i) /\ count[i] = 0
         /\ FirstC \notin Queued /\ Unready = {} /\ count[P] = 0
<1>1. ASSUME NEW i \in Value
      PROVE  /\ XPathC(i) \notin Queued /\ StringC(i) \notin Queued
             /\ ElementC(i) \notin Queued /\ ElementEndC(i) \notin Queued
  BY DEF IInv, CallsInStep, Round, Params
<1>2. \A i \in Value : count[i] = 0
  BY <1>1, Held
<1>3. FirstC \notin Queued
  BY DEF IInv, Fresh, Params
<1>4. Unready = {}
  BY <1>1, UnreadyIs
<1>5. count[P] = 0
  BY <1>4, UnreadyIs DEF IInv, ParamsCounted, Params
<1> QED BY <1>1, <1>2, <1>3, <1>4, <1>5 DEF UnderWay

\* What a call of the include keeps that is made for an answer that has ended.
LEMMA LateKeeps ==
  ASSUME IInv, Calls("include", "self"), Goes, stage \notin Params,
         UNCHANGED <<subrequest, answer, host>>,
         stage' \in {"SUCCESS_TEST_END", Verdict, "END"},
         stage' = "SUCCESS_TEST_END" =>
           /\ stage = "SUCCESS_TEST_BEGIN"
           /\ val'["success"] = Meaning("success") \/ XPathC("success") \in Queued',
         count' \in [Node -> Nat], tcb' \in [Node -> Seq(Call)], main' \in Seq(Call),
         QueuesApart(main', tcb'), Placed(tcb, count)',
         \A x \in Queued' :
           x \in { Self, ElementC(Verdict), ElementEndC(Verdict), XPathC("success") },
         val' = [i \in Item |-> val'[i]], \A i \in Value \cup Content : val'[i] = val[i],
         val'["success"] \in { val["success"], Meaning("success") },
         made' \subseteq made \cup {Verdict},
         count'[Var] = count[Var], count'[Doc] = count'[Var] + count'[I],
         count'[I] = One(result' = {}) + count'[S] + count'[R],
         count'[P] = 0, \A i \in Value : count'[i] = 0,
         count'[S] = One(XPathC("success") \in Queued'),
         XPathC("success") \in Queued' => stage' = "SUCCESS_TEST_END",
         ElementC(Verdict) \in Queued' =>
           /\ config.how[Verdict] = "list" /\ ElementEndC(Verdict) \notin Queued'
           /\ Entered',
         ElementEndC(Verdict) \in Queued' => Entered' \/ stage' = "END",
         Self \in Queued' => result' = {},
         ResultCounted', Ordered', Replaces', [E!Next]_(E!vars)
  PROVE  Kept
<1>1. running /\ Self \in Queued
  BY Takes DEF Self
<1>2. cur' = cur /\ running' = running /\ HostInStep' /\ DoneIsComplete'
  BY <1>1, LoopGoes
<1>3. /\ status' = status
      /\ parsed' = parsed /\ ended' = ended /\ request' = request /\ icb' = icb
      /\ refused' = refused /\ over' = over /\ config' = config /\ UNCHANGED <<answer, host>>
  BY DEF subrequest, answer, host
<1>4. /\ MeantRequest' = MeantRequest /\ MeantTest' = MeantTest
      /\ \A j : (Means(j)' <=> Means(j)) /\ Meaning(j)' = Meaning(j)
      /\ Verdict' = Verdict
  BY <1>3, SheetStays, VerdictStays
<1>5. /\ \A i \in Value : ~ UnderWay(i)
      /\ FirstC \notin Queued
  BY LateCalls
<1>6. Verdict \in Content /\ Verdict \notin Value /\ "success" \notin Value \cup Content
      /\ Verdict \in Item
  BY ItemsApart, ItemIs DEF Verdict, Content
<1>7. ASSUME NEW i \in Value
      PROVE  /\ XPathC(i) \notin Queued' /\ StringC(i) \notin Queued'
             /\ ElementC(i) \notin Queued' /\ ElementEndC(i) \notin Queued'
  <2>1. i # "success" /\ i # Verdict
    BY <1>6
  <2>2. XPathC(i) \notin { Self, ElementC(Verdict), ElementEndC(Verdict), XPathC("success") }
    BY <2>1, XPathApart
  <2>3. StringC(i) \notin { Self, ElementC(Verdict), ElementEndC(Verdict), XPathC("success") }
    BY StringApart
  <2>4. ElementC(i) \notin { Self, ElementC(Verdict), ElementEndC(Verdict), XPathC("success") }
    <3>1. ElementC(i) # ElementC(Verdict)
      BY <2>1, ElementApart
    <3>2. /\ ElementC(i) # Self /\ ElementC(i) # ElementEndC(Verdict)
          /\ ElementC(i) # XPathC("success")
      BY ElementApart
    <3> QED BY <3>1, <3>2
  <2>5. ElementEndC(i) \notin { Self, ElementC(Verdict), ElementEndC(Verdict), XPathC("success") }
    BY <2>1, ElementEndApart
  <2> QED BY <2>2, <2>3, <2>4, <2>5
<1>8. FirstC \notin Queued' /\ VariableC \notin Queued'
  BY SelfApart, ElementApart, ElementEndApart, XPathApart
<1>9. /\ \A j : StringC(j) \notin Queued'
      /\ \A j : XPathC(j) \in Queued' => j = "success"
      /\ \A j : ElementC(j) \in Queued' => j = Verdict
      /\ \A j : ElementEndC(j) \in Queued' => j = Verdict
  BY XPathApart, StringApart, ElementApart, ElementEndApart
<1>10. stage' \in Stage /\ stage' \notin Params \cup { "READ_RESPONSE", "SUCCESS_TEST_BEGIN" }
       /\ stage \notin Params \cup { "READ_RESPONSE" }
  BY <1>1, <1>6 DEF Stage, Params, Content, IInv, CallsInStep
<1>11. TypeOK'
  <2>1. ASSUME NEW j \in Item
        PROVE  val'[j] \in {Meaning(j)', "NULL", "empty"} \cup Bool
    BY <1>4, ValTyped, ItemIs
  <2>2. made' \subseteq Item
    BY <1>6 DEF IInv, TypeOK
  <2>3. result' \subseteq { "SUCCESS", "FAILURE" }
    <3>1. Verdict' \in Content
      BY <1>4, <1>6
    <3>2. result' = {} \/ result' = {Verdict'}
      BY DEF Replaces
    <3> QED BY <3>1, <3>2 DEF Content
  <2> QED BY <1>2, <1>3, <1>10, <2>1, <2>2, <2>3 DEF TypeOK, IInv
<1>12. Counted'
  <2>1. One(FirstC \notin Queued /\ result = {})' = One(result' = {})
    BY <1>8 DEF One
  <2>2. \A j \in Value : count'[j] = One(ElementEndC(j) \in Queued)'
    BY <1>7 DEF One
  <2>3. One(result' = {}) \in Nat /\ count'[S] \in Nat /\ count'[R] \in Nat
    BY NodeIs DEF One
  <2>4. count'[I] = One(FirstC \notin Queued /\ result = {})' + count'[P] + count'[S] + count'[R]
    <3> DEFINE own == One(FirstC \notin Queued /\ result = {})'
    <3>1. /\ own \in Nat /\ count'[I] = own + count'[S] + count'[R] /\ count'[P] = 0
          /\ count'[S] \in Nat /\ count'[R] \in Nat
      BY <2>1, <2>3
    <3> HIDE DEF own
    <3>2. count'[I] = own + count'[P] + count'[S] + count'[R]
      BY <3>1, SMTT(30)
    <3> QED BY <3>2 DEF own
  <2>5. count'[S] = One(XPathC("success") \in Queued)'
    BY DEF One
  <2>6. count'[Var] \in {0, 1}
    BY DEF IInv, Counted
  <2> QED BY <2>2, <2>4, <2>5, <2>6 DEF Counted
<1>13. ParamsCounted'
  <2>1. Cardinality(Unready') = 0
    <3>1. \A c : c \notin Unready'
      <4> SUFFICES ASSUME NEW c \in Unready' PROVE FALSE
        OBVIOUS
      <4>1. c \in { "xpath", "elementEnd" } \X Value /\ c \in Queued'
        BY DEF Unready
      <4>2. \E i \in Value : c = XPathC(i) \/ c = ElementEndC(i)
        BY <4>1 DEF XPathC, ElementEndC
      <4> QED BY <1>7, <4>1, <4>2
    <3> QED BY <3>1, FS_EmptySet
  <2> QED BY <1>10, <2>1 DEF ParamsCounted, Params
<1>14. Fresh'
  BY <1>8 DEF Fresh
<1>15. Heard'
  <2>1. /\ request \in { <<>>, MeantRequest } /\ request # <<>>
        /\ ~ (request # <<>> /\ ~ refused /\ ~ over)
        /\ ended # "no"
    BY <1>10 DEF IInv, Heard
  <2>2. stage' = "SUCCESS_TEST_END" => ended = "whole" /\ config.how["success"] = "xpath"
    BY DEF IInv, Heard
  <2>3. stage' \in Content => stage' = Verdict
    BY <1>6 DEF Content
  <2> QED BY <1>3, <1>4, <1>10, <2>1, <2>2, <2>3 DEF Heard
<1>16. CallsInStep'
  <2>1. config.how["success"] = "xpath" \/ XPathC("success") \notin Queued'
    BY DEF IInv, Heard
  <2>2. \A i \in Item :
          /\ XPathC(i) \in Queued' => i \in Value \cup {"success"} /\ config'.how[i] = "xpath"
          /\ StringC(i) \in Queued' => i \in Value /\ config'.how[i] = "list"
          /\ ElementC(i) \in Queued' =>
               /\ i \in Value \cup Content /\ config'.how[i] = "list"
               /\ ElementEndC(i) \notin Queued'
          /\ ElementEndC(i) \in Queued' => i \in Value \cup Content
    BY <1>3, <1>6, <1>9, <2>1
  <2>3. \A s \in Content :
          /\ ElementC(s) \in Queued' => stage' = s /\ Entered'
          /\ ElementEndC(s) \in Queued' => s = Verdict' /\ (Entered' \/ stage' = "END")
    BY <1>4, <1>9, <1>10 DEF Entered, Content
  <2> QED BY <1>7, <1>10, <2>2, <2>3 DEF CallsInStep
<1>17. ValuesKnown'
  <2>1. \A j \in First : Answered(j)'
    <3> SUFFICES ASSUME NEW j \in First PROVE Answered(j)'
      OBVIOUS
    <3>1. j \in Value
      BY DEF Value
    <3>2. Answered(j)
      BY <1>5, <3>1 DEF IInv, ValuesKnown
    <3> QED BY <1>3, <1>4, <3>1, <3>2 DEF Answered
  <2>2. ASSUME NEW i \in Second
        PROVE  /\ ~ Means(i)' => val'[i] = "NULL"
               /\ Means(i)' => val'[i] = Meaning(i)'
    <3>1. i \in Value
      BY DEF Value
    <3>2. (~ Means(i) => val[i] = "NULL") /\ (Means(i) => val[i] = Meaning(i))
      BY <1>5, <1>10, <3>1 DEF IInv, ValuesKnown, Params
    <3> QED BY <1>4, <3>1, <3>2
  <2>3. stage' # "PARAMS_BEGIN"
    BY <1>10 DEF Params
  <2> QED BY <1>4, <2>1, <2>2, <2>3 DEF ValuesKnown
<1> QED BY <1>2, <1>11, <1>12, <1>13, <1>14, <1>15, <1>16, <1>17 DEF Kept, IInv

\* A node is released while nothing waits.
LEMMA ReleaseUnwaited ==
  ASSUME NEW n \in Awaited, NEW f \in [Node -> Nat], NEW t \in [Node -> Seq(Call)],
         NEW q \in Seq(Call), QueuesApart(q, t), \A m \in Node : t[m] = <<>>,
         \A m \in ToSet(PathOf(n)) : f[m] > 0
  PROVE  /\ AfterC(f, n) \in [Node -> Nat]
         /\ \A m \in Node : AfterC(f, n)[m] = IF m \in ToSet(PathOf(n)) THEN f[m] - 1 ELSE f[m]
         /\ AfterT(f, t, n) = t /\ AfterQ(f, t, q, n) = q
<1>1. \A m \in Node : \A x : x \notin ToSet(t[m])
  BY DEF ToSet
<1>2. Placed(t, f)
  BY <1>1 DEF Placed
<1>3. \A m \in ToSet(PathOf(n)) : m \in Node
  BY Walks DEF ToSet
<1>4. AfterT(f, t, n) = t /\ AfterQ(f, t, q, n) = q
  BY <1>3, NoneWoken
<1>5. /\ AfterC(f, n) \in [Node -> Nat]
      /\ \A m \in Node : AfterC(f, n)[m] = IF m \in ToSet(PathOf(n)) THEN f[m] - 1 ELSE f[m]
  BY <1>2, Release
<1> QED BY <1>4, <1>5

LEMMA OwnReleased ==
  ASSUME IInv, Calls("include", "self"), \A m \in Node : tcb[m] = <<>>,
         NEW f \in [Node -> Nat], f[I] > 0, f[Doc] > 0
  PROVE  /\ AfterC(f, I) \in [Node -> Nat]
         /\ \A m \in Node : AfterC(f, I)[m] = IF m \in { I, Doc } THEN f[m] - 1 ELSE f[m]
         /\ AfterT(f, tcb, I) = tcb /\ AfterQ(f, tcb, Rest, I) = Rest
<1>1. ToSet(PathOf(I)) = { I, Doc } /\ I \in Awaited
  BY PathSets DEF Awaited
<1>2. tcb \in [Node -> Seq(Call)]
  BY QueueTypes DEF IInv
<1>3. Rest \in Seq(Call) /\ QueuesApart(Rest, tcb)
  BY Takes
<1>4. \A m \in ToSet(PathOf(I)) : f[m] > 0
  BY <1>1
<1>5. /\ AfterC(f, I) \in [Node -> Nat]
      /\ \A m \in Node : AfterC(f, I)[m] = IF m \in ToSet(PathOf(I)) THEN f[m] - 1 ELSE f[m]
      /\ AfterT(f, tcb, I) = tcb /\ AfterQ(f, tcb, Rest, I) = Rest
  BY <1>1, <1>2, <1>3, <1>4, ReleaseUnwaited, ZenonT(30)
<1> QED BY <1>1, <1>5

\* The include ends: nothing waits any more, and the content that the answer
\* calls for takes the place of the element.
LEMMA EndsKeeps ==
  ASSUME IInv, Calls("include", "self"), Goes, stage \notin Params, ended # "no",
         ~ ContentWaits,
         NEW C \in [Node -> Nat], NEW d \in {0, 1}, count[R] = d,
         \A m \in Node : C[m] = IF m \in { R, I, Doc } THEN count[m] - d ELSE count[m],
         count' = AfterC(C, I), tcb' = AfterT(C, tcb, I), main' = AfterQ(C, tcb, Rest, I),
         stage' = "END", made' \subseteq made \cup {Verdict}, Verdict \in made',
         result' = made' \cap { "SUCCESS", "FAILURE" },
         val' = [i \in Item |-> val'[i]], \A i \in Value \cup Content : val'[i] = val[i],
         val'["success"] \in { val["success"], Meaning("success") },
         UNCHANGED <<subrequest, answer, host>>
  PROVE  Kept
<1>1. /\ Rest = <<>> /\ \A m \in Node : tcb[m] = <<>>
      /\ \A x : x \in Queued <=> x = Self
      /\ result = {} /\ count[S] = 0 /\ \A i \in Value : count[i] = 0
  BY Settled
<1>2. count[P] = 0 /\ FirstC \notin Queued
  BY LateCalls
<1>3. /\ { Doc, Var, I, P, S, R } \subseteq Node /\ Value \subseteq Node
      /\ I \in Awaited /\ ToSet(PathOf(I)) = { I, Doc }
  BY NodeIs, PathSets DEF Awaited
<1>4. /\ count[I] = 1 + d /\ count[Doc] = count[Var] + 1 + d /\ count[Var] \in {0, 1}
  <2>1. One(FirstC \notin Queued /\ result = {}) = 1
    BY <1>1, <1>2 DEF One
  <2>2. /\ count[I] = One(FirstC \notin Queued /\ result = {}) + count[P] + count[S] + count[R]
        /\ count[Doc] = count[Var] + count[I] /\ count[Var] \in {0, 1}
    BY DEF IInv, Counted
  <2> QED BY <1>1, <1>2, <2>1, <2>2
<1>5. C[I] = 1 /\ C[Doc] = count[Var] + 1 /\ C[Var] = count[Var] /\ C[P] = 0 /\ C[S] = 0 /\ C[R] = 0
  BY <1>1, <1>2, <1>3, <1>4, NodesApart
<1>6. \A i \in Value : C[i] = 0
  BY <1>1, <1>3, NodeIs
<1>7. /\ tcb \in [Node -> Seq(Call)] /\ Rest \in Seq(Call) /\ QueuesApart(Rest, tcb)
      /\ \A x : x \notin InQueues(Rest, tcb)
  <2>1. tcb \in [Node -> Seq(Call)]
    BY QueueTypes DEF IInv
  <2>2. /\ Rest \in Seq(Call) /\ QueuesApart(Rest, tcb)
        /\ \A x : x \in InQueues(Rest, tcb) <=> x \in Queued /\ x # Self
    BY Takes DEF Self
  <2> QED BY <1>1, <2>1, <2>2
<1>8. \A n \in Node : \A x : x \notin ToSet(tcb[n])
  BY <1>1 DEF ToSet
<1>11. /\ AfterC(C, I) \in [Node -> Nat]
       /\ \A m \in Node : AfterC(C, I)[m] = IF m \in { I, Doc } THEN C[m] - 1 ELSE C[m]
       /\ main' = Rest /\ tcb' = tcb
  <2>1. C[I] > 0 /\ C[Doc] > 0
    BY <1>4, <1>5
  <2> QED BY <1>1, <2>1, OwnReleased
<1>13. \A x : x \notin Queued' /\ ~ InMain(x)'
  BY <1>1, <1>7, <1>11 DEF Queued, InMain, ToSet
<1>14. Placed(tcb, count)'
  BY <1>1, <1>8, <1>11 DEF Placed
<1>15. /\ count'[Var] = count[Var] /\ count'[Doc] = count[Var] /\ count'[I] = 0
       /\ count'[P] = 0 /\ count'[S] = 0 /\ count'[R] = 0
       /\ \A i \in Value : count'[i] = 0
  BY <1>3, <1>4, <1>5, <1>6, <1>11, NodesApart, NodeIs
<1>16. /\ Verdict' = Verdict /\ ended' = ended /\ status' = status /\ request' = request
       /\ Verdict \in Content /\ MeantRequest' = MeantRequest /\ MeantTest' = MeantTest
  BY SheetStays, VerdictStays DEF Verdict, Content, answer, subrequest
<1>17. made \cap Content \subseteq {Verdict}
  BY DEF IInv, Replaces
<1>18. result' = {Verdict}
  BY <1>16, <1>17 DEF Content
<1>19. Ordered'
  BY <1>13 DEF Ordered
<1>20. ~ ContentWaits' /\ ~ Entered'
  BY <1>13 DEF ContentWaits, Entered, Content
<1>21. ResultCounted'
  BY <1>13, <1>15, <1>20 DEF ResultCounted, One
<1>22. Replaces'
  BY <1>13, <1>16, <1>17, <1>18, <1>20 DEF Replaces
<1>23. [E!Next]_(E!vars)
  <2>1. result' = {IF E!Succeeds THEN "SUCCESS" ELSE "FAILURE"}
    BY <1>18 DEF Verdict
  <2>2. E!Finish
    BY <1>1, <1>16, <2>1 DEF E!Finish
  <2> QED BY <2>2 DEF E!Next
<1>24. /\ count' \in [Node -> Nat] /\ tcb' \in [Node -> Seq(Call)] /\ main' \in Seq(Call)
       /\ QueuesApart(main', tcb')
  BY <1>7, <1>11
<1>25. /\ One(result' = {}) = 0 /\ One(XPathC("success") \in Queued') = 0
  BY <1>13, <1>18 DEF One
<1>26. /\ count'[Doc] = count'[Var] + count'[I]
       /\ count'[I] = One(result' = {}) + count'[S] + count'[R]
       /\ count'[S] = One(XPathC("success") \in Queued')
  BY <1>4, <1>15, <1>25
<1> QED BY <1>13, <1>14, <1>15, <1>19, <1>21, <1>22, <1>23, <1>24, <1>26, LateKeeps

\* The queues, when nothing or one call waits.
LEMMA NothingWaits ==
  ASSUME NEW t \in [Node -> Seq(Call)], \A m \in Node : t[m] = <<>>,
         NEW q \in Seq(Call), IsInjective(q)
  PROVE  /\ QueuesApart(q, t)
         /\ \A x : x \in InQueues(q, t) <=> x \in ToSet(q)
<1>1. \A m \in Node : \A x : x \notin ToSet(t[m])
  BY DEF ToSet
<1>2. \A m \in Node : IsInjective(t[m])
  BY DEF IsInjective
<1>3. DOMAIN t = Node
  OBVIOUS
<1>4. QueuesApart(q, t)
  BY <1>1, <1>2, <1>3 DEF QueuesApart
<1>5. \A x : x \in InQueues(q, t) <=> x \in ToSet(q)
  BY <1>1, <1>3 DEF InQueues
<1> QED BY <1>4, <1>5

Unwaited(t) == \A m \in Node : t[m] = <<>>

WaitsAlone(q, t, n, d) ==
  /\ t \in [Node -> Seq(Call)] /\ QueuesApart(q, t)
  /\ \A m \in Node : /\ t[m] # <<>> => m = n
                     /\ \A x \in ToSet(t[m]) : x = d /\ m = n
  /\ \A x : x \in InQueues(q, t) <=> x \in ToSet(q) \/ x = d

LEMMA OneWaits ==
  ASSUME NEW t \in [Node -> Seq(Call)], Unwaited(t),
         NEW q \in Seq(Call), IsInjective(q), NEW n \in Node, NEW d \in Call, d \notin ToSet(q)
  PROVE  WaitsAlone(q, Parked(t, n, d), n, d)
<1>1. QueuesApart(q, t) /\ \A x : x \in InQueues(q, t) <=> x \in ToSet(q)
  BY NothingWaits DEF Unwaited
<1>2. d \notin InQueues(q, t)
  BY <1>1
<1>3. /\ Parked(t, n, d) \in [Node -> Seq(Call)] /\ QueuesApart(q, Parked(t, n, d))
      /\ InQueues(q, Parked(t, n, d)) = InQueues(q, t) \cup {d}
  BY <1>1, <1>2, ParkApart
<1>4. \A m \in Node : Parked(t, n, d)[m] = IF m = n THEN Append(t[m], d) ELSE t[m]
  BY DEF Parked
<1>5. Append(<<>>, d) = <<d>> /\ ToSet(<<d>>) = {d} /\ \A x : x \notin ToSet(<<>>)
  BY DEF ToSet
<1>6. \A m \in Node : Parked(t, n, d)[m] = IF m = n THEN <<d>> ELSE <<>>
  BY <1>4, <1>5 DEF Unwaited
<1>7. ASSUME NEW m \in Node
      PROVE  /\ Parked(t, n, d)[m] # <<>> => m = n
             /\ \A x \in ToSet(Parked(t, n, d)[m]) : x = d /\ m = n
  <2>1. CASE m = n
    BY <1>5, <1>6, <2>1
  <2>2. CASE m # n
    BY <1>5, <1>6, <2>2
  <2> QED BY <2>1, <2>2
<1> QED BY <1>1, <1>3, <1>7 DEF WaitsAlone

\* What is held when the include goes on with an answer that has ended.
LEMMA LateCounts ==
  ASSUME IInv, Calls("include", "self"), stage \notin Params, ~ ContentWaits
  PROVE  /\ count \in [Node -> Nat] /\ tcb \in [Node -> Seq(Call)] /\ DOMAIN tcb = Node
         /\ \A m \in Node : tcb[m] = <<>>
         /\ Rest = <<>> /\ result = {} /\ count[P] = 0 /\ count[S] = 0
         /\ \A i \in Value : count[i] = 0
         /\ count[Var] \in {0, 1} /\ count[I] = 1 + count[R] /\ count[Doc] = count[Var] + count[I]
         /\ Self \in Call
<1>1. /\ Rest = <<>> /\ \A m \in Node : tcb[m] = <<>>
      /\ result = {} /\ count[S] = 0 /\ \A i \in Value : count[i] = 0
  BY Settled
<1>2. count[P] = 0 /\ FirstC \notin Queued
  BY LateCalls
<1>3. /\ count \in [Node -> Nat] /\ tcb \in [Node -> Seq(Call)] /\ DOMAIN tcb = Node
  BY QueueTypes DEF IInv
<1>4. One(FirstC \notin Queued /\ result = {}) = 1
  BY <1>1, <1>2 DEF One
<1>5. /\ count[I] = One(FirstC \notin Queued /\ result = {}) + count[P] + count[S] + count[R]
      /\ count[Doc] = count[Var] + count[I] /\ count[Var] \in {0, 1}
  BY DEF IInv, Counted
<1>6. count[R] \in Nat
  BY <1>3, NodeIs
<1>7. count[I] = 1 + count[R]
  BY <1>1, <1>2, <1>4, <1>5, <1>6
<1>8. Self \in Call
  BY CallsTyped
<1> QED BY <1>1, <1>2, <1>3, <1>5, <1>7, <1>8

\* A branch is entered, and its content is asked for: q is the main queue then,
\* k how often the result is held, and w whether the content waits.
LEMMA AsksKeeps ==
  ASSUME IInv, Calls("include", "self"), Goes, stage \notin Params, ended # "no",
         ~ ContentWaits, count[R] = 0, NEW v, v = Verdict,
         NEW k \in {0, 1, 2}, NEW q \in Seq(Call), NEW w \in BOOLEAN,
         count' \in [Node -> Nat],
         \A m \in Node : count'[m] = IF m \in { R, I, Doc } THEN count[m] + k ELSE count[m],
         main' = q, IsInjective(q), Self \in ToSet(q),
         \A x \in ToSet(q) : x \in { Self, ElementC(v) },
         ElementC(v) \in ToSet(q) =>
           /\ config.how[v] = "list" /\ k = 1
           /\ InFront(q, ElementC(v), Self),
         w => k = 2 /\ ~ VariableReady /\ tcb' = Parked(tcb, Var, ElementEndC(v)),
         ~ w => k < 2 /\ tcb' = tcb,
         stage' = IF k = 0 THEN "END" ELSE v,
         made' \subseteq made \cup {v}, made \subseteq made',
         v \in made' \/ ElementC(v) \in ToSet(q) \/ w,
         result' = result,
         val' = [i \in Item |-> val'[i]], \A i \in Value \cup Content : val'[i] = val[i],
         val'["success"] \in { val["success"], Meaning("success") },
         UNCHANGED <<subrequest, answer, host>>
  PROVE  Kept
<1>1. /\ count \in [Node -> Nat] /\ tcb \in [Node -> Seq(Call)] /\ DOMAIN tcb = Node
      /\ \A m \in Node : tcb[m] = <<>>
      /\ result = {} /\ count[P] = 0 /\ count[S] = 0
      /\ \A i \in Value : count[i] = 0
      /\ count[Var] \in {0, 1} /\ count[I] = 1 /\ count[Doc] = count[Var] + 1
  BY LateCounts
<1>2. v \in Content /\ v \in Item /\ ElementEndC(v) \in Call
  BY CallsTyped, ItemIs DEF Verdict, Content
<1>3. ElementEndC(v) \notin ToSet(q)
  BY SelfApart, ElementEndApart
<1>4. Var \in Node /\ \A x : x \notin ToSet(<<>>)
  BY NodeIs DEF ToSet
<1>5. /\ count'[Var] = count[Var] /\ count'[Doc] = count[Var] + 1 + k /\ count'[I] = 1 + k
      /\ count'[P] = 0 /\ count'[S] = 0 /\ count'[R] = k
      /\ \A i \in Value : count'[i] = 0
  BY <1>1, NodesApart, NodeIs
<1>6. /\ tcb' \in [Node -> Seq(Call)] /\ QueuesApart(main', tcb') /\ Placed(tcb, count)'
      /\ \A x : x \in InQueues(main', tcb') <=>
                  x \in ToSet(q) \/ (w /\ x = ElementEndC(v))
  <2>1. CASE w
    <3>1. /\ tcb' \in [Node -> Seq(Call)] /\ QueuesApart(q, tcb')
          /\ \A m \in Node : /\ tcb'[m] # <<>> => m = Var
                             /\ \A x \in ToSet(tcb'[m]) : x = ElementEndC(v) /\ m = Var
          /\ \A x : x \in InQueues(q, tcb') <=> x \in ToSet(q) \/ x = ElementEndC(v)
      <4>1. tcb' = Parked(tcb, Var, ElementEndC(v))
        BY <2>1
      <4>2. tcb \in [Node -> Seq(Call)] /\ Unwaited(tcb)
        BY <1>1 DEF Unwaited
      <4>3. Var \in Node /\ ElementEndC(v) \in Call /\ ElementEndC(v) \notin ToSet(q)
        BY <1>2, <1>3, <1>4
      <4>4. WaitsAlone(q, Parked(tcb, Var, ElementEndC(v)), Var, ElementEndC(v))
        BY <4>2, <4>3, OneWaits
      <4> QED BY <4>1, <4>4 DEF WaitsAlone
    <3>2. count'[Var] > 0
      BY <1>1, <1>5, <2>1 DEF VariableReady
    <3>3. MayWait(ElementEndC(v), Var)'
      BY <1>2 DEF MayWait
    <3>5. \A m \in Node : /\ tcb'[m] # <<>> => count'[m] > 0
                          /\ \A x \in ToSet(tcb'[m]) : MayWait(x, m)'
      BY <3>1, <3>2, <3>3
    <3> QED BY <2>1, <3>1, <3>5 DEF Placed
  <2>2. CASE ~ w
    <3>1. tcb' = tcb /\ main' = q
      BY <2>2
    <3>2. QueuesApart(q, tcb) /\ \A x : x \in InQueues(q, tcb) <=> x \in ToSet(q)
      BY <1>1, NothingWaits
    <3>3. Placed(tcb, count)'
      BY <1>1, <1>4, <3>1 DEF Placed
    <3> QED BY <1>1, <2>2, <3>1, <3>2, <3>3
  <2> QED BY <2>1, <2>2
<1>7. /\ \A x : x \in Queued' <=> x \in ToSet(q) \/ (w /\ x = ElementEndC(v))
      /\ \A x : InMain(x)' <=> x \in ToSet(q)
  BY <1>6 DEF Queued, InMain
<1>8. /\ Verdict' = v /\ ended' = ended /\ status' = status /\ request' = request
      /\ MeantRequest' = MeantRequest /\ MeantTest' = MeantTest
  BY SheetStays, VerdictStays DEF answer, subrequest
<1>9. /\ InMain(Self)' /\ Self \in Queued' /\ VariableC \notin Queued'
      /\ \A i : /\ ~ InMain(XPathC(i))' /\ ~ InMain(ElementEndC(i))' /\ ~ InMain(StringC(i))'
                /\ StringC(i) \notin Queued' /\ XPathC(i) \notin Queued'
                /\ ElementEndC(i) \in Queued' <=> w /\ i = v
                /\ ElementC(i) \in Queued' <=> i = v /\ ElementC(v) \in ToSet(q)
  <2>1. InMain(Self)' /\ Self \in Queued' /\ VariableC \notin Queued'
    BY <1>7, VariableApart, ElementEndApart
  <2>2. ASSUME NEW i
        PROVE  /\ ~ InMain(XPathC(i))' /\ ~ InMain(ElementEndC(i))' /\ ~ InMain(StringC(i))'
               /\ StringC(i) \notin Queued' /\ XPathC(i) \notin Queued'
               /\ ElementEndC(i) \in Queued' <=> w /\ i = v
               /\ ElementC(i) \in Queued' <=> i = v /\ ElementC(v) \in ToSet(q)
    <3>1. /\ XPathC(i) \notin { Self, ElementC(v), ElementEndC(v) }
          /\ StringC(i) \notin { Self, ElementC(v), ElementEndC(v) }
      BY XPathApart, StringApart
    <3>2. /\ ElementEndC(i) \notin { Self, ElementC(v) }
          /\ ElementEndC(i) = ElementEndC(v) <=> i = v
      BY ElementEndApart
    <3>3. /\ ElementC(i) \notin { Self, ElementEndC(v) }
          /\ ElementC(i) = ElementC(v) <=> i = v
      BY ElementApart
    <3> QED BY <1>7, <3>1, <3>2, <3>3
  <2> QED BY <2>1, <2>2
<1>10. Entered' <=> k # 0
  BY <1>2, <1>5 DEF Entered, Content
<1>11. ContentWaits' <=> w
  BY <1>2, <1>9 DEF ContentWaits
<1>12. ResultCounted'
  <2>1. stage' # "SUCCESS_TEST_END" /\ (stage' = "END" => k = 0)
    BY <1>2 DEF Content
  <2>2. count'[R] = One(ContentWaits)' + One(Entered)'
    <3>1. CASE k = 0
      BY <1>5, <1>10, <1>11, <3>1 DEF One
    <3>2. CASE k = 1
      BY <1>5, <1>10, <1>11, <3>2 DEF One
    <3>3. CASE k = 2
      BY <1>5, <1>10, <1>11, <3>3 DEF One
    <3> QED BY <3>1, <3>2, <3>3
  <2> QED BY <1>5, <1>9, <2>1, <2>2 DEF ResultCounted
<1>13. Ordered'
  <2>1. v \notin Value
    BY <1>2, ItemsApart
  <2> QED BY <1>9, <2>1 DEF Ordered
<1>14. Replaces'
  <2>1. made \cap Content \subseteq { s \in {v} : ended # "no" }
    BY DEF IInv, Replaces
  <2> QED BY <1>1, <1>2, <1>8, <1>9, <1>10, <2>1 DEF Replaces, Content
<1>15. UNCHANGED E!vars
  BY <1>8 DEF E!vars
<1>16. One(result' = {}) = 1 /\ One(XPathC("success") \in Queued') = 0
  BY <1>1, <1>9 DEF One
<1>17. /\ count'[Doc] = count'[Var] + count'[I]
       /\ count'[I] = One(result' = {}) + count'[S] + count'[R]
       /\ count'[S] = One(XPathC("success") \in Queued')
  BY <1>1, <1>5, <1>16
<1>18. /\ stage' \in { "SUCCESS_TEST_END", v, "END" } /\ stage' # "SUCCESS_TEST_END"
  BY <1>2 DEF Content
<1>19. \A x \in Queued' :
         x \in { Self, ElementC(v), ElementEndC(v), XPathC("success") }
  BY <1>7
<1>20. main' \in Seq(Call)
  OBVIOUS
<1>21. ElementC(v) \in Queued' =>
         /\ config.how[v] = "list" /\ ElementEndC(v) \notin Queued' /\ Entered'
  BY <1>9, <1>10
<1>22. ElementEndC(v) \in Queued' => Entered' \/ stage' = "END"
  BY <1>9, <1>10
<1>23. [E!Next]_(E!vars)
  BY <1>15
<1> QED BY <1>1, <1>5, <1>6, <1>9, <1>12, <1>13, <1>14, <1>17, <1>18, <1>19, <1>20, <1>21, <1>22,
  <1>23, LateKeeps

\* The queues a branch leaves: the call of the include, behind an element or not.
LEMMA ShortQueues ==
  ASSUME NEW a \in Call, NEW b \in Call, a # b
  PROVE  /\ Append(<<>>, a) = <<a>> /\ <<>> \o << a, b >> = << a, b >>
         /\ <<a>> \in Seq(Call) /\ IsInjective(<<a>>) /\ ToSet(<<a>>) = {a}
         /\ << a, b >> \in Seq(Call) /\ IsInjective(<< a, b >>) /\ ToSet(<< a, b >>) = { a, b }
         /\ InFront(<< a, b >>, a, b)
<1> DEFINE q == << a, b >>
<1>1. q \in Seq(Call) /\ Len(q) = 2 /\ q[1] = a /\ q[2] = b /\ DOMAIN q = {1, 2}
  OBVIOUS
<1>2. <<a>> \in Seq(Call) /\ IsInjective(<<a>>) /\ ToSet(<<a>>) = {a}
  BY DEF IsInjective, ToSet
<1>3. Append(<<>>, a) = <<a>> /\ <<>> \o q = q
  <2>1. \A s \in Seq(Call) : <<>> \o s = s
    OBVIOUS
  <2> QED BY <1>1, <2>1
<1> HIDE DEF q
<1>4. IsInjective(q) /\ ToSet(q) = { a, b }
  BY <1>1 DEF IsInjective, ToSet
<1>5. InFront(q, a, b)
  BY <1>1 DEF InFront
<1> QED BY <1>1, <1>2, <1>3, <1>4, <1>5 DEF q

LEMMA EntersKeeps ==
  ASSUME IInv, Calls("include", "self"), Goes, stage \notin Params, ended # "no",
         ~ ContentWaits, count[R] = 0, NEW v, v = Verdict, EntersBranch(v),
         val' = [i \in Item |-> val'[i]], \A i \in Value \cup Content : val'[i] = val[i],
         val'["success"] \in { val["success"], Meaning("success") },
         UNCHANGED <<subrequest, answer, host>>
  PROVE  Kept
<1>1. /\ count \in [Node -> Nat] /\ Rest = <<>> /\ result = {} /\ Self \in Call
  BY LateCounts
<1>2. v \in Content /\ v \in Item /\ ElementC(v) \in Call /\ ElementC(v) # Self
  BY CallsTyped, ItemIs, ElementApart DEF Verdict, Content
<1>3. /\ \A m \in Node : count[m] \in Nat
      /\ R \in Awaited /\ ToSet(PathOf(R)) = { R, I, Doc }
  BY <1>1, PathSets DEF Awaited
<1>4. /\ Append(Rest, Self) = <<Self>> /\ <<Self>> \in Seq(Call) /\ IsInjective(<<Self>>)
      /\ ToSet(<<Self>>) = {Self}
  BY <1>1, <1>2, ShortQueues
<1>5. ElementC(v) \notin ToSet(<<Self>>)
  BY <1>2, <1>4
<1>6. Increased(count, PathOf(R)) \in [Node -> Nat]
      /\ \A m \in Node : Increased(count, PathOf(R))[m] =
           IF m \in { R, I, Doc } THEN count[m] + 1 ELSE count[m]
  BY <1>1, <1>3 DEF Increased
<1>7. CASE config.how[v] = "none" /\ made' = made \cup {v} /\ Ends(count, tcb, Rest, made')
  <2>1. /\ count' = AfterC(count, I) /\ tcb' = AfterT(count, tcb, I)
        /\ main' = AfterQ(count, tcb, Rest, I) /\ stage' = "END"
        /\ result' = made' \cap { "SUCCESS", "FAILURE" }
    BY <1>7 DEF Ends, AfterC, AfterT, AfterQ
  <2>2. ASSUME NEW d \in {0, 1}, d = 0
        PROVE  Kept
    <3>1. \A m \in Node : count[m] = IF m \in { R, I, Doc } THEN count[m] - d ELSE count[m]
      BY <1>3, <2>2
    <3>2. made' \subseteq made \cup {Verdict} /\ Verdict \in made' /\ count[R] = d
      BY <1>7, <2>2
    <3> QED BY <1>1, <2>1, <3>1, <3>2, EndsKeeps
  <2> QED BY <2>2
<1>8. CASE /\ made' = made \cup {v} /\ stage' = "END" /\ main' = Append(Rest, Self)
           /\ UNCHANGED <<count, tcb, result>>
  <2>1. \A k \in {0, 1, 2} : k = 0 =>
          \A m \in Node : count'[m] = IF m \in { R, I, Doc } THEN count[m] + k ELSE count[m]
    BY <1>3, <1>8
  <2>2. ASSUME NEW k \in {0, 1, 2}, k = 0, NEW w \in BOOLEAN, ~ w, NEW q, q = <<Self>>
        PROVE  Kept
    <3>1. /\ q \in Seq(Call) /\ IsInjective(q) /\ Self \in ToSet(q) /\ main' = q
          /\ \A x \in ToSet(q) : x \in { Self, ElementC(v) }
          /\ ElementC(v) \notin ToSet(q)
      BY <1>4, <1>5, <1>8, <2>2
    <3>2. /\ count' \in [Node -> Nat] /\ tcb' = tcb /\ result' = result /\ k < 2
          /\ \A m \in Node : count'[m] = IF m \in { R, I, Doc } THEN count[m] + k ELSE count[m]
          /\ stage' = IF k = 0 THEN "END" ELSE v
          /\ made' \subseteq made \cup {v} /\ made \subseteq made' /\ v \in made'
      BY <1>1, <1>8, <2>1, <2>2
    <3> QED BY <2>2, <3>1, <3>2, AsksKeeps
  <2> QED BY <2>2
<1>9. CASE /\ config.how[v] = "list" /\ stage' = v /\ count' = Increased(count, PathOf(R))
           /\ main' = Rest \o << <<"element", v>>, Self >>
           /\ UNCHANGED <<tcb, made, result>>
  <2>1. ASSUME NEW k \in {0, 1, 2}, k = 1, NEW w \in BOOLEAN, ~ w,
               NEW q, q = << ElementC(v), Self >>
        PROVE  Kept
    <3>1. /\ q \in Seq(Call) /\ IsInjective(q) /\ ToSet(q) = { ElementC(v), Self }
          /\ InFront(q, ElementC(v), Self) /\ <<>> \o q = q
      BY <1>1, <1>2, <2>1, ShortQueues
    <3>2. main' = q
      BY <1>1, <1>9, <2>1, <3>1 DEF ElementC
    <3>3. /\ count' \in [Node -> Nat] /\ tcb' = tcb /\ result' = result /\ k < 2
          /\ \A m \in Node : count'[m] = IF m \in { R, I, Doc } THEN count[m] + k ELSE count[m]
          /\ stage' = IF k = 0 THEN "END" ELSE v
          /\ made' \subseteq made \cup {v} /\ made \subseteq made'
      BY <1>6, <1>9, <2>1
    <3>4. /\ Self \in ToSet(q) /\ ElementC(v) \in ToSet(q)
          /\ \A x \in ToSet(q) : x \in { Self, ElementC(v) }
      BY <3>1
    <3> QED BY <1>9, <2>1, <3>1, <3>2, <3>3, <3>4, AsksKeeps
  <2> QED BY <2>1
<1>10. CASE /\ stage' = v /\ main' = Append(Rest, Self) /\ result' = result
            /\ count' = Increased(count, PathOf(R)) /\ made' = made \cup {v} /\ tcb' = tcb
  <2>1. ASSUME NEW k \in {0, 1, 2}, k = 1, NEW w \in BOOLEAN, ~ w, NEW q, q = <<Self>>
        PROVE  Kept
    <3>1. /\ q \in Seq(Call) /\ IsInjective(q) /\ Self \in ToSet(q) /\ main' = q
          /\ \A x \in ToSet(q) : x \in { Self, ElementC(v) }
          /\ ElementC(v) \notin ToSet(q)
      BY <1>4, <1>5, <1>10, <2>1
    <3>2. /\ count' \in [Node -> Nat] /\ tcb' = tcb /\ result' = result /\ k < 2
          /\ \A m \in Node : count'[m] = IF m \in { R, I, Doc } THEN count[m] + k ELSE count[m]
          /\ stage' = IF k = 0 THEN "END" ELSE v
          /\ made' \subseteq made \cup {v} /\ made \subseteq made' /\ v \in made'
      BY <1>6, <1>10, <2>1
    <3> QED BY <2>1, <3>1, <3>2, AsksKeeps
  <2> QED BY <2>1
<1>11. CASE /\ stage' = v /\ main' = Append(Rest, Self) /\ result' = result /\ ~ VariableReady
            /\ count' = Increased(Increased(count, PathOf(R)), PathOf(R))
            /\ tcb' = Parked(tcb, Var, <<"elementEnd", v>>) /\ made' = made
  <2>1. ASSUME NEW k \in {0, 1, 2}, k = 2, NEW w \in BOOLEAN, w, NEW q, q = <<Self>>
        PROVE  Kept
    <3>1. /\ q \in Seq(Call) /\ IsInjective(q) /\ Self \in ToSet(q) /\ main' = q
          /\ \A x \in ToSet(q) : x \in { Self, ElementC(v) }
          /\ ElementC(v) \notin ToSet(q)
      BY <1>4, <1>5, <1>11, <2>1
    <3>2. /\ count' \in [Node -> Nat]
          /\ \A m \in Node : count'[m] = IF m \in { R, I, Doc } THEN count[m] + 2 ELSE count[m]
      <4> DEFINE f == Increased(count, PathOf(R))
      <4>1. f \in [Node -> Nat] /\ count' = Increased(f, PathOf(R))
            /\ \A m \in Node : f[m] = IF m \in { R, I, Doc } THEN count[m] + 1 ELSE count[m]
        BY <1>6, <1>11
      <4> HIDE DEF f
      <4>2. /\ count' \in [Node -> Nat]
            /\ \A m \in Node : count'[m] = IF m \in { R, I, Doc } THEN f[m] + 1 ELSE f[m]
        BY <1>3, <4>1 DEF Increased
      <4> QED BY <1>3, <4>1, <4>2
    <3>3. /\ tcb' = Parked(tcb, Var, ElementEndC(v)) /\ result' = result
          /\ \A m \in Node : count'[m] = IF m \in { R, I, Doc } THEN count[m] + k ELSE count[m]
          /\ stage' = IF k = 0 THEN "END" ELSE v
          /\ made' \subseteq made \cup {v} /\ made \subseteq made'
      BY <1>11, <2>1, <3>2 DEF ElementEndC
    <3> QED BY <1>11, <2>1, <3>1, <3>2, <3>3, AsksKeeps
  <2> QED BY <2>1
<1> QED BY <1>7, <1>8, <1>9, <1>10, <1>11 DEF EntersBranch

\* A call of the include after the answer has ended, with no content under way.
LEMMA BranchIs ==
  ASSUME IInv, Calls("include", "self"),
         stage \in { "SUCCESS_TEST_BEGIN", "SUCCESS_TEST_END" }
  PROVE  /\ stage \notin Params /\ ended # "no" /\ ~ ContentWaits /\ count[R] = 0
         /\ Branch(Meaning("success")) = Verdict
<1>1. stage \notin Params \cup { "READ_RESPONSE" } \cup Content /\ stage # "END"
  BY DEF Params, Content
<1>2. ended = "whole" /\ config.how["success"] = "xpath"
  BY DEF IInv, Heard
<1>3. ~ Entered /\ ~ ContentWaits
  BY <1>1 DEF IInv, CallsInStep, Entered, ContentWaits
<1>4. count[R] = 0
  BY <1>3 DEF IInv, ResultCounted, One
<1>5. Meaning("success") = config.says["success"]
  BY DEF Meaning, Test
<1>6. MeantTest = config.says["success"] /\ MeantTest \in Bool
  <2>1. config.says["success"] \in Bool
    <3>1. config.says \in [Test \cup {"inBody"} -> Bool]
      BY DEF IInv, TypeOK, Config
    <3> QED BY <3>1 DEF Test
  <2> QED BY <1>2, <2>1 DEF MeantTest
<1>7. E!Succeeds <=> MeantTest = "true"
  BY <1>2, <1>6 DEF E!Succeeds, Bool
<1> QED BY <1>1, <1>2, <1>3, <1>4, <1>5, <1>6, <1>7 DEF Branch, Verdict

LEMMA SuccessTestEndKeeps ==
  ASSUME IInv, SuccessTestEnd
  PROVE  Kept
<1>1. /\ Calls("include", "self") /\ stage = "SUCCESS_TEST_END" /\ Goes
      /\ EntersBranch(Branch(val["success"]))
      /\ val' = val /\ UNCHANGED <<subrequest, answer, host>>
  BY DEF SuccessTestEnd
<1>2. /\ stage \notin Params /\ ended # "no" /\ ~ ContentWaits /\ count[R] = 0
      /\ Branch(Meaning("success")) = Verdict
  BY <1>1, BranchIs
<1>3. \A x : x \in Queued <=> x = Self
  BY <1>1, <1>2, Settled
<1>4. val["success"] = Meaning("success")
  BY <1>1, <1>3, SelfApart DEF IInv, ValuesKnown
<1>5. ASSUME NEW v, v = Verdict PROVE Kept
  <2>1. EntersBranch(v)
    BY <1>1, <1>2, <1>4, <1>5
  <2>2. val' = [i \in Item |-> val'[i]]
    BY <1>1 DEF IInv, ValuesKnown
  <2> QED BY <1>1, <1>2, <1>5, <2>1, <2>2, EntersKeeps
<1> QED BY <1>5

LEMMA BranchFirstKeeps ==
  ASSUME IInv, BranchFirst
  PROVE  Kept
<1>1. /\ Calls("include", "self") /\ stage \in { "SUCCESS", "FAILURE" } /\ Goes
      /\ count[R] = 0 /\ EntersBranch(stage)
      /\ val' = val /\ UNCHANGED <<subrequest, answer, host>>
  BY DEF BranchFirst
<1>2. stage \notin Params /\ ended # "no" /\ stage = Verdict
  BY <1>1 DEF IInv, Heard, Params, Content
<1>3. ~ ContentWaits
  BY <1>1 DEF IInv, ResultCounted, One, Entered
<1>4. ASSUME NEW v, v = Verdict PROVE Kept
  <2>1. EntersBranch(v)
    BY <1>1, <1>2, <1>4
  <2>2. val' = [i \in Item |-> val'[i]]
    BY <1>1 DEF IInv, ValuesKnown
  <2> QED BY <1>1, <1>2, <1>3, <1>4, <2>1, <2>2, EntersKeeps
<1> QED BY <1>4

LEMMA IncludeEndKeeps ==
  ASSUME IInv, IncludeEnd
  PROVE  Kept
<1>1. /\ Calls("include", "self") /\ stage = "END" /\ Ends(count, tcb, Rest, made) /\ Goes
      /\ val' = val /\ made' = made /\ UNCHANGED <<subrequest, answer, host>>
  BY DEF IncludeEnd, values
<1>2. InMain(Self)
  BY <1>1, Takes DEF Self
<1>3. stage \notin Params /\ ended # "no" /\ count[R] = 0
  BY <1>1, <1>2 DEF IInv, Heard, ResultCounted, Params
<1>4. ~ ContentWaits
  BY <1>1, <1>3 DEF IInv, ResultCounted, One, Entered, Content
<1>5. \A x : x \in Queued <=> x = Self
  BY <1>1, <1>3, <1>4, Settled
<1>6. Verdict \in made
  BY <1>1, <1>5, SelfApart DEF IInv, Replaces
<1>7. /\ count' = AfterC(count, I) /\ tcb' = AfterT(count, tcb, I)
      /\ main' = AfterQ(count, tcb, Rest, I) /\ stage' = "END"
      /\ result' = made' \cap { "SUCCESS", "FAILURE" }
  BY <1>1 DEF Ends, AfterC, AfterT, AfterQ
<1>8. val' = [i \in Item |-> val'[i]]
  BY <1>1 DEF IInv, ValuesKnown
<1>9. count \in [Node -> Nat]
  BY QueueTypes DEF IInv
<1>10. ASSUME NEW d \in {0, 1}, d = 0 PROVE Kept
  <2>1. \A m \in Node : count[m] \in Nat
    BY <1>9
  <2>2. \A m \in Node : count[m] = IF m \in { R, I, Doc } THEN count[m] - d ELSE count[m]
    BY <1>10, <2>1
  <2> QED BY <1>1, <1>3, <1>4, <1>6, <1>7, <1>8, <1>9, <1>10, <2>2, EndsKeeps
<1> QED BY <1>10

\* One call more is left on a node.
WaitsToo(q, t, n, d) ==
  /\ Parked(t, n, d) \in [Node -> Seq(Call)] /\ QueuesApart(q, Parked(t, n, d))
  /\ InQueues(q, Parked(t, n, d)) = InQueues(q, t) \cup {d}

LEMMA OneMoreWaits ==
  ASSUME NEW t \in [Node -> Seq(Call)], NEW q \in Seq(Call), QueuesApart(q, t),
         NEW n \in Node, NEW d \in Call, d \notin InQueues(q, t)
  PROVE  WaitsToo(q, t, n, d)
<1>1. /\ Parked(t, n, d) \in [Node -> Seq(Call)] /\ QueuesApart(q, Parked(t, n, d))
      /\ InQueues(q, Parked(t, n, d)) = InQueues(q, t) \cup {d}
  BY ParkApart
<1> QED BY <1>1 DEF WaitsToo

\* The test of the answer waits for the variable: it is left there, and the call
\* of the include on the node of the test.
LEMMA TestWaitsKeeps ==
  ASSUME IInv, Calls("include", "self"), Goes, stage = "SUCCESS_TEST_BEGIN", ~ VariableReady,
         count' = Increased(count, PathOf(S)),
         tcb' = Parked(Parked(tcb, Var, XPathC("success")), S, Self),
         main' = Rest, stage' = "SUCCESS_TEST_END", val' = val, made' = made, result' = result,
         UNCHANGED <<subrequest, answer, host>>
  PROVE  Kept
<1> DEFINE t == Parked(tcb, Var, XPathC("success"))
<1>1. stage \notin Params /\ ended # "no" /\ ~ ContentWaits /\ count[R] = 0
  BY BranchIs
<1>2. /\ count \in [Node -> Nat] /\ tcb \in [Node -> Seq(Call)] /\ DOMAIN tcb = Node
      /\ Unwaited(tcb)
      /\ Rest = <<>> /\ result = {} /\ count[P] = 0 /\ count[S] = 0
      /\ \A i \in Value : count[i] = 0
      /\ count[Var] \in {0, 1} /\ count[I] = 1 /\ count[Doc] = count[Var] + count[I]
      /\ Self \in Call
  BY <1>1, LateCounts DEF Unwaited
<1>3. /\ Var \in Node /\ S \in Node /\ Var # S /\ XPathC("success") \in Call
      /\ S \in Awaited /\ ToSet(PathOf(S)) = { S, I, Doc }
  BY NodeIs, NodesApart, CallsTyped, ItemIs, PathSets DEF Awaited
<1>4. \A x : x \notin ToSet(<<>>)
  BY DEF ToSet
<1>5. <<>> \in Seq(Call) /\ IsInjective(<<>>) /\ XPathC("success") \notin ToSet(<<>>)
  BY <1>4 DEF IsInjective
<1>6. WaitsAlone(<<>>, t, Var, XPathC("success"))
  <2>1. ASSUME NEW q \in Seq(Call), IsInjective(q), XPathC("success") \notin ToSet(q)
        PROVE  WaitsAlone(q, t, Var, XPathC("success"))
    BY <1>2, <1>3, <2>1, OneWaits
  <2> QED BY <1>5, <2>1
<1>7. /\ t \in [Node -> Seq(Call)] /\ QueuesApart(<<>>, t)
      /\ \A m \in Node : t[m] # <<>> => m = Var
      /\ \A m \in Node : \A x \in ToSet(t[m]) : x = XPathC("success") /\ m = Var
      /\ \A x : x \in InQueues(<<>>, t) <=> x = XPathC("success")
  BY <1>4, <1>6 DEF WaitsAlone
<1>8. Self \notin InQueues(<<>>, t)
  BY <1>7, SelfApart
<1> HIDE DEF t
<1>9. /\ tcb' = Parked(t, S, Self) /\ main' = <<>>
      /\ stage' = "SUCCESS_TEST_END" /\ val' = val /\ made' = made /\ result' = result
  BY <1>2 DEF t
<1>10. /\ tcb' \in [Node -> Seq(Call)] /\ QueuesApart(<<>>, tcb')
       /\ InQueues(<<>>, tcb') = InQueues(<<>>, t) \cup {Self}
  <2>1. t \in [Node -> Seq(Call)] /\ S \in Node /\ Self \in Call
    BY <1>2, <1>3, <1>7
  <2>2. ASSUME NEW q \in Seq(Call), QueuesApart(q, t), Self \notin InQueues(q, t)
        PROVE  WaitsToo(q, t, S, Self)
    BY <2>1, <2>2, OneMoreWaits
  <2>3. WaitsToo(<<>>, t, S, Self)
    BY <1>5, <1>7, <1>8, <2>2
  <2> QED BY <1>9, <2>3 DEF WaitsToo
<1>11. \A m \in Node : tcb'[m] = IF m = S THEN Append(t[m], Self) ELSE t[m]
  BY <1>7, <1>9 DEF Parked
<1>12. \A x : /\ x \in Queued' <=> x = Self \/ x = XPathC("success")
              /\ ~ InMain(x)'
  BY <1>4, <1>7, <1>9, <1>10 DEF Queued, InMain
<1>13. /\ count' \in [Node -> Nat]
       /\ \A m \in Node : count'[m] = IF m \in { S, I, Doc } THEN count[m] + 1 ELSE count[m]
  <2>1. count \in [Node -> Nat] /\ S \in Awaited
    BY <1>2, <1>3
  <2>2. /\ count' \in [Node -> Nat]
        /\ \A m \in Node :
             count'[m] = IF m \in ToSet(PathOf(S)) THEN count[m] + 1 ELSE count[m]
    BY <2>1, Holding
  <2> QED BY <1>3, <2>2
<1>14. /\ count'[Var] = count[Var] /\ count'[Doc] = count[Doc] + 1 /\ count'[I] = 2
       /\ count'[P] = 0 /\ count'[S] = 1 /\ count'[R] = 0
       /\ \A i \in Value : count'[i] = 0
  BY <1>1, <1>2, <1>13, NodesApart, NodeIs
<1>15. Placed(tcb, count)'
  <2>1. count'[Var] > 0
    BY <1>2, <1>14 DEF VariableReady
  <2>2. MayWait(XPathC("success"), Var)' /\ MayWait(Self, S)'
    BY <1>9, ItemIs DEF MayWait
  <2>3. ASSUME NEW m \in Node
        PROVE  /\ tcb'[m] # <<>> => count'[m] > 0
               /\ \A x \in ToSet(tcb'[m]) : MayWait(x, m)'
    <3>1. CASE m = S
      <4>1. t[S] = <<>>
        BY <1>3, <1>7
      <4>2. tcb'[S] = Append(<<>>, Self)
        BY <1>3, <1>11, <4>1
      <4>3. Append(<<>>, Self) = <<Self>> /\ ToSet(<<Self>>) = {Self}
        BY DEF ToSet
      <4>4. \A x \in ToSet(tcb'[S]) : x = Self
        BY <4>2, <4>3
      <4> QED BY <1>14, <2>2, <3>1, <4>4
    <3>2. CASE m # S
      <4>1. tcb'[m] = t[m]
        BY <1>11, <3>2
      <4> QED BY <1>7, <2>1, <2>2, <4>1
    <3> QED BY <3>1, <3>2
  <2> QED BY <2>3 DEF Placed
<1>16. /\ \A i : /\ StringC(i) \notin Queued' /\ ElementC(i) \notin Queued'
                 /\ ElementEndC(i) \notin Queued'
       /\ VariableC \notin Queued' /\ XPathC("success") \in Queued'
  BY <1>12, StringApart, ElementApart, ElementEndApart, VariableApart
<1>17. Ordered'
  BY <1>12, <1>16 DEF Ordered
<1>18. ~ Entered' /\ ~ ContentWaits'
  BY <1>9, <1>16 DEF Entered, ContentWaits, Content
<1>19. ResultCounted'
  BY <1>12, <1>14, <1>18 DEF ResultCounted, One
<1>20. /\ Verdict' = Verdict /\ ended' = ended /\ status' = status /\ request' = request
       /\ MeantRequest' = MeantRequest /\ MeantTest' = MeantTest
  BY SheetStays, VerdictStays DEF answer, subrequest
<1>21. Replaces'
  BY <1>2, <1>9, <1>18, <1>20 DEF Replaces, IInv
<1>22. UNCHANGED E!vars
  BY <1>9, <1>20 DEF E!vars
<1>23. One(result' = {}) = 1 /\ One(XPathC("success") \in Queued') = 1
  BY <1>2, <1>9, <1>16 DEF One
<1>24. /\ count'[Doc] = count'[Var] + count'[I]
       /\ count'[I] = One(result' = {}) + count'[S] + count'[R]
       /\ count'[S] = One(XPathC("success") \in Queued')
  BY <1>2, <1>14, <1>23
<1>25. /\ \A x \in Queued' :
            x \in { Self, ElementC(Verdict), ElementEndC(Verdict), XPathC("success") }
       /\ ElementC(Verdict) \notin Queued' /\ ElementEndC(Verdict) \notin Queued'
  BY <1>12, <1>16
<1>26. /\ val' = [i \in Item |-> val'[i]] /\ \A i \in Value \cup Content : val'[i] = val[i]
       /\ val'["success"] = val["success"]
  BY <1>9 DEF IInv, ValuesKnown
<1>27. main' \in Seq(Call) /\ QueuesApart(main', tcb')
  BY <1>5, <1>9, <1>10
<1>28. [E!Next]_(E!vars)
  BY <1>22
<1> QED BY <1>1, <1>2, <1>9, <1>10, <1>13, <1>14, <1>15, <1>16, <1>17, <1>19, <1>21, <1>24, <1>25,
  <1>26, <1>27, <1>28, LateKeeps

LEMMA SuccessTestBeginKeeps ==
  ASSUME IInv, SuccessTestBegin
  PROVE  Kept
<1>1. /\ Calls("include", "self") /\ stage = "SUCCESS_TEST_BEGIN" /\ Goes
      /\ UNCHANGED <<subrequest, answer, host>>
  BY DEF SuccessTestBegin
<1>2. /\ stage \notin Params /\ ended # "no" /\ ~ ContentWaits /\ count[R] = 0
      /\ Branch(Meaning("success")) = Verdict
  BY <1>1, BranchIs
<1>3. CASE /\ val' = [val EXCEPT !["success"] = Meaning("success")]
           /\ EntersBranch(Branch(val'["success"]))
  <2>1. /\ val' = [i \in Item |-> val'[i]] /\ val'["success"] = Meaning("success")
        /\ \A i \in Value \cup Content : val'[i] = val[i]
    BY <1>3, ItemIs, ItemsApart DEF IInv, ValuesKnown
  <2>2. ASSUME NEW v, v = Verdict PROVE Kept
    <3>1. EntersBranch(v)
      BY <1>2, <1>3, <2>1, <2>2
    <3> QED BY <1>1, <1>2, <2>1, <2>2, <3>1, EntersKeeps
  <2> QED BY <2>2
<1>4. CASE /\ ~ VariableReady /\ count' = Increased(count, PathOf(S))
           /\ tcb' = Parked(Parked(tcb, Var, <<"xpath", "success">>), S, Self)
           /\ main' = Rest /\ stage' = "SUCCESS_TEST_END"
           /\ UNCHANGED <<values, result>>
  <2>1. /\ tcb' = Parked(Parked(tcb, Var, XPathC("success")), S, Self)
        /\ val' = val /\ made' = made /\ result' = result
    BY <1>4 DEF XPathC, values
  <2> QED BY <1>1, <1>4, <2>1, TestWaitsKeeps
<1> QED BY <1>3, <1>4 DEF SuccessTestBegin

\* Nothing waits where the result is released while the include is called.
LEMMA ResultReleased ==
  ASSUME IInv, Calls("include", "self"), count[R] > 0
  PROVE  /\ AfterC(count, R) \in [Node -> Nat]
         /\ \A m \in Node : AfterC(count, R)[m] = IF m \in { R, I, Doc } THEN count[m] - 1
                                                                         ELSE count[m]
         /\ \A m \in { R, I, Doc } : tcb[m] = <<>> /\ count[m] > 0
         /\ AfterT(count, tcb, R) = tcb /\ AfterQ(count, tcb, Rest, R) = Rest
<1>1. /\ count \in [Node -> Nat] /\ tcb \in [Node -> Seq(Call)] /\ Placed(tcb, count)
      /\ Rest \in Seq(Call) /\ QueuesApart(Rest, tcb)
      /\ \A m \in Node : Self \notin ToSet(tcb[m])
  BY QueueTypes, Takes DEF IInv, Self
<1>2. /\ R \in Awaited /\ ToSet(PathOf(R)) = { R, I, Doc } /\ { R, I, Doc } \subseteq Node
  BY PathSets, NodeIs DEF Awaited
<1>3. \A m \in { R, I, Doc } : count[m] > 0
  BY Held
<1>4. ASSUME NEW m \in { R, I, Doc } PROVE tcb[m] = <<>>
  <2>1. tcb[m] \in Seq(Call) /\ m \in Node
    BY <1>1, <1>2
  <2>2. \A c : c \notin ToSet(tcb[m])
    <3>1. m = R => \A c \in ToSet(tcb[m]) : c = Self
      BY <1>1, <2>1, Waits
    <3>2. m # R => \A c : c \notin ToSet(tcb[m])
      BY <1>1, <2>1, Waits
    <3> QED BY <1>1, <2>1, <3>1, <3>2
  <2> QED BY <2>1, <2>2, NothingQueued
<1>5. AfterT(count, tcb, R) = tcb /\ AfterQ(count, tcb, Rest, R) = Rest
  BY <1>1, <1>2, <1>3, <1>4, NoneWoken
<1>6. /\ AfterC(count, R) \in [Node -> Nat]
      /\ \A m \in Node : AfterC(count, R)[m] = IF m \in { R, I, Doc } THEN count[m] - 1
                                                                      ELSE count[m]
  <2>1. \A m \in ToSet(PathOf(R)) : count[m] > 0
    BY <1>2, <1>3
  <2>2. /\ AfterC(count, R) \in [Node -> Nat]
        /\ \A m \in Node : AfterC(count, R)[m] =
             IF m \in ToSet(PathOf(R)) THEN count[m] - 1 ELSE count[m]
    <3>1. ~ DecreaseFails(count, PathOf(R)) /\ PathOf(R) \in Seq(Node)
      BY <1>1, <1>2, <2>1, Walks DEF DecreaseFails
    <3>2. Walked(count, PathOf(R)) = ToSet(PathOf(R))
      BY <1>1, <3>1, WholeWalk
    <3> QED BY <1>1, <2>1, <3>2 DEF AfterC, Decreased
  <2> QED BY <1>2, <2>2
<1> QED BY <1>3, <1>4, <1>5, <1>6

\* A content that is entered and called again.
LEMMA AgainIs ==
  ASSUME IInv, Calls("include", "self"), stage \in Content, count[R] > 0
  PROVE  /\ stage \notin Params /\ ended # "no" /\ stage = Verdict /\ Entered /\ result = {}
         /\ count[R] = 1 + One(ContentWaits) /\ count[P] = 0 /\ count[S] = 0
         /\ \A i \in Value : count[i] = 0
         /\ count[Var] \in {0, 1} /\ count[I] = 1 + count[R] /\ count[Doc] = count[Var] + count[I]
         /\ \A x \in Queued : x \in { Self, ElementEndC(Verdict) }
<1>1. /\ Self \in Queued /\ InMain(Self) /\ \A x : ~ InFront(main, x, Self)
  BY Takes DEF Self
<1>2. stage \notin Params \cup { "READ_RESPONSE" } /\ stage # "SUCCESS_TEST_END"
  BY DEF Content, Params
<1>3. ended # "no" /\ stage = Verdict /\ Entered /\ result = {}
  BY <1>1, <1>2 DEF IInv, Heard, CallsInStep, Entered
<1>4. count[R] = 1 + One(ContentWaits)
  <2>1. One(ContentWaits) \in Nat /\ One(Entered) = 1
    BY <1>3 DEF One
  <2>2. count[R] = One(ContentWaits) + One(Entered)
    BY DEF IInv, ResultCounted
  <2> QED BY <2>1, <2>2
<1>5. /\ \A i \in Value : /\ XPathC(i) \notin Queued /\ StringC(i) \notin Queued
                          /\ ElementC(i) \notin Queued /\ ElementEndC(i) \notin Queued
                          /\ count[i] = 0
      /\ FirstC \notin Queued /\ count[P] = 0
  BY <1>2, LateCalls
<1>6. XPathC("success") \notin Queued
  BY <1>2 DEF IInv, CallsInStep
<1>7. count[S] = 0
  BY <1>6, Held
<1>8. count[Var] \in {0, 1} /\ count[I] = 1 + count[R] /\ count[Doc] = count[Var] + count[I]
  <2>1. One(FirstC \notin Queued /\ result = {}) = 1
    BY <1>3, <1>5 DEF One
  <2>2. count[I] = One(FirstC \notin Queued /\ result = {}) + count[P] + count[S] + count[R]
    BY DEF IInv, Counted
  <2>3. count[R] \in Nat
    BY Held
  <2>4. count[I] = 1 + count[R]
    BY <1>5, <1>7, <2>1, <2>2, <2>3
  <2> QED BY <2>4 DEF IInv, Counted
<1>9. VariableC \notin Queued
  BY <1>1, Alone, SelfApart
<1>10. ASSUME NEW i \in Item
       PROVE  /\ ElementC(i) \notin Queued /\ XPathC(i) \notin Queued
              /\ StringC(i) \notin Queued
              /\ ElementEndC(i) \in Queued => i = Verdict
  <2>1. ElementC(i) \notin Queued
    BY <1>1 DEF IInv, Ordered
  <2>2. XPathC(i) \notin Queued
    BY <1>5, <1>6 DEF IInv, CallsInStep
  <2>3. StringC(i) \notin Queued
    BY <1>5 DEF IInv, CallsInStep
  <2>4. ElementEndC(i) \in Queued => i = Verdict
    BY <1>5 DEF IInv, CallsInStep
  <2> QED BY <2>1, <2>2, <2>3, <2>4
<1>11. ASSUME NEW x \in Call PROVE x \in { Self, FirstC, VariableC } \/ \E i \in Item :
               x = ElementC(i) \/ x = ElementEndC(i) \/ x = StringC(i) \/ x = XPathC(i)
  BY DEF Call, Self, FirstC, VariableC, ElementC, ElementEndC, StringC, XPathC
<1>12. ASSUME NEW x \in Queued PROVE x \in { Self, ElementEndC(Verdict) }
  <2>1. x \in Call
    BY QueuedTyped
  <2> QED BY <1>5, <1>9, <1>10, <1>11, <2>1
<1> QED BY <1>2, <1>3, <1>4, <1>5, <1>7, <1>8, <1>12

\* The content waits: the call of the include is left on the node of the result.
LEMMA ContentWaitsKeeps ==
  ASSUME IInv, Calls("include", "self"), Goes, stage \in Content, count[R] > 0, ContentWaits,
         count' = AfterC(count, R), tcb' = Parked(tcb, R, Self), main' = Rest, stage' = "END",
         val' = val, made' = made, result' = result, UNCHANGED <<subrequest, answer, host>>
  PROVE  Kept
<1>1. /\ stage \notin Params /\ ended # "no" /\ stage = Verdict /\ result = {}
      /\ count[R] = 1 + One(ContentWaits) /\ count[P] = 0 /\ count[S] = 0
      /\ \A i \in Value : count[i] = 0
      /\ count[Var] \in {0, 1} /\ count[I] = 1 + count[R] /\ count[Doc] = count[Var] + count[I]
      /\ \A x \in Queued : x \in { Self, ElementEndC(Verdict) }
  BY AgainIs
<1>2. count[R] = 2
  BY <1>1 DEF One
<1>3. /\ count' \in [Node -> Nat]
      /\ \A m \in Node : count'[m] = IF m \in { R, I, Doc } THEN count[m] - 1 ELSE count[m]
      /\ \A m \in { R, I, Doc } : tcb[m] = <<>> /\ count[m] > 0
  BY ResultReleased
<1>4. /\ count'[Var] = count[Var] /\ count'[Doc] = count[Doc] - 1 /\ count'[I] = count[I] - 1
      /\ count'[P] = 0 /\ count'[S] = 0 /\ count'[R] = 1
      /\ \A i \in Value : count'[i] = 0
  <2>1. /\ count'[Var] = count[Var] /\ count'[Doc] = count[Doc] - 1 /\ count'[I] = count[I] - 1
        /\ count'[P] = count[P] /\ count'[S] = count[S] /\ count'[R] = count[R] - 1
    BY <1>3, NodesApart, NodeIs
  <2>2. \A i \in Value : count'[i] = count[i]
    BY <1>3, NodeIs
  <2> QED BY <1>1, <1>2, <2>1, <2>2
<1>5. /\ Self \in Queued /\ R \in Node /\ Self \in Call
  BY Takes, NodeIs DEF Self
<1>6. \A m \in Node : tcb[m] # <<>> => count'[m] > 0
  BY <1>3 DEF IInv, Placed
<1>7. MayWait(Self, R)' /\ \A x, m : MayWait(x, m) /\ x # Self => MayWait(x, m)'
  BY DEF MayWait
<1>8. /\ tcb' \in [Node -> Seq(Call)] /\ main' \in Seq(Call)
      /\ QueuesApart(main', tcb') /\ Placed(tcb, count)'
      /\ \A x : x \in Queued' <=> x \in Queued
      /\ ~ InMain(Self)'
  <2>1. count'[R] > 0
    BY <1>4
  <2>2. /\ tcb' \in [Node -> Seq(Call)] /\ main' \in Seq(Call)
        /\ QueuesApart(main', tcb') /\ Placed(tcb, count)'
        /\ \A x : x \in Queued' <=> (x \in Queued /\ x # Self) \/ x = Self
        /\ \A x : InMain(x)' <=> InMain(x) /\ x # Self
    BY <1>3, <1>5, <1>6, <1>7, <2>1, Parking DEF Self
  <2> QED BY <1>5, <2>2
<1>9. \A x \in Queued' : x \in { Self, ElementEndC(Verdict) }
  BY <1>1, <1>8
<1>10. /\ \A i : /\ StringC(i) \notin Queued' /\ ElementC(i) \notin Queued'
                 /\ XPathC(i) \notin Queued'
       /\ VariableC \notin Queued'
  BY <1>9, StringApart, ElementApart, XPathApart, VariableApart
<1>11. Ordered'
  BY <1>8, <1>10 DEF Ordered
<1>12. ~ Entered' /\ ContentWaits' /\ ElementEndC(Verdict) \in Queued'
  <2>1. \E s \in Content : ElementEndC(s) \in Queued' /\ ElementEndC(s) \in Queued
    BY <1>8 DEF ContentWaits
  <2>2. ElementEndC(Verdict) \in Queued'
    BY <2>1 DEF IInv, CallsInStep
  <2> QED BY <2>1, <2>2 DEF ContentWaits, Entered, Content
<1>13. ResultCounted'
  BY <1>4, <1>8, <1>12 DEF ResultCounted, One
<1>14. /\ Verdict' = Verdict /\ ended' = ended /\ status' = status /\ request' = request
       /\ MeantRequest' = MeantRequest /\ MeantTest' = MeantTest
  BY SheetStays, VerdictStays DEF answer, subrequest
<1>15. Replaces'
  <2>1. ElementEndC(Verdict)' = ElementEndC(Verdict)
    BY <1>14 DEF ElementEndC
  <2>2. ElementEndC(Verdict)' \in Queued'
    BY <1>12, <2>1
  <2> QED BY <1>1, <1>12, <1>14, <2>2 DEF Replaces, IInv
<1>16. UNCHANGED E!vars
  BY <1>14 DEF E!vars
<1>17. One(result' = {}) = 1 /\ One(XPathC("success") \in Queued') = 0
  BY <1>1, <1>10 DEF One
<1>18. /\ count'[Doc] = count'[Var] + count'[I]
       /\ count'[I] = One(result' = {}) + count'[S] + count'[R]
       /\ count'[S] = One(XPathC("success") \in Queued')
  <2>1. count[I] = 1 + count[R]
    BY <1>1
  <2>2. count[I] = 3
    BY <1>2, <2>1
  <2>3. count[Doc] = count[Var] + count[I] /\ count[Var] \in {0, 1}
    BY <1>1
  <2>4. /\ count'[Var] = count[Var] /\ count'[Doc] = count[Doc] - 1 /\ count'[I] = count[I] - 1
        /\ count'[S] = 0 /\ count'[R] = 1
    BY <1>4
  <2>5. count'[I] = 2 /\ count'[Doc] = count'[Var] + 2
    BY <2>2, <2>3, <2>4
  <2> QED BY <1>17, <2>4, <2>5
<1>19. /\ val' = [i \in Item |-> val'[i]] /\ \A i \in Value \cup Content : val'[i] = val[i]
       /\ val'["success"] = val["success"]
  BY DEF IInv, ValuesKnown
<1>20. \A x \in Queued' :
         x \in { Self, ElementC(Verdict), ElementEndC(Verdict), XPathC("success") }
  BY <1>9
<1>21. [E!Next]_(E!vars) /\ result' = {}
  BY <1>1, <1>16
<1> QED BY <1>1, <1>3, <1>4, <1>8, <1>10, <1>11, <1>13, <1>15, <1>18, <1>19, <1>20, <1>21,
  LateKeeps

LEMMA BranchAgainKeeps ==
  ASSUME IInv, BranchAgain
  PROVE  Kept
<1> DEFINE C == AfterC(count, R)
           T == AfterT(count, tcb, R)
           M == AfterQ(count, tcb, Rest, R)
<1>1. /\ Calls("include", "self") /\ stage \in Content /\ count[R] > 0 /\ Goes
      /\ val' = val /\ made' = made /\ UNCHANGED <<subrequest, answer, host>>
      /\ \/ /\ C[R] > 0 /\ stage' = "END" /\ count' = C /\ tcb' = Parked(T, R, Self)
            /\ main' = M /\ result' = result
         \/ /\ ~ (C[R] > 0) /\ Ends(C, T, M, made)
  BY DEF BranchAgain, AfterC, AfterT, AfterQ, Content, ContentUnready, values
<1>2. /\ stage \notin Params /\ ended # "no" /\ stage = Verdict /\ Entered
      /\ count[R] = 1 + One(ContentWaits)
      /\ \A x \in Queued : x \in { Self, ElementEndC(Verdict) }
  BY <1>1, AgainIs
<1>3. /\ C \in [Node -> Nat] /\ T = tcb /\ M = Rest
      /\ \A m \in Node : C[m] = IF m \in { R, I, Doc } THEN count[m] - 1 ELSE count[m]
  BY <1>1, ResultReleased
<1>4. C[R] = One(ContentWaits)
  <2>1. R \in Node /\ One(ContentWaits) \in Nat
    BY NodeIs DEF One
  <2> HIDE DEF C
  <2> QED BY <1>2, <1>3, <2>1
<1>5. CASE C[R] > 0 /\ stage' = "END" /\ count' = C /\ tcb' = Parked(T, R, Self)
           /\ main' = M /\ result' = result
  <2>1. ContentWaits
    BY <1>4, <1>5 DEF One
  <2>2. count' = AfterC(count, R) /\ tcb' = Parked(tcb, R, Self) /\ main' = Rest
    BY <1>3, <1>5
  <2> HIDE DEF C, T, M
  <2> QED BY <1>1, <1>5, <2>1, <2>2, ContentWaitsKeeps
<1>6. CASE ~ (C[R] > 0) /\ Ends(C, T, M, made)
  <2>1. ~ ContentWaits /\ count[R] = 1
    BY <1>2, <1>4, <1>6 DEF One
  <2>2. Verdict \in made
    <3>1. Verdict \in Content
      BY <1>1, <1>2
    <3>2. ElementEndC(Verdict) \notin Queued
      BY <2>1, <3>1 DEF ContentWaits
    <3>3. ElementC(Verdict) \notin Queued
      BY <1>2, ElementApart
    <3> QED BY <1>2, <3>2, <3>3 DEF IInv, Replaces
  <2>3. /\ count' = AfterC(C, I) /\ tcb' = AfterT(C, tcb, I)
        /\ main' = AfterQ(C, tcb, Rest, I) /\ stage' = "END"
        /\ result' = made' \cap { "SUCCESS", "FAILURE" }
    <3>1. Ends(C, tcb, Rest, made)
      BY <1>3, <1>6
    <3> HIDE DEF C, T, M
    <3> QED BY <1>1, <3>1 DEF Ends, AfterC, AfterT, AfterQ
  <2>4. val' = [i \in Item |-> val'[i]]
    BY <1>1 DEF IInv, ValuesKnown
  <2> HIDE DEF C, T, M
  <2>5. ASSUME NEW d \in {0, 1}, d = 1 PROVE Kept
    <3>1. /\ count[R] = d
          /\ \A m \in Node : C[m] = IF m \in { R, I, Doc } THEN count[m] - d ELSE count[m]
      BY <1>3, <2>1, <2>5
    <3> QED BY <1>1, <1>2, <1>3, <2>1, <2>2, <2>3, <2>4, <3>1, EndsKeeps
  <2> QED BY <2>5
<1> QED BY <1>1, <1>5, <1>6

\* The subrequest is not ready: the call is left on the node of the parameters.
LEMMA ParamsEndWaits ==
  ASSUME IInv, Calls("include", "self"), Goes, stage = "PARAMS_END", count[P] > 0,
         count' = count, tcb' = Parked(tcb, P, Self), main' = Rest,
         val' = val, made' = made,
         UNCHANGED <<stage, subrequest, answer, result, host>>
  PROVE  Kept
<1>1. count' \in [Node -> Nat] /\ count' = count
  BY QueueTypes DEF IInv
<1>2. /\ Self \in Queued /\ InMain(Self) /\ running /\ P \in Node /\ Self \in Call
      /\ \A x : ~ InFront(main, x, Self)
  BY Takes, NodeIs DEF Self
<1>3. \A m \in Node : tcb[m] # <<>> => count'[m] > 0
  BY DEF IInv, Placed
<1>4. MayWait(Self, P)' /\ \A x, m : MayWait(x, m) => MayWait(x, m)'
  BY WaitsAlike DEF MayWait, Params
<1>5. /\ tcb' \in [Node -> Seq(Call)] /\ main' \in Seq(Call)
      /\ QueuesApart(main', tcb') /\ Placed(tcb, count)'
      /\ \A x : x \in Queued' <=> x \in Queued
      /\ \A x : InMain(x)' <=> InMain(x) /\ x # Self
      /\ \A x, y : InFront(main, x, y) /\ x # Self => InFront(main', x, y)
  <2>1. /\ tcb' \in [Node -> Seq(Call)] /\ main' \in Seq(Call)
        /\ QueuesApart(main', tcb') /\ Placed(tcb, count)'
        /\ \A x : x \in Queued' <=> (x \in Queued /\ x # Self) \/ x = Self
        /\ \A x : InMain(x)' <=> InMain(x) /\ x # Self
        /\ \A x, y : InFront(main, x, y) /\ x # Self => InFront(main', x, y)
    BY <1>1, <1>2, <1>3, <1>4, Parking DEF Self
  <2> QED BY <1>2, <2>1
<1>6. /\ FirstC \notin Queued /\ VariableC \notin Queued
      /\ FirstC \notin Queued' /\ VariableC \notin Queued'
  BY <1>2, <1>5, Alone, SelfApart
<1>7. Quiet
  BY <1>2 DEF Quiet
<1>8. Fresh' /\ Heard' /\ HostInStep' /\ DoneIsComplete' /\ UNCHANGED E!vars
  BY <1>6, <1>7, QuietKeeps
<1>9. /\ stage' = stage /\ result' = result /\ status' = status
      /\ parsed' = parsed /\ ended' = ended /\ request' = request /\ icb' = icb
      /\ refused' = refused /\ over' = over /\ cur' = cur /\ running' = running
      /\ config' = config
      /\ \A j : (Means(j)' <=> Means(j)) /\ Meaning(j)' = Meaning(j)
      /\ Verdict' = Verdict
  BY <1>7, QuietFacts
<1>10. ~ InMain(Self)' /\ \A j : ElementC(j) \notin Queued
  <2>1. ASSUME NEW j, ElementC(j) \in Queued PROVE FALSE
    BY <1>2, <2>1, QueuedTyped DEF IInv, Ordered
  <2> QED BY <1>5, <2>1
<1>11. TypeOK'
  BY <1>1, <1>5, <1>9 DEF TypeOK, IInv
<1>12. Counted'
  <2> DEFINE own == One(FirstC \notin Queued /\ result = {})
  <2>1. own' = own
    BY <1>6, <1>9 DEF One
  <2> HIDE DEF own
  <2>2. /\ count[Var] \in {0, 1} /\ count[Doc] = count[Var] + count[I]
        /\ count[I] = own + count[P] + count[S] + count[R]
        /\ \A j \in Value : count[j] = One(ElementEndC(j) \in Queued)
        /\ count[S] = One(XPathC("success") \in Queued)
    BY DEF IInv, Counted, own
  <2>3. \A j \in Value : count'[j] = One(ElementEndC(j) \in Queued)'
    BY <1>1, <1>5, <2>2 DEF One
  <2>4. count'[S] = One(XPathC("success") \in Queued)'
    BY <1>1, <1>5, <2>2 DEF One
  <2>5. count'[I] = own' + count'[P] + count'[S] + count'[R]
    BY <1>1, <2>1, <2>2
  <2> QED BY <1>1, <2>2, <2>3, <2>4, <2>5 DEF Counted, own
<1>13. ParamsCounted'
  <2>1. Unready' = Unready
    BY <1>5, UnreadySame
  <2> QED BY <1>1, <1>9, <1>10, <2>1 DEF ParamsCounted, IInv
<1>14. ~ Entered /\ ~ Entered'
  BY <1>9 DEF Entered, Content
<1>15. ResultCounted'
  <2>1. ContentWaits' <=> ContentWaits
    BY <1>5 DEF ContentWaits
  <2>2. count'[R] = One(ContentWaits)' + One(Entered)'
    BY <1>1, <1>14, <2>1 DEF One, IInv, ResultCounted
  <2> QED BY <1>10, <1>14, <2>2 DEF ResultCounted
<1>16. Ordered'
  <2>1. ASSUME NEW j \in Item
        PROVE  StringC(j) \in Queued' =>
                 ElementC(j) \in Queued' \/ ElementEndC(j) \in Queued' \/ j \in made'
    BY <1>5 DEF IInv, Ordered
  <2> QED BY <1>5, <1>6, <1>10, <2>1 DEF Ordered
<1>17. CallsInStep'
  BY <1>5, <1>9, <1>14 DEF IInv, CallsInStep, Round
<1>18. ValuesKnown'
  <2>1. \A j : UnderWay(j)' <=> UnderWay(j)
    BY <1>5 DEF UnderWay
  <2>2. \A j \in First : Answered(j)' <=> Answered(j)
    BY <1>9 DEF Answered
  <2> QED BY <1>5, <1>6, <1>9, <2>1, <2>2 DEF ValuesKnown, IInv
<1>19. Replaces'
  BY <1>5, <1>9, <1>14 DEF IInv, Replaces
<1> QED BY <1>5, <1>8, <1>11, <1>12, <1>13, <1>15, <1>16, <1>17, <1>18, <1>19 DEF Kept, IInv

\* With nothing under way the values of the second round are what the sheet means.
LEMMA SecondAnswered ==
  ASSUME IInv, Calls("include", "self"), stage = "PARAMS_END",
         \A x : x \in Queued <=> x = Self
  PROVE  /\ \A i \in First : Answered(i)
         /\ \A i \in Second : /\ val[i] = IF Means(i) THEN Meaning(i) ELSE "NULL"
                              /\ Has(i) <=> Means(i)
<1>1. /\ \A i \in Item : ~ UnderWay(i)
      /\ \A i \in First : Answered(i)
      /\ \A i \in Second : config.how[i] # "none" => (Wanted(i) <=> Means(i))
  BY FirstAnswered
<1>2. ASSUME NEW i \in Second
      PROVE  /\ val[i] = IF Means(i) THEN Meaning(i) ELSE "NULL"
             /\ Has(i) <=> Means(i)
  <2>1. i \in Item
    BY ItemIs DEF Value
  <2>2. (~ Means(i) => val[i] = "NULL") /\ (Means(i) => val[i] = Meaning(i))
    BY <1>1, <2>1 DEF IInv, ValuesKnown
  <2>3. Means(i) => config.how[i] # "none"
    BY DEF Means
  <2> QED BY <1>1, <2>2, <2>3 DEF Has
<1> QED BY <1>1, <1>2

\* So the request is the one that the sheet means.
LEMMA RequestIs ==
  ASSUME IInv, Calls("include", "self"), stage = "PARAMS_END",
         \A x : x \in Queued <=> x = Self
  PROVE  /\ Contradicts <=> Contradictory
         /\ ~ Contradicts => Request = MeantRequest
<1>1. /\ \A i \in First : Answered(i)
      /\ \A i \in Second : /\ val[i] = IF Means(i) THEN Meaning(i) ELSE "NULL"
                           /\ Has(i) <=> Means(i)
  BY SecondAnswered
<1>2. config \in Config
  BY DEF IInv, TypeOK
<1>3. /\ config.how["href"] # "none" /\ config.type \in DataType
      /\ config.says["inBody"] \in Bool
  BY <1>2 DEF Config
<1>4. /\ Meaning("href") = "href" /\ Meaning("type") = config.type
      /\ Meaning("inBody") = config.says["inBody"]
      /\ Meaning("header") = "header" /\ Meaning("param") = "param" /\ Meaning("body") = "body"
  BY DEF Meaning, Test
<1>5. /\ "href" \in First /\ "type" \in First /\ "href" \notin Test /\ "type" \notin Test
      /\ "header" \in Second /\ "inBody" \in Second /\ "param" \in Second /\ "body" \in Second
  BY Rounds DEF Test
<1>6. val["href"] = "href"
  BY <1>1, <1>3, <1>4, <1>5 DEF Answered
<1>7. val["type"] = IF config.how["type"] = "none" THEN "NULL" ELSE config.type
  BY <1>1, <1>4, <1>5 DEF Answered
<1>8. Type = IF config.how["type"] = "none" THEN "XML" ELSE config.type
  BY <1>3, <1>7 DEF Type, DataType
<1>9. /\ val["header"] = IF Means("header") THEN "header" ELSE "NULL"
      /\ val["param"] = IF Means("param") THEN "param" ELSE "NULL"
      /\ val["body"] = IF Means("body") THEN "body" ELSE "NULL"
      /\ val["inBody"] = IF Means("inBody") THEN config.says["inBody"] ELSE "NULL"
      /\ Has("header") <=> Means("header")
      /\ Has("param") <=> Means("param")
  BY <1>1, <1>4, <1>5
<1>10. CountedInBody <=> MeantInBody
  BY <1>3, <1>9 DEF CountedInBody, MeantInBody, Bool
<1>11. Contradicts <=> Contradictory
  BY <1>9, <1>10 DEF Contradicts, Contradictory
<1>12. MeantInBody => Means("param")
  BY DEF MeantInBody
<1>13. ASSUME ~ Contradicts PROVE Request = MeantRequest
  <2> DEFINE header == IF Has("header") THEN val["header"] ELSE "none"
             param == IF Has("param") /\ ~ CountedInBody THEN val["param"] ELSE "none"
             body == IF CountedInBody THEN val["param"]
                     ELSE IF val["body"] # "NULL" THEN val["body"] ELSE "none"
  <2>1. header = IF Means("header") THEN "header" ELSE "none"
    BY <1>9
  <2>2. param = IF Means("param") /\ ~ MeantInBody THEN "param" ELSE "none"
    BY <1>9, <1>10
  <2>3. body = IF MeantInBody THEN "param" ELSE IF Means("body") THEN "body" ELSE "none"
    BY <1>9, <1>10, <1>12
  <2>4. Request = << val["href"], Type, header, param, body >>
    BY DEF Request
  <2> HIDE DEF header, param, body
  <2> QED BY <1>6, <1>8, <1>11, <1>13, <2>1, <2>2, <2>3, <2>4 DEF MeantRequest
<1> QED BY <1>11, <1>13

\* The subrequest is sent, or it cannot be: the include waits for the answer.
LEMMA SendsKeeps ==
  ASSUME IInv, Calls("include", "self"), stage = "PARAMS_END", Unready = {},
         stage' = "READ_RESPONSE", request' \in { request, MeantRequest }, icb' \in BOOLEAN,
         Goes \/ (running' = FALSE /\ cur' \in { {"CRASH"}, {"SUBREQUEST"} }),
         main' = Rest, tcb' = tcb, count' = count, val' = val, made' = made,
         UNCHANGED <<answer, result, host>>
  PROVE  Kept
<1>1. ~ ContentWaits
  BY DEF ContentWaits, IInv, CallsInStep, Entered, Content
<1>2. /\ Rest = <<>> /\ \A m \in Node : tcb[m] = <<>>
      /\ \A x : x \in Queued <=> x = Self
      /\ result = {} /\ count[S] = 0 /\ \A i \in Value : count[i] = 0
  BY <1>1, Settled
<1>3. /\ \A i \in First : Answered(i)
      /\ \A i \in Second : val[i] = IF Means(i) THEN Meaning(i) ELSE "NULL"
  BY <1>2, SecondAnswered
<1>4. /\ running /\ Rest \in Seq(Call) /\ QueuesApart(Rest, tcb)
      /\ \A x : x \in InQueues(Rest, tcb) <=> x \in Queued /\ x # Self
      /\ \A x : x \in ToSet(Rest) <=> InMain(x) /\ x # Self
      /\ \A x : InMain(x) => x \in Queued
  BY Takes, QueuedTyped DEF Self
<1>5. \A x : x \notin Queued' /\ ~ InMain(x)'
  BY <1>2, <1>4 DEF Queued, InMain
<1>6. /\ result' = result /\ status' = status /\ parsed' = parsed /\ ended' = ended
      /\ refused' = refused /\ over' = over /\ config' = config /\ UNCHANGED <<answer, host>>
  BY DEF answer, host
<1>7. /\ MeantRequest' = MeantRequest /\ MeantTest' = MeantTest
      /\ \A j : (Means(j)' <=> Means(j)) /\ Meaning(j)' = Meaning(j)
      /\ Verdict' = Verdict
  BY <1>6, SheetStays, VerdictStays
<1>8. request = <<>> /\ status = "none" /\ parsed = 0 /\ ended = "no"
  BY DEF IInv, Heard, Params
<1>9. "DONE" \notin cur
  BY <1>4 DEF IInv, HostInStep
<1>10. "DONE" \notin cur' /\ HostInStep' /\ DoneIsComplete'
  BY <1>2, <1>9 DEF HostInStep, DoneIsComplete, Goes
<1>11. MeantRequest = <<>> \/ Len(MeantRequest) = 5
  BY DEF MeantRequest
<1>12. TypeOK'
  <2>1. request' = <<>> \/ Len(request') = 5
    BY <1>8, <1>11
  <2>2. \A i \in Item : val'[i] \in {Meaning(i)', "NULL", "empty"} \cup Bool
    BY <1>7, ValTyped
  <2>3. stage' \in Stage
    BY DEF Stage
  <2>4. /\ running' \in BOOLEAN
        /\ cur' \subseteq { "WAITING", "DONE", "SUBREQUEST", "REFUSE_SUBREQUEST",
                            "ERROR", "CRASH" }
    BY DEF Goes, IInv, TypeOK
  <2> QED BY <1>4, <1>6, <2>1, <2>2, <2>3, <2>4 DEF TypeOK, IInv
<1>13. Placed(tcb, count)'
  <2>1. \A m \in Node : \A x : x \notin ToSet(tcb[m])
    BY <1>2 DEF ToSet
  <2> QED BY <1>2, <2>1 DEF Placed
<1>14. count[P] = 0 /\ count[R] = 0
  <2>1. Cardinality(Unready) = 0
    BY UnreadyIs
  <2>2. count[P] = 0
    BY <2>1 DEF IInv, ParamsCounted
  <2>3. ~ Entered
    BY DEF Entered, Content
  <2> QED BY <1>1, <2>2, <2>3 DEF IInv, ResultCounted, One
<1>15. Counted'
  <2>1. FirstC \notin Queued
    BY <1>2, SelfApart
  <2>2. One(FirstC \notin Queued /\ result = {})' = One(FirstC \notin Queued /\ result = {})
    BY <1>5, <1>6, <2>1 DEF One
  <2>3. \A i \in Value : count'[i] = One(ElementEndC(i) \in Queued)'
    BY <1>2, <1>5 DEF One
  <2>4. count'[S] = One(XPathC("success") \in Queued)'
    BY <1>2, <1>5 DEF One
  <2> QED BY <2>2, <2>3, <2>4 DEF IInv, Counted
<1>16. ParamsCounted'
  <2>1. \A c : c \notin Unready'
    BY <1>5 DEF Unready
  <2>2. Cardinality(Unready') = 0
    BY <2>1, FS_EmptySet
  <2> QED BY <1>14, <2>2 DEF ParamsCounted
<1>17. ~ Entered' /\ ~ ContentWaits'
  BY <1>5 DEF Entered, Content, ContentWaits
<1>18. ResultCounted'
  BY <1>5, <1>14, <1>17 DEF ResultCounted, One
<1>19. Ordered' /\ Fresh'
  BY <1>5 DEF Ordered, Fresh
<1>20. CallsInStep'
  BY <1>5 DEF CallsInStep
<1>21. ValuesKnown'
  <2>1. \A j \in First : Answered(j)'
    BY <1>3, <1>6, <1>7 DEF Answered
  <2>2. \A i \in Second : /\ ~ Means(i)' => val'[i] = "NULL"
                          /\ Means(i)' => val'[i] = Meaning(i)'
    BY <1>3, <1>7
  <2>3. val' = [i \in Item |-> val'[i]]
    BY DEF IInv, ValuesKnown
  <2> QED BY <2>1, <2>2, <2>3 DEF ValuesKnown
<1>22. Heard'
  <2>1. 0 <= Parts
    BY PartsAssumption
  <2>2. request' \in { <<>>, MeantRequest' }
    BY <1>7, <1>8
  <2> QED BY <1>6, <1>8, <2>1, <2>2 DEF Heard, Params, Content
<1>23. Replaces'
  BY <1>2, <1>5, <1>6, <1>7, <1>8, <1>17 DEF IInv, Replaces
<1>24. [E!Next]_(E!vars)
  <2>1. CASE request' = request
    BY <1>6, <1>7, <2>1 DEF E!vars
  <2>2. CASE request' = MeantRequest
    <3>1. E!Ask
      BY <1>6, <1>7, <1>8, <2>2 DEF E!Ask
    <3> QED BY <3>1 DEF E!Next
  <2> QED BY <2>1, <2>2
<1>25. QueuesApart(main', tcb')
  BY <1>4
<1> QED BY <1>10, <1>12, <1>13, <1>15, <1>16, <1>18, <1>19, <1>20, <1>21, <1>22, <1>23, <1>24,
  <1>25 DEF Kept, IInv

LEMMA ParamsEndKeeps ==
  ASSUME IInv, ParamsEnd
  PROVE  Kept
<1>1. /\ Calls("include", "self") /\ stage = "PARAMS_END"
      /\ count' = count /\ val' = val /\ made' = made /\ main' = Rest
      /\ UNCHANGED <<answer, result, host>>
  BY DEF ParamsEnd, values
<1>2. count[P] \in Nat
  BY Held
<1>3. CASE Incomplete
  <2>1. /\ tcb' = Parked(tcb, P, Self) /\ Goes /\ UNCHANGED <<stage, subrequest>>
    BY <1>3 DEF ParamsEnd
  <2> QED BY <1>1, <1>3, <2>1, ParamsEndWaits DEF Incomplete
<1>4. CASE ~ Incomplete
  <2>1. count[P] = 0
    BY <1>2, <1>4 DEF Incomplete
  <2>2. Unready = {}
    <3>1. Cardinality(Unready) \in Nat /\ (Cardinality(Unready) = 0 => Unready = {})
      BY UnreadyIs
    <3> QED BY <1>1, <2>1, <3>1 DEF IInv, ParamsCounted
  <2>3. ~ ContentWaits
    BY <1>1 DEF ContentWaits, IInv, CallsInStep, Entered, Content
  <2>4. \A x : x \in Queued <=> x = Self
    BY <1>1, <2>2, <2>3, Settled
  <2>5. ~ Contradicts => Request = MeantRequest
    BY <1>1, <2>4, RequestIs
  <2>6. /\ stage' = "READ_RESPONSE" /\ tcb' = tcb
        /\ \/ Goes /\ UNCHANGED subrequest
           \/ Returns({"CRASH"}) /\ UNCHANGED subrequest
           \/ /\ ~ Contradicts /\ icb' = TRUE /\ request' = Request
              /\ Returns({"SUBREQUEST"})
    BY <1>4 DEF ParamsEnd
  <2>7. /\ request' \in { request, MeantRequest } /\ icb' \in BOOLEAN
        /\ Goes \/ (running' = FALSE /\ cur' \in { {"CRASH"}, {"SUBREQUEST"} })
    BY <2>5, <2>6 DEF Returns, subrequest, IInv, TypeOK
  <2> QED BY <1>1, <2>2, <2>6, <2>7, SendsKeeps
<1> QED BY <1>3, <1>4

\* A step of the loop's end or of the host that leaves the queues and the stage.
LEMMA StaysKeeps ==
  ASSUME IInv, UNCHANGED <<queues, stage, values, ended, result, config>>,
         Verdict' = Verdict, TypeOK', Heard', Fresh', HostInStep', DoneIsComplete',
         [E!Next]_(E!vars)
  PROVE  Kept
<1>1. /\ count' = count /\ tcb' = tcb /\ main' = main /\ stage' = stage /\ val' = val
      /\ made' = made /\ ended' = ended /\ result' = result /\ config' = config
  BY DEF queues, values
<1>2. Queued' = Queued /\ \A x : InMain(x)' <=> InMain(x)
  BY <1>1 DEF Queued, InMain
<1>3. \A j : (Means(j)' <=> Means(j)) /\ Meaning(j)' = Meaning(j)
  BY <1>1 DEF Means, Meaning
<1>4. QueuesApart(main', tcb') /\ Placed(tcb, count)'
  BY <1>1 DEF IInv, Placed, MayWait
<1>5. Unready' = Unready
  BY <1>2 DEF Unready
<1>6. /\ Entered' <=> Entered
      /\ ContentWaits' <=> ContentWaits
  BY <1>1, <1>2 DEF Entered, ContentWaits
<1>7. Counted'
  BY <1>1, <1>2 DEF IInv, Counted, One
<1>8. ParamsCounted'
  BY <1>1, <1>2, <1>5 DEF IInv, ParamsCounted
<1>9. ResultCounted'
  BY <1>1, <1>2, <1>6 DEF IInv, ResultCounted, One
<1>10. Ordered'
  BY <1>1, <1>2 DEF IInv, Ordered
<1>11. CallsInStep'
  BY <1>1, <1>2, <1>3, <1>6 DEF IInv, CallsInStep, Round
<1>12. ValuesKnown'
  <2>1. \A j : UnderWay(j)' <=> UnderWay(j)
    BY <1>2 DEF UnderWay
  <2>2. \A j \in First : Answered(j)' <=> Answered(j)
    BY <1>1, <1>3 DEF Answered
  <2> QED BY <1>1, <1>2, <1>3, <2>1, <2>2 DEF IInv, ValuesKnown
<1>13. Replaces'
  BY <1>1, <1>2, <1>6 DEF IInv, Replaces
<1> QED BY <1>4, <1>7, <1>8, <1>9, <1>10, <1>11, <1>12, <1>13 DEF Kept, IInv

\* What a step keeps that changes neither the answer nor the request.
LEMMA IdleKeeps ==
  ASSUME IInv, UNCHANGED <<queues, stage, values, subrequest, answer, result, host>>,
         running' \in BOOLEAN,
         cur' \subseteq { "WAITING", "DONE", "SUBREQUEST", "REFUSE_SUBREQUEST", "ERROR", "CRASH" },
         FirstC \in Queued => cur' = {}, HostInStep', DoneIsComplete'
  PROVE  Kept
<1>1. /\ count' = count /\ tcb' = tcb /\ main' = main /\ stage' = stage /\ val' = val
      /\ made' = made /\ result' = result /\ config' = config /\ status' = status
      /\ parsed' = parsed /\ ended' = ended /\ request' = request /\ icb' = icb
      /\ refused' = refused /\ over' = over /\ UNCHANGED <<answer, host>>
  BY DEF queues, values, subrequest, answer, host
<1>2. /\ MeantRequest' = MeantRequest /\ MeantTest' = MeantTest
      /\ \A j : (Means(j)' <=> Means(j)) /\ Meaning(j)' = Meaning(j)
      /\ Verdict' = Verdict
  BY <1>1, SheetStays, VerdictStays
<1>3. TypeOK'
  <2>1. \A i \in Item : val'[i] \in {Meaning(i)', "NULL", "empty"} \cup Bool
    BY <1>1, <1>2, ValTyped
  <2> QED BY <1>1, <2>1 DEF TypeOK, IInv
<1>4. Heard'
  BY <1>1, <1>2 DEF IInv, Heard
<1>5. Fresh'
  <2>1. Queued' = Queued
    BY <1>1 DEF Queued
  <2> QED BY <1>1, <2>1 DEF IInv, Fresh, One
<1>6. [E!Next]_(E!vars)
  BY <1>1, <1>2 DEF E!vars
<1>7. UNCHANGED <<queues, stage, values, ended, result, config>>
  BY <1>1
<1> QED BY <1>2, <1>3, <1>4, <1>5, <1>6, <1>7, StaysKeeps

\* With nothing held the include has been replaced.
LEMMA RunsOutKeeps ==
  ASSUME IInv, RunsOut
  PROVE  Kept
<1>1. /\ main = <<>> /\ running' = FALSE
      /\ cur' = IF count[Doc] = 0 THEN {"DONE"} ELSE {"WAITING"}
      /\ UNCHANGED <<queues, stage, values, subrequest, answer, result, host>>
  BY DEF RunsOut, Returns
<1>2. /\ count' = count /\ tcb' = tcb /\ main' = main /\ ended' = ended /\ result' = result
  BY <1>1 DEF queues, answer
<1>3. FirstC \notin Queued
  <2>1. main # <<FirstC>>
    BY <1>1
  <2> QED BY <2>1 DEF IInv, Fresh
<1>4. ASSUME count[Doc] = 0
      PROVE  /\ result # {} /\ ended # "no"
             /\ \A n \in Node : count[n] = 0 /\ tcb[n] = <<>>
  <2>1. \A n \in Node : count[n] \in Nat
    BY Held
  <2>2. count[Var] = 0 /\ count[I] = 0 /\ count[P] = 0 /\ count[S] = 0 /\ count[R] = 0
    <3>1. /\ count[Var] \in Nat /\ count[I] \in Nat /\ count[P] \in Nat /\ count[S] \in Nat
          /\ count[R] \in Nat
      BY <2>1, NodeIs
    <3>2. count[Doc] = count[Var] + count[I]
      BY DEF IInv, Counted
    <3>3. count[Var] = 0 /\ count[I] = 0
      BY <1>4, <3>1, <3>2
    <3> QED BY <3>1, <3>3, Held
  <2>3. result # {}
    BY <1>3, <2>2, Held
  <2>4. \A i \in Value : count[i] = 0
    BY <2>2, Held
  <2>5. \A n \in Node : count[n] = 0
    BY <1>4, <2>2, <2>4, NodeIs
  <2>6. \A n \in Node : tcb[n] = <<>>
    BY <2>5 DEF IInv, Placed
  <2>7. ended # "no"
    BY <2>3 DEF IInv, Replaces, Heard, Params
  <2> QED BY <2>3, <2>5, <2>6, <2>7
<1>5. DoneIsComplete'
  <2>1. CASE count[Doc] = 0
    BY <1>1, <1>2, <1>4, <2>1 DEF DoneIsComplete
  <2>2. CASE count[Doc] # 0
    BY <1>1, <2>2 DEF DoneIsComplete
  <2> QED BY <2>1, <2>2
<1>6. HostInStep'
  BY <1>1, <1>2 DEF HostInStep
<1> QED BY <1>1, <1>3, <1>5, <1>6, IdleKeeps

LEMMA ResumeKeeps ==
  ASSUME IInv, Resume
  PROVE  Kept
<1>1. /\ cur' = {} /\ running' = TRUE
      /\ UNCHANGED <<queues, stage, values, subrequest, answer, result, host>>
  BY DEF Resume
<1>2. HostInStep' /\ DoneIsComplete'
  BY <1>1 DEF HostInStep, HostWaits, DoneIsComplete
<1> QED BY <1>1, <1>2, IdleKeeps

LEMMA StutterKeeps ==
  ASSUME IInv, UNCHANGED vars
  PROVE  Kept
<1>1. /\ UNCHANGED <<queues, stage, values, subrequest, answer, result, host>>
      /\ cur' = cur /\ running' = running
  BY DEF vars
<1>2. count' = count /\ tcb' = tcb /\ main' = main /\ ended' = ended /\ result' = result
  BY <1>1 DEF queues, answer
<1>3. HostInStep' /\ DoneIsComplete'
  BY <1>1, <1>2 DEF IInv, HostInStep, HostWaits, DoneIsComplete
<1>4. FirstC \in Queued => cur = {}
  BY DEF IInv, Fresh
<1>5. /\ running \in BOOLEAN
      /\ cur \subseteq { "WAITING", "DONE", "SUBREQUEST", "REFUSE_SUBREQUEST", "ERROR", "CRASH" }
  BY DEF IInv, TypeOK
<1> QED BY <1>1, <1>3, <1>4, <1>5, IdleKeeps

\* What the host may find when it gives a part of the answer.
LEMMA HostFinds ==
  ASSUME IInv, HostGives
  PROVE  /\ stage = "READ_RESPONSE" /\ parsed <= Parts /\ ended = "no" /\ request # <<>>
         /\ main = <<>> /\ running = FALSE /\ ~ refused /\ ~ over /\ result = {}
         /\ \A m \in Node : tcb[m] = <<>>
         /\ \A x : x \notin Queued
         /\ count[P] = 0 /\ count[S] = 0 /\ count[R] = 0 /\ \A i \in Value : count[i] = 0
         /\ \A i \in First : Answered(i)
         /\ \A i \in Second : val[i] = IF Means(i) THEN Meaning(i) ELSE "NULL"
<1>1. /\ request # <<>> /\ ~ refused /\ ~ over /\ main = <<>> /\ running = FALSE
  BY DEF HostGives, HostWaits, Stopped, IInv, TypeOK, HostInStep
<1>2. stage = "READ_RESPONSE" /\ parsed <= Parts
  BY <1>1 DEF IInv, Heard
<1>3. /\ stage \notin Params /\ ~ Entered /\ ended = "no" /\ result = {}
  BY <1>2 DEF Params, Entered, Content, IInv, Heard, Replaces
<1>4. /\ \A i \in Value : /\ XPathC(i) \notin Queued /\ StringC(i) \notin Queued
                          /\ ElementC(i) \notin Queued /\ ElementEndC(i) \notin Queued
                          /\ ~ UnderWay(i) /\ count[i] = 0
      /\ FirstC \notin Queued /\ count[P] = 0
  BY <1>3, LateCalls
<1>5. XPathC("success") \notin Queued /\ Self \notin Queued
  BY <1>2 DEF IInv, CallsInStep
<1>6. VariableC \notin Queued
  <2>1. main # <<VariableC>>
    BY <1>1
  <2> QED BY <2>1 DEF IInv, Ordered
<1>7. \A s \in Content : ElementC(s) \notin Queued /\ ElementEndC(s) \notin Queued
  BY <1>2, <1>3 DEF IInv, CallsInStep
<1>8. ASSUME NEW i \in Item
      PROVE  /\ ElementC(i) \notin Queued /\ XPathC(i) \notin Queued
             /\ StringC(i) \notin Queued /\ ElementEndC(i) \notin Queued
  <2>1. ElementC(i) \notin Queued
    BY <1>4, <1>7 DEF IInv, CallsInStep
  <2>2. XPathC(i) \notin Queued
    BY <1>4, <1>5 DEF IInv, CallsInStep
  <2>3. StringC(i) \notin Queued
    BY <1>4 DEF IInv, CallsInStep
  <2>4. ElementEndC(i) \notin Queued
    BY <1>4, <1>7 DEF IInv, CallsInStep
  <2> QED BY <2>1, <2>2, <2>3, <2>4
<1>9. ASSUME NEW x \in Call PROVE x \in { Self, FirstC, VariableC } \/ \E i \in Item :
               x = ElementC(i) \/ x = ElementEndC(i) \/ x = StringC(i) \/ x = XPathC(i)
  BY DEF Call, Self, FirstC, VariableC, ElementC, ElementEndC, StringC, XPathC
<1>10. \A x : x \notin Queued
  BY <1>4, <1>5, <1>6, <1>8, <1>9, QueuedTyped
<1>11. ASSUME NEW m \in Node PROVE tcb[m] = <<>>
  <2>1. tcb[m] \in Seq(Call) /\ DOMAIN tcb = Node
    BY QueueTypes DEF IInv
  <2>2. \A x : x \notin ToSet(tcb[m])
    BY <1>10, <2>1 DEF Queued, InQueues
  <2> QED BY <2>1, <2>2, NothingQueued
<1>12. count[S] = 0
  BY <1>5, Held
<1>13. count[R] = 0
  BY <1>3, <1>7 DEF IInv, ResultCounted, One, ContentWaits
<1>14. \A i \in First : Answered(i)
  BY <1>4 DEF IInv, ValuesKnown, Value
<1>15. \A i \in Second : val[i] = IF Means(i) THEN Meaning(i) ELSE "NULL"
  <2>1. stage # "PARAMS_BEGIN" /\ \A i \in Second : ~ UnderWay(i)
    BY <1>2, <1>4 DEF Value
  <2> QED BY <2>1 DEF IInv, ValuesKnown
<1> QED BY <1>1, <1>2, <1>3, <1>4, <1>10, <1>11, <1>12, <1>13, <1>14, <1>15

\* A status, or a part that is not the last.
LEMMA GoesOnKeeps ==
  ASSUME IInv, HostGives, UNCHANGED <<queues, stage, values, request, ended, result, host>>,
         icb' \in BOOLEAN, status' = status \/ status' \in { "ok", "bad" },
         parsed' \in 0..(Parts + 1), parsed' <= Parts, cur' = {"WAITING"}, running' = running
  PROVE  Kept
<1>1. /\ stage = "READ_RESPONSE" /\ ended = "no" /\ request # <<>> /\ main = <<>>
      /\ running = FALSE /\ \A x : x \notin Queued
  BY HostFinds
<1>2. /\ count' = count /\ tcb' = tcb /\ main' = main /\ stage' = stage /\ val' = val
      /\ made' = made /\ result' = result /\ config' = config /\ ended' = ended
      /\ request' = request /\ refused' = refused /\ over' = over /\ UNCHANGED host
  BY DEF queues, values, host
<1>3. /\ MeantRequest' = MeantRequest /\ MeantTest' = MeantTest
      /\ \A j : (Means(j)' <=> Means(j)) /\ Meaning(j)' = Meaning(j)
  BY <1>2, SheetStays
<1>4. Verdict' = Verdict
  BY <1>1, <1>2 DEF Verdict, E!Succeeds
<1>5. TypeOK'
  <2>1. \A i \in Item : val'[i] \in {Meaning(i)', "NULL", "empty"} \cup Bool
    BY <1>2, <1>3, ValTyped
  <2> QED BY <1>2, <2>1 DEF TypeOK, IInv
<1>6. Heard'
  BY <1>1, <1>2, <1>3 DEF IInv, Heard, Params, Content
<1>7. Fresh'
  <2>1. Queued' = Queued
    BY <1>2 DEF Queued
  <2> QED BY <1>1, <2>1 DEF Fresh
<1>8. HostInStep' /\ DoneIsComplete'
  BY <1>1, <1>2 DEF HostInStep, DoneIsComplete
<1>9. [E!Next]_(E!vars)
  <2>1. CASE status' = status
    BY <1>2, <1>3, <2>1 DEF E!vars
  <2>2. CASE status' \in { "ok", "bad" }
    <3>1. E!HearStatus
      BY <1>1, <1>2, <1>3, <2>2 DEF E!HearStatus
    <3> QED BY <3>1 DEF E!Next
  <2> QED BY <2>1, <2>2
<1>10. UNCHANGED <<queues, stage, values, ended, result, config>>
  BY <1>2
<1> QED BY <1>4, <1>5, <1>6, <1>7, <1>8, <1>9, <1>10, StaysKeeps

\* The end of the answer: the include is called, with the stage it calls for.
LEMMA EndHeardKeeps ==
  ASSUME IInv, HostGives,
         main' = Append(main, Self), count' = count, tcb' = tcb, val' = val, made' = made,
         request' = request, icb' \in BOOLEAN, status' = status, result' = result,
         config' = config, refused' \in BOOLEAN, over' \in BOOLEAN, refused' \/ over',
         parsed' \in 0..(Parts + 1),
         \/ ended' = "whole" /\ stage' = AfterLast
         \/ ended' = "broken" /\ stage' = "FAILURE",
         \/ cur' = {"REFUSE_SUBREQUEST"} /\ running' = running
         \/ cur' = {} /\ running' = TRUE
  PROVE  Kept
<1>1. /\ stage = "READ_RESPONSE" /\ ended = "no" /\ request # <<>>
      /\ main = <<>> /\ running = FALSE /\ result = {}
      /\ \A m \in Node : tcb[m] = <<>>
      /\ \A x : x \notin Queued
      /\ count[P] = 0 /\ count[S] = 0 /\ count[R] = 0 /\ \A i \in Value : count[i] = 0
      /\ \A i \in First : Answered(i)
      /\ \A i \in Second : val[i] = IF Means(i) THEN Meaning(i) ELSE "NULL"
  BY HostFinds
<1>2. MeantRequest' = MeantRequest /\ MeantTest' = MeantTest
  BY DEF MeantRequest, MeantTest, Contradictory, MeantInBody, Means
<1>3. \A j : (Means(j)' <=> Means(j)) /\ Meaning(j)' = Meaning(j)
  BY DEF Means, Meaning
<1>4. /\ count \in [Node -> Nat] /\ tcb \in [Node -> Seq(Call)] /\ DOMAIN tcb = Node
      /\ Self \in Call
  BY QueueTypes, CallsTyped DEF IInv
<1>5. main' = <<Self>> /\ <<Self>> \in Seq(Call) /\ IsInjective(<<Self>>) /\ ToSet(<<Self>>) = {Self}
  <2>1. <<Self>> \in Seq(Call) /\ IsInjective(<<Self>>) /\ ToSet(<<Self>>) = {Self}
    BY <1>4 DEF IsInjective, ToSet
  <2>2. Append(<<>>, Self) = <<Self>>
    OBVIOUS
  <2> QED BY <1>1, <2>1, <2>2
<1>6. QueuesApart(main', tcb') /\ \A x : x \in Queued' <=> x = Self
  <2>1. \A q \in Seq(Call) : IsInjective(q) =>
          QueuesApart(q, tcb) /\ \A x : x \in InQueues(q, tcb) <=> x \in ToSet(q)
    BY <1>1, <1>4, NothingWaits
  <2>2. QueuesApart(main', tcb') /\ \A x : x \in InQueues(main', tcb') <=> x \in ToSet(main')
    BY <1>5, <2>1
  <2> QED BY <1>5, <2>2 DEF Queued
<1>7. \A x : InMain(x)' <=> x = Self
  BY <1>5 DEF InMain
<1>8. /\ stage' \in { "SUCCESS_TEST_BEGIN", "SUCCESS", "FAILURE" }
      /\ stage' = "SUCCESS_TEST_BEGIN" => ended' = "whole" /\ config.how["success"] = "xpath"
      /\ stage' \in Content => stage' = Verdict'
  <2>1. config.how["success"] \in { "none", "xpath" }
    BY DEF IInv, TypeOK, Config
  <2>2. stage' \in { "SUCCESS_TEST_BEGIN", "SUCCESS", "FAILURE" }
    BY DEF AfterLast
  <2>3. stage' = "SUCCESS_TEST_BEGIN" => ended' = "whole" /\ config.how["success"] = "xpath"
    BY DEF AfterLast
  <2>4. CASE ended' = "broken" /\ stage' = "FAILURE"
    <3>1. Verdict' = "FAILURE"
      BY <2>4 DEF Verdict, E!Succeeds
    <3> QED BY <2>2, <2>4, <3>1
  <2>5. CASE ended' = "whole" /\ stage' = AfterLast
    <3>1. CASE config.how["success"] = "xpath"
      BY <2>5, <3>1 DEF AfterLast, Content
    <3>2. CASE config.how["success"] = "none"
      <4>1. MeantTest' = "none"
        BY <1>2, <3>2 DEF MeantTest
      <4>2. E!Succeeds' <=> status = "ok"
        BY <2>5, <4>1 DEF E!Succeeds
      <4>3. Verdict' = IF status = "ok" THEN "SUCCESS" ELSE "FAILURE"
        BY <4>2 DEF Verdict
      <4>4. stage' = IF status = "ok" THEN "SUCCESS" ELSE "FAILURE"
        BY <2>5, <3>2 DEF AfterLast
      <4> QED BY <2>2, <4>3, <4>4
    <3> QED BY <2>1, <3>1, <3>2
  <2> QED BY <2>2, <2>3, <2>4, <2>5
<1>9. TypeOK'
  <2>1. \A i \in Item : val'[i] \in {Meaning(i)', "NULL", "empty"} \cup Bool
    BY <1>3, ValTyped
  <2>2. stage' \in Stage
    BY <1>8 DEF Stage
  <2>3. /\ running' \in BOOLEAN /\ ended' \in { "no", "whole", "broken" }
        /\ cur' \subseteq { "WAITING", "DONE", "SUBREQUEST", "REFUSE_SUBREQUEST",
                            "ERROR", "CRASH" }
    BY <1>1
  <2> QED BY <1>4, <1>5, <2>1, <2>2, <2>3 DEF TypeOK, IInv
<1>10. Placed(tcb, count)'
  <2>1. \A m \in Node : \A x : x \notin ToSet(tcb[m])
    BY <1>1 DEF ToSet
  <2> QED BY <1>1, <2>1 DEF Placed
<1>11. /\ \A i : /\ StringC(i) \notin Queued' /\ ElementC(i) \notin Queued'
                 /\ XPathC(i) \notin Queued' /\ ElementEndC(i) \notin Queued'
       /\ VariableC \notin Queued' /\ FirstC \notin Queued'
  BY <1>6, SelfApart
<1>12. Counted'
  <2>1. One(FirstC \notin Queued /\ result = {})' = One(FirstC \notin Queued /\ result = {})
    BY <1>1, <1>11 DEF One
  <2>2. \A i \in Value : count'[i] = One(ElementEndC(i) \in Queued)'
    BY <1>1, <1>11 DEF One
  <2>3. count'[S] = One(XPathC("success") \in Queued)'
    BY <1>1, <1>11 DEF One
  <2> QED BY <2>1, <2>2, <2>3 DEF IInv, Counted
<1>13. ParamsCounted'
  <2>1. \A c : c \notin Unready'
    <3> SUFFICES ASSUME NEW c \in Unready' PROVE FALSE
      OBVIOUS
    <3>1. c \in { "xpath", "elementEnd" } \X Value /\ c \in Queued'
      BY DEF Unready
    <3>2. \E i \in Value : c = XPathC(i) \/ c = ElementEndC(i)
      BY <3>1 DEF XPathC, ElementEndC
    <3> QED BY <1>11, <3>1, <3>2
  <2>2. Cardinality(Unready') = 0
    BY <2>1, FS_EmptySet
  <2> QED BY <1>1, <1>8, <2>2 DEF ParamsCounted
<1>14. ~ Entered' /\ ~ ContentWaits'
  BY <1>1, <1>11 DEF Entered, ContentWaits
<1>15. ResultCounted'
  BY <1>1, <1>8, <1>14 DEF ResultCounted, One
<1>16. Ordered' /\ Fresh'
  BY <1>7, <1>11, SelfApart DEF Ordered, Fresh
<1>17. CallsInStep'
  BY <1>1, <1>8, <1>11 DEF CallsInStep
<1>18. ValuesKnown'
  <2>1. \A j \in First : Answered(j)'
    BY <1>1, <1>3 DEF Answered
  <2>2. \A i \in Second : /\ ~ Means(i)' => val'[i] = "NULL"
                          /\ Means(i)' => val'[i] = Meaning(i)'
    BY <1>1, <1>3
  <2>3. val' = [i \in Item |-> val'[i]] /\ stage' # "PARAMS_BEGIN" /\ stage' # "SUCCESS_TEST_END"
    BY <1>8 DEF IInv, ValuesKnown
  <2> QED BY <2>1, <2>2, <2>3 DEF ValuesKnown
<1>19. Heard'
  <2>1. request \in { <<>>, MeantRequest }
    BY DEF IInv, Heard
  <2> QED BY <1>1, <1>2, <1>8, <2>1 DEF Heard, Params
<1>20. Replaces'
  <2>1. made \cap Content = {}
    BY <1>1 DEF IInv, Replaces
  <2> QED BY <1>1, <1>8, <1>14, <2>1 DEF Replaces
<1>21. HostInStep' /\ DoneIsComplete'
  BY <1>1 DEF HostInStep, HostWaits, DoneIsComplete
<1>22. [E!Next]_(E!vars)
  <2>1. E!HearEnd
    BY <1>1, <1>2 DEF E!HearEnd
  <2> QED BY <2>1 DEF E!Next
<1> QED BY <1>6, <1>9, <1>10, <1>12, <1>13, <1>15, <1>16, <1>17, <1>18, <1>19, <1>20, <1>21,
  <1>22 DEF Kept, IInv

LEMMA GiveStatusKeeps ==
  ASSUME IInv, GiveStatus
  PROVE  Kept
<1>1. HostGives /\ stage = "READ_RESPONSE" /\ parsed <= Parts
  BY HostFinds DEF GiveStatus
<1>2. /\ status' \in { "ok", "bad" } /\ cur' = {"WAITING"} /\ running' = running
      /\ icb' = icb /\ parsed' = parsed /\ icb \in BOOLEAN /\ parsed \in 0..(Parts + 1)
      /\ UNCHANGED <<queues, stage, values, request, ended, result, host>>
  BY <1>1 DEF GiveStatus, subrequest, IInv, TypeOK
<1> QED BY <1>1, <1>2, GoesOnKeeps

\* A part of the body, the last one or not.
LEMMA BodyKeeps ==
  ASSUME IInv, HostGives, NEW last \in BOOLEAN, Body(last),
         last => over' = TRUE, ~ last => over' = over /\ parsed < Parts
  PROVE  Kept
<1>1. stage = "READ_RESPONSE" /\ ~ refused /\ ~ over /\ parsed <= Parts /\ ended = "no"
  BY HostFinds
<1>2. PICK o \in Outcomes(last) : Fed(o)
  BY <1>1 DEF Body
<1>3. /\ icb' = (icb /\ ~ last) /\ parsed' = parsed + 1
      /\ count' = count /\ tcb' = tcb /\ val' = val /\ made' = made /\ request' = request
      /\ status' = status /\ result' = result /\ config' = config
  BY <1>1, <1>2 DEF Body, Fed, values
<1>4. /\ Parts \in Nat /\ parsed \in Nat /\ icb' \in BOOLEAN /\ over' \in BOOLEAN
      /\ parsed' \in 0..(Parts + 1)
  <2>1. Parts \in Nat /\ parsed \in Nat
    BY PartsAssumption DEF IInv, TypeOK
  <2>2. parsed' \in 0..(Parts + 1)
    BY <1>1, <1>3, <2>1
  <2>3. over' \in BOOLEAN /\ icb' \in BOOLEAN
    BY <1>3 DEF IInv, TypeOK
  <2> QED BY <2>1, <2>2, <2>3
<1>5. CASE /\ o = "again" /\ cur' = {"WAITING"}
           /\ UNCHANGED <<main, stage, ended, refused, running>>
  <2>1. ~ last
    BY <1>5 DEF Outcomes
  <2>2. parsed' <= Parts
    BY <1>3, <1>4, <2>1
  <2>3. UNCHANGED <<queues, stage, values, request, ended, result, host>>
    BY <1>3, <1>5, <2>1 DEF queues, values, host
  <2> QED BY <1>3, <1>4, <1>5, <2>2, <2>3, GoesOnKeeps
<1>6. CASE /\ o = "refuse" /\ stage' = "FAILURE" /\ main' = Append(main, Self)
           /\ cur' = {"REFUSE_SUBREQUEST"} /\ ended' = "broken" /\ refused' = TRUE
           /\ UNCHANGED running
  BY <1>3, <1>4, <1>6, EndHeardKeeps
<1>7. CASE /\ o \in { "whole", "ill-formed" }
           /\ stage' = IF o = "whole" THEN AfterLast ELSE "FAILURE"
           /\ main' = Append(main, Self)
           /\ ended' = IF o = "whole" THEN "whole" ELSE "broken"
           /\ cur' = {} /\ running' = TRUE /\ UNCHANGED refused
  <2>1. last
    BY <1>7 DEF Outcomes
  <2>2. over' /\ refused' \in BOOLEAN
    BY <1>7, <2>1 DEF IInv, TypeOK
  <2> QED BY <1>3, <1>4, <1>7, <2>2, EndHeardKeeps
<1> QED BY <1>2, <1>5, <1>6, <1>7 DEF Fed

LEMMA GivesKeeps ==
  ASSUME IInv, Gives
  PROVE  Kept
<1>1. CASE GiveStatus
  BY <1>1, GiveStatusKeeps
<1>2. CASE GivePart
  <2>1. ASSUME NEW last \in BOOLEAN, last = FALSE PROVE Kept
    <3>1. HostGives /\ parsed < Parts /\ Body(last) /\ over' = over
      BY <1>2, <2>1 DEF GivePart
    <3> QED BY <2>1, <3>1, BodyKeeps
  <2> QED BY <2>1
<1>3. CASE GiveLast
  <2>1. ASSUME NEW last \in BOOLEAN, last = TRUE PROVE Kept
    <3>1. HostGives /\ Body(last) /\ over' = TRUE
      BY <1>3, <2>1, Zenon DEF GiveLast
    <3> QED BY <2>1, <3>1, BodyKeeps
  <2> QED BY <2>1
<1>4. CASE GiveError
  <2>1. /\ HostGives /\ stage' = "FAILURE" /\ main' = Append(main, Self)
        /\ cur' = {"REFUSE_SUBREQUEST"} /\ ended' = "broken" /\ refused' = TRUE /\ over' = TRUE
        /\ count' = count /\ tcb' = tcb /\ val' = val /\ made' = made /\ request' = request
        /\ icb' = icb /\ status' = status /\ parsed' = parsed /\ result' = result
        /\ config' = config /\ running' = running
    BY <1>4 DEF GiveError, values, subrequest
  <2>2. icb \in BOOLEAN /\ parsed \in 0..(Parts + 1)
    BY DEF IInv, TypeOK
  <2> QED BY <2>1, <2>2, EndHeardKeeps
<1> QED BY <1>1, <1>2, <1>3, <1>4 DEF Gives

\* The variable's value comes: its element is called.
LEMMA AnswerVariableKeeps ==
  ASSUME IInv, AnswerVariable
  PROVE  Kept
<1>1. /\ main = <<>> /\ running = FALSE /\ ~ VariableReady
      /\ main' = <<VariableC>> /\ cur' = {} /\ running' = TRUE
      /\ count' = count /\ tcb' = tcb /\ UNCHANGED <<subrequest, answer, host>>
      /\ stage' = stage /\ val' = val /\ made' = made /\ result' = result
  BY DEF AnswerVariable, HostWaits, IInv, HostInStep, TypeOK, VariableC, values
<1>2. /\ status' = status /\ parsed' = parsed /\ ended' = ended /\ request' = request
      /\ icb' = icb /\ refused' = refused /\ over' = over /\ config' = config
      /\ UNCHANGED answer /\ UNCHANGED host
  BY <1>1 DEF subrequest, answer, host
<1>3. /\ MeantRequest' = MeantRequest /\ MeantTest' = MeantTest
      /\ \A j : (Means(j)' <=> Means(j)) /\ Meaning(j)' = Meaning(j)
      /\ Verdict' = Verdict
  BY <1>2, SheetStays, VerdictStays
<1>4. /\ count \in [Node -> Nat] /\ tcb \in [Node -> Seq(Call)] /\ DOMAIN tcb = Node
      /\ VariableC \in Call
  BY QueueTypes, CallsTyped DEF IInv
<1>5. /\ <<VariableC>> \in Seq(Call) /\ IsInjective(<<VariableC>>)
      /\ ToSet(<<VariableC>>) = {VariableC}
  BY <1>4 DEF IsInjective, ToSet
<1>6. /\ FirstC \notin Queued /\ VariableC \notin Queued
      /\ \A x : ~ InMain(x)
  <2>1. main # <<FirstC>> /\ main # <<VariableC>>
    BY <1>1
  <2>2. \A x : x \notin ToSet(<<>>)
    BY DEF ToSet
  <2> QED BY <1>1, <2>1, <2>2 DEF IInv, Fresh, Ordered, InMain
<1>7. \A x : x \in Queued' <=> x \in Queued \/ x = VariableC
  BY <1>1, <1>4, <1>5, <1>6 DEF Queued, InQueues, InMain
<1>8. \A x : InMain(x)' <=> x = VariableC
  BY <1>1, <1>5 DEF InMain
<1>9. QueuesApart(main', tcb')
  <2>1. \A n \in Node : VariableC \notin ToSet(tcb[n])
    BY <1>4, <1>6 DEF Queued, InQueues
  <2> QED BY <1>1, <1>4, <1>5, <2>1 DEF IInv, QueuesApart
<1>10. \A j : ElementC(j) \notin Queued
  BY <1>6, NoElement
<1>11. /\ \A j : /\ ElementC(j) \notin Queued'
                 /\ StringC(j) \in Queued' <=> StringC(j) \in Queued
                 /\ XPathC(j) \in Queued' <=> XPathC(j) \in Queued
                 /\ ElementEndC(j) \in Queued' <=> ElementEndC(j) \in Queued
                 /\ ~ InMain(StringC(j))'
       /\ Self \in Queued' <=> Self \in Queued
       /\ FirstC \notin Queued' /\ ~ InMain(Self)'
  BY <1>6, <1>7, <1>8, <1>10, VariableApart
<1>12. TypeOK'
  <2>1. \A i \in Item : val'[i] \in {Meaning(i)', "NULL", "empty"} \cup Bool
    BY <1>1, <1>3, ValTyped
  <2> QED BY <1>1, <1>2, <1>4, <1>5, <2>1 DEF TypeOK, IInv
<1>13. Placed(tcb, count)'
  BY <1>1 DEF IInv, Placed, MayWait
<1>14. Counted'
  <2>1. One(FirstC \notin Queued /\ result = {})' = One(FirstC \notin Queued /\ result = {})
    BY <1>1, <1>6, <1>11 DEF One
  <2> QED BY <1>1, <1>11, <2>1 DEF IInv, Counted, One
<1>15. ParamsCounted'
  <2>1. Unready' = Unready
    BY <1>11, UnreadySame
  <2> QED BY <1>1, <1>6, <1>11, <2>1 DEF IInv, ParamsCounted
<1>16. (Entered' <=> Entered) /\ (ContentWaits' <=> ContentWaits) /\ ~ Entered
  BY <1>1, <1>6, <1>11 DEF Entered, ContentWaits, IInv, ResultCounted
<1>17. ResultCounted'
  BY <1>1, <1>11, <1>16 DEF IInv, ResultCounted, One
<1>18. Ordered'
  <2>1. count'[Var] = 1
    BY <1>1 DEF IInv, Counted, VariableReady
  <2>2. ASSUME NEW j \in Item
        PROVE  StringC(j) \in Queued' =>
                 ElementC(j) \in Queued' \/ ElementEndC(j) \in Queued' \/ j \in made'
    BY <1>1, <1>10, <1>11 DEF IInv, Ordered
  <2> QED BY <1>1, <1>11, <2>1, <2>2 DEF Ordered
<1>19. CallsInStep'
  BY <1>1, <1>2, <1>3, <1>11, <1>16 DEF IInv, CallsInStep, Round
<1>20. ValuesKnown'
  <2>1. \A j : UnderWay(j)' <=> UnderWay(j)
    BY <1>11 DEF UnderWay
  <2>2. \A j \in First : Answered(j)' <=> Answered(j)
    BY <1>1, <1>2, <1>3 DEF Answered
  <2> QED BY <1>1, <1>3, <1>6, <1>11, <2>1, <2>2 DEF IInv, ValuesKnown
<1>21. Fresh' /\ Heard'
  BY <1>1, <1>2, <1>3, <1>11 DEF Fresh, IInv, Heard
<1>22. Replaces'
  BY <1>1, <1>2, <1>3, <1>11, <1>16 DEF IInv, Replaces
<1>23. HostInStep' /\ DoneIsComplete'
  BY <1>1 DEF HostInStep, HostWaits, DoneIsComplete
<1>24. UNCHANGED E!vars
  BY <1>1, <1>2, <1>3 DEF E!vars
<1> QED BY <1>9, <1>12, <1>13, <1>14, <1>15, <1>17, <1>18, <1>19, <1>20, <1>21, <1>22, <1>23,
  <1>24 DEF Kept, IInv

LEMMA InitHolds ==
  ASSUME Init
  PROVE  IInv
<1>1. /\ config \in Configs /\ main = <<FirstC>> /\ tcb = [n \in Node |-> <<>>]
      /\ count = [n \in Node |-> IF config.pending /\ n \in { Var, Doc } THEN 1 ELSE 0]
      /\ val = [i \in Item |-> IF i \in Test THEN "false" ELSE "NULL"]
      /\ stage = "PARAMS_BEGIN" /\ made = {} /\ icb = FALSE /\ request = <<>>
      /\ status = "none" /\ parsed = 0 /\ ended = "no" /\ result = {}
      /\ refused = FALSE /\ over = FALSE /\ cur = {} /\ running = FALSE
  BY DEF Init, FirstC
<1>2. FirstC \in Call /\ config \in Config
  BY <1>1, CallsTyped, ConfigsAssumption
<1>3. /\ <<FirstC>> \in Seq(Call) /\ IsInjective(<<FirstC>>) /\ ToSet(<<FirstC>>) = {FirstC}
  BY <1>2 DEF IsInjective, ToSet
<1>4. /\ tcb \in [Node -> Seq(Call)] /\ \A m \in Node : tcb[m] = <<>>
  BY <1>1
<1>5. QueuesApart(main, tcb) /\ \A x : x \in Queued <=> x = FirstC
  <2>1. \A q \in Seq(Call) : IsInjective(q) =>
          QueuesApart(q, tcb) /\ \A x : x \in InQueues(q, tcb) <=> x \in ToSet(q)
    BY <1>4, NothingWaits
  <2> QED BY <1>1, <1>3, <2>1 DEF Queued
<1>6. \A x : InMain(x) <=> x = FirstC
  BY <1>1, <1>3 DEF InMain
<1>7. /\ \A i : /\ StringC(i) \notin Queued /\ ElementC(i) \notin Queued
                /\ XPathC(i) \notin Queued /\ ElementEndC(i) \notin Queued
      /\ VariableC \notin Queued /\ Self \notin Queued /\ ~ InMain(Self) /\ FirstC \in Queued
  BY <1>5, <1>6, CallsApart, SelfApart, VariableApart, XPathApart, StringApart, ElementApart,
    ElementEndApart
<1>8. config.pending \in BOOLEAN
  BY <1>2 DEF Config
<1>9. /\ \A m \in Node : count[m] = One(config.pending /\ m \in { Var, Doc })
      /\ count[Var] \in {0, 1} /\ count[Doc] = count[Var] /\ count[I] = 0 /\ count[P] = 0
      /\ count[S] = 0 /\ count[R] = 0 /\ \A i \in Value : count[i] = 0
  <2>1. \A m \in Node : count[m] = IF config.pending /\ m \in { Var, Doc } THEN 1 ELSE 0
    BY <1>1
  <2>2. \A m \in Node : count[m] = One(config.pending /\ m \in { Var, Doc })
    BY <2>1 DEF One
  <2>3. count[Var] \in {0, 1} /\ count[Doc] = count[Var]
    BY <2>1, NodeIs
  <2>4. /\ count[I] = 0 /\ count[P] = 0 /\ count[S] = 0 /\ count[R] = 0
        /\ \A i \in Value : count[i] = 0
    BY <2>1, NodeIs, NodesApart
  <2> QED BY <2>2, <2>3, <2>4
<1>10. TypeOK
  <2>1. count \in [Node -> Nat]
    BY <1>1
  <2>2. \A i \in Item : val[i] \in {Meaning(i), "NULL", "empty"} \cup Bool
    BY <1>1 DEF Bool
  <2>3. parsed \in 0..(Parts + 1) /\ stage \in Stage
    BY <1>1, PartsAssumption DEF Stage
  <2> QED BY <1>1, <1>2, <1>3, <1>4, <2>1, <2>2, <2>3 DEF TypeOK
<1>11. Placed(tcb, count)
  <2>1. \A m \in Node : \A x : x \notin ToSet(tcb[m])
    BY <1>4 DEF ToSet
  <2> QED BY <1>4, <2>1 DEF Placed
<1>12. Counted
  BY <1>7, <1>9 DEF Counted, One
<1>13. ParamsCounted
  <2>1. \A c : c \notin Unready
    <3> SUFFICES ASSUME NEW c \in Unready PROVE FALSE
      OBVIOUS
    <3>1. c \in { "xpath", "elementEnd" } \X Value /\ c \in Queued
      BY DEF Unready
    <3>2. \E i \in Value : c = XPathC(i) \/ c = ElementEndC(i)
      BY <3>1 DEF XPathC, ElementEndC
    <3> QED BY <1>7, <3>1, <3>2
  <2>2. Cardinality(Unready) = 0
    BY <2>1, FS_EmptySet
  <2> QED BY <1>7, <1>9, <2>2 DEF ParamsCounted
<1>14. ~ Entered /\ ~ ContentWaits
  BY <1>1, <1>7 DEF Entered, ContentWaits, Content
<1>15. ResultCounted
  BY <1>7, <1>9, <1>14 DEF ResultCounted, One
<1>16. Ordered /\ CallsInStep
  BY <1>6, <1>7, CallsApart, StringApart DEF Ordered, CallsInStep
<1>17. ValuesKnown
  <2>1. \A i \in Second : val[i] = "NULL"
    BY <1>1, ItemIs, ItemsApart DEF Value
  <2> QED BY <1>1, <1>7, <2>1 DEF ValuesKnown
<1>18. Fresh
  BY <1>1, <1>4, <1>9 DEF Fresh
<1>19. Heard
  BY <1>1 DEF Heard, Params, Content
<1>20. Replaces
  BY <1>1, <1>14 DEF Replaces
<1>21. HostInStep /\ DoneIsComplete
  BY <1>1 DEF HostInStep, HostWaits, DoneIsComplete
<1> QED BY <1>5, <1>10, <1>11, <1>12, <1>13, <1>15, <1>16, <1>17, <1>18, <1>19, <1>20, <1>21
  DEF IInv

LEMMA NextKeeps ==
  ASSUME IInv, [Next]_vars
  PROVE  Kept
<1>1. CASE IncludeCall
  BY <1>1, IncludeFirstKeeps, ParamsBeginKeeps, ParamsEndKeeps, SuccessTestBeginKeeps,
    SuccessTestEndKeeps, BranchFirstKeeps, BranchAgainKeeps, IncludeEndKeeps DEF IncludeCall
<1>2. CASE \E i \in Item : Element(i) \/ ElementEnd(i) \/ StringCall(i) \/ XPathCall(i)
  <2>1. PICK i \in Item : Element(i) \/ ElementEnd(i) \/ StringCall(i) \/ XPathCall(i)
    BY <1>2
  <2>2. CASE Element(i)
    BY <2>2, ElementKeeps
  <2>3. CASE ElementEnd(i)
    BY <2>3, ElementEndKeeps
  <2>4. CASE StringCall(i)
    BY <2>4, StringCallKeeps
  <2>5. CASE XPathCall(i)
    BY <2>5, XPathCallKeeps
  <2> QED BY <2>1, <2>2, <2>3, <2>4, <2>5
<1>3. CASE VariableEnd
  BY <1>3, VariableEndKeeps
<1>4. CASE RunsOut
  BY <1>4, RunsOutKeeps
<1>5. CASE Resume
  BY <1>5, ResumeKeeps
<1>6. CASE AnswerVariable
  BY <1>6, AnswerVariableKeeps
<1>7. CASE Gives
  BY <1>7, GivesKeeps
<1>8. CASE UNCHANGED vars
  BY <1>8, StutterKeeps
<1> QED BY <1>1, <1>2, <1>3, <1>4, <1>5, <1>6, <1>7, <1>8 DEF Next, Loop

THEOREM Invariance == Spec => []IInv
<1>1. Init => IInv
  BY InitHolds
<1>2. IInv /\ [Next]_vars => IInv'
  BY NextKeeps DEF Kept
<1> QED BY <1>1, <1>2, PTL DEF Spec

(***************************************************************************)
(* The variables of an include stay what they are: no counter of a node    *)
(* goes below zero, every value is what it means or has not been taken,    *)
(* and no answer has more parts than it may (include.cc 1068-1471).        *)
(***************************************************************************)
THEOREM TypeCorrect == Spec => []TypeOK
<1>1. IInv => TypeOK
  BY DEF IInv
<1> QED BY <1>1, Invariance, PTL

(***************************************************************************)
(* DONE (xrlt.cc 563-565) is told when the include has been replaced, no   *)
(* node is held, nothing is queued, and the answer has ended, for every    *)
(* sheet and answers of any number of parts.                               *)
(***************************************************************************)
THEOREM DoneMeansComplete == Spec => []DoneIsComplete
<1>1. IInv => DoneIsComplete
  BY DEF IInv
<1> QED BY <1>1, Invariance, PTL

(***************************************************************************)
(* An include implements an exchange: what its element means is asked for  *)
(* once, with every value that its tests call for and no other, and the    *)
(* content the answer calls for takes its place once, however the answers  *)
(* to the include and to the one its variable is bound to come in          *)
(* (include.cc 1068-1471, 612-910).                                        *)
(***************************************************************************)
THEOREM Refinement == Spec => IsAnExchange
<1>1. Init => E!Init
  BY DEF Init, E!Init
<1>2. IInv /\ [Next]_vars => [E!Next]_(E!vars)
  BY NextKeeps DEF Kept
<1> QED BY <1>1, <1>2, Invariance, PTL DEF Spec, IsAnExchange, E!Spec
=============================================================================
