-------------------------- MODULE Transform_proofs --------------------------
(***************************************************************************)
(* A transformation, for every requestsheet: the later calls of the        *)
(* elements, the answers and the host keep the invariant of                *)
(* TransformFirst_proofs.  So no call finds a node that is gone, nothing   *)
(* is left to do when DONE is told, and no function fails in a sheet whose *)
(* variables are set before they are read.                                 *)
(***************************************************************************)
EXTENDS TransformFirst_proofs

-----------------------------------------------------------------------------
(***************************************************************************)
(* The last call of an element: nothing of it is left to come.             *)
(***************************************************************************)
Ends(e, H, over) ==
  /\ main # <<>> /\ Head(main) = Again(e) /\ Kin(e) \notin {"response", "text"}
  /\ Set(e) \notin Queued
  /\ Counts(e, H) /\ Queues(e, <<>>, NULL, NULL) /\ Leaves(e)
  /\ \A h \in H : h[2] # e
  /\ stage'[e] = stage[e] \/ stage'[e] = "END"
  /\ Kin(e) = "include" => stage'[e] = "END"
  /\ Kin(e) = "if" /\ stage'[e] = "test" => stage[e] = "test" /\ Loose(Ret(e))'
  /\ bound'[e] = bound[e] /\ (e \in requested' <=> e \in requested)
  /\ IF over THEN Clear(e) /\ count'[Self(e)] = 0 ELSE Kin(e) \in {"copy", "variable"}

\* What is known of an element at a later call of its own.
LEMMA LaterIs ==
  ASSUME NEW B, Inv(B), NEW e \in Elem, main # <<>>, Head(main) \in {Again(e), Set(e)}
  PROVE  /\ e \in B /\ B \subseteq Elem
         /\ Head(main) \in Queued /\ InMain(Head(main)) /\ Busy(e)
         /\ stage[e] # "READ_RESPONSE" /\ ~ Awaits(e)
         /\ Phased(e)
         /\ Kin(e) # "response" => Stands(sheet, kids, Self(e))
<1>1. Head(main) \in Queued /\ InMain(Head(main))
  BY HeadFirst DEF InMain
<1>2. Head(main) # First(e)
  BY CallsDiffer
<1>3. e \in B
  BY <1>2, HeadBegins
<1>4. Busy(e)
  BY <1>1 DEF Busy
<1>5. B \subseteq Elem
  BY InvIs DEF Begun
<1>6. Phased(e)
  BY InvIs DEF Phase
<1>7. stage[e] # "READ_RESPONSE"
  BY <1>1, <1>6 DEF Phased
<1>8. ~ Awaits(e)
  BY <1>6, <1>7 DEF Phased
<1>9. Kin(e) # "response" => Stands(sheet, kids, Self(e))
  BY <1>4, InvIs DEF Standing
<1> QED BY <1>1, <1>3, <1>4, <1>5, <1>6, <1>7, <1>8, <1>9

\* A call after which the element is over keeps the invariant.
LEMMA EndKeeps ==
  ASSUME NEW B, Inv(B), NEW e \in Elem, NEW H, NEW over, Ends(e, H, over),
         Alters(e, B, B, over), Quiet
  PROVE  IInv'
<1>1. /\ main # <<>> /\ Head(main) = Again(e) /\ Kin(e) \notin {"response", "text"}
      /\ Set(e) \notin Queued
      /\ Counts(e, H) /\ Queues(e, <<>>, NULL, NULL) /\ Leaves(e)
      /\ \A h \in H : h[2] # e
      /\ stage'[e] = stage[e] \/ stage'[e] = "END"
      /\ Kin(e) = "include" => stage'[e] = "END"
      /\ Kin(e) = "if" /\ stage'[e] = "test" => stage[e] = "test" /\ Loose(Ret(e))'
      /\ bound'[e] = bound[e]
  BY DEF Ends
<1>2. /\ over => Clear(e) /\ count'[Self(e)] = 0
      /\ ~ over => Kin(e) \in {"copy", "variable"}
  BY DEF Ends
<1>3. e \in B /\ stage[e] # "READ_RESPONSE" /\ ~ Awaits(e)
  BY <1>1, LaterIs
<1>4. ToSet(<<>>) = {}
  BY ListedFew
<1>5. sheet' = sheet /\ Kin(e)' = Kin(e) /\ WellFormed(sheet)
  BY <1>1, InvIs DEF Leaves, Kin
<1>6. Again(e) \notin Queued' /\ Set(e) \notin Queued'
  <2>1. \A x : x \in Queued' <=> (x \in Queued /\ x # Head(main)) \/ x \in ToSet(<<>>)
    BY <1>1, QueuesAre
  <2> QED BY <1>1, <1>4, <2>1
<1>7. ~ InMain(Again(e))' /\ ~ InMain(Set(e))'
  BY <1>6, QueuedIs DEF InMain
<1>8. ~ Busy(e)' /\ stage'[e] # "READ_RESPONSE"
  BY <1>1, <1>3, <1>6 DEF Busy
<1>9. Opens(e, B, B, <<>>)
  BY <1>3, <1>4 DEF Opens
<1>10. Opened(e, B, B, <<>>)
  <2> SUFFICES ASSUME NEW d \in Elem, sheet.up[d] = e, Closed(B, e, sheet.slot[d])'
               PROVE  Closed(B, e, sheet.slot[d])
    BY <1>4 DEF Opened
  <2>1. \/ Kin(e) = "if" /\ sheet.slot[d] = "content" /\ stage'[e] = "test"
        \/ Kin(e) = "include" /\ sheet.slot[d] # "value" /\ Early(e)'
    BY <1>3, <1>5 DEF Closed
  <2>2. Kin(e) = "include" => ~ Early(e)'
    BY <1>1 DEF Early
  <2> QED BY <1>1, <2>1, <2>2 DEF Closed
<1>11. Step(e, B, B, H, <<>>, NULL, NULL, over)
  BY <1>1, <1>2, <1>9, <1>10 DEF Step
<1>12. OwnHolds(e, H)
  <2>1. /\ SelfHold(e) \notin H /\ ValueHold(e) \notin H
        /\ ParamsHold(e) \notin H /\ ResultHold(e) \notin H
    <3>1. /\ SelfHold(e)[2] = e /\ ValueHold(e)[2] = e
          /\ ParamsHold(e)[2] = e /\ ResultHold(e)[2] = e
      BY HoldsDiffer
    <3> QED BY <1>1, <3>1
  <2>2. ~ HeldSelf(e)'
    BY <1>5, <1>7, <1>8 DEF HeldSelf
  <2>3. ~ HeldValue(e)' /\ ~ HeldParams(e)'
    BY <1>6, <1>7 DEF HeldValue, HeldParams
  <2>4. ~ HeldResult(e)'
    BY <1>1, <1>5 DEF HeldResult
  <2> QED BY <2>1, <2>2, <2>3, <2>4 DEF OwnHolds
<1>13. OwnNodes(e)
  <2>1. Stocked(e)'
    BY <1>8 DEF Stocked
  <2>2. Kin(e) = "include" => ~ Early(e)'
    BY <1>1 DEF Early
  <2>3. Unused(e)'
    BY <1>1, <1>5, <1>6, <1>8, <2>2 DEF Unused
  <2> QED BY <1>8, <2>1, <2>3 DEF OwnNodes
<1>14. OwnCalls(e, NULL, NULL)
  <2>1. ~ Awaits(e)'
    <3>1. answer' = answer /\ (e \in requested' <=> e \in requested)
      BY DEF Ends, Leaves
    <3> QED BY <1>3, <3>1 DEF Awaits
  <2>2. Phased(e)'
    BY <1>1, <1>5, <1>6, <1>7, <1>8, <2>1 DEF Phased
  <2>3. Paired(e)'
    BY <1>6 DEF Paired
  <2>4. Kin(e) = "variable" => bound'[e] # "no"
    <3>1. Kin(e) = "variable" => bound[e] # "no"
      BY <1>3, InvIs DEF Scope
    <3> QED BY <1>1, <3>1
  <2> QED BY <1>1, <2>2, <2>3, <2>4 DEF OwnCalls
<1>15. OwnParts(e, <<>>)
  <2>1. ASSUME NEW d \in Elem, d # e, Busy(d), Kin(d) # "response"
        PROVE  KeptIn(d, e)'
    <3>1. CASE over
      <4>1. Self(e) \notin Up(sheet, Self(d))
        BY <1>2, <2>1, <3>1 DEF Clear
      <4>2. Self(d) \in Node
        BY NodesDiffer
      <4>3. Arg(e) \notin Up(sheet, Self(d)) /\ Ret(e) \notin Up(sheet, Self(d))
        BY <1>5, <4>1, <4>2, PartOf
      <4> QED BY <1>5, <4>1, <4>3 DEF KeptIn
    <3>2. CASE ~ over
      <4>1. Arg(e) \notin Up(sheet, Self(d)) /\ Ret(e) \notin Up(sheet, Self(d))
        <5>1. sheet.kind[e] \notin {"value-of", "include", "if"}
          BY <1>2, <3>2 DEF Kin
        <5> QED BY <1>5, <2>1, <5>1, InParts
      <4> QED BY <1>2, <1>5, <3>2, <4>1 DEF KeptIn
    <3> QED BY <3>1, <3>2
  <2> QED BY <1>4, <2>1 DEF OwnParts
<1>16. OwnOrder(e, <<>>)
  <2>1. \A x \in Call : LogOrder(e, x)'
    BY <1>6, <1>7 DEF LogOrder
  <2> QED BY <1>4, <2>1 DEF OwnOrder
<1>17. Settles(e, H, <<>>, NULL, NULL)
  BY <1>12, <1>13, <1>14, <1>15, <1>16 DEF Settles
<1> QED BY <1>11, <1>17, StepKeeps

-----------------------------------------------------------------------------
(***************************************************************************)
(* A call that waits.                                                      *)
(***************************************************************************)
LEMMA SameNodes ==
  ASSUME NEW B, Inv(B), NEW e \in Elem, kids' = kids, sheet' = sheet
  PROVE  /\ Alters(e, B, B, FALSE)
         /\ \A n \in Node : Loose(n)' <=> Loose(n)
         /\ \A n : Hangs(sheet, kids', n) <=> Hangs(sheet, kids, n)
         /\ \A n : Stands(sheet, kids', n) <=> Stands(sheet, kids, n)
         /\ HasResult(e)' <=> HasResult(e)
<1>1. TreeOK(sheet, kids) /\ B \subseteq Elem
  BY InvIs DEF Begun
<1> QED BY <1>1 DEF Alters, Loose, HasResult

\* A call that leaves itself on a node that is not ready keeps the invariant.
LEMMA WaitKeeps ==
  ASSUME NEW B, Inv(B), NEW e \in Elem, main # <<>>, NEW c \in {Again(e), Set(e)}, Head(main) = c,
         Kin(e) \notin {"response", "log"},
         NEW n \in Node, WaitsOn(n), count[n] > 0, MayWait(c, n), running,
         c = Again(e) /\ Kin(e) = "include" => stage[e] = "PARAMS_END"
  PROVE  IInv'
<1>1. /\ tcb' = Parked(tcb, n, c) /\ main' = Tail(main) /\ Goes
      /\ UNCHANGED <<kids, count, elements, output, host>>
  BY DEF WaitsOn, Rest
<1>2. /\ kids' = kids /\ count' = count /\ stage' = stage /\ val' = val /\ bound' = bound
      /\ sheet' = sheet /\ answer' = answer /\ requested' = requested /\ responseCur' = responseCur
  BY <1>1 DEF elements, output, host
<1>3. /\ e \in B /\ c \in Queued /\ stage[e] # "READ_RESPONSE" /\ ~ Awaits(e) /\ Phased(e) /\ Busy(e)
      /\ InMain(c)
  BY LaterIs
<1>4. Kin(e)' = Kin(e) /\ WellFormed(sheet)
  BY <1>2, InvIs DEF Kin
<1>5. ToSet(<<>>) = {}
  BY ListedFew
<1>6. Counts(e, Holds)
  BY <1>2, InvIs DEF Counts, Counted
<1>7. \A m \in Node : count'[m] = 0 => tcb[m] = <<>>
  BY <1>6, NoneFreed
<1>8. n # NULL
  BY NodesDiffer
<1>9. Queues(e, <<>>, n, c)
  <2>1. Scheduled(e, <<>>, n, c)
    BY SchedulesNone
  <2>2. main' = Tail(main) \o <<>>
    <3>1. main \in Seq(Call)
      BY InvIs
    <3> QED BY <1>1, <3>1
  <2>3. tcb' = Parked(tcb, n, c)
    BY <1>1
  <2> QED BY <1>6, <1>7, <1>8, <2>1, <2>2, <2>3, PlainTurn
<1>10. c = Head(main)
  OBVIOUS
<1>11. \A x : x \in Queued' <=> x \in Queued
  BY <1>3, <1>5, <1>8, <1>9, <1>10, QueuesAre
<1>12. \A x : InMain(x)' <=> InMain(x) /\ x # c
  <2>1. \A m \in Node : count'[m] = 0 => ToSet(tcb[m]) = {}
    BY <1>5, <1>7
  <2>2. \A x : InMain(x)' <=> \/ InMain(x) /\ x # Head(main)
                              \/ \E m \in Node : count'[m] = 0 /\ x \in ToSet(tcb[m])
                              \/ x \in ToSet(<<>>)
    BY <1>9, QueuesAre
  <2> QED BY <1>5, <1>10, <2>1, <2>2
<1>13. Again(e) # Set(e)
  BY CallsDiffer
<1>14. Leaves(e)
  BY <1>2 DEF Leaves
<1>15. /\ Alters(e, B, B, FALSE)
       /\ \A m \in Node : Loose(m)' <=> Loose(m)
       /\ \A m : Hangs(sheet, kids', m) <=> Hangs(sheet, kids, m)
       /\ \A m : Stands(sheet, kids', m) <=> Stands(sheet, kids, m)
       /\ HasResult(e)' <=> HasResult(e)
  BY <1>2, SameNodes
<1>16. Early(e)' <=> Early(e)
  BY <1>2, <1>15 DEF Early
<1>17. Opens(e, B, B, <<>>) /\ Opened(e, B, B, <<>>)
  <2>1. ASSUME NEW d \in Elem, Closed(B, e, sheet.slot[d])'
        PROVE  Closed(B, e, sheet.slot[d])
    BY <1>2, <1>4, <1>16, <2>1 DEF Closed
  <2> QED BY <1>3, <1>5, <2>1 DEF Opens, Opened
<1>18. Step(e, B, B, Holds, <<>>, n, c, FALSE)
  BY <1>6, <1>9, <1>14, <1>15, <1>17 DEF Step
<1>19. Busy(e)' <=> Busy(e)
  BY <1>2, <1>11 DEF Busy
<1>20. OwnHolds(e, Holds)
  <2>1. /\ SelfHold(e) \in Holds <=> HeldSelf(e)
        /\ ValueHold(e) \in Holds <=> HeldValue(e)
        /\ ParamsHold(e) \in Holds <=> HeldParams(e)
        /\ ResultHold(e) \in Holds <=> HeldResult(e)
    BY HeldAre
  <2>2. HeldSelf(e)' <=> HeldSelf(e)
    BY <1>4, <1>19 DEF HeldSelf
  <2>3. HeldValue(e)' <=> HeldValue(e)
    BY <1>2, <1>11 DEF HeldValue
  <2>4. HeldParams(e)' <=> HeldParams(e)
    <3>1. Kin(e) = "include" /\ stage[e] = "PARAMS_BEGIN" => c # Again(e)
      BY <1>10
    <3>2. Kin(e) = "include" /\ stage[e] = "PARAMS_BEGIN" => (InMain(Again(e))' <=> InMain(Again(e)))
      BY <1>12, <3>1
    <3> QED BY <1>2, <1>4, <3>2 DEF HeldParams
  <2>5. HeldResult(e)' <=> HeldResult(e)
    BY <1>2, <1>4, <1>15 DEF HeldResult
  <2> QED BY <2>1, <2>2, <2>3, <2>4, <2>5 DEF OwnHolds
<1>21. OwnNodes(e)
  <2>1. Stocked(e) /\ Unused(e)
    BY InvIs DEF Reserve, Spare
  <2>2. Stocked(e)'
    BY <1>2, <1>4, <1>11, <1>15, <1>19, <2>1 DEF Stocked
  <2>3. Unused(e)'
    <3>1. (Loose(Text(e))' <=> Loose(Text(e))) /\ (Loose(Ret(e))' <=> Loose(Ret(e)))
      BY <1>15, NodesDiffer
    <3> QED BY <1>2, <1>4, <1>11, <1>16, <1>19, <2>1, <3>1 DEF Unused
  <2>4. Busy(e)' /\ Kin(e) # "response" => Stands(sheet, kids', Self(e))
    BY <1>15, LaterIs
  <2> QED BY <2>2, <2>3, <2>4 DEF OwnNodes
<1>22. OwnCalls(e, n, c)
  <2>1. ~ Awaits(e)'
    BY <1>2, <1>3 DEF Awaits
  <2>2. Phased(e)'
    <3>1. Kin(e) = "include" /\ stage[e] \in {"SUCCESS", "FAILURE"} => InMain(Again(e))'
      <4>1. Kin(e) = "include" /\ stage[e] \in {"SUCCESS", "FAILURE"} => c # Again(e) /\ InMain(Again(e))
        BY <1>3, <1>10 DEF Phased
      <4> QED BY <1>12, <4>1
    <3>2. InMain(Again(e))' => InMain(Again(e))
      BY <1>12
    <3> QED BY <1>2, <1>3, <1>4, <1>11, <2>1, <3>1, <3>2 DEF Phased
  <2>3. Paired(e)'
    <3> SUFFICES ASSUME Kin(e) # "variable", Source(sheet, e) = "nodelist", Set(e) \in Queued
                 PROVE  /\ InMain(Set(e))' => NextTo(main', Set(e), Again(e))
                        /\ ~ InMain(Set(e))' /\ InMain(Again(e))' => Head(main') = Again(e)
      BY <1>2, <1>4, <1>11 DEF Paired
    <3>1. /\ InMain(Set(e)) => NextTo(main, Set(e), Again(e))
          /\ ~ InMain(Set(e)) /\ InMain(Again(e)) => Head(main) = Again(e)
      BY InvIs DEF Pairs, Paired
    <3>2. /\ \A x, y : NextTo(main, x, y) /\ x # Head(main) => NextTo(main', x, y)
          /\ \A y : NextTo(main, Head(main), y) => main' # <<>> /\ Head(main') = y
      BY <1>9 DEF Queues, NewOrder
    <3>3. CASE c = Set(e)
      BY <1>3, <1>10, <1>12, <3>1, <3>2, <3>3
    <3>4. CASE c = Again(e)
      BY <1>10, <1>12, <1>13, <3>1, <3>2, <3>4
    <3> QED BY <1>10, <3>3, <3>4
  <2>4. MayWait(c, n)'
    BY <1>2, <1>10 DEF MayWait, Kin
  <2>5. Kin(e) = "variable" => bound'[e] # "no"
    BY <1>2, <1>3, InvIs DEF Scope
  <2> QED BY <1>2, <2>2, <2>3, <2>4, <2>5 DEF OwnCalls
<1>23. OwnParts(e, <<>>)
  <2>1. ASSUME NEW d \in Elem, d # e, Busy(d), Kin(d) # "response"
        PROVE  KeptIn(d, e)'
    <3>1. KeptIn(d, e)
      BY <2>1, InvIs DEF Kept
    <3> QED BY <1>2, <1>4, <1>11, <1>16, <3>1 DEF KeptIn
  <2> QED BY <1>5, <2>1 DEF OwnParts
<1>24. OwnOrder(e, <<>>)
  BY <1>5 DEF OwnOrder
<1>25. Settles(e, Holds, <<>>, n, c)
  BY <1>20, <1>21, <1>22, <1>23, <1>24 DEF Settles
<1>26. Quiet
  <2>1. /\ stage' \in [Elem -> Stage] /\ val' \in [Elem -> {Unset} \cup Seq(Elem)]
        /\ bound' \in [Elem -> {"no", "document", "value"}]
    BY <1>2, OwnSame
  <2>2. OthersOK' /\ ~ failed' /\ "DONE" \notin cur'
    BY <1>1, <2>1, OthersSame
  <2>3. Cursor'
    BY <1>2, InvIs DEF Cursor
  <2> QED BY <2>2, <2>3 DEF Quiet
<1> QED BY <1>18, <1>25, <1>26, StepKeeps

-----------------------------------------------------------------------------
(***************************************************************************)
(* The call that brings an element its value.                              *)
(***************************************************************************)
ArgClear(e) ==
  \A d \in Elem : d # e /\ Kin(d) # "response" /\ Arg(e) \in Up(sheet, Self(d)) => ~ Busy(d)

LEMMA SetIs ==
  ASSUME NEW B, Inv(B), NEW e \in Elem, Set(e) \in Queued, Kin(e) # "variable"
  PROVE  /\ Again(e) \in Queued /\ Kin(e) \in {"value-of", "copy-of", "if", "include"}
         /\ Kin(e) = "if" => stage[e] = "test"
         /\ Kin(e) = "include" => stage[e] = "PARAMS_BEGIN"
         /\ \/ Source(sheet, e) = "variable"
            \/ Source(sheet, e) = "nodelist" /\ Kin(e) \in {"value-of", "include"}
<1>1. Phased(e)
  BY InvIs DEF Phase
<1> QED BY <1>1 DEF Phased

\* A call that only releases makes no node busy.
LEMMA CountDown ==
  ASSUME NEW B, Inv(B), NEW e \in Elem, NEW H, Counts(e, H), H \subseteq Holds, NEW n \in Node
  PROVE  /\ count'[n] > 0 => count[n] > 0
         /\ count[n] = 0 => count'[n] = 0
<1>1. /\ count[n] = 0 <=> \A h \in Holds : n \notin Up(sheet, At(sheet, h))
      /\ count'[n] = 0 <=> \A h \in H : n \notin Up(sheet, At(sheet, h))
      /\ count[n] = 0 \/ count[n] > 0
      /\ ~ (count'[n] = 0 /\ count'[n] > 0)
  <2>1. count'[n] \in Nat
    BY CountsAre
  <2> QED BY <2>1, CountsAre
<1> QED BY <1>1

\* A call that brings a value to its element keeps the invariant.
LEMMA ArriveKeeps ==
  ASSUME NEW B, Inv(B), NEW e \in Elem, main # <<>>, Head(main) = Set(e), Kin(e) # "variable",
         running, Counts(e, Holds \ {ValueHold(e)}), Queues(e, <<>>, NULL, NULL), ArgClear(e),
         Grows(e, kids, kids'), Kin(e) # "copy-of" => kids' = kids,
         val' \in [Elem -> {Unset} \cup Seq(Elem)], Goes, UNCHANGED <<stage, bound, output, host>>
  PROVE  IInv'
<1> DEFINE H == Holds \ {ValueHold(e)}
<1>1. /\ e \in B /\ Set(e) \in Queued /\ stage[e] # "READ_RESPONSE" /\ ~ Awaits(e) /\ Phased(e)
      /\ Busy(e) /\ B \subseteq Elem
  BY LaterIs
<1>2. /\ Again(e) \in Queued /\ Kin(e) \in {"value-of", "copy-of", "if", "include"}
      /\ Kin(e) = "if" => stage[e] = "test"
      /\ Kin(e) = "include" => stage[e] = "PARAMS_BEGIN"
  BY <1>1, SetIs
<1>3. /\ stage' = stage /\ bound' = bound
      /\ sheet' = sheet /\ answer' = answer /\ requested' = requested /\ responseCur' = responseCur
  BY DEF output, host
<1>4. Kin(e)' = Kin(e) /\ WellFormed(sheet)
  BY <1>3, InvIs DEF Kin
<1>5. ToSet(<<>>) = {} /\ Again(e) # Set(e)
  BY ListedFew, CallsDiffer
<1>6. Leaves(e)
  BY <1>3 DEF Leaves
<1>7. Alters(e, B, B, FALSE)
  BY <1>1, GrowsAlters
<1>8. Again(e) \in Queued' /\ Set(e) \notin Queued'
  BY <1>2, <1>5, QueuesAre
<1>9. Busy(e)'
  BY <1>8 DEF Busy
<1>10. \A x : InMain(x)' <=> \/ InMain(x) /\ x # Set(e)
                             \/ \E m \in Node : count'[m] = 0 /\ x \in ToSet(tcb[m])
  <2>1. \A x : InMain(x)' <=> \/ InMain(x) /\ x # Head(main)
                              \/ \E m \in Node : count'[m] = 0 /\ x \in ToSet(tcb[m])
                              \/ x \in ToSet(<<>>)
    BY QueuesAre
  <2> QED BY <1>5, <2>1
<1>11. Early(e)' /\ Kin(e) = "include" => Early(e)
  BY <1>2 DEF Early
<1>12. Opens(e, B, B, <<>>) /\ Opened(e, B, B, <<>>)
  <2>1. ASSUME NEW d \in Elem, Closed(B, e, sheet.slot[d])'
        PROVE  Closed(B, e, sheet.slot[d])
    BY <1>1, <1>3, <1>4, <1>11, <2>1 DEF Closed
  <2> QED BY <1>1, <1>5, <2>1 DEF Opens, Opened
<1>13. Step(e, B, B, H, <<>>, NULL, NULL, FALSE)
  BY <1>6, <1>7, <1>12 DEF Step
<1>14. OwnHolds(e, H)
  <2>1. /\ SelfHold(e) \in Holds <=> HeldSelf(e)
        /\ ParamsHold(e) \in Holds <=> HeldParams(e)
        /\ ResultHold(e) \in Holds <=> HeldResult(e)
    BY HeldAre
  <2>2. /\ SelfHold(e) # ValueHold(e) /\ ParamsHold(e) # ValueHold(e) /\ ResultHold(e) # ValueHold(e)
    BY HoldsDiffer
  <2>3. HeldSelf(e)' /\ HeldSelf(e)
    BY <1>1, <1>2, <1>4, <1>9 DEF HeldSelf
  <2>4. ~ HeldValue(e)'
    BY <1>8 DEF HeldValue
  <2>5. ~ HeldResult(e)' /\ ~ HeldResult(e)
    BY <1>2, <1>3, <1>4 DEF HeldResult
  <2>6. HeldParams(e) => HeldParams(e)'
    <3> SUFFICES ASSUME HeldParams(e) PROVE HeldParams(e)'
      OBVIOUS
    <3>1. ParamsHold(e) \in H
      BY <2>1, <2>2
    <3>2. Tmp(e) \in Node /\ Tmp(e) \in Up(sheet, Tmp(e)) /\ At(sheet, ParamsHold(e)) = Tmp(e)
      BY <1>4, AtIs, NodesDiffer, UpFacts
    <3>3. count'[Tmp(e)] > 0
      BY <3>1, <3>2, TallyZero DEF Counts
    <3>4. InMain(Again(e))'
      BY <1>5, <1>10 DEF HeldParams
    <3> QED BY <1>3, <1>4, <3>3, <3>4 DEF HeldParams
  <2>7. HeldParams(e)' => HeldParams(e)
    <3> SUFFICES ASSUME HeldParams(e)' PROVE HeldParams(e)
      OBVIOUS
    <3>1. Kin(e) = "include" /\ stage[e] = "PARAMS_BEGIN" /\ InMain(Again(e))' /\ count'[Tmp(e)] > 0
      BY <1>3, <1>4 DEF HeldParams
    <3>2. count[Tmp(e)] > 0
      BY <3>1, CountDown, NodesDiffer
    <3>3. InMain(Again(e))
      <4> SUFFICES ASSUME NEW m \in Node, count'[m] = 0, Again(e) \in ToSet(tcb[m]) PROVE FALSE
        BY <1>10, <3>1
      <4>1. MayWait(Again(e), m)
        BY InvIs, Waits
      <4>2. Again(e)[1] = "again" /\ Again(e)[2] = e
        BY CallsDiffer
      <4>3. m = Tmp(e)
        BY <3>1, <4>1, <4>2 DEF MayWait
      <4> QED BY <3>1, <4>3
    <3> QED BY <3>1, <3>2, <3>3 DEF HeldParams
  <2>8. ValueHold(e) \notin H
    OBVIOUS
  <2>9. /\ SelfHold(e) \in H <=> SelfHold(e) \in Holds
        /\ ParamsHold(e) \in H <=> ParamsHold(e) \in Holds
        /\ ResultHold(e) \in H <=> ResultHold(e) \in Holds
    BY <2>2
  <2> QED BY <2>1, <2>3, <2>4, <2>5, <2>6, <2>7, <2>8, <2>9 DEF OwnHolds
<1>15. OwnNodes(e)
  <2>1. Stocked(e) /\ Unused(e) /\ TreeOK(sheet, kids)
    BY InvIs DEF Reserve, Spare
  <2>2. Stands(sheet, kids', Self(e))
    <3>1. Stands(sheet, kids, Self(e)) /\ Self(e) \in Node
      BY <1>2, LaterIs, NodesDiffer
    <3> QED BY <1>4, <3>1, GrowsStands
  <2>3. \A n \in {Tmp(e), Ret(e)} : Hangs(sheet, kids, n) => Hangs(sheet, kids', n)
    BY <1>4, NodesDiffer, GrowsStands
  <2>4. Stocked(e)'
    <3>1. Kin(e) \in {"value-of", "if", "include"} => Hangs(sheet, kids', Tmp(e))
      BY <1>1, <2>1, <2>3 DEF Stocked
    <3>2. Kin(e) = "copy-of" => Hangs(sheet, kids', Ret(e))
      BY <1>1, <2>1, <2>3 DEF Stocked
    <3> QED BY <1>2, <1>3, <1>4, <1>8, <3>1, <3>2 DEF Stocked
  <2>5. Unused(e)'
    <3>1. Kin(e) # "copy-of" => (Loose(Text(e))' <=> Loose(Text(e))) /\ (Loose(Ret(e))' <=> Loose(Ret(e)))
      BY DEF Loose
    <3>2. Kin(e) = "include" => Early(e)
      BY <1>2 DEF Early
    <3> QED BY <1>1, <1>2, <1>3, <1>4, <1>8, <2>1, <3>1, <3>2 DEF Unused
  <2> QED BY <1>3, <2>2, <2>4, <2>5 DEF OwnNodes
<1>16. OwnCalls(e, NULL, NULL)
  <2>1. ~ Awaits(e)'
    BY <1>1, <1>3 DEF Awaits
  <2>2. Phased(e)'
    BY <1>1, <1>2, <1>3, <1>4, <1>8, <2>1 DEF Phased
  <2>3. Paired(e)'
    BY <1>8 DEF Paired
  <2> QED BY <1>2, <1>3, <2>2, <2>3 DEF OwnCalls
<1>17. OwnParts(e, <<>>)
  <2>1. ASSUME NEW d \in Elem, d # e, Busy(d), Kin(d) # "response"
        PROVE  KeptIn(d, e)'
    <3>1. KeptIn(d, e)
      BY <2>1, InvIs DEF Kept
    <3>2. Arg(e) \notin Up(sheet, Self(d))
      BY <2>1 DEF ArgClear
    <3>3. Ret(e) \in Up(sheet, Self(d)) => Kin(e) \notin {"if", "include"}
      BY <1>2, <3>1 DEF KeptIn, Early
    <3>4. Kin(e) # "log"
      BY <1>2
    <3> QED BY <1>3, <1>4, <1>8, <3>1, <3>2, <3>3, <3>4 DEF KeptIn
  <2> QED BY <1>5, <2>1 DEF OwnParts
<1>18. OwnOrder(e, <<>>)
  BY <1>2, <1>5 DEF OwnOrder
<1>19. Settles(e, H, <<>>, NULL, NULL)
  BY <1>14, <1>15, <1>16, <1>17, <1>18 DEF Settles
<1>20. Quiet
  <2>1. stage' \in [Elem -> Stage] /\ bound' \in [Elem -> {"no", "document", "value"}]
    BY <1>3, OwnSame
  <2>2. OthersOK' /\ ~ failed' /\ "DONE" \notin cur'
    BY <2>1, OthersSame
  <2>3. ToSet(kids[Response]) \subseteq ToSet(kids'[Response])
    BY NodesDiffer DEF Grows
  <2>4. Cursor'
    BY <1>3, <2>3, InvIs DEF Cursor
  <2> QED BY <2>2, <2>4 DEF Quiet
<1> QED BY <1>13, <1>19, <1>20, StepKeeps

\* A string is made of a node list.
LEMMA SetStringResultKeeps ==
  ASSUME NEW B, Inv(B), NEW e \in Elem, SetStringResult(e)
  PROVE  IInv'
<1>1. PICK k \in {"value-of", "include"} : Calls("set", e, k)
  BY DEF SetStringResult
<1>2. /\ running /\ main # <<>> /\ Head(main) = Set(e) /\ Kin(e) \in {"value-of", "include"}
      /\ WellFormed(sheet) /\ Tail(main) \o <<>> = Tail(main)
  BY <1>1, CallsIs
<1>3. Source(sheet, e) = "nodelist" /\ Arg(e) \in Node
  BY NodesDiffer DEF SetStringResult
<1>4. CASE count[Arg(e)] > 0 /\ WaitsOn(Arg(e))
  <2>1. MayWait(Set(e), Arg(e))
    BY <1>3, CallsDiffer DEF MayWait
  <2>2. Set(e) # Again(e) /\ Kin(e) \notin {"response", "log"}
    BY <1>2, CallsDiffer
  <2> QED BY <1>2, <1>3, <1>4, <2>1, <2>2, WaitKeeps
<1>5. CASE /\ count[Arg(e)] = 0
           /\ val' = [val EXCEPT ![e] = TextIn(kids, Arg(e))]
           /\ main' = Rest
           /\ Goes
           /\ UNCHANGED <<document, stage, bound, output, host>>
  <2>1. /\ kids' = kids /\ count' = count /\ tcb' = tcb /\ main' = Tail(main) \o <<>>
        /\ UNCHANGED <<stage, bound, output, host>>
    BY <1>2, <1>5 DEF document, Rest
  <2>2. ValueHold(e) \notin Holds
    <3>1. ~ HeldValue(e)
      BY <1>3 DEF HeldValue
    <3> QED BY <3>1, HeldAre
  <2>3. Holds \ {ValueHold(e)} = Holds
    BY <2>2
  <2>4. Counts(e, Holds)
    BY <2>1, InvIs DEF Counts, Counted
  <2>5. Queues(e, <<>>, NULL, NULL)
    <3>1. \A m \in Node : count'[m] = 0 => tcb[m] = <<>>
      BY <2>4, NoneFreed
    <3>2. Scheduled(e, <<>>, NULL, NULL)
      BY <1>2, SchedulesNone
    <3> QED BY <1>2, <2>1, <2>4, <3>1, <3>2, PlainTurn
  <2>6. ArgClear(e)
    <3>1. Gate(Set(e)) = Arg(e)
      BY CallsDiffer DEF Gate
    <3>2. \A h \in Holds : Arg(e) \notin Up(sheet, At(sheet, h))
      BY <1>3, <1>5, <2>4, CountsAre
    <3>3. ASSUME NEW d \in Elem, d # e, Kin(d) # "response", Arg(e) \in Up(sheet, Self(d))
          PROVE  ~ Busy(d)
      BY <1>2, <3>1, <3>2, <3>3, GateClear
    <3> QED BY <3>3 DEF ArgClear
  <2>7. Grows(e, kids, kids')
    BY <2>1, InvIs DEF Grows
  <2>8. val' \in [Elem -> {Unset} \cup Seq(Elem)]
    <3>1. TextIn(kids, Arg(e)) \in Seq(Elem)
      BY <1>3, TextsAre
    <3> QED BY <1>5, <3>1, OwnSame
  <2>9. Kin(e) # "variable" /\ (Kin(e) # "copy-of" => kids' = kids)
    BY <1>2, <2>1
  <2> QED BY <1>2, <1>5, <2>1, <2>3, <2>4, <2>5, <2>6, <2>7, <2>8, <2>9, ArriveKeeps
<1> QED BY <1>4, <1>5 DEF SetStringResult

LEMMA WaitingIs ==
  ASSUME NEW B, Inv(B), NEW e \in Elem, Set(e) \in Queued, Kin(e) # "variable"
  PROVE  /\ Waiting(e) \in Node /\ Waiting(e) = At(sheet, ValueHold(e))
         /\ PathIn(kids, Waiting(e)) = SPath(sheet)[Waiting(e)]
<1>1. Kin(e) \in {"value-of", "copy-of", "if", "include"} /\ Busy(e)
  BY SetIs DEF Busy
<1>2. Waiting(e) = At(sheet, ValueHold(e)) /\ Waiting(e) \in {Tmp(e), Ret(e)}
  BY <1>1, AtIs DEF Waiting, Kin
<1>3. Hangs(sheet, kids, Waiting(e))
  <2>1. Stocked(e)
    BY InvIs DEF Reserve
  <2> QED BY <1>1, <2>1 DEF Stocked, Waiting, Kin
<1>4. Stands(sheet, kids, Self(e)) /\ WellFormed(sheet) /\ TreeOK(sheet, kids)
  BY <1>1, InvIs DEF Standing
<1>5. Waiting(e) \in Node
  BY <1>2, NodesDiffer
<1>6. Stands(sheet, kids, Waiting(e))
  <2>1. Up(sheet, Waiting(e)) = {Waiting(e)} \cup Up(sheet, Self(e))
    BY <1>2, <1>4, UpIs
  <2> QED BY <1>3, <1>4, <2>1 DEF Stands
<1> QED BY <1>2, <1>4, <1>5, <1>6, PathIs

\* A value is taken from a variable that has become ready.
LEMMA SetResultByXPathKeeps ==
  ASSUME NEW B, Inv(B), NEW e \in Elem, SetResultByXPath(e)
  PROVE  IInv'
<1>1. PICK k \in {"value-of", "copy-of", "if", "include"} : Calls("set", e, k)
  BY DEF SetResultByXPath
<1>2. /\ running /\ main # <<>> /\ Head(main) = Set(e) /\ WellFormed(sheet)
      /\ Kin(e) \in {"value-of", "copy-of", "if", "include"}
  BY <1>1, CallsIs
<1>3. Source(sheet, e) = "variable" /\ bound[sheet.ref[e]] # "no"
  BY DEF SetResultByXPath
<1>4. PICK v \in Elem : v = sheet.ref[e]
  <2>1. sheet.ref[e] # 0
    BY <1>3 DEF Source
  <2> QED BY <1>2, <2>1, KindsAre
<1>5. Self(v) \in Node
  BY NodesDiffer
<1>6. CASE Pending(v) /\ WaitsOn(Self(v))
  <2>1. MayWait(Set(e), Self(v))
    BY <1>3, <1>4, CallsDiffer DEF MayWait
  <2>2. Set(e) # Again(e) /\ Kin(e) \notin {"response", "log"}
    BY <1>2, CallsDiffer
  <2>3. count[Self(v)] > 0 /\ WaitsOn(Self(v))
    BY <1>6 DEF Pending
  <2> QED BY <1>2, <1>5, <2>1, <2>2, <2>3, WaitKeeps
<1>7. CASE /\ val' = [val EXCEPT ![e] = TextOfVariable(v)]
           /\ kids' = IF sheet.kind[e] = "copy-of" THEN WithChild(kids, Ret(e), Text(e)) ELSE kids
           /\ Releases(Waiting(e), <<>>)
           /\ Goes
           /\ UNCHANGED <<stage, bound, output, host>>
  <2>1. /\ Set(e) \in Queued /\ Kin(e) # "variable"
    BY <1>2, LaterIs
  <2>2. /\ Waiting(e) = At(sheet, ValueHold(e))
        /\ PathIn(kids, Waiting(e)) = SPath(sheet)[Waiting(e)]
    BY <2>1, WaitingIs
  <2>3. ValueHold(e) \in Holds /\ ValueHold(e)[2] = e
    <3>1. HeldValue(e)
      BY <1>3, <2>1 DEF HeldValue
    <3> QED BY <3>1, HeldAre, HoldsDiffer
  <2> DEFINE path == PathIn(kids, Waiting(e))
  <2>4. /\ path = SPath(sheet)[At(sheet, ValueHold(e))]
        /\ count' = Decreased(count, path)
        /\ tcb' = Drained(count, tcb, path)
        /\ main' = Joined(Tail(main), Moved(count, tcb, path)) \o <<>>
    BY <1>7, <2>2 DEF Releases, Rest
  <2> HIDE DEF path
  <2>5. Counts(e, Holds \ {ValueHold(e)}) /\ Queues(e, <<>>, NULL, NULL)
    <3>1. Scheduled(e, <<>>, NULL, NULL)
      BY <1>2, SchedulesNone
    <3> QED BY <1>2, <2>3, <2>4, <3>1, ReleaseTurn
  <2>6. ArgClear(e)
    <3> SUFFICES ASSUME NEW d \in Elem, d # e, Arg(e) \in Up(sheet, Self(d)) PROVE FALSE
      BY DEF ArgClear
    <3>1. \E f \in Elem : sheet.up[f] = e /\ sheet.slot[f] = "value"
      BY <1>2, InParts
    <3>2. ChildSet(sheet, e, "value") # {}
      BY <3>1 DEF ChildSet
    <3>3. Source(sheet, e) = "nodelist"
      BY <1>2, <3>2, SourceIs DEF Kin
    <3> QED BY <1>3, <3>3
  <2>7. Grows(e, kids, kids')
    <3>1. CASE Kin(e) = "copy-of"
      <4>1. kids' = WithChild(kids, Ret(e), Text(e))
        BY <1>7, <3>1 DEF Kin
      <4>2. Detached(kids, Text(e))
        <5>1. Unused(e)
          BY InvIs DEF Spare
        <5> QED BY <2>1, <3>1, <5>1 DEF Unused, Loose, Detached
      <4>3. Rank(Ret(e)) < Rank(Text(e))
        BY RankIs, ElemNumbers
      <4>4. Ret(e) \in Node /\ Text(e) \in Mine(e) /\ Text(e) \notin {Tmp(e), Arg(e), Ret(e)}
        BY NodesDiffer DEF Mine
      <4>5. TreeOK(sheet, kids)
        BY InvIs
      <4> QED BY <4>1, <4>2, <4>3, <4>4, <4>5, GrowOne
    <3>2. CASE Kin(e) # "copy-of"
      <4>1. kids' = kids
        BY <1>7, <3>2 DEF Kin
      <4> QED BY <4>1, InvIs DEF Grows
    <3> QED BY <3>1, <3>2
  <2>8. val' \in [Elem -> {Unset} \cup Seq(Elem)]
    <3>1. TextOfVariable(v) \in {Unset} \cup Seq(Elem)
      BY <1>3, <1>4, TextsAre
    <3> QED BY <1>7, <3>1, OwnSame
  <2>9. Kin(e) # "variable" /\ (Kin(e) # "copy-of" => kids' = kids)
    BY <1>7, <2>1 DEF Kin
  <2> QED BY <1>2, <1>7, <2>5, <2>6, <2>7, <2>8, <2>9, ArriveKeeps
<1> QED BY <1>4, <1>6, <1>7 DEF SetResultByXPath

-----------------------------------------------------------------------------
(***************************************************************************)
(* An element is over: what it has come to takes the place of its node.    *)
(***************************************************************************)
LEMMA PlaceFound ==
  ASSUME NEW S, NEW t \in Seq(S), IsInjective(t), NEW x \in ToSet(t)
  PROVE  \E j \in 1..Len(t) : t[j] = x /\ SelectInSeq(t, LAMBDA m : m = x) = j
<1>1. PICK j \in 1..Len(t) : t[j] = x
  BY DEF ToSet
<1>2. \A i \in 1..Len(t) : t[i] = x <=> i = j
  BY <1>1 DEF IsInjective
<1>3. {i \in 1..Len(t) : t[i] = x} = {j}
  BY <1>2
<1>4. SelectInSeq(t, LAMBDA m : m = x) = Min({i \in 1..Len(t) : t[i] = x})
  BY <1>3 DEF SelectInSeq
<1>5. Min({j}) = j
  BY DEF Min
<1> QED BY <1>1, <1>3, <1>4, <1>5

\* What may take the place: the nodes of the result, or one that is new.
Result(e, K, ns) ==
  ns = K[Ret(e)] \/ ns = <<>> \/ (ns = << Text(e) >> /\ Detached(K, Text(e)))

LEMMA ResultIs ==
  ASSUME NEW B, Inv(B), NEW e \in Elem, NEW K, Grows(e, kids, K), NEW ns, Result(e, K, ns)
  PROVE  /\ ns \in Seq(Node) /\ ToSet(ns) \subseteq ToSet(K[Ret(e)]) \cup {Text(e)}
         /\ MovesUp(sheet, K, e, ns, Replaced(K, e, ns))
<1>1. WellFormed(sheet) /\ TreeOK(sheet, K)
  BY InvIs DEF Grows
<1>2. Ret(e) \in Node /\ Text(e) \in Node
  BY NodesDiffer
<1>3. CASE ns = K[Ret(e)]
  <2>1. ns \in Seq(Node) /\ ToSet(ns) \subseteq ToSet(K[Ret(e)]) \cup {Text(e)}
    BY <1>1, <1>2, <1>3 DEF TreeOK
  <2>2. FitsFor(sheet, K, e, ns)
    BY <1>3 DEF FitsFor
  <2> QED BY <1>1, <2>1, <2>2, ReplacedTree
<1>4. CASE ns = <<>> \/ (ns = << Text(e) >> /\ Detached(K, Text(e)))
  <2>1. ns \in Seq(Node) /\ IsInjective(ns)
    <3>1. << Text(e) >> \in Seq(Node) /\ IsInjective(<< Text(e) >>)
      BY <1>2 DEF IsInjective
    <3>2. <<>> \in Seq(Node) /\ IsInjective(<<>>)
      BY DEF IsInjective
    <3> QED BY <1>4, <3>1, <3>2
  <2>2. ToSet(ns) \subseteq {Text(e)}
    BY <1>4 DEF ToSet
  <2>3. \A n \in ToSet(ns) : Detached(K, n)
    <3>1. ToSet(<<>>) = {}
      BY ListedFew
    <3> QED BY <1>4, <2>2, <3>1
  <2>4. \A p \in Node : Rank(p) < 5 * e => Fits(sheet, p, Text(e))
    <3> SUFFICES ASSUME NEW p \in Node, Rank(p) < 5 * e PROVE Fits(sheet, p, Text(e))
      OBVIOUS
    <3>1. Rank(Text(e)) = 5 * e + 4 /\ Rank(p) \in Nat /\ e \in Nat
      BY RankIs, ElemNumbers
    <3>2. \A f \in Elem : Text(e) \notin {Tmp(f), Arg(f), Ret(f)}
      BY NodesDiffer
    <3>3. Text(e) \notin {Doc, Response, Var}
      BY NodesDiffer
    <3> QED BY <1>2, <3>1, <3>2, <3>3 DEF Fits
  <2>5. \A n \in ToSet(ns) : Detached(K, n) /\ \A p \in Node : Rank(p) < 5 * e => Fits(sheet, p, n)
    BY <2>2, <2>3, <2>4
  <2>6. FitsFor(sheet, K, e, ns)
    BY <2>1, <2>5 DEF FitsFor
  <2>7. ToSet(ns) \subseteq ToSet(K[Ret(e)]) \cup {Text(e)}
    BY <2>2
  <2> QED BY <1>1, <2>1, <2>6, <2>7, ReplacedTree
<1> QED BY <1>3, <1>4 DEF Result

\* To replace an element leaves everything else in its place.
LEMMA ReplacedAlters ==
  ASSUME NEW B, Inv(B), NEW e \in Elem, NEW K, Grows(e, kids, K), NEW ns, Result(e, K, ns),
         kids' = Replaced(K, e, ns)
  PROVE  Alters(e, B, B, TRUE)
<1>1. /\ TreeOK(sheet, kids')
      /\ ToSet(ns) \subseteq ToSet(K[Ret(e)]) \cup {Text(e)}
      /\ \A m \in Node : ToSet(kids'[m]) =
           IF m = Ret(e) THEN {}
           ELSE IF Self(e) \in ToSet(K[m]) THEN (ToSet(K[m]) \ {Self(e)}) \cup ToSet(ns)
           ELSE ToSet(K[m])
  <2>1. /\ ns \in Seq(Node) /\ ToSet(ns) \subseteq ToSet(K[Ret(e)]) \cup {Text(e)}
        /\ MovesUp(sheet, K, e, ns, kids')
    BY ResultIs
  <2> QED BY <2>1 DEF MovesUp
<1>2. B \subseteq Elem
  BY InvIs DEF Begun
<1>3. ASSUME NEW m \in Node, NEW n \in Node, n \in ToSet(kids[m]), n # Self(e), m # Ret(e)
      PROVE  n \in ToSet(kids'[m])
  BY <1>1, <1>3 DEF Grows
<1>4. ASSUME NEW n \in Node, Loose(n), n \notin Mine(e)
      PROVE  Loose(n)'
  <2>1. \A m \in Node : n \notin ToSet(K[m])
    BY <1>4 DEF Grows, Loose
  <2>2. n \notin ToSet(ns)
    BY <1>1, <1>4, <2>1, NodesDiffer DEF Mine
  <2> QED BY <1>1, <2>1, <2>2 DEF Loose
<1> QED BY <1>1, <1>2, <1>3, <1>4, MineIs DEF Alters

\* The cursor moves on when the node it stands on is replaced (transform.h 100).
LEMMA CursorMoves ==
  ASSUME NEW B, Inv(B), NEW e \in Elem, NEW K, Grows(e, kids, K), NEW ns, Result(e, K, ns),
         kids' = Replaced(K, e, ns), responseCur' = CurAfter(K, Self(e), ns)
  PROVE  Cursor' /\ responseCur' \in Node \cup {NULL}
<1>1. /\ ns \in Seq(Node)
      /\ \A m \in Node : ToSet(kids'[m]) =
           IF m = Ret(e) THEN {}
           ELSE IF Self(e) \in ToSet(K[m]) THEN (ToSet(K[m]) \ {Self(e)}) \cup ToSet(ns)
           ELSE ToSet(K[m])
  <2>1. /\ ns \in Seq(Node) /\ ToSet(ns) \subseteq ToSet(K[Ret(e)]) \cup {Text(e)}
        /\ MovesUp(sheet, K, e, ns, kids')
    BY ResultIs
  <2> QED BY <2>1 DEF MovesUp
<1>2. TreeOK(sheet, K) /\ K[Response] \in Seq(Node) /\ IsInjective(K[Response])
  BY NodesDiffer DEF Grows, TreeOK, Forest
<1>3. Response \in Node /\ Response # Ret(e) /\ NULL \notin Node
  BY NodesDiffer
<1>4. responseCur # NULL => responseCur \in ToSet(K[Response])
  BY <1>3, InvIs DEF Cursor, Grows
<1>5. ToSet(K[Response]) \subseteq Node /\ ToSet(ns) \subseteq Node
  BY <1>1, <1>2 DEF ToSet
<1>6. SUFFICES responseCur' # NULL => responseCur' \in ToSet(kids'[Response]) /\ responseCur' \in Node
  BY DEF Cursor
<1>7. CASE responseCur # Self(e)
  <2>1. responseCur' = responseCur
    BY <1>7 DEF CurAfter
  <2> QED BY <1>1, <1>3, <1>4, <1>5, <1>7, <2>1
<1>8. CASE responseCur = Self(e)
  <2>1. Self(e) \in ToSet(K[Response])
    BY <1>3, <1>4, <1>8, NodesDiffer
  <2>2. ParentIn(K, Self(e)) = Response
    BY <1>2, <1>3, <2>1, ParentIs
  <2>3. ToSet(kids'[Response]) = (ToSet(K[Response]) \ {Self(e)}) \cup ToSet(ns)
    BY <1>1, <1>3, <2>1
  <2>4. PICK j \in 1..Len(K[Response]) :
          K[Response][j] = Self(e) /\ SelectInSeq(K[Response], LAMBDA m : m = Self(e)) = j
    BY <1>2, <2>1, PlaceFound
  <2>5. responseCur' = IF ns # <<>> THEN ns[1]
                       ELSE IF j < Len(K[Response]) THEN K[Response][j + 1] ELSE NULL
    BY <1>8, <2>2, <2>4 DEF CurAfter, NextOf
  <2>6. ns # <<>> => ns[1] \in ToSet(ns)
    BY <1>1 DEF ToSet
  <2>7. j < Len(K[Response]) => K[Response][j + 1] \in ToSet(K[Response]) \ {Self(e)}
    BY <1>2, <2>4 DEF ToSet, IsInjective
  <2> QED BY <1>5, <2>3, <2>5, <2>6, <2>7
<1> QED BY <1>7, <1>8

\* A call that goes on, or returns with something to send.
LEMMA OthersGood ==
  ASSUME NEW B, Inv(B), running, sheet' = sheet, answer' = answer, failed' = failed,
         stage' \in [Elem -> Stage], val' \in [Elem -> {Unset} \cup Seq(Elem)],
         bound' \in [Elem -> {"no", "document", "value"}],
         responseCur' \in Node \cup {NULL}, sent' \in Seq(Elem), logged' \in Seq(Seq(Elem)),
         requested' \subseteq Elem, running' \in BOOLEAN,
         cur' = cur \/ (cur' \subseteq Status /\ "DONE" \notin cur')
  PROVE  OthersOK' /\ ~ failed' /\ "DONE" \notin cur'
<1>1. TypeOK /\ Ended
  BY InvIs
<1>2. ~ failed' /\ "DONE" \notin cur'
  BY <1>1 DEF Ended
<1>3. cur' \subseteq Status /\ failed' \in BOOLEAN /\ answer' \in [Elem -> Answer]
  BY <1>1 DEF TypeOK
<1> QED BY <1>2, <1>3 DEF OthersOK

\* What is held in an element that is over.
LEMMA ClearCount ==
  ASSUME NEW B, Inv(B), NEW e \in Elem, Clear(e), NEW H, Counts(e, H), H \subseteq Holds,
         \A h \in H : h[2] # e
  PROVE  count'[Self(e)] = 0
<1>1. Self(e) \in Node
  BY NodesDiffer
<1>2. ASSUME NEW h \in H, Self(e) \in Up(sheet, At(sheet, h))
      PROVE  FALSE
  <2>1. h[2] \in Elem /\ Busy(h[2]) /\ Kin(h[2]) # "response" /\ h \in Hold
    BY InvIs, HoldBusy
  <2>2. h[2] # e
    BY <1>2
  <2>3. Self(e) \in Up(sheet, Self(h[2]))
    BY <1>2, <2>1, <2>2, HoldUp, InvIs
  <2> QED BY <2>1, <2>2, <2>3 DEF Clear
<1> QED BY <1>1, <1>2, CountsAre

LEMMA SelfPath ==
  ASSUME NEW B, Inv(B), NEW e \in Elem, Busy(e), Kin(e) # "response"
  PROVE  PathIn(kids, Self(e)) = SPath(sheet)[Self(e)]
<1>1. Stands(sheet, kids, Self(e)) /\ WellFormed(sheet) /\ TreeOK(sheet, kids)
  BY InvIs DEF Standing
<1>2. Self(e) \in Node
  BY NodesDiffer
<1> QED BY <1>1, <1>2, PathIs

\* The hold of an element is its only one.
OnlySelf(e) == \A h \in Holds : h[2] = e => h = SelfHold(e)

\* To release the node of an element gives up the hold of it and no other.
LEMMA SelfReleased ==
  ASSUME NEW B, Inv(B), NEW e \in Elem, main # <<>>, Head(main) = Again(e),
         Kin(e) \notin {"response", "text"}, HeldSelf(e), Releases(Self(e), <<>>)
  PROVE  Counts(e, Holds \ {SelfHold(e)}) /\ Queues(e, <<>>, NULL, NULL)
<1>1. Busy(e)
  BY LaterIs
<1> DEFINE path == PathIn(kids, Self(e))
<1>2. path = SPath(sheet)[At(sheet, SelfHold(e))]
  BY <1>1, SelfPath, AtIs
<1>3. /\ count' = Decreased(count, path)
      /\ tcb' = Drained(count, tcb, path)
      /\ main' = Joined(Tail(main), Moved(count, tcb, path)) \o <<>>
  BY DEF Releases, Rest
<1> HIDE DEF path
<1>4. SelfHold(e) \in Holds /\ SelfHold(e)[2] = e
  BY HeldAre, HoldsDiffer
<1>5. Scheduled(e, <<>>, NULL, NULL)
  BY SchedulesNone
<1> QED BY <1>2, <1>3, <1>4, <1>5, ReleaseTurn

\* The call that replaces an element keeps the invariant.
LEMMA FinishKeeps ==
  ASSUME NEW B, Inv(B), NEW e \in Elem, main # <<>>, Head(main) = Again(e), running,
         Kin(e) \notin {"response", "text", "log"}, Set(e) \notin Queued, OnlySelf(e), Clear(e),
         NEW K, Grows(e, kids, K), NEW ns, Result(e, K, ns), kids' = Replaced(K, e, ns),
         responseCur' = CurAfter(K, Self(e), ns), Releases(Self(e), <<>>), Goes,
         UNCHANGED <<val, bound, sent, logged, requested, host>>,
         \/ stage' = stage /\ (Kin(e) = "include" => stage[e] = "END")
         \/ stage' = [stage EXCEPT ![e] = "END"],
         Kin(e) = "if" /\ stage'[e] = "test" => stage[e] = "test" /\ Loose(Ret(e))'
  PROVE  IInv'
<1> DEFINE H == Holds \ {SelfHold(e)}
<1>1. /\ sheet' = sheet /\ answer' = answer /\ val' = val /\ bound' = bound
      /\ sent' = sent /\ logged' = logged /\ requested' = requested
      /\ cur' = cur /\ running' = running /\ failed' = failed
  BY DEF host, Goes
<1>2. Busy(e)
  BY LaterIs
<1>3. HeldSelf(e)
  BY <1>2 DEF HeldSelf
<1>4. Counts(e, H) /\ Queues(e, <<>>, NULL, NULL)
  BY <1>3, SelfReleased
<1>5. \A h \in H : h[2] # e
  BY DEF OnlySelf
<1>6. count'[Self(e)] = 0
  BY <1>4, <1>5, ClearCount
<1>7. /\ stage' \in [Elem -> Stage] /\ \A f \in Elem : f # e => stage'[f] = stage[f]
      /\ stage'[e] = stage[e] \/ stage'[e] = "END"
      /\ Kin(e) = "include" => stage'[e] = "END"
  <2>1. "END" \in Stage
    BY DEF Stage
  <2> QED BY <2>1, OwnSame
<1>8. Leaves(e)
  BY <1>1, <1>7 DEF Leaves
<1>9. Alters(e, B, B, TRUE)
  BY ReplacedAlters
<1>10. Ends(e, H, TRUE)
  BY <1>1, <1>4, <1>5, <1>6, <1>7, <1>8 DEF Ends
<1>11. Cursor' /\ responseCur' \in Node \cup {NULL}
  BY CursorMoves
<1>12. Quiet
  <2>1. val' \in [Elem -> {Unset} \cup Seq(Elem)] /\ bound' \in [Elem -> {"no", "document", "value"}]
    BY <1>1, OwnSame
  <2>2. /\ sent' \in Seq(Elem) /\ logged' \in Seq(Seq(Elem)) /\ requested' \subseteq Elem
        /\ running' \in BOOLEAN
    BY <1>1, InvIs DEF TypeOK
  <2>3. OthersOK' /\ ~ failed' /\ "DONE" \notin cur'
    BY <1>1, <1>7, <1>11, <2>1, <2>2, OthersGood
  <2> QED BY <1>11, <2>3 DEF Quiet
<1> QED BY <1>9, <1>10, <1>12, EndKeeps

\* The value of an element has come when the node it waits on is ready.
LEMMA ValueCome ==
  ASSUME NEW B, Inv(B), NEW e \in Elem, main # <<>>, Head(main) = Again(e),
         Kin(e) \in {"value-of", "copy-of", "if", "include"},
         NEW n \in Node, n = IF Kin(e) = "copy-of" THEN Ret(e) ELSE Tmp(e), count[n] = 0
  PROVE  Set(e) \notin Queued
<1> SUFFICES ASSUME Set(e) \in Queued PROVE FALSE
  OBVIOUS
<1>1. WellFormed(sheet) /\ Counted /\ Placed /\ Pairs /\ count = Tally(sheet, Holds) /\ Holds \subseteq Hold
  BY InvIs DEF Counted
<1>2. \/ Source(sheet, e) = "variable"
      \/ Source(sheet, e) = "nodelist" /\ Kin(e) \in {"value-of", "include"}
  BY SetIs
<1>3. CASE Source(sheet, e) = "variable"
  <2>1. ValueHold(e) \in Holds
    BY <1>3, HeldAre DEF HeldValue
  <2>2. At(sheet, ValueHold(e)) = n
    BY AtIs DEF Kin
  <2>3. n \in Up(sheet, n)
    BY <1>1, UpFacts
  <2>4. \A h \in Holds : n \notin Up(sheet, At(sheet, h))
    BY <1>1, TallyZero
  <2> QED BY <2>1, <2>2, <2>3, <2>4
<1>4. CASE Source(sheet, e) = "nodelist" /\ Kin(e) \in {"value-of", "include"}
  <2>1. Paired(e) /\ Kin(e) # "variable"
    BY <1>1, <1>4 DEF Pairs
  <2>2. ~ InMain(Set(e))
    <3>1. ~ NextTo(main, Set(e), Again(e))
      BY HeadFirst
    <3> QED BY <1>4, <2>1, <3>1 DEF Paired
  <2>3. PICK m \in Node : Set(e) \in ToSet(tcb[m])
    BY <2>2, QueuedIs DEF InMain
  <2>4. count[m] > 0 /\ MayWait(Set(e), m)
    BY <1>1, <2>3, Waits
  <2>5. m = Arg(e)
    <3>1. Set(e)[1] = "set" /\ Set(e)[2] = e
      BY CallsDiffer
    <3> QED BY <1>4, <2>4, <3>1 DEF MayWait
  <2>6. n = Tmp(e) /\ n \in Up(sheet, m)
    BY <1>1, <1>4, <2>5, UpOwn
  <2>7. count[n] > 0
    <3>1. Tally(sheet, Holds)[n] > 0
      BY <1>1, <2>3, <2>4, <2>6, TallyUp
    <3> QED BY <1>1, <3>1
  <2> QED BY <2>7
<1> QED BY <1>2, <1>3, <1>4

LEMMA OnlySelfIs ==
  ASSUME NEW B, Inv(B), NEW e \in Elem, Set(e) \notin Queued,
         Kin(e) = "include" => stage[e] # "PARAMS_BEGIN" /\ ~ HeldResult(e)
  PROVE  OnlySelf(e)
<1>1. ~ HeldValue(e) /\ ~ HeldParams(e) /\ ~ HeldResult(e)
  BY DEF HeldValue, HeldParams, HeldResult
<1>2. ValueHold(e) \notin Holds /\ ParamsHold(e) \notin Holds /\ ResultHold(e) \notin Holds
  BY <1>1, HeldAre
<1>3. ASSUME NEW h \in Holds, h[2] = e PROVE h = SelfHold(e)
  <2>1. h \in Hold
    BY HeldAre
  <2>2. h \in {SelfHold(e), ValueHold(e), ParamsHold(e), ResultHold(e)}
    BY <1>3, <2>1, HoldsDiffer
  <2> QED BY <1>2, <2>2
<1> QED BY <1>3 DEF OnlySelf

LEMMA ClearIs ==
  ASSUME NEW B, Inv(B), NEW e \in Elem, main # <<>>, Head(main) = Again(e),
         Kin(e) \in {"value-of", "copy-of", "if", "include"}, Set(e) \notin Queued,
         \/ count[Ret(e)] = 0
         \/ Kin(e) \in {"value-of", "copy-of"}
         \/ Kin(e) = "if" /\ stage[e] # "result"
         \/ Kin(e) = "include" /\ Early(e)
  PROVE  Clear(e)
<1> SUFFICES ASSUME NEW d \in Elem, d # e, Kin(d) # "response", Self(e) \in Up(sheet, Self(d)), Busy(d)
             PROVE  FALSE
  BY DEF Clear
<1>1. WellFormed(sheet) /\ KeptIn(d, e)
  BY InvIs DEF Kept
<1>2. Arg(e) \notin Up(sheet, Self(d))
  BY <1>1 DEF KeptIn
<1>3. Ret(e) \in Up(sheet, Self(d))
  BY <1>1, <1>2, InParts DEF Kin
<1>4. Kin(e) \in {"if", "include"}
  BY <1>1, <1>3, InParts DEF Kin
<1>5. count[Ret(e)] = 0
  BY <1>1, <1>3, <1>4 DEF KeptIn
<1>6. Gate(Again(e)) = Ret(e)
  BY <1>4, CallsDiffer DEF Gate
<1>7. Ret(e) \in Node
  BY NodesDiffer
<1>8. \A h \in Holds : Ret(e) \notin Up(sheet, At(sheet, h))
  BY <1>5, <1>7, InvIs, TallyZero DEF Counted
<1> QED BY <1>3, <1>6, <1>8, GateClear

LEMMA ConcludesIs ==
  ASSUME NEW B, Inv(B), NEW e \in Elem, HeldSelf(e), OnlySelf(e), Clear(e)
  PROVE  count[Self(e)] = 1
<1>1. /\ WellFormed(sheet) /\ Holds \subseteq Hold /\ count = Tally(sheet, Holds) /\ Phase
      /\ SelfHold(e) \in Holds
  BY InvIs, HeldAre DEF Counted
<1>2. Self(e) \in Node /\ Self(e) \in Up(sheet, At(sheet, SelfHold(e)))
  <2>1. Self(e) \in Node
    BY NodesDiffer
  <2>2. At(sheet, SelfHold(e)) = Self(e)
    BY AtIs
  <2> QED BY <1>1, <2>1, <2>2, UpFacts
<1>3. ASSUME NEW g \in Holds, g # SelfHold(e), Self(e) \in Up(sheet, At(sheet, g))
      PROVE  FALSE
  <2>1. g[2] \in Elem /\ Busy(g[2]) /\ Kin(g[2]) # "response" /\ g \in Hold
    BY <1>1, HoldBusy
  <2>2. g[2] # e
    BY <1>3 DEF OnlySelf
  <2>3. Self(e) \in Up(sheet, Self(g[2]))
    BY <1>1, <1>3, <2>1, <2>2, HoldUp
  <2> QED BY <2>1, <2>2, <2>3 DEF Clear
<1> QED BY <1>1, <1>2, <1>3, TallyOne

\* A call that takes nothing from the document.
LEMMA PlainEnd ==
  ASSUME NEW B, Inv(B), NEW e \in Elem, main # <<>>, Head(main) = Again(e), running,
         Kin(e) \in {"copy", "variable"}, Releases(Self(e), <<>>), Goes,
         UNCHANGED <<kids, elements, output, host>>
  PROVE  IInv'
<1> DEFINE H == Holds \ {SelfHold(e)}
<1>1. /\ kids' = kids /\ stage' = stage /\ val' = val /\ bound' = bound /\ responseCur' = responseCur
      /\ requested' = requested /\ sheet' = sheet /\ answer' = answer
  BY DEF elements, output, host
<1>2. Busy(e) /\ Phased(e) /\ Again(e) \in Queued
  BY LaterIs
<1>3. HeldSelf(e)
  BY <1>2 DEF HeldSelf
<1>4. Counts(e, H) /\ Queues(e, <<>>, NULL, NULL)
  BY <1>3, SelfReleased
<1>5. Set(e) \notin Queued
  BY <1>2 DEF Phased
<1>6. \A h \in H : h[2] # e
  <2>1. OnlySelf(e)
    BY <1>5, OnlySelfIs
  <2> QED BY <2>1 DEF OnlySelf
<1>7. Leaves(e)
  BY <1>1 DEF Leaves
<1>8. Ends(e, H, FALSE)
  BY <1>1, <1>4, <1>5, <1>6, <1>7 DEF Ends
<1>9. Alters(e, B, B, FALSE)
  BY <1>1, SameNodes
<1>10. Quiet
  <2>1. OthersOK' /\ ~ failed' /\ "DONE" \notin cur'
    <3>1. /\ stage' \in [Elem -> Stage] /\ val' \in [Elem -> {Unset} \cup Seq(Elem)]
          /\ bound' \in [Elem -> {"no", "document", "value"}]
      BY <1>1, OwnSame
    <3>2. UNCHANGED <<output, host>>
      OBVIOUS
    <3> QED BY <3>1, <3>2, OthersSame
  <2>2. Cursor'
    BY <1>1, InvIs DEF Cursor
  <2> QED BY <2>1, <2>2 DEF Quiet
<1> QED BY <1>8, <1>9, <1>10, EndKeeps

\* A later call of a copied element.
LEMMA CopyAgainKeeps ==
  ASSUME NEW B, Inv(B), NEW e \in Elem, CopyAgain(e)
  PROVE  IInv'
<1>1. Calls("again", e, "copy") /\ Releases(Self(e), <<>>) /\ Goes /\ UNCHANGED <<kids, elements, output, host>>
  BY DEF CopyAgain
<1>2. running /\ main # <<>> /\ Head(main) = Again(e) /\ Kin(e) = "copy"
  BY <1>1, CallsIs
<1> QED BY <1>1, <1>2, PlainEnd

\* A later call of a variable.
LEMMA VariableAgainKeeps ==
  ASSUME NEW B, Inv(B), NEW e \in Elem, VariableAgain(e)
  PROVE  IInv'
<1>1. Calls("again", e, "variable") /\ Releases(Self(e), <<>>) /\ Goes /\ UNCHANGED <<kids, elements, output, host>>
  BY DEF VariableAgain
<1>2. running /\ main # <<>> /\ Head(main) = Again(e) /\ Kin(e) = "variable"
  BY <1>1, CallsIs
<1> QED BY <1>1, <1>2, PlainEnd

\* A call that is over, with the document as it is.
LEMMA FinishesKeeps ==
  ASSUME NEW B, Inv(B), NEW e \in Elem, main # <<>>, Head(main) = Again(e), running,
         Kin(e) \notin {"response", "text", "log"}, Set(e) \notin Queued, OnlySelf(e), Clear(e),
         NEW ns, Result(e, kids, ns), Finishes(e, ns),
         Kin(e) = "include" => stage[e] = "END",
         Kin(e) = "if" /\ stage[e] = "test" => Loose(Ret(e)) /\ ns = <<>>
  PROVE  IInv'
<1>1. /\ Releases(Self(e), <<>>) /\ kids' = Replaced(kids, e, ns)
      /\ responseCur' = CurAfter(kids, Self(e), ns) /\ Goes
      /\ UNCHANGED <<elements, sent, logged, requested, host>>
  BY DEF Finishes
<1>2. UNCHANGED <<val, bound, sent, logged, requested, host>> /\ stage' = stage
  BY <1>1 DEF elements
<1>3. Grows(e, kids, kids)
  BY InvIs DEF Grows
<1>4. Kin(e) = "if" /\ stage'[e] = "test" => stage[e] = "test" /\ Loose(Ret(e))'
  <2> SUFFICES ASSUME Kin(e) = "if", stage[e] = "test" PROVE Loose(Ret(e))'
    BY <1>2
  <2>1. MovesUp(sheet, kids, e, ns, kids')
    BY <1>1, <1>3, ResultIs
  <2>2. ToSet(ns) = {}
    BY ListedFew
  <2>3. \A m \in Node : Ret(e) \notin ToSet(kids[m])
    BY DEF Loose
  <2> QED BY <2>1, <2>2, <2>3 DEF Loose, MovesUp
<1> QED BY <1>1, <1>2, <1>3, <1>4, FinishKeeps

\* A later call of a value-of.
LEMMA ValueOfAgainKeeps ==
  ASSUME NEW B, Inv(B), NEW e \in Elem, ValueOfAgain(e)
  PROVE  IInv'
<1>1. /\ running /\ main # <<>> /\ Head(main) = Again(e) /\ Kin(e) = "value-of"
  <2>1. Calls("again", e, "value-of")
    BY DEF ValueOfAgain
  <2> QED BY <2>1, CallsIs
<1>2. Tmp(e) \in Node
  BY NodesDiffer
<1>3. CASE count[Tmp(e)] > 0 /\ WaitsOn(Tmp(e))
  <2>1. MayWait(Again(e), Tmp(e))
    BY <1>1, CallsDiffer DEF MayWait
  <2> QED BY <1>1, <1>2, <1>3, <2>1, WaitKeeps
<1>4. CASE count[Tmp(e)] = 0 /\ Finishes(e, << Text(e) >>)
  <2>1. Set(e) \notin Queued
    BY <1>1, <1>2, <1>4, ValueCome
  <2>2. OnlySelf(e)
    BY <1>1, <2>1, OnlySelfIs
  <2>3. Clear(e)
    BY <1>1, <2>1, ClearIs
  <2>4. Result(e, kids, << Text(e) >>)
    <3>1. Unused(e) /\ Busy(e)
      BY <1>1, InvIs, LaterIs DEF Spare
    <3> QED BY <1>1, <3>1 DEF Unused, Loose, Detached, Result
  <2> QED BY <1>1, <1>4, <2>1, <2>2, <2>3, <2>4, FinishesKeeps
<1> QED BY <1>3, <1>4 DEF ValueOfAgain

\* A later call of a copy-of.
LEMMA CopyOfAgainKeeps ==
  ASSUME NEW B, Inv(B), NEW e \in Elem, CopyOfAgain(e)
  PROVE  IInv'
<1>1. /\ running /\ main # <<>> /\ Head(main) = Again(e) /\ Kin(e) = "copy-of"
  <2>1. Calls("again", e, "copy-of")
    BY DEF CopyOfAgain
  <2> QED BY <2>1, CallsIs
<1>2. Ret(e) \in Node
  BY NodesDiffer
<1>3. CASE count[Ret(e)] > 0 /\ WaitsOn(Ret(e))
  <2>1. MayWait(Again(e), Ret(e))
    BY <1>1, CallsDiffer DEF MayWait
  <2> QED BY <1>1, <1>2, <1>3, <2>1, WaitKeeps
<1>4. CASE count[Ret(e)] = 0 /\ Concludes(e, kids[Ret(e)])
  <2>1. Set(e) \notin Queued
    BY <1>1, <1>2, <1>4, ValueCome
  <2>2. OnlySelf(e)
    BY <1>1, <2>1, OnlySelfIs
  <2>3. Clear(e)
    BY <1>1, <2>1, ClearIs
  <2>4. Result(e, kids, kids[Ret(e)])
    BY DEF Result
  <2>5. HeldSelf(e)
    BY <1>1, LaterIs DEF HeldSelf
  <2>6. Finishes(e, kids[Ret(e)])
    BY <1>4, <2>2, <2>3, <2>5, ConcludesIs DEF Concludes
  <2> QED BY <1>1, <2>1, <2>2, <2>3, <2>4, <2>6, FinishesKeeps
<1> QED BY <1>3, <1>4 DEF CopyOfAgain

-----------------------------------------------------------------------------
(***************************************************************************)
(* A call of an if or an include that has itself called again, after what  *)
(* is written in the part it opens.                                        *)
(***************************************************************************)
More(e, H, cbs) ==
  /\ main # <<>> /\ Head(main) = Again(e) /\ Kin(e) \in {"if", "include"} /\ Set(e) \notin Queued
  /\ Again(e) \in ToSet(cbs) /\ Set(e) \notin ToSet(cbs) /\ Listed(e, cbs)
  /\ Counts(e, H) /\ Queues(e, cbs, NULL, NULL) /\ Leaves(e)
  /\ SelfHold(e) \in H /\ ValueHold(e) \notin H /\ ParamsHold(e) \notin H
  /\ ResultHold(e) \in H <=> HeldResult(e)'
  /\ \A d \in Elem : First(d) \in ToSet(cbs) =>
       sheet.slot[d] # "value" /\ (Kin(e) = "include" => HeldResult(e)')

\* The stage it comes to, and the nodes it has then.
MoreNodes(e) ==
  /\ Kin(e) = "if" => stage'[e] = "result"
  /\ Kin(e) = "include" => stage'[e] \in {"PARAMS_END", "SUCCESS", "FAILURE", "END"}
  /\ Kin(e) = "include" => Loose(Text(e))'
  /\ stage'[e] = "PARAMS_END" => Loose(Ret(e))'
  /\ stage'[e] # "PARAMS_END" => HasResult(e)'
  /\ stage'[e] = "END" => count'[Ret(e)] = 0
  /\ Stands(sheet, kids', Self(e)) /\ Hangs(sheet, kids', Tmp(e))

\* A call that opens a part of its element keeps the invariant.
LEMMA MoreKeeps ==
  ASSUME NEW B, Inv(B), NEW e \in Elem, NEW H, NEW cbs, NEW B2, More(e, H, cbs), MoreNodes(e), Clear(e),
         Alters(e, B, B2, FALSE), Opens(e, B, B2, cbs), Opened(e, B, B2, cbs), requested' = requested,
         Quiet
  PROVE  IInv'
<1>1. /\ main # <<>> /\ Head(main) = Again(e) /\ Kin(e) \in {"if", "include"} /\ Set(e) \notin Queued
      /\ Again(e) \in ToSet(cbs) /\ Set(e) \notin ToSet(cbs) /\ Listed(e, cbs)
      /\ Counts(e, H) /\ Queues(e, cbs, NULL, NULL) /\ Leaves(e)
      /\ SelfHold(e) \in H /\ ValueHold(e) \notin H /\ ParamsHold(e) \notin H
      /\ ResultHold(e) \in H <=> HeldResult(e)'
      /\ \A d \in Elem : First(d) \in ToSet(cbs) =>
           sheet.slot[d] # "value" /\ (Kin(e) = "include" => HeldResult(e)')
  BY DEF More
<1>2. /\ Kin(e) = "if" => stage'[e] = "result"
      /\ Kin(e) = "include" => stage'[e] \in {"PARAMS_END", "SUCCESS", "FAILURE", "END"}
      /\ Kin(e) = "include" => Loose(Text(e))'
      /\ stage'[e] = "PARAMS_END" => Loose(Ret(e))'
      /\ stage'[e] # "PARAMS_END" => HasResult(e)'
      /\ stage'[e] = "END" => count'[Ret(e)] = 0
      /\ Stands(sheet, kids', Self(e)) /\ Hangs(sheet, kids', Tmp(e))
  BY DEF MoreNodes
<1>3. e \in B /\ ~ Awaits(e) /\ sheet' = sheet /\ answer' = answer /\ Kin(e)' = Kin(e) /\ WellFormed(sheet)
  BY <1>1, LaterIs, InvIs DEF Leaves, Kin
<1>4. Again(e) \in Queued' /\ Set(e) \notin Queued' /\ InMain(Again(e))'
  BY <1>1, QueuesAre
<1>5. Busy(e)'
  BY <1>4 DEF Busy
<1>6. Step(e, B, B2, H, cbs, NULL, NULL, FALSE)
  BY <1>1 DEF Step
<1>7. HeldSelf(e)'
  BY <1>1, <1>3, <1>5 DEF HeldSelf
<1>8. OwnHolds(e, H)
  <2>1. ~ HeldValue(e)'
    BY <1>4 DEF HeldValue
  <2>2. ~ HeldParams(e)'
    BY <1>2, <1>3 DEF HeldParams
  <2> QED BY <1>1, <1>7, <2>1, <2>2 DEF OwnHolds
<1>9. OwnNodes(e)
  <2>1. Stocked(e)'
    BY <1>1, <1>2, <1>3, <1>4 DEF Stocked
  <2>2. Kin(e) = "include" /\ Early(e)' => Loose(Ret(e))'
    BY <1>2 DEF Early
  <2>3. Unused(e)'
    BY <1>1, <1>2, <1>3, <2>2 DEF Unused
  <2> QED BY <1>2, <2>1, <2>3 DEF OwnNodes
<1>10. OwnCalls(e, NULL, NULL)
  <2>1. ~ Awaits(e)'
    BY <1>3 DEF Awaits
  <2>2. Phased(e)'
    BY <1>1, <1>2, <1>3, <1>4, <2>1 DEF Phased
  <2>3. Paired(e)'
    BY <1>4 DEF Paired
  <2> QED BY <1>1, <2>2, <2>3 DEF OwnCalls
<1>11. OwnParts(e, cbs)
  <2>1. ASSUME NEW d \in Elem, First(d) \in ToSet(cbs), sheet.up[d] = e
        PROVE  Awaited(d, e)'
    <3>1. sheet.slot[d] # "value" /\ (Kin(e) = "include" => HeldResult(e)')
      BY <1>1, <2>1
    <3>2. Closer(d) = Again(e)
      BY <2>1, <3>1 DEF Closer
    <3>3. InFront(cbs, First(d), Again(e))
      BY <1>1, <2>1, <3>2 DEF Listed
    <3>4. InFront(main', First(d), Again(e))
      BY <1>1, <3>3 DEF Queues, NewOrder
    <3>5. Closer(d)' = Again(e)
      BY <1>3, <2>1, <3>1 DEF Closer
    <3> QED BY <1>3, <1>7, <3>1, <3>4, <3>5 DEF Awaited
  <2>2. ASSUME NEW d \in Elem, d # e, Busy(d), Kin(d) # "response"
        PROVE  KeptIn(d, e)'
    <3>1. Self(e) \notin Up(sheet, Self(d))
      BY <2>2 DEF Clear
    <3>2. Self(d) \in Node
      BY NodesDiffer
    <3>3. Arg(e) \notin Up(sheet, Self(d)) /\ Ret(e) \notin Up(sheet, Self(d))
      BY <1>3, <3>1, <3>2, PartOf
    <3> QED BY <1>3, <3>1, <3>3 DEF KeptIn
  <2> QED BY <2>1, <2>2 DEF OwnParts
<1>12. OwnOrder(e, cbs)
  <2>1. ASSUME NEW x \in ToSet(cbs), NEW g \in Elem, x[1] # "first", g # e, Kin(g) = "log", Busy(g)
        PROVE  Gate(x) \notin Up(sheet, Self(g))
    <3>1. x = Again(e)
      <4>1. x \in {Again(e), Set(e)} \/ \E d \in Elem : x = First(d) /\ sheet.up[d] = e
        BY <1>1 DEF Listed
      <4> QED BY <1>1, <2>1, <4>1, CallsDiffer
    <3>2. Gate(x) = Ret(e)
      BY <1>1, <3>1, CallsDiffer DEF Gate
    <3>3. Self(e) \notin Up(sheet, Self(g))
      BY <2>1 DEF Clear
    <3>4. Self(g) \in Node
      BY NodesDiffer
    <3> QED BY <1>3, <3>2, <3>3, <3>4, PartOf
  <2> QED BY <1>1, <2>1 DEF OwnOrder
<1>13. Settles(e, H, cbs, NULL, NULL)
  BY <1>8, <1>9, <1>10, <1>11, <1>12 DEF Settles
<1> QED BY <1>6, <1>13, StepKeeps

\* What is listed for a part that has not been opened.
LEMMA PartOpens ==
  ASSUME NEW B, Inv(B), NEW e \in B, NEW slot, NEW cbs, Listed(e, cbs), OnlyIn(e, slot, cbs),
         \A d \in Elem : sheet.up[d] = e /\ sheet.slot[d] = slot => Closed(B, e, slot),
         \A d \in Elem : sheet.up[d] = e /\ Closed(B, e, sheet.slot[d])' =>
           sheet.slot[d] # slot /\ Closed(B, e, sheet.slot[d])
  PROVE  Opens(e, B, B, cbs) /\ Opened(e, B, B, cbs)
<1>1. ASSUME NEW a \in Elem, First(a) \in ToSet(cbs)
      PROVE  /\ a \notin B /\ sheet.slot[a] = slot
             /\ \A v \in Elem : sheet.up[v] = e /\ sheet.slot[v] = sheet.slot[a] /\ v < a =>
                  InFront(cbs, First(v), First(a))
  <2>1. sheet.up[a] = e /\ sheet.slot[a] = slot
    BY <1>1 DEF OnlyIn
  <2>2. Closed(B, e, slot)
    BY <2>1
  <2>3. e \in Elem /\ e # 0
    BY InvIs, ElemNumbers DEF Begun
  <2>4. a \notin B
    BY <2>1, <2>2, <2>3, InvIs DEF Begun
  <2> QED BY <1>1, <2>1, <2>4 DEF Listed
<1>2. Opens(e, B, B, cbs)
  BY <1>1 DEF Opens
<1>3. Opened(e, B, B, cbs)
  BY <1>1 DEF Opened
<1> QED BY <1>2, <1>3

\* What such a call schedules, when nothing is released or left on a node.
LEMMA MoreQueues ==
  ASSUME NEW B, Inv(B), NEW e \in Elem, main # <<>>, Head(main) = Again(e), Set(e) \notin Queued,
         NEW H, Counts(e, H), Holds \subseteq H, NEW cbs, Listed(e, cbs), Set(e) \notin ToSet(cbs),
         \A d \in Elem : First(d) \in ToSet(cbs) => Closed(B, e, sheet.slot[d]),
         main' = Tail(main) \o cbs, tcb' = tcb
  PROVE  Queues(e, cbs, NULL, NULL)
<1>1. Scheduled(e, cbs, NULL, NULL)
  BY ListScheduled
<1>2. \A m \in Node : count'[m] = 0 => tcb[m] = <<>>
  BY NoneFreed
<1> QED BY <1>1, <1>2, PlainTurn

\* An if whose test is there.
LEMMA IfTestKeeps ==
  ASSUME NEW B, Inv(B), NEW e \in Elem, IfTest(e)
  PROVE  IInv'
<1>1. running /\ main # <<>> /\ Head(main) = Again(e) /\ Kin(e) = "if" /\ stage[e] = "test"
  <2>1. Calls("again", e, "if") /\ stage[e] = "test"
    BY DEF IfTest
  <2> QED BY <2>1, CallsIs
<1>2. Tmp(e) \in Node /\ Self(e) \in Node /\ Ret(e) \in Node
  BY NodesDiffer
<1>3. e \in B /\ Busy(e) /\ Stands(sheet, kids, Self(e)) /\ WellFormed(sheet) /\ B \subseteq Elem
  BY <1>1, LaterIs, InvIs
<1>4. Loose(Ret(e)) /\ Hangs(sheet, kids, Tmp(e))
  BY <1>1, <1>3, InvIs DEF Spare, Unused, Reserve, Stocked
<1>5. CASE count[Tmp(e)] > 0 /\ WaitsOn(Tmp(e))
  <2>1. MayWait(Again(e), Tmp(e))
    BY <1>1, CallsDiffer DEF MayWait
  <2> QED BY <1>1, <1>2, <1>5, <2>1, WaitKeeps
<1>6. ASSUME count[Tmp(e)] = 0 PROVE Set(e) \notin Queued /\ OnlySelf(e) /\ Clear(e)
  <2>1. Set(e) \notin Queued
    BY <1>1, <1>2, <1>6, ValueCome
  <2>2. OnlySelf(e)
    BY <1>1, <2>1, OnlySelfIs
  <2>3. Clear(e)
    BY <1>1, <2>1, ClearIs
  <2> QED BY <2>1, <2>2, <2>3
<1>7. HeldSelf(e)
  BY <1>1, <1>3 DEF HeldSelf
<1>8. CASE /\ count[Tmp(e)] = 0
           /\ Concludes(e, <<>>)
  <2>1. Finishes(e, <<>>)
    BY <1>6, <1>7, <1>8, ConcludesIs DEF Concludes
  <2>2. Result(e, kids, <<>>)
    BY DEF Result
  <2> QED BY <1>1, <1>4, <1>6, <1>8, <2>1, <2>2, FinishesKeeps
<1>9. CASE /\ count[Tmp(e)] = 0
           /\ stage' = [stage EXCEPT ![e] = "result"]
           /\ kids' = WithChild(kids, Self(e), Ret(e))
           /\ main' = Rest \o Firsts(e, "content") \o << <<"again", e>> >>
           /\ Goes
           /\ UNCHANGED <<count, tcb, val, bound, output, host>>
  <2> DEFINE cbs == Firsts(e, "content") \o << Again(e) >>
  <2>1. /\ stage' \in [Elem -> Stage] /\ stage'[e] = "result"
        /\ \A f \in Elem : f # e => stage'[f] = stage[f]
    <3>1. "result" \in Stage
      BY DEF Stage
    <3> QED BY <1>9, <3>1, OwnSame
  <2>2. /\ count' = count /\ tcb' = tcb /\ val' = val /\ bound' = bound /\ sheet' = sheet
        /\ answer' = answer /\ requested' = requested /\ responseCur' = responseCur
        /\ UNCHANGED <<output, host>>
    BY <1>9 DEF output, host
  <2>3. main' = Tail(main) \o cbs
    <3>1. main \in Seq(Call)
      BY InvIs
    <3>2. Tail(main) \in Seq(Call)
      BY <1>1, <3>1
    <3>3. main' = (Tail(main) \o Firsts(e, "content")) \o << Again(e) >>
      BY <1>9 DEF Rest, Again
    <3> QED BY <3>2, <3>3, ListJoined
  <2>4. Listed(e, cbs) /\ Again(e) \in ToSet(cbs) /\ Set(e) \notin ToSet(cbs) /\ OnlyIn(e, "content", cbs)
    BY ListedContent
  <2> HIDE DEF cbs
  <2>5. Counts(e, Holds)
    BY <2>2, InvIs DEF Counts, Counted
  <2>6. Closed(B, e, "content")
    BY <1>1 DEF Closed
  <2>7. \A d \in Elem : First(d) \in ToSet(cbs) => Closed(B, e, sheet.slot[d]) /\ sheet.slot[d] = "content"
    BY <2>4, <2>6 DEF OnlyIn
  <2>8. Queues(e, cbs, NULL, NULL)
    BY <1>1, <1>6, <1>9, <2>2, <2>3, <2>4, <2>5, <2>7, MoreQueues
  <2>9. Puts(e, kids, Self(e), Ret(e), kids')
    <3>1. Grows(e, kids, kids)
      BY InvIs DEF Grows
    <3>2. Detached(kids, Ret(e))
      BY <1>4 DEF Loose, Detached
    <3>3. Ret(e) \in Mine(e)
      BY DEF Mine
    <3>4. Self(e) = Above(sheet, Ret(e))
      BY AboveIs
    <3>5. Rank(Self(e)) < Rank(Ret(e))
      BY RankIs, ElemNumbers
    <3> QED BY <1>2, <1>3, <1>9, <3>1, <3>2, <3>3, <3>4, <3>5, NextGrows
  <2>10. Grows(e, kids, kids') /\ Stands(sheet, kids', Self(e)) /\ Hangs(sheet, kids', Tmp(e))
         /\ Ret(e) \in ToSet(kids'[Self(e)])
    BY <1>2, <1>3, <1>4, <2>9 DEF Puts
  <2>11. Alters(e, B, B, FALSE)
    BY <1>3, <2>10, GrowsAlters
  <2>12. Leaves(e)
    BY <2>1, <2>2 DEF Leaves
  <2>13. Kin(e)' = Kin(e)
    BY <2>2 DEF Kin
  <2>14. Opens(e, B, B, cbs) /\ Opened(e, B, B, cbs)
    <3>1. \A d \in Elem : ~ Closed(B, e, sheet.slot[d])'
      BY <1>1, <1>3, <2>1, <2>13 DEF Closed
    <3> QED BY <1>3, <2>4, <2>6, <3>1, PartOpens
  <2>15. More(e, Holds, cbs)
    <3>1. ~ HeldValue(e) /\ ~ HeldParams(e) /\ ~ HeldResult(e) /\ ~ HeldResult(e)'
      BY <1>1, <1>6, <1>9, <2>13 DEF HeldValue, HeldParams, HeldResult
    <3>2. SelfHold(e) \in Holds /\ ValueHold(e) \notin Holds /\ ParamsHold(e) \notin Holds /\ ResultHold(e) \notin Holds
      BY <1>7, <3>1, HeldAre
    <3> QED BY <1>1, <1>6, <1>9, <2>4, <2>5, <2>7, <2>8, <2>12, <3>1, <3>2 DEF More
  <2>16. MoreNodes(e)
    BY <1>1, <2>1, <2>10 DEF MoreNodes, HasResult
  <2>17. Quiet
    <3>1. val' \in [Elem -> {Unset} \cup Seq(Elem)] /\ bound' \in [Elem -> {"no", "document", "value"}]
      BY <2>2, OwnSame
    <3>2. OthersOK' /\ ~ failed' /\ "DONE" \notin cur'
      BY <1>1, <1>9, <2>1, <2>2, <3>1, OthersSame
    <3>3. ToSet(kids[Response]) \subseteq ToSet(kids'[Response])
      BY <2>10, NodesDiffer DEF Grows
    <3>4. Cursor'
      BY <2>2, <3>3, InvIs DEF Cursor
    <3> QED BY <3>2, <3>4 DEF Quiet
  <2> QED BY <1>6, <1>9, <2>2, <2>11, <2>14, <2>15, <2>16, <2>17, MoreKeeps
<1> QED BY <1>5, <1>8, <1>9 DEF IfTest

\* An if whose content is ready.
LEMMA IfResultKeeps ==
  ASSUME NEW B, Inv(B), NEW e \in Elem, IfResult(e)
  PROVE  IInv'
<1>1. running /\ main # <<>> /\ Head(main) = Again(e) /\ Kin(e) = "if" /\ stage[e] = "result"
  <2>1. Calls("again", e, "if") /\ stage[e] = "result"
    BY DEF IfResult
  <2> QED BY <2>1, CallsIs
<1>2. Ret(e) \in Node
  BY NodesDiffer
<1>3. Busy(e) /\ Phased(e)
  BY <1>1, LaterIs
<1>4. CASE count[Ret(e)] > 0 /\ WaitsOn(Ret(e))
  <2>1. MayWait(Again(e), Ret(e))
    BY <1>1, CallsDiffer DEF MayWait
  <2> QED BY <1>1, <1>2, <1>4, <2>1, WaitKeeps
<1>5. CASE count[Ret(e)] = 0 /\ Concludes(e, kids[Ret(e)])
  <2>1. Set(e) \notin Queued
    BY <1>1, <1>3 DEF Phased
  <2>2. OnlySelf(e)
    BY <1>1, <2>1, OnlySelfIs
  <2>3. Clear(e)
    BY <1>1, <1>5, <2>1, ClearIs
  <2>4. Result(e, kids, kids[Ret(e)])
    BY DEF Result
  <2>5. HeldSelf(e)
    BY <1>1, <1>3 DEF HeldSelf
  <2>6. Finishes(e, kids[Ret(e)])
    BY <1>5, <2>2, <2>3, <2>5, ConcludesIs DEF Concludes
  <2> QED BY <1>1, <2>1, <2>2, <2>3, <2>4, <2>6, FinishesKeeps
<1> QED BY <1>4, <1>5 DEF IfResult

\* An include whose result is ready.
LEMMA IncludeEndKeeps ==
  ASSUME NEW B, Inv(B), NEW e \in Elem, IncludeEnd(e)
  PROVE  IInv'
<1>1. running /\ main # <<>> /\ Head(main) = Again(e) /\ Kin(e) = "include" /\ stage[e] = "END"
  <2>1. Calls("again", e, "include") /\ stage[e] = "END"
    BY DEF IncludeEnd
  <2> QED BY <2>1, CallsIs
<1>2. Busy(e) /\ Phased(e) /\ InMain(Again(e))
  BY <1>1, LaterIs
<1>3. Set(e) \notin Queued /\ count[Ret(e)] = 0
  BY <1>1, <1>2 DEF Phased
<1>4. OnlySelf(e)
  BY <1>1, <1>3, OnlySelfIs DEF HeldResult
<1>5. Clear(e)
  BY <1>1, <1>3, ClearIs
<1>6. Result(e, kids, kids[Ret(e)])
  BY DEF Result
<1>7. Finishes(e, kids[Ret(e)])
  BY DEF IncludeEnd
<1> QED BY <1>1, <1>3, <1>4, <1>5, <1>6, <1>7, FinishesKeeps

\* The subrequest of an include is sent.
LEMMA RequestKeeps ==
  ASSUME NEW B, Inv(B), NEW e \in Elem, running, main # <<>>, Head(main) = Again(e), Kin(e) = "include",
         stage[e] = "PARAMS_END", count[Tmp(e)] = 0, requested' = requested \cup {e},
         stage' = [stage EXCEPT ![e] = "READ_RESPONSE"], main' = Tail(main), Returns({"SUBREQUEST"}),
         UNCHANGED <<document, val, bound, responseCur, sent, logged, host>>
  PROVE  IInv'
<1>1. /\ kids' = kids /\ count' = count /\ tcb' = tcb /\ val' = val /\ bound' = bound
      /\ responseCur' = responseCur /\ sent' = sent /\ logged' = logged /\ sheet' = sheet
      /\ answer' = answer
  BY DEF document, host
<1>2. /\ stage' \in [Elem -> Stage] /\ stage'[e] = "READ_RESPONSE"
      /\ \A f \in Elem : f # e => stage'[f] = stage[f]
  <2>1. "READ_RESPONSE" \in Stage
    BY DEF Stage
  <2> QED BY <2>1, OwnSame
<1>3. e \in B /\ Busy(e) /\ Phased(e) /\ ~ Awaits(e) /\ Stands(sheet, kids, Self(e)) /\ WellFormed(sheet)
  BY LaterIs, InvIs
<1>4. Kin(e)' = Kin(e)
  BY <1>1 DEF Kin
<1>5. Set(e) \notin Queued
  BY <1>3 DEF Phased
<1>6. Early(e) /\ Early(e)'
  BY <1>2 DEF Early
<1>7. Clear(e)
  BY <1>5, <1>6, ClearIs
<1>8. ToSet(<<>>) = {}
  BY ListedFew
<1>9. Counts(e, Holds)
  BY <1>1, InvIs DEF Counts, Counted
<1>10. Queues(e, <<>>, NULL, NULL)
  <2>1. Listed(e, <<>>)
    BY ListedFew
  <2>2. main' = Tail(main) \o <<>>
    <3>1. main \in Seq(Call)
      BY InvIs
    <3> QED BY <3>1
  <2> QED BY <1>1, <1>5, <1>8, <1>9, <2>1, <2>2, MoreQueues
<1>11. Again(e) \notin Queued' /\ Set(e) \notin Queued'
  <2>1. \A x : x \in Queued' <=> x \in Queued /\ x # Head(main)
    BY <1>8, <1>10, QueuesAre
  <2> QED BY <1>5, <2>1
<1>12. ~ InMain(Again(e))'
  BY <1>11, QueuedIs DEF InMain
<1>13. Busy(e)'
  BY <1>2 DEF Busy
<1>14. Leaves(e)
  <2>1. \A f \in Elem : f # e => (f \in requested' <=> f \in requested)
    OBVIOUS
  <2> QED BY <1>1, <1>2, <2>1 DEF Leaves
<1>15. /\ Alters(e, B, B, FALSE)
       /\ \A n \in Node : Loose(n)' <=> Loose(n)
       /\ \A n : Hangs(sheet, kids', n) <=> Hangs(sheet, kids, n)
       /\ \A n : Stands(sheet, kids', n) <=> Stands(sheet, kids, n)
       /\ HasResult(e)' <=> HasResult(e)
  BY <1>1, SameNodes
<1>16. Opens(e, B, B, <<>>) /\ Opened(e, B, B, <<>>)
  <2>1. ASSUME NEW d \in Elem, Closed(B, e, sheet.slot[d])'
        PROVE  Closed(B, e, sheet.slot[d])
    BY <1>3, <1>4, <1>6, <1>1, <2>1 DEF Closed
  <2> QED BY <1>3, <1>8, <2>1 DEF Opens, Opened
<1>17. Step(e, B, B, Holds, <<>>, NULL, NULL, FALSE)
  BY <1>9, <1>10, <1>14, <1>15, <1>16 DEF Step
<1>18. OwnHolds(e, Holds)
  <2>1. /\ SelfHold(e) \in Holds <=> HeldSelf(e)
        /\ ValueHold(e) \in Holds <=> HeldValue(e)
        /\ ParamsHold(e) \in Holds <=> HeldParams(e)
        /\ ResultHold(e) \in Holds <=> HeldResult(e)
    BY HeldAre
  <2>2. HeldSelf(e) /\ HeldSelf(e)'
    BY <1>3, <1>4, <1>13 DEF HeldSelf
  <2>3. ~ HeldValue(e) /\ ~ HeldValue(e)'
    BY <1>5, <1>11 DEF HeldValue
  <2>4. ~ HeldParams(e) /\ ~ HeldParams(e)'
    BY <1>2, <1>4 DEF HeldParams
  <2>5. ~ HeldResult(e) /\ ~ HeldResult(e)'
    BY <1>2, <1>4 DEF HeldResult
  <2> QED BY <2>1, <2>2, <2>3, <2>4, <2>5 DEF OwnHolds
<1>19. OwnNodes(e)
  <2>1. Hangs(sheet, kids, Tmp(e)) /\ Loose(Text(e)) /\ Loose(Ret(e))
    BY <1>3, <1>6, InvIs DEF Reserve, Spare, Stocked, Unused
  <2>2. Hangs(sheet, kids', Tmp(e)) /\ Loose(Text(e))' /\ Loose(Ret(e))'
    BY <1>15, <2>1, NodesDiffer
  <2>3. Stocked(e)'
    BY <1>1, <1>2, <1>4, <1>11, <2>2 DEF Stocked
  <2>4. Unused(e)'
    BY <1>4, <2>2 DEF Unused
  <2> QED BY <1>3, <1>15, <2>3, <2>4 DEF OwnNodes
<1>20. OwnCalls(e, NULL, NULL)
  <2>1. Phased(e)'
    BY <1>2, <1>4, <1>11, <1>12 DEF Phased
  <2>2. Paired(e)'
    BY <1>11 DEF Paired
  <2> QED BY <2>1, <2>2 DEF OwnCalls
<1>21. OwnParts(e, <<>>)
  <2>1. ASSUME NEW d \in Elem, d # e, Busy(d), Kin(d) # "response"
        PROVE  KeptIn(d, e)'
    <3>1. Self(e) \notin Up(sheet, Self(d))
      BY <1>7, <2>1 DEF Clear
    <3>2. Self(d) \in Node
      BY NodesDiffer
    <3>3. Arg(e) \notin Up(sheet, Self(d)) /\ Ret(e) \notin Up(sheet, Self(d))
      BY <1>3, <3>1, <3>2, PartOf
    <3> QED BY <1>1, <3>1, <3>3 DEF KeptIn
  <2> QED BY <1>8, <2>1 DEF OwnParts
<1>22. OwnOrder(e, <<>>)
  BY <1>8 DEF OwnOrder
<1>23. Settles(e, Holds, <<>>, NULL, NULL)
  BY <1>18, <1>19, <1>20, <1>21, <1>22 DEF Settles
<1>24. Quiet
  <2>1. val' \in [Elem -> {Unset} \cup Seq(Elem)] /\ bound' \in [Elem -> {"no", "document", "value"}]
    BY <1>1, OwnSame
  <2>2. /\ sent' \in Seq(Elem) /\ logged' \in Seq(Seq(Elem)) /\ requested' \subseteq Elem
        /\ responseCur' \in Node \cup {NULL}
    BY <1>1, InvIs DEF TypeOK
  <2>3. running' \in BOOLEAN /\ failed' = failed /\ cur' \subseteq Status /\ "DONE" \notin cur'
    BY DEF Returns, Status
  <2>4. OthersOK' /\ ~ failed' /\ "DONE" \notin cur'
    BY <1>1, <1>2, <2>1, <2>2, <2>3, OthersGood
  <2>5. Cursor'
    BY <1>1, InvIs DEF Cursor
  <2> QED BY <2>4, <2>5 DEF Quiet
<1> QED BY <1>17, <1>23, <1>24, StepKeeps

\* An include whose parameters are ready.
LEMMA IncludeParamsEndKeeps ==
  ASSUME NEW B, Inv(B), NEW e \in Elem, IncludeParamsEnd(e)
  PROVE  IInv'
<1>1. running /\ main # <<>> /\ Head(main) = Again(e) /\ Kin(e) = "include" /\ stage[e] = "PARAMS_END"
  <2>1. Calls("again", e, "include") /\ stage[e] = "PARAMS_END"
    BY DEF IncludeParamsEnd
  <2> QED BY <2>1, CallsIs
<1>2. CASE count[Tmp(e)] > 0 /\ WaitsOn(Tmp(e))
  <2>1. MayWait(Again(e), Tmp(e))
    BY <1>1, CallsDiffer DEF MayWait
  <2>2. Tmp(e) \in Node
    BY NodesDiffer
  <2> QED BY <1>1, <1>2, <2>1, <2>2, WaitKeeps
<1>3. CASE /\ count[Tmp(e)] = 0
           /\ requested' = requested \cup {e}
           /\ stage' = [stage EXCEPT ![e] = "READ_RESPONSE"]
           /\ main' = Rest
           /\ Returns({"SUBREQUEST"})
           /\ UNCHANGED <<document, val, bound, responseCur, sent, logged, host>>
  BY <1>1, <1>3, RequestKeeps DEF Rest
<1> QED BY <1>2, <1>3 DEF IncludeParamsEnd

-----------------------------------------------------------------------------
(***************************************************************************)
(* A call that gives up a hold and is left on a node that is still held.   *)
(***************************************************************************)
Parks(e, H, n) ==
  /\ main # <<>> /\ Head(main) = Again(e) /\ Kin(e) \in {"include", "log"}
  /\ Counts(e, H) /\ Queues(e, <<>>, n, Again(e)) /\ Leaves(e)
  /\ kids' = kids /\ requested' = requested
  /\ stage'[e] # "READ_RESPONSE"
  /\ Kin(e) = "include" => \/ stage'[e] = stage[e] /\ stage[e] = "PARAMS_BEGIN"
                           \/ stage'[e] = "END" /\ HasResult(e)
  /\ Set(e) \in Queued => stage'[e] = stage[e]
  /\ Source(sheet, e) = "nodelist" /\ Set(e) \in Queued => ~ InMain(Set(e))'
  /\ \A x \in Call : Kin(e) = "log" /\ Closes(x, e) => LogOrder(e, x)'

\* A call of an include that waits keeps the invariant.
LEMMA ParksKeeps ==
  ASSUME NEW B, Inv(B), NEW e \in Elem, NEW H, NEW n \in Node, Parks(e, H, n), OwnHolds(e, H),
         count'[n] > 0, MayWait(Again(e), n)', Quiet
  PROVE  IInv'
<1>1. /\ main # <<>> /\ Head(main) = Again(e) /\ Kin(e) \in {"include", "log"}
      /\ Counts(e, H) /\ Queues(e, <<>>, n, Again(e)) /\ Leaves(e)
      /\ kids' = kids /\ requested' = requested /\ sheet' = sheet /\ answer' = answer
      /\ stage'[e] # "READ_RESPONSE"
      /\ Kin(e) = "include" => \/ stage'[e] = stage[e] /\ stage[e] = "PARAMS_BEGIN"
                               \/ stage'[e] = "END" /\ HasResult(e)
      /\ Set(e) \in Queued => stage'[e] = stage[e]
      /\ Source(sheet, e) = "nodelist" /\ Set(e) \in Queued => ~ InMain(Set(e))'
  BY DEF Parks, Leaves
<1>2. /\ e \in B /\ Busy(e) /\ Phased(e) /\ ~ Awaits(e) /\ Stands(sheet, kids, Self(e))
      /\ Again(e) \in Queued /\ WellFormed(sheet)
  BY <1>1, LaterIs, InvIs
<1>3. Kin(e)' = Kin(e)
  BY <1>1 DEF Kin
<1>4. ToSet(<<>>) = {} /\ n # NULL /\ Again(e) # Set(e)
  BY ListedFew, NodesDiffer, CallsDiffer
<1>5. \A x : x \in Queued' <=> x \in Queued
  BY <1>1, <1>2, <1>4, QueuesAre
<1>6. ~ InMain(Again(e))'
  <2>1. \A m \in Node : Head(main) \notin ToSet(tcb[m])
    BY <1>1, HeadFirst
  <2> QED BY <1>1, <1>4, <2>1, QueuesAre
<1>7. Busy(e)' /\ Again(e) \in Queued' /\ (Set(e) \in Queued' <=> Set(e) \in Queued)
  BY <1>2, <1>5 DEF Busy
<1>8. /\ Alters(e, B, B, FALSE)
      /\ \A m \in Node : Loose(m)' <=> Loose(m)
      /\ \A m : Hangs(sheet, kids', m) <=> Hangs(sheet, kids, m)
      /\ \A m : Stands(sheet, kids', m) <=> Stands(sheet, kids, m)
      /\ HasResult(e)' <=> HasResult(e)
  BY <1>1, SameNodes
<1>9. Kin(e) = "include" /\ Early(e)' => Early(e)
  BY <1>1 DEF Early
<1>10. Opens(e, B, B, <<>>) /\ Opened(e, B, B, <<>>)
  <2>1. ASSUME NEW d \in Elem, Closed(B, e, sheet.slot[d])'
        PROVE  Closed(B, e, sheet.slot[d])
    BY <1>1, <1>2, <1>3, <1>9, <2>1 DEF Closed
  <2> QED BY <1>2, <1>4, <2>1 DEF Opens, Opened
<1>11. Step(e, B, B, H, <<>>, n, Again(e), FALSE)
  BY <1>1, <1>8, <1>10 DEF Step
<1>12. OwnNodes(e)
  <2>1. Stocked(e) /\ Unused(e)
    BY InvIs DEF Reserve, Spare
  <2>2. Stocked(e)'
    <3>1. Kin(e) = "include" => Hangs(sheet, kids', Tmp(e))
      BY <1>2, <1>8, <2>1 DEF Stocked
    <3>2. Kin(e) = "include" /\ stage'[e] = "END" => HasResult(e)'
      BY <1>1, <1>8
    <3>3. Set(e) \in Queued' /\ Kin(e) # "variable" /\ Source(sheet, e) = "nodelist" => Hangs(sheet, kids', Arg(e))
      BY <1>2, <1>7, <1>8, <2>1 DEF Stocked
    <3> QED BY <1>1, <1>3, <3>1, <3>2, <3>3 DEF Stocked
  <2>3. Unused(e)'
    <3>1. (Loose(Text(e))' <=> Loose(Text(e))) /\ (Loose(Ret(e))' <=> Loose(Ret(e)))
      BY <1>8, NodesDiffer
    <3> QED BY <1>1, <1>2, <1>3, <1>9, <2>1, <3>1 DEF Unused
  <2> QED BY <1>2, <1>8, <2>2, <2>3 DEF OwnNodes
<1>13. OwnCalls(e, n, Again(e))
  <2>1. ~ Awaits(e)'
    BY <1>1, <1>2 DEF Awaits
  <2>2. Phased(e)'
    BY <1>1, <1>2, <1>3, <1>6, <1>7, <2>1 DEF Phased
  <2>3. Paired(e)'
    BY <1>1, <1>6, <1>7 DEF Paired
  <2> QED BY <1>1, <2>2, <2>3 DEF OwnCalls
<1>14. OwnParts(e, <<>>)
  <2>1. ASSUME NEW d \in Elem, d # e, Busy(d), Kin(d) # "response"
        PROVE  KeptIn(d, e)'
    <3>1. KeptIn(d, e)
      BY <2>1, InvIs DEF Kept
    <3> QED BY <1>1, <1>3, <1>7, <1>9, <3>1 DEF KeptIn
  <2> QED BY <1>4, <2>1 DEF OwnParts
<1>15. OwnOrder(e, <<>>)
  <2>1. \A x \in Call : Kin(e) = "log" /\ Closes(x, e) => LogOrder(e, x)'
    BY DEF Parks
  <2> QED BY <1>4, <2>1 DEF OwnOrder
<1>16. Settles(e, H, <<>>, n, Again(e))
  BY <1>12, <1>13, <1>14, <1>15 DEF Settles
<1> QED BY <1>11, <1>16, StepKeeps

\* As long as the value of an include is to come, its parameters are held.
LEMMA ParamsWait ==
  ASSUME NEW B, Inv(B), NEW e \in Elem, main # <<>>, Head(main) = Again(e), Kin(e) = "include",
         Set(e) \in Queued, NEW H, Counts(e, H), \A h \in Holds : h # ParamsHold(e) => h \in H
  PROVE  /\ count'[Tmp(e)] > 0
         /\ Source(sheet, e) = "nodelist" => ~ InMain(Set(e))
         /\ Source(sheet, e) = "nodelist" =>
              \A m \in Node : Set(e) \in ToSet(tcb[m]) => count'[m] > 0
<1>1. WellFormed(sheet) /\ Placed /\ Pairs /\ count = Tally(sheet, Holds) /\ Holds \subseteq Hold
      /\ H \subseteq Hold /\ count' = Tally(sheet, H)
  BY InvIs DEF Counted, Counts
<1>2. Source(sheet, e) \in {"variable", "nodelist"}
  BY SetIs
<1>3. ValueHold(e) # ParamsHold(e)
  BY HoldsDiffer
<1>4. Tmp(e) \in Node /\ Tmp(e) \in Up(sheet, Tmp(e)) /\ Tmp(e) \in Up(sheet, Arg(e))
      /\ Arg(e) \in Node /\ Arg(e) \notin Up(sheet, Tmp(e))
  <2>1. Tmp(e) \in Node /\ Arg(e) \in Node
    BY NodesDiffer
  <2>2. Tmp(e) \in Up(sheet, Tmp(e))
    BY <1>1, <2>1, UpFacts
  <2>3. Tmp(e) \in Up(sheet, Arg(e))
    BY <1>1, UpOwn
  <2>4. Arg(e) \notin Up(sheet, Tmp(e))
    <3>1. Up(sheet, Tmp(e)) = {Tmp(e)} \cup Up(sheet, Self(e))
      BY <1>1, UpIs
    <3>2. Arg(e) \notin Up(sheet, Self(e)) /\ Arg(e) # Tmp(e)
      BY <1>1, UpOwn, NodesDiffer
    <3> QED BY <3>1, <3>2
  <2> QED BY <2>1, <2>2, <2>3, <2>4
<1>5. At(sheet, ParamsHold(e)) = Tmp(e)
  BY AtIs
<1>6. CASE Source(sheet, e) = "variable"
  <2>1. ValueHold(e) \in H
    BY <1>3, <1>6, HeldAre DEF HeldValue
  <2>2. At(sheet, ValueHold(e)) = Tmp(e)
    BY AtIs DEF Kin
  <2>3. count'[Tmp(e)] > 0
    BY <1>1, <1>4, <2>1, <2>2, TallyZero
  <2> QED BY <1>6, <2>3
<1>7. CASE Source(sheet, e) = "nodelist"
  <2>1. ~ InMain(Set(e))
    <3>1. ~ NextTo(main, Set(e), Again(e))
      BY HeadFirst
    <3>2. Paired(e)
      BY <1>1 DEF Pairs
    <3> QED BY <1>7, <3>1, <3>2 DEF Paired
  <2>2. ASSUME NEW m \in Node, Set(e) \in ToSet(tcb[m]) PROVE count'[m] > 0 /\ m = Arg(e)
    <3>1. count[m] > 0 /\ MayWait(Set(e), m)
      BY <2>2, InvIs, Waits
    <3>2. m = Arg(e)
      <4>1. Set(e)[1] = "set" /\ Set(e)[2] = e
        BY CallsDiffer
      <4> QED BY <1>7, <3>1, <4>1 DEF MayWait
    <3>3. PICK h \in Holds : m \in Up(sheet, At(sheet, h))
      <4>1. ~ (count[m] = 0)
        BY <3>1
      <4> QED BY <1>1, <4>1, TallyZero
    <3>4. h # ParamsHold(e)
      BY <1>4, <1>5, <3>2, <3>3
    <3>5. count'[m] > 0
      BY <1>1, <3>3, <3>4, TallyZero
    <3> QED BY <3>2, <3>5
  <2>3. PICK m \in Node : Set(e) \in ToSet(tcb[m])
    BY <2>1, QueuedIs DEF InMain
  <2>4. count'[Tmp(e)] > 0
    BY <1>1, <1>4, <2>2, <2>3, TallyUp
  <2> QED BY <2>1, <2>2, <2>4
<1> QED BY <1>2, <1>6, <1>7

\* What a release moves are calls.
LEMMA MovesCalls ==
  ASSUME NEW B, Inv(B), NEW h \in Holds, main # <<>>,
         NEW path, path = SPath(sheet)[At(sheet, h)]
  PROVE  /\ Moved(count, tcb, path) \in Seq(Call)
         /\ Joined(Tail(main), Moved(count, tcb, path)) \in Seq(Call)
         /\ Joined(Tail(main), Moved(count, tcb, path)) \o <<>> = Joined(Tail(main), Moved(count, tcb, path))
<1>1. WellFormed(sheet) /\ tcb \in [Node -> Seq(Call)] /\ count \in [Node -> Nat] /\ main \in Seq(Call)
      /\ Holds \subseteq Hold
  BY InvIs
<1>2. At(sheet, h) \in Node
  BY <1>1, AtIs
<1>3. path \in Seq(Node)
  BY <1>1, <1>2, PathGood DEF GoodPath
<1>4. Moved(count, tcb, path) \in Seq(Call)
  BY <1>1, <1>3, MovedType
<1>5. Tail(main) \in Seq(Call)
  BY <1>1
<1> QED BY <1>4, <1>5 DEF Joined

\* The parameters of an include are ready, or have only to be computed.
LEMMA ParamsMore ==
  ASSUME NEW B, Inv(B), NEW e \in Elem, running, main # <<>>, Head(main) = Again(e), Kin(e) = "include",
         stage[e] = "PARAMS_BEGIN", Set(e) \notin Queued, NEW H, Counts(e, H),
         SelfHold(e) \in H, ValueHold(e) \notin H, ParamsHold(e) \notin H, ResultHold(e) \notin H,
         Queues(e, << Again(e) >>, NULL, NULL), stage' = [stage EXCEPT ![e] = "PARAMS_END"], Goes,
         UNCHANGED <<kids, val, bound, output, host>>
  PROVE  IInv'
<1> DEFINE cbs == << Again(e) >>
<1>1. /\ kids' = kids /\ val' = val /\ bound' = bound /\ sheet' = sheet /\ answer' = answer
      /\ requested' = requested /\ responseCur' = responseCur /\ UNCHANGED <<output, host>>
  BY DEF output, host
<1>2. /\ stage' \in [Elem -> Stage] /\ stage'[e] = "PARAMS_END"
      /\ \A f \in Elem : f # e => stage'[f] = stage[f]
  <2>1. "PARAMS_END" \in Stage
    BY DEF Stage
  <2> QED BY <2>1, OwnSame
<1>3. e \in B /\ Busy(e) /\ Stands(sheet, kids, Self(e)) /\ WellFormed(sheet)
  BY LaterIs, InvIs
<1>4. Kin(e)' = Kin(e) /\ Early(e) /\ Early(e)'
  BY <1>1, <1>2 DEF Kin, Early
<1>5. Hangs(sheet, kids, Tmp(e)) /\ Loose(Text(e)) /\ Loose(Ret(e))
  BY <1>3, <1>4, InvIs DEF Reserve, Spare, Stocked, Unused
<1>6. Clear(e)
  BY <1>4, ClearIs
<1>7. Listed(e, cbs) /\ ToSet(cbs) = {Again(e)}
  BY ListedFew
<1> HIDE DEF cbs
<1>8. Again(e) # Set(e) /\ \A d \in Elem : First(d) \notin ToSet(cbs)
  BY <1>7, CallsDiffer
<1>9. /\ Alters(e, B, B, FALSE)
      /\ \A n \in Node : Loose(n)' <=> Loose(n)
      /\ \A n : Hangs(sheet, kids', n) <=> Hangs(sheet, kids, n)
      /\ \A n : Stands(sheet, kids', n) <=> Stands(sheet, kids, n)
      /\ HasResult(e)' <=> HasResult(e)
  BY <1>1, SameNodes
<1>10. Leaves(e)
  BY <1>1, <1>2 DEF Leaves
<1>11. Opens(e, B, B, cbs) /\ Opened(e, B, B, cbs)
  <2>1. ASSUME NEW d \in Elem, Closed(B, e, sheet.slot[d])'
        PROVE  Closed(B, e, sheet.slot[d])
    BY <1>1, <1>3, <1>4, <2>1 DEF Closed
  <2> QED BY <1>3, <1>8, <2>1 DEF Opens, Opened
<1>12. ~ HeldResult(e)'
  BY <1>2 DEF HeldResult
<1>13. More(e, H, cbs)
  BY <1>7, <1>8, <1>10, <1>12 DEF More, cbs
<1>14. MoreNodes(e)
  <2>1. Loose(Text(e))' /\ Loose(Ret(e))'
    BY <1>5, <1>9, NodesDiffer
  <2> QED BY <1>2, <1>3, <1>5, <1>9, <2>1 DEF MoreNodes
<1>15. Quiet
  <2>1. val' \in [Elem -> {Unset} \cup Seq(Elem)] /\ bound' \in [Elem -> {"no", "document", "value"}]
    BY <1>1, OwnSame
  <2>2. OthersOK' /\ ~ failed' /\ "DONE" \notin cur'
    BY <1>1, <1>2, <2>1, OthersSame
  <2>3. Cursor'
    BY <1>1, InvIs DEF Cursor
  <2> QED BY <2>2, <2>3 DEF Quiet
<1> QED BY <1>1, <1>6, <1>9, <1>11, <1>13, <1>14, <1>15, MoreKeeps

\* An include at its parameters.
LEMMA IncludeParamsBeginKeeps ==
  ASSUME NEW B, Inv(B), NEW e \in Elem, IncludeParamsBegin(e)
  PROVE  IInv'
<1> DEFINE path == PathIn(kids, Tmp(e))
           H == Holds \ {ParamsHold(e)}
<1>1. running /\ main # <<>> /\ Head(main) = Again(e) /\ Kin(e) = "include" /\ stage[e] = "PARAMS_BEGIN"
  <2>1. Calls("again", e, "include") /\ stage[e] = "PARAMS_BEGIN"
    BY DEF IncludeParamsBegin
  <2> QED BY <2>1, CallsIs
<1>2. Goes /\ UNCHANGED <<kids, val, bound, output, host>>
  BY DEF IncludeParamsBegin
<1>3. /\ kids' = kids /\ val' = val /\ bound' = bound /\ sheet' = sheet /\ answer' = answer
      /\ requested' = requested /\ responseCur' = responseCur /\ UNCHANGED <<output, host>>
  BY <1>2 DEF output, host
<1>4. /\ Busy(e) /\ Phased(e) /\ Stands(sheet, kids, Self(e)) /\ WellFormed(sheet) /\ TreeOK(sheet, kids)
      /\ InMain(Again(e)) /\ Hangs(sheet, kids, Tmp(e)) /\ Tmp(e) \in Node /\ count \in [Node -> Nat]
  BY <1>1, LaterIs, InvIs, NodesDiffer DEF Reserve, Stocked
<1>5. path = SPath(sheet)[At(sheet, ParamsHold(e))]
  <2>1. Stands(sheet, kids, Tmp(e))
    <3>1. Up(sheet, Tmp(e)) = {Tmp(e)} \cup Up(sheet, Self(e))
      BY <1>4, UpIs
    <3> QED BY <1>4, <3>1 DEF Stands
  <2>2. path = SPath(sheet)[Tmp(e)]
    BY <1>4, <2>1, PathIs
  <2>3. At(sheet, ParamsHold(e)) = Tmp(e)
    BY AtIs
  <2> QED BY <2>2, <2>3
<1>6. ParamsHold(e) \in Holds <=> count[Tmp(e)] > 0
  BY <1>1, <1>4, HeldAre DEF HeldParams
<1>7. /\ SelfHold(e) \in H /\ ParamsHold(e) \notin H /\ ResultHold(e) \notin H
      /\ ValueHold(e) \in H <=> HeldValue(e)
  <2>1. HeldSelf(e) /\ ~ HeldResult(e)
    BY <1>1, <1>4 DEF HeldSelf, HeldResult
  <2> QED BY <2>1, HeldAre, HoldsDiffer
<1>8. /\ count[Tmp(e)] > 0 => /\ count' = Decreased(count, path)
                              /\ \/ /\ count'[Tmp(e)] > 0 /\ stage' = stage
                                    /\ tcb' = Parked(Drained(count, tcb, path), Tmp(e), Again(e))
                                    /\ main' = Joined(Tail(main), Moved(count, tcb, path))
                                 \/ /\ ~ (count'[Tmp(e)] > 0)
                                    /\ tcb' = Drained(count, tcb, path)
                                    /\ main' = Joined(Tail(main), Moved(count, tcb, path)) \o << Again(e) >>
                                    /\ stage' = [stage EXCEPT ![e] = "PARAMS_END"]
      /\ ~ (count[Tmp(e)] > 0) => /\ count' = count /\ tcb' = tcb
                                  /\ main' = Joined(Tail(main), <<>>) \o << Again(e) >>
                                  /\ stage' = [stage EXCEPT ![e] = "PARAMS_END"]
  <2> HIDE DEF H
  <2> USE DEF Rest, Again
  <2>1. CASE count[Tmp(e)] > 0
    BY <2>1 DEF IncludeParamsBegin
  <2>2. CASE ~ (count[Tmp(e)] > 0)
    BY <2>2 DEF IncludeParamsBegin
  <2> QED BY <2>1, <2>2
<1> HIDE DEF path
<1>9. CASE ~ (count[Tmp(e)] > 0)
  <2>1. count[Tmp(e)] = 0 /\ H = Holds
    BY <1>4, <1>6, <1>9
  <2>2. Set(e) \notin Queued
    BY <1>1, <1>4, <2>1, ValueCome
  <2>3. Counts(e, Holds)
    BY <1>3, <1>8, <1>9, InvIs DEF Counts, Counted
  <2>4. Queues(e, << Again(e) >>, NULL, NULL)
    <3>1. Listed(e, << Again(e) >>) /\ ToSet(<< Again(e) >>) = {Again(e)}
      BY ListedFew
    <3>2. Set(e) # Again(e) /\ \A d \in Elem : First(d) # Again(e)
      BY CallsDiffer
    <3>3. main' = Tail(main) \o << Again(e) >>
      <4>1. Tail(main) \in Seq(Call)
        BY <1>1, InvIs
      <4> QED BY <1>8, <1>9, <4>1 DEF Joined
    <3> QED BY <1>1, <1>8, <1>9, <2>2, <2>3, <3>1, <3>2, <3>3, MoreQueues
  <2>5. ValueHold(e) \notin H
    BY <1>7, <2>2 DEF HeldValue
  <2> HIDE DEF H
  <2> QED BY <1>1, <1>2, <1>7, <1>8, <1>9, <2>1, <2>2, <2>3, <2>4, <2>5, ParamsMore
<1>10. CASE count[Tmp(e)] > 0
  <2>1. ParamsHold(e) \in Holds /\ ParamsHold(e)[2] = e
    BY <1>6, <1>10, HoldsDiffer
  <2>2. Joined(Tail(main), Moved(count, tcb, path)) \o <<>> = Joined(Tail(main), Moved(count, tcb, path))
    BY <1>1, <1>5, <2>1, MovesCalls
  <2>3. count' = Decreased(count, path)
    BY <1>8, <1>10
  <2>4. CASE /\ count'[Tmp(e)] > 0 /\ stage' = stage
             /\ tcb' = Parked(Drained(count, tcb, path), Tmp(e), Again(e))
             /\ main' = Joined(Tail(main), Moved(count, tcb, path))
    <3>1. Scheduled(e, <<>>, Tmp(e), Again(e))
      BY <1>1, <1>4, SchedulesNone
    <3>2. Counts(e, H) /\ Queues(e, <<>>, Tmp(e), Again(e))
      <4>1. Tmp(e) # NULL
        BY NodesDiffer
      <4> QED BY <1>1, <1>5, <2>1, <2>2, <2>3, <2>4, <3>1, <4>1, ReleaseTurn
    <3>3. /\ ToSet(<<>>) = {} /\ Tmp(e) # NULL /\ Again(e) # Set(e)
      <4>1. ToSet(<<>>) = {}
        BY ListedFew
      <4>2. Tmp(e) # NULL
        BY NodesDiffer
      <4>3. Again(e) # Set(e)
        BY CallsDiffer
      <4> QED BY <4>1, <4>2, <4>3
    <3>4. Leaves(e)
      BY <1>3, <2>4 DEF Leaves
    <3>5. Source(sheet, e) = "nodelist" /\ Set(e) \in Queued => ~ InMain(Set(e))'
      <4> SUFFICES ASSUME Source(sheet, e) = "nodelist", Set(e) \in Queued PROVE ~ InMain(Set(e))'
        OBVIOUS
      <4>1. /\ ~ InMain(Set(e))
            /\ \A m \in Node : Set(e) \in ToSet(tcb[m]) => count'[m] > 0
        <5>1. \A h \in Holds : h # ParamsHold(e) => h \in H
          OBVIOUS
        <5> HIDE DEF H
        <5> QED BY <1>1, <3>2, <5>1, ParamsWait
      <4>2. \A m \in Node : Set(e) \in ToSet(tcb[m]) => ~ (count'[m] = 0)
        BY <4>1
      <4> QED BY <3>2, <3>3, <4>1, <4>2, QueuesAre
    <3>6. Kin(e)' = Kin(e)
      BY <1>3 DEF Kin
    <3>7. Parks(e, H, Tmp(e))
      BY <1>1, <1>3, <2>4, <3>2, <3>4, <3>5 DEF Parks
    <3>8. \A x : x \in Queued' <=> x \in Queued
      <4>1. Again(e) \in Queued
        BY <1>1, LaterIs
      <4> QED BY <1>1, <3>2, <3>3, <4>1, QueuesAre
    <3>9. ~ InMain(Again(e))'
      <4>1. \A m \in Node : Head(main) \notin ToSet(tcb[m])
        BY <1>1, HeadFirst
      <4> QED BY <1>1, <3>2, <3>3, <4>1, QueuesAre
    <3>10. OwnHolds(e, H)
      <4>1. HeldSelf(e)'
        BY <1>1, <1>4, <2>4, <3>6, <3>8 DEF HeldSelf, Busy
      <4>2. HeldValue(e)' <=> HeldValue(e)
        BY <1>3, <3>8 DEF HeldValue
      <4>3. ~ HeldParams(e)'
        BY <3>9 DEF HeldParams
      <4>4. ~ HeldResult(e)'
        BY <1>1, <2>4 DEF HeldResult
      <4> QED BY <1>7, <4>1, <4>2, <4>3, <4>4 DEF OwnHolds
    <3>11. MayWait(Again(e), Tmp(e))'
      <4>1. Again(e)[1] = "again" /\ Again(e)[2] = e
        BY CallsDiffer
      <4> QED BY <1>1, <2>4, <3>6, <4>1 DEF MayWait
    <3>12. Quiet
      <4>1. /\ stage' \in [Elem -> Stage] /\ val' \in [Elem -> {Unset} \cup Seq(Elem)]
            /\ bound' \in [Elem -> {"no", "document", "value"}]
        BY <1>3, <2>4, OwnSame
      <4>2. OthersOK' /\ ~ failed' /\ "DONE" \notin cur'
        BY <1>1, <1>2, <1>3, <4>1, OthersSame
      <4>3. Cursor'
        BY <1>3, InvIs DEF Cursor
      <4> QED BY <4>2, <4>3 DEF Quiet
    <3> HIDE DEF H
    <3> QED BY <1>4, <2>4, <3>7, <3>10, <3>11, <3>12, ParksKeeps
  <2>5. CASE /\ ~ (count'[Tmp(e)] > 0)
             /\ tcb' = Drained(count, tcb, path)
             /\ main' = Joined(Tail(main), Moved(count, tcb, path)) \o << Again(e) >>
             /\ stage' = [stage EXCEPT ![e] = "PARAMS_END"]
    <3>1. Scheduled(e, << Again(e) >>, NULL, NULL)
      BY <1>1, SchedulesOne
    <3>2. Counts(e, H) /\ Queues(e, << Again(e) >>, NULL, NULL)
      BY <1>1, <1>5, <2>1, <2>3, <2>5, <3>1, ReleaseTurn
    <3>3. Set(e) \notin Queued
      <4> SUFFICES ASSUME Set(e) \in Queued PROVE FALSE
        OBVIOUS
      <4>1. \A h \in Holds : h # ParamsHold(e) => h \in H
        OBVIOUS
      <4> HIDE DEF H
      <4>2. count'[Tmp(e)] > 0
        BY <1>1, <3>2, <4>1, ParamsWait
      <4> QED BY <2>5, <4>2
    <3>4. ValueHold(e) \notin H
      BY <1>7, <3>3 DEF HeldValue
    <3> HIDE DEF H
    <3> QED BY <1>1, <1>2, <1>7, <2>5, <3>2, <3>3, <3>4, ParamsMore
  <2> QED BY <1>8, <1>10, <2>4, <2>5
<1> QED BY <1>9, <1>10

\* An include enters the branch its answer has chosen.
LEMMA BranchIs ==
  ASSUME NEW B, Inv(B), NEW e \in Elem, IncludeBranch(e), NEW K, K = WithChild(kids, Self(e), Ret(e))
  PROVE  /\ running /\ main # <<>> /\ Head(main) = Again(e) /\ Kin(e) = "include"
         /\ stage[e] \in {"SUCCESS", "FAILURE"} /\ ~ HasResult(e)
         /\ e \in B /\ Busy(e) /\ Set(e) \notin Queued /\ OnlySelf(e) /\ Clear(e) /\ HeldSelf(e)
         /\ Puts(e, kids, Self(e), Ret(e), K)
         /\ Stands(sheet, kids, Self(e)) /\ Hangs(sheet, kids, Tmp(e))
         /\ Detached(K, Text(e)) /\ Branch(e) # "value" /\ Closed(B, e, Branch(e))
<1>1. running /\ main # <<>> /\ Head(main) = Again(e) /\ Kin(e) = "include"
  <2>1. Calls("again", e, "include")
    BY DEF IncludeBranch
  <2> QED BY <2>1, CallsIs
<1>2. stage[e] \in {"SUCCESS", "FAILURE"} /\ ~ HasResult(e)
  BY DEF IncludeBranch, HasResult
<1>3. Early(e)
  BY <1>2 DEF Early
<1>4. e \in B /\ Busy(e) /\ Phased(e) /\ Stands(sheet, kids, Self(e)) /\ WellFormed(sheet)
  BY <1>1, LaterIs, InvIs
<1>5. Set(e) \notin Queued
  BY <1>1, <1>2, <1>4 DEF Phased
<1>6. OnlySelf(e)
  BY <1>1, <1>2, <1>5, OnlySelfIs DEF HeldResult
<1>7. Clear(e)
  BY <1>1, <1>3, <1>5, ClearIs
<1>8. HeldSelf(e)
  BY <1>1, <1>4 DEF HeldSelf
<1>9. Hangs(sheet, kids, Tmp(e)) /\ Loose(Text(e)) /\ Loose(Ret(e))
  BY <1>1, <1>3, <1>4, InvIs DEF Reserve, Spare, Stocked, Unused
<1>10. Puts(e, kids, Self(e), Ret(e), K)
  <2>1. Grows(e, kids, kids)
    BY InvIs DEF Grows
  <2>2. Detached(kids, Ret(e))
    BY <1>9 DEF Loose, Detached
  <2>3. Ret(e) \in Mine(e)
    BY DEF Mine
  <2>4. Self(e) = Above(sheet, Ret(e))
    BY AboveIs
  <2>5. Rank(Self(e)) < Rank(Ret(e))
    BY RankIs, ElemNumbers
  <2>6. Self(e) \in Node
    BY NodesDiffer
  <2> QED BY <1>4, <2>1, <2>2, <2>3, <2>4, <2>5, <2>6, NextGrows
<1>11. Detached(K, Text(e))
  <2>1. Detached(kids, Text(e))
    BY <1>9 DEF Loose, Detached
  <2>2. Text(e) # Ret(e)
    BY NodesDiffer
  <2> QED BY <1>10, <2>1, <2>2 DEF Puts
<1>12. Branch(e) # "value"
  BY DEF Branch
<1>13. Closed(B, e, Branch(e))
  BY <1>1, <1>3, <1>12 DEF Closed
<1> QED BY <1>1, <1>2, <1>4, <1>5, <1>6, <1>7, <1>8, <1>9, <1>10, <1>11, <1>12, <1>13

\* The document stands for the result, or there is none.
LEMMA BranchEnds ==
  ASSUME NEW B, Inv(B), NEW e \in Elem, IncludeBranch(e),
         NEW K, K = WithChild(kids, Self(e), Ret(e)),
         NEW ns, ns = IF stage[e] = "SUCCESS" THEN << Text(e) >> ELSE <<>>,
         Releases(Self(e), <<>>), kids' = Replaced(K, e, ns), responseCur' = CurAfter(K, Self(e), ns),
         stage' = [stage EXCEPT ![e] = "END"], Goes,
         UNCHANGED <<val, bound, sent, logged, requested, host>>
  PROVE  IInv'
<1>1. /\ running /\ main # <<>> /\ Head(main) = Again(e) /\ Kin(e) = "include"
      /\ Set(e) \notin Queued /\ OnlySelf(e) /\ Clear(e)
      /\ Grows(e, kids, K) /\ Detached(K, Text(e))
  BY BranchIs DEF Puts
<1>2. Result(e, K, ns)
  BY <1>1 DEF Result
<1> HIDE DEF IncludeBranch
<1> QED BY <1>1, <1>2, FinishKeeps

\* A branch with more than texts.
LEMMA BranchLists ==
  ASSUME NEW B, Inv(B), NEW e \in Elem, IncludeBranch(e),
         kids' = WithChild(kids, Self(e), Ret(e)), count' = Increased(count, PathIn(kids', Ret(e))),
         main' = Tail(main) \o Firsts(e, Branch(e)) \o << Again(e) >>,
         tcb' = tcb, stage' = stage, responseCur' = responseCur, Goes,
         UNCHANGED <<val, bound, sent, logged, requested, host>>
  PROVE  IInv'
<1> DEFINE cbs == Firsts(e, Branch(e)) \o << Again(e) >>
           H == Holds \cup {ResultHold(e)}
<1>1. /\ running /\ main # <<>> /\ Head(main) = Again(e) /\ Kin(e) = "include"
      /\ stage[e] \in {"SUCCESS", "FAILURE"} /\ ~ HasResult(e)
      /\ e \in B /\ Busy(e) /\ Set(e) \notin Queued /\ OnlySelf(e) /\ Clear(e) /\ HeldSelf(e)
      /\ Puts(e, kids, Self(e), Ret(e), kids')
      /\ Stands(sheet, kids, Self(e)) /\ Hangs(sheet, kids, Tmp(e))
      /\ Detached(kids', Text(e)) /\ Branch(e) # "value" /\ Closed(B, e, Branch(e))
  BY BranchIs
<1>2. /\ val' = val /\ bound' = bound /\ sheet' = sheet /\ answer' = answer
      /\ requested' = requested /\ UNCHANGED <<output, host>>
  BY DEF output, host
<1>3. WellFormed(sheet) /\ count = Tally(sheet, Holds) /\ Holds \subseteq Hold /\ B \subseteq Elem
      /\ Tmp(e) \in Node /\ Self(e) \in Node
  BY InvIs, LaterIs, <1>1, NodesDiffer DEF Counted
<1>4. main' = Tail(main) \o cbs
  <2>1. main \in Seq(Call)
    BY InvIs
  <2>2. Tail(main) \in Seq(Call)
    BY <1>1, <2>1
  <2> QED BY <2>2, ListJoined
<1>5. Listed(e, cbs) /\ Again(e) \in ToSet(cbs) /\ Set(e) \notin ToSet(cbs) /\ OnlyIn(e, Branch(e), cbs)
  BY <1>1, ListedContent
<1> HIDE DEF cbs, IncludeBranch
<1>6. /\ SelfHold(e) \in Holds /\ ValueHold(e) \notin Holds /\ ParamsHold(e) \notin Holds
      /\ ResultHold(e) \notin Holds
  <2>1. ~ HeldValue(e) /\ ~ HeldParams(e) /\ ~ HeldResult(e)
    BY <1>1 DEF HeldValue, HeldParams, HeldResult
  <2> QED BY <1>1, <2>1, HeldAre
<1>7. /\ SelfHold(e) # ResultHold(e) /\ ValueHold(e) # ResultHold(e) /\ ParamsHold(e) # ResultHold(e)
      /\ ResultHold(e) \in Hold /\ ResultHold(e)[2] = e
  BY HoldsDiffer
<1>8. count' = Tally(sheet, H) /\ H \subseteq Hold
  <2>1. PathIn(kids', Ret(e)) = SPath(sheet)[At(sheet, ResultHold(e))]
    <3>1. PathIn(kids', Ret(e)) = SPath(sheet)[Ret(e)]
      BY <1>1 DEF Puts
    <3>2. At(sheet, ResultHold(e)) = Ret(e)
      BY AtIs
    <3> QED BY <3>1, <3>2
  <2> QED BY <1>3, <1>6, <1>7, <2>1, TallyAdd
<1>9. Counts(e, H)
  BY <1>6, <1>7, <1>8 DEF Counts
<1>10. \A d \in Elem : First(d) \in ToSet(cbs) =>
         Closed(B, e, sheet.slot[d]) /\ sheet.slot[d] # "value"
  BY <1>1, <1>5 DEF OnlyIn
<1>11. Queues(e, cbs, NULL, NULL)
  BY <1>1, <1>4, <1>5, <1>9, <1>10, MoreQueues
<1>12. Grows(e, kids, kids') /\ Stands(sheet, kids', Self(e)) /\ Hangs(sheet, kids', Tmp(e))
       /\ Ret(e) \in ToSet(kids'[Self(e)])
  BY <1>1, <1>3 DEF Puts
<1>13. Alters(e, B, B, FALSE)
  BY <1>3, <1>12, GrowsAlters
<1>14. Leaves(e)
  BY <1>2 DEF Leaves
<1>15. Kin(e)' = Kin(e) /\ HasResult(e)'
  BY <1>2, <1>12 DEF Kin, HasResult
<1>16. ~ Early(e)' /\ HeldResult(e)'
  BY <1>1, <1>15 DEF Early, HeldResult
<1>17. Opens(e, B, B, cbs) /\ Opened(e, B, B, cbs)
  <2>1. \A d \in Elem : ~ Closed(B, e, sheet.slot[d])'
    BY <1>1, <1>2, <1>15, <1>16 DEF Closed
  <2> QED BY <1>1, <1>5, <2>1, PartOpens
<1>18. More(e, H, cbs)
  BY <1>1, <1>5, <1>6, <1>7, <1>9, <1>10, <1>11, <1>14, <1>16 DEF More
<1>19. MoreNodes(e)
  <2>1. Loose(Text(e))'
    BY <1>1 DEF Loose, Detached
  <2> QED BY <1>1, <1>12, <1>15, <2>1 DEF MoreNodes
<1>20. Quiet
  <2>1. /\ val' \in [Elem -> {Unset} \cup Seq(Elem)] /\ bound' \in [Elem -> {"no", "document", "value"}]
        /\ stage' \in [Elem -> Stage]
    BY <1>2, OwnSame
  <2>2. OthersOK' /\ ~ failed' /\ "DONE" \notin cur'
    BY <1>1, <1>2, <2>1, OthersSame
  <2>3. ToSet(kids[Response]) \subseteq ToSet(kids'[Response])
    BY <1>12, NodesDiffer DEF Grows
  <2>4. Cursor'
    BY <2>3, InvIs DEF Cursor
  <2> QED BY <2>2, <2>4 DEF Quiet
<1> HIDE DEF H
<1> QED BY <1>1, <1>2, <1>13, <1>17, <1>18, <1>19, <1>20, MoreKeeps

\* What ns adds to the node p.
Attached(p, K, K2, ns) ==
  \A m \in Node : \A n : n \in ToSet(K2[m]) <=> n \in ToSet(K[m]) \/ (m = p /\ n \in ToSet(ns))

Texts(e, slot) ==
  [i \in DOMAIN Children(sheet, e, slot) |-> Self(Children(sheet, e, slot)[i])]

\* What is put under a node is behind what it holds.
LEMMA AttachWhole ==
  ASSUME NEW s, NEW K, TreeOK(s, K), NEW p \in Node, NEW ns \in Seq(Node), FitsAll(s, K, p, ns)
  PROVE  TreeOK(s, WithChildren(K, p, ns)) /\ Attached(p, K, WithChildren(K, p, ns), ns)
<1>1. /\ TreeOK(s, WithChildren(K, p, ns))
      /\ \A m \in Node : ToSet(WithChildren(K, p, ns)[m]) =
           IF m = p THEN ToSet(K[m]) \cup ToSet(ns) ELSE ToSet(K[m])
  BY AttachAll
<1>2. TreeOK(s, WithChildren(K, p, ns))
  BY <1>1
<1>3. \A m \in Node : ToSet(WithChildren(K, p, ns)[m]) =
        IF m = p THEN ToSet(K[m]) \cup ToSet(ns) ELSE ToSet(K[m])
  BY <1>1
<1>4. ASSUME NEW m \in Node, NEW n
      PROVE  n \in ToSet(WithChildren(K, p, ns)[m]) <=>
               n \in ToSet(K[m]) \/ (m = p /\ n \in ToSet(ns))
  <2>1. CASE m = p
    BY <1>3, <2>1
  <2>2. CASE m # p
    BY <1>3, <2>2
  <2> QED BY <2>1, <2>2
<1> QED BY <1>2, <1>4 DEF Attached

\* The texts of a branch, put under the node of the result.
LEMMA TextsAttach ==
  ASSUME NEW B, Inv(B), NEW e \in Elem, Kin(e) = "include", NEW slot, slot # "value", Closed(B, e, slot),
         NEW K, Puts(e, kids, Self(e), Ret(e), K),
         NEW K2, K2 = WithChildren(K, Ret(e), Texts(e, slot)),
         NEW cs, cs = Children(sheet, e, slot)
  PROVE  /\ TreeOK(sheet, K2)
         /\ \A m \in Node : \A n : n \in ToSet(K2[m]) <=>
              n \in ToSet(K[m]) \/ (m = Ret(e) /\ \E c \in ToSet(cs) : n = Self(c))
         /\ \A c \in ToSet(cs) : c \notin B /\ sheet.up[c] = e /\ sheet.slot[c] = slot /\ c \in Elem
<1> DEFINE ns == Texts(e, slot)
<1>0. ns = [i \in DOMAIN cs |-> Self(cs[i])]
  BY DEF Texts
<1>1. WellFormed(sheet) /\ TreeOK(sheet, K)
  BY InvIs DEF Puts, Grows
<1>2. /\ cs \in Seq(Elem) /\ IsInjective(cs) /\ ToSet(cs) = ChildSet(sheet, e, slot)
  BY ChildrenAre
<1>3. ns \in Seq(Node) /\ DOMAIN ns = DOMAIN cs
  <2>1. DOMAIN cs = 1..Len(cs) /\ Len(cs) \in Nat /\ \A i \in 1..Len(cs) : cs[i] \in Elem
    BY <1>2
  <2>2. \A i \in 1..Len(cs) : ns[i] \in Node
    BY <1>0, <2>1, NodesDiffer
  <2>3. ns \in Seq(Node)
    BY <1>0, <2>1, <2>2, SegmentIsSeq
  <2> QED BY <1>0, <2>3
<1>4. ToSet(ns) = {Self(c) : c \in ToSet(cs)}
  BY <1>0, <1>3 DEF ToSet
<1>5. IsInjective(ns)
  <2> SUFFICES ASSUME NEW i \in DOMAIN cs, NEW j \in DOMAIN cs, ns[i] = ns[j] PROVE i = j
    BY <1>3 DEF IsInjective
  <2>1. cs[i] \in Elem /\ cs[j] \in Elem
    BY <1>2
  <2>2. cs[i] = cs[j]
    BY <1>0, <2>1, NodesDiffer
  <2> QED BY <1>2, <2>2 DEF IsInjective
<1>6. ASSUME NEW c \in ToSet(cs)
      PROVE  /\ c \notin B /\ sheet.up[c] = e /\ sheet.slot[c] = slot /\ c \in Elem
             /\ Detached(K, Self(c)) /\ Fits(sheet, Ret(e), Self(c))
  <2>1. c \in Elem /\ sheet.up[c] = e /\ sheet.slot[c] = slot /\ e # 0
    BY <1>2, ElemNumbers DEF ChildSet
  <2>2. c \notin B
    BY <2>1, InvIs DEF Begun
  <2>3. Loose(Self(c))
    <3>1. \A r \in Role : Loose(<< r, c >>)
      BY <2>1, <2>2, InvIs DEF Begun, Blank
    <3>2. "self" \in Role
      BY DEF Role
    <3>3. Loose(<< "self", c >>)
      BY <3>1, <3>2
    <3> QED BY <3>3 DEF Self
  <2>4. Self(c) \in Node /\ Self(c) # Ret(e) /\ Self(c) \notin {Doc, Response, Var}
        /\ \A f \in Elem : Self(c) \notin {Tmp(f), Arg(f), Ret(f)}
    BY <2>1, NodesDiffer
  <2>5. Detached(K, Self(c))
    <3>1. Detached(kids, Self(c))
      BY <2>3 DEF Loose, Detached
    <3> QED BY <2>4, <3>1 DEF Puts
  <2>6. Rank(Ret(e)) < Rank(Self(c))
    <3>1. Rank(Ret(e)) = 5 * e + 2 /\ Rank(Self(c)) = 5 * c /\ e \in Nat /\ c \in Nat
      BY <2>1, RankIs, ElemNumbers
    <3>2. e < c
      BY <1>1, <2>1 DEF WellFormed
    <3> QED BY <3>1, <3>2
  <2> QED BY <2>1, <2>2, <2>4, <2>5, <2>6 DEF Fits
<1>7. FitsAll(sheet, K, Ret(e), ns)
  BY <1>4, <1>5, <1>6 DEF FitsAll
<1>8. Ret(e) \in Node
  BY NodesDiffer
<1> HIDE DEF ns
<1>9. /\ TreeOK(sheet, WithChildren(K, Ret(e), ns))
      /\ Attached(Ret(e), K, WithChildren(K, Ret(e), ns), ns)
  <2>1. TreeOK(sheet, K) /\ FitsAll(sheet, K, Ret(e), ns) /\ Ret(e) \in Node /\ ns \in Seq(Node)
    BY <1>1, <1>3, <1>7, <1>8
  <2> HIDE DEF Puts
  <2> QED BY <2>1, AttachWhole
<1>10. K2 = WithChildren(K, Ret(e), ns)
  BY DEF ns
<1>11. ASSUME NEW m \in Node, NEW n
       PROVE  n \in ToSet(K2[m]) <=>
                n \in ToSet(K[m]) \/ (m = Ret(e) /\ \E c \in ToSet(cs) : n = Self(c))
  <2>1. n \in ToSet(K2[m]) <=> n \in ToSet(K[m]) \/ (m = Ret(e) /\ n \in ToSet(ns))
    BY <1>9, <1>10 DEF Attached
  <2>2. n \in ToSet(ns) <=> \E c \in ToSet(cs) : n = Self(c)
    BY <1>4
  <2> QED BY <2>1, <2>2
<1>12. TreeOK(sheet, K2)
  BY <1>9, <1>10
<1> QED BY <1>6, <1>11, <1>12

\* A branch of texts alone.
LEMMA BranchTexts ==
  ASSUME NEW B, Inv(B), NEW e \in Elem, IncludeBranch(e), NEW cs, cs = Children(sheet, e, Branch(e)),
         IsText(e, Branch(e)), NEW K, K = WithChild(kids, Self(e), Ret(e)),
         kids' = WithChildren(K, Ret(e), Texts(e, Branch(e))),
         main' = Append(Tail(main), Again(e)), stage' = [stage EXCEPT ![e] = "END"],
         count' = count, tcb' = tcb, responseCur' = responseCur, Goes,
         UNCHANGED <<val, bound, sent, logged, requested, host>>
  PROVE  IInv'
<1> DEFINE cbs == << Again(e) >>
           B2 == B \cup ToSet(cs)
<1>1. /\ running /\ main # <<>> /\ Head(main) = Again(e) /\ Kin(e) = "include"
      /\ stage[e] \in {"SUCCESS", "FAILURE"} /\ ~ HasResult(e)
      /\ e \in B /\ Busy(e) /\ Set(e) \notin Queued /\ OnlySelf(e) /\ Clear(e) /\ HeldSelf(e)
      /\ Puts(e, kids, Self(e), Ret(e), K)
      /\ Stands(sheet, kids, Self(e)) /\ Hangs(sheet, kids, Tmp(e))
      /\ Detached(K, Text(e)) /\ Branch(e) # "value" /\ Closed(B, e, Branch(e))
  BY BranchIs
<1>2. /\ val' = val /\ bound' = bound /\ sheet' = sheet /\ answer' = answer
      /\ requested' = requested /\ UNCHANGED <<output, host>>
  BY DEF output, host
<1>3. /\ WellFormed(sheet) /\ count = Tally(sheet, Holds) /\ Holds \subseteq Hold /\ B \subseteq Elem
      /\ Tmp(e) \in Node /\ Self(e) \in Node /\ Ret(e) \in Node /\ Text(e) \in Node
  BY InvIs, LaterIs, <1>1, NodesDiffer DEF Counted
<1>4. /\ stage' \in [Elem -> Stage] /\ stage'[e] = "END"
      /\ \A f \in Elem : f # e => stage'[f] = stage[f]
  <2>1. "END" \in Stage
    BY DEF Stage
  <2> QED BY <2>1, OwnSame
<1>5. /\ TreeOK(sheet, kids')
      /\ \A m \in Node : \A n : n \in ToSet(kids'[m]) <=>
           n \in ToSet(K[m]) \/ (m = Ret(e) /\ \E c \in ToSet(cs) : n = Self(c))
      /\ \A c \in ToSet(cs) : c \notin B /\ sheet.up[c] = e /\ sheet.slot[c] = Branch(e) /\ c \in Elem
  <2>1. TreeOK(sheet, kids')
    BY <1>1, TextsAttach
  <2>2. \A m \in Node : \A n : n \in ToSet(kids'[m]) <=>
           n \in ToSet(K[m]) \/ (m = Ret(e) /\ \E c \in ToSet(cs) : n = Self(c))
    BY <1>1, TextsAttach
  <2>3. \A c \in ToSet(cs) : c \notin B /\ sheet.up[c] = e /\ sheet.slot[c] = Branch(e) /\ c \in Elem
    BY <1>1, TextsAttach
  <2> QED BY <2>1, <2>2, <2>3
<1>6. \A m \in Node : ToSet(K[m]) = IF m = Self(e) THEN ToSet(kids[m]) \cup {Ret(e)} ELSE ToSet(kids[m])
  BY <1>1 DEF Puts
<1>7. \A m \in Node : ToSet(K[m]) \subseteq ToSet(kids'[m])
  BY <1>5
<1>8. ASSUME NEW n \in Node PROVE Stands(sheet, K, n) => Stands(sheet, kids', n)
  <2>1. \A m \in Node : Hangs(sheet, K, m) => Hangs(sheet, kids', m)
    <3> TAKE m \in Node
    <3>1. m # Doc => Above(sheet, m) \in Node
      BY <1>3, AboveRanks
    <3> QED BY <1>7, <3>1 DEF Hangs
  <2>2. Up(sheet, n) \subseteq Node
    BY <1>3, UpFacts
  <2> QED BY <2>1, <2>2 DEF Stands
<1>9. /\ Stands(sheet, kids', Self(e)) /\ Hangs(sheet, kids', Tmp(e)) /\ Ret(e) \in ToSet(kids'[Self(e)])
  <2>1. Stands(sheet, K, Self(e)) /\ Hangs(sheet, K, Tmp(e))
    BY <1>1, <1>3 DEF Puts
  <2>2. Above(sheet, Tmp(e)) = Self(e)
    BY AboveIs
  <2>4. Tmp(e) # Doc
    BY NodesDiffer
  <2>3. Hangs(sheet, kids', Tmp(e))
    BY <1>3, <1>7, <2>1, <2>2, <2>4 DEF Hangs
  <2> QED BY <1>3, <1>6, <1>7, <1>8, <2>1, <2>3
<1>10. Loose(Text(e))'
  <2>1. \A c \in ToSet(cs) : Text(e) # Self(c)
    BY <1>5, NodesDiffer
  <2>2. \A m \in Node : Text(e) \notin ToSet(K[m])
    BY <1>1 DEF Detached
  <2>3. ASSUME NEW m \in Node PROVE Text(e) \notin ToSet(kids'[m])
    <3>1. CASE m = Ret(e)
      BY <1>5, <2>1, <2>2, <3>1
    <3>2. CASE m # Ret(e)
      BY <1>5, <2>2, <3>2
    <3> QED BY <3>1, <3>2
  <2> QED BY <2>3 DEF Loose
<1>11. \A c \in ToSet(cs) : sheet.kind[c] = "text"
  BY DEF IsText
<1>12. \A v \in Elem : sheet.up[v] = e /\ sheet.slot[v] = Branch(e) => v \in ToSet(cs)
  BY ChildrenAre DEF ChildSet
<1>13. B2 \subseteq Elem /\ \A d \in B2 \ B : d \in ToSet(cs)
  BY <1>3, <1>5
<1>14. Alters(e, B, B2, FALSE)
  <2>1. \A m, n \in Node :
          n \in ToSet(kids[m]) /\ ~ (FALSE /\ (n = Self(e) \/ m = Ret(e))) => n \in ToSet(kids'[m])
    BY <1>6, <1>7
  <2>2. ASSUME NEW n \in Node, Loose(n), n \notin {<< r, e >> : r \in Role},
               \A d \in B2 \ B : n # Self(d)
        PROVE  Loose(n)'
    <3>1. n # Ret(e)
      BY <2>2, MineIs DEF Mine
    <3>2. \A c \in ToSet(cs) : n # Self(c)
      BY <1>5, <2>2
    <3>3. ASSUME NEW m \in Node PROVE n \notin ToSet(kids'[m])
      <4>1. n \notin ToSet(K[m])
        BY <1>6, <2>2, <3>1 DEF Loose
      <4> QED BY <1>5, <3>2, <4>1
    <3> QED BY <3>3 DEF Loose
  <2> QED BY <1>5, <1>13, <2>1, <2>2 DEF Alters
<1>15. Listed(e, cbs) /\ ToSet(cbs) = {Again(e)}
  BY ListedFew
<1>16. main' = Tail(main) \o cbs
  <2>1. Tail(main) \in Seq(Call) /\ Again(e) \in Call
    BY <1>1, InvIs, CallsDiffer
  <2> QED BY <2>1
<1> HIDE DEF cbs, IncludeBranch, B2, IsText
<1>17. Again(e) # Set(e) /\ \A d \in Elem : First(d) \notin ToSet(cbs)
  BY <1>15, CallsDiffer
<1>18. Counts(e, Holds)
  BY <1>3 DEF Counts
<1>19. Queues(e, cbs, NULL, NULL)
  BY <1>1, <1>15, <1>16, <1>17, <1>18, MoreQueues
<1>20. Leaves(e)
  BY <1>2, <1>4 DEF Leaves
<1>21. Kin(e)' = Kin(e) /\ HasResult(e)' /\ ~ Early(e)' /\ ~ HeldResult(e)'
  BY <1>2, <1>4, <1>9 DEF Kin, HasResult, Early, HeldResult
<1>22. Opens(e, B, B2, cbs) /\ Opened(e, B, B2, cbs)
  <2>1. \A d \in Elem : ~ Closed(B2, e, sheet.slot[d])'
    BY <1>1, <1>2, <1>21 DEF Closed, B2
  <2>2. Opens(e, B, B2, cbs)
    <3>1. B \subseteq B2 /\ e \in B2
      BY <1>1 DEF B2
    <3>2. ASSUME NEW d \in B2 \ B, d # e
          PROVE  /\ Kin(d) = "text" /\ sheet.up[d] = e /\ Closed(B, e, sheet.slot[d])
                 /\ \A v \in Elem : sheet.up[v] = e /\ sheet.slot[v] = sheet.slot[d] => v \in B2
      <4>1. d \in ToSet(cs) /\ sheet.up[d] = e /\ sheet.slot[d] = Branch(e)
        BY <1>5, <1>13
      <4>2. Kin(d) = "text"
        BY <1>11, <4>1 DEF Kin
      <4>3. \A v \in Elem : sheet.up[v] = e /\ sheet.slot[v] = sheet.slot[d] => v \in B2
        BY <1>12, <4>1 DEF B2
      <4> QED BY <1>1, <4>1, <4>2, <4>3
    <3> QED BY <1>17, <3>1, <3>2 DEF Opens
  <2> QED BY <2>1, <2>2 DEF Opened
<1>23. count'[Ret(e)] = 0
  <2>1. ASSUME NEW h \in Holds, Ret(e) \in Up(sheet, At(sheet, h)) PROVE FALSE
    <3>1. h[2] \in Elem /\ Busy(h[2]) /\ Kin(h[2]) # "response" /\ h \in Hold
      BY InvIs, HoldBusy
    <3>2. CASE h[2] = e
      <4>1. h = SelfHold(e)
        BY <1>1, <3>2 DEF OnlySelf
      <4>2. At(sheet, SelfHold(e)) = Self(e)
        BY AtIs
      <4> QED BY <1>3, <2>1, <4>1, <4>2, UpOwn
    <3>3. CASE h[2] # e
      <4>1. Ret(e) \in Up(sheet, Self(h[2]))
        BY <1>3, <2>1, <3>1, <3>3, HoldUp
      <4>2. Self(h[2]) \in Node
        BY <3>1, NodesDiffer
      <4>3. Self(e) \in Up(sheet, Self(h[2]))
        BY <1>3, <4>1, <4>2, PartOf
      <4> QED BY <1>1, <3>1, <3>3, <4>3 DEF Clear
    <3> QED BY <3>2, <3>3
  <2> QED BY <1>3, <2>1, TallyZero
<1>24. /\ SelfHold(e) \in Holds /\ ValueHold(e) \notin Holds /\ ParamsHold(e) \notin Holds
       /\ ResultHold(e) \notin Holds
  <2>1. ~ HeldValue(e) /\ ~ HeldParams(e) /\ ~ HeldResult(e)
    BY <1>1 DEF HeldValue, HeldParams, HeldResult
  <2> QED BY <1>1, <2>1, HeldAre
<1>25. More(e, Holds, cbs)
  BY <1>1, <1>15, <1>17, <1>18, <1>19, <1>20, <1>21, <1>24 DEF More
<1>26. MoreNodes(e)
  BY <1>1, <1>4, <1>9, <1>10, <1>21, <1>23 DEF MoreNodes
<1>27. Quiet
  <2>1. /\ val' \in [Elem -> {Unset} \cup Seq(Elem)] /\ bound' \in [Elem -> {"no", "document", "value"}]
    BY <1>2, OwnSame
  <2>2. OthersOK' /\ ~ failed' /\ "DONE" \notin cur'
    BY <1>1, <1>2, <1>4, <2>1, OthersSame
  <2>3. Response \in Node
    BY NodesDiffer
  <2>4. ToSet(kids[Response]) \subseteq ToSet(kids'[Response])
    BY <1>6, <1>7, <2>3
  <2>5. Cursor'
    BY <2>4, InvIs DEF Cursor
  <2> QED BY <2>2, <2>5 DEF Quiet
<1> QED BY <1>1, <1>2, <1>14, <1>22, <1>25, <1>26, <1>27, MoreKeeps

\* An include whose answer has come.
LEMMA IncludeBranchKeeps ==
  ASSUME NEW B, Inv(B), NEW e \in Elem, IncludeBranch(e)
  PROVE  IInv'
<1> DEFINE K == WithChild(kids, Self(e), Ret(e))
           ns == IF stage[e] = "SUCCESS" THEN << Text(e) >> ELSE <<>>
           cs == Children(sheet, e, Branch(e))
<1>1. Goes /\ UNCHANGED <<val, bound, sent, logged, requested, host>>
  BY DEF IncludeBranch
<1>2. CASE /\ IsText(e, Branch(e))
           /\ kids' = WithChildren(K, Ret(e), [i \in DOMAIN cs |-> Self(cs[i])])
           /\ stage' = [stage EXCEPT ![e] = "END"]
           /\ main' = Append(Rest, <<"again", e>>)
           /\ UNCHANGED <<count, tcb, responseCur>>
  <2>2. kids' = WithChildren(K, Ret(e), Texts(e, Branch(e)))
    BY <1>2 DEF Texts
  <2>1. main' = Append(Tail(main), Again(e)) /\ count' = count /\ tcb' = tcb /\ responseCur' = responseCur
    BY <1>2 DEF Rest, Again
  <2> HIDE DEF IncludeBranch
  <2> QED BY <1>1, <1>2, <2>1, <2>2, BranchTexts
<1>3. CASE /\ kids' = K
           /\ count' = Increased(count, PathIn(K, Ret(e)))
           /\ main' = Rest \o Firsts(e, Branch(e)) \o << <<"again", e>> >>
           /\ UNCHANGED <<tcb, stage, responseCur>>
  <2>1. /\ main' = Tail(main) \o Firsts(e, Branch(e)) \o << Again(e) >> /\ tcb' = tcb /\ stage' = stage
        /\ responseCur' = responseCur /\ count' = Increased(count, PathIn(kids', Ret(e)))
    BY <1>3 DEF Rest, Again
  <2> HIDE DEF IncludeBranch
  <2> QED BY <1>1, <1>3, <2>1, BranchLists
<1>4. CASE /\ Releases(Self(e), <<>>)
           /\ kids' = Replaced(K, e, ns)
           /\ responseCur' = CurAfter(K, Self(e), ns)
           /\ stage' = [stage EXCEPT ![e] = "END"]
  BY <1>1, <1>4, BranchEnds
<1> HIDE DEF K, ns, cs
<1>5. \/ /\ IsText(e, Branch(e))
         /\ kids' = WithChildren(K, Ret(e), [i \in DOMAIN cs |-> Self(cs[i])])
         /\ stage' = [stage EXCEPT ![e] = "END"]
         /\ main' = Append(Rest, <<"again", e>>)
         /\ UNCHANGED <<count, tcb, responseCur>>
      \/ /\ kids' = K
         /\ count' = Increased(count, PathIn(K, Ret(e)))
         /\ main' = Rest \o Firsts(e, Branch(e)) \o << <<"again", e>> >>
         /\ UNCHANGED <<tcb, stage, responseCur>>
      \/ /\ Releases(Self(e), <<>>)
         /\ kids' = Replaced(K, e, ns)
         /\ responseCur' = CurAfter(K, Self(e), ns)
         /\ stage' = [stage EXCEPT ![e] = "END"]
  BY DEF IncludeBranch, K, ns, cs
<1> QED BY <1>2, <1>3, <1>4, <1>5

\* An include whose node list has been transformed, at its call.
LEMMA AnswerIs ==
  ASSUME NEW B, Inv(B), NEW e \in Elem, main # <<>>, Head(main) = Again(e), Kin(e) = "include",
         stage[e] \in {"SUCCESS", "FAILURE"}, HasResult(e)
  PROVE  /\ Busy(e) /\ Set(e) \notin Queued /\ SelfHold(e) \in Holds /\ ResultHold(e) \in Holds
         /\ ValueHold(e) \notin Holds /\ ParamsHold(e) \notin Holds
         /\ PathIn(kids, Ret(e)) = SPath(sheet)[At(sheet, ResultHold(e))]
         /\ PathIn(kids, Self(e)) = SPath(sheet)[At(sheet, SelfHold(e))]
<1>1. /\ Busy(e) /\ Phased(e) /\ Stands(sheet, kids, Self(e)) /\ WellFormed(sheet) /\ TreeOK(sheet, kids)
      /\ Ret(e) \in Node /\ Self(e) \in Node
  BY LaterIs, InvIs, NodesDiffer
<1>2. Set(e) \notin Queued
  BY <1>1 DEF Phased
<1>3. HeldSelf(e) /\ HeldResult(e) /\ ~ HeldValue(e) /\ ~ HeldParams(e)
  BY <1>1, <1>2 DEF HeldSelf, HeldResult, HeldValue, HeldParams
<1>4. Stands(sheet, kids, Ret(e))
  <2>1. Up(sheet, Ret(e)) = {Ret(e)} \cup Up(sheet, Self(e))
    BY <1>1, UpIs
  <2>2. Above(sheet, Ret(e)) = Self(e)
    BY AboveIs
  <2>3. Hangs(sheet, kids, Ret(e))
    BY <2>2 DEF HasResult, Hangs
  <2> QED BY <1>1, <2>1, <2>3 DEF Stands
<1>5. PathIn(kids, Ret(e)) = SPath(sheet)[Ret(e)] /\ PathIn(kids, Self(e)) = SPath(sheet)[Self(e)]
  BY <1>1, <1>4, PathIs
<1>6. At(sheet, ResultHold(e)) = Ret(e) /\ At(sheet, SelfHold(e)) = Self(e)
  BY AtIs
<1>7. /\ SelfHold(e) \in Holds /\ ResultHold(e) \in Holds
      /\ ValueHold(e) \notin Holds /\ ParamsHold(e) \notin Holds
  BY <1>3, HeldAre
<1> QED BY <1>1, <1>2, <1>5, <1>6, <1>7

\* The result is not ready yet: the include waits for it.
LEMMA AnswerWaits ==
  ASSUME NEW B, Inv(B), NEW e \in Elem, running, main # <<>>, Head(main) = Again(e), Kin(e) = "include",
         stage[e] \in {"SUCCESS", "FAILURE"}, HasResult(e),
         NEW path, path = PathIn(kids, Ret(e)), count' = Decreased(count, path), count'[Ret(e)] > 0,
         tcb' = Parked(Drained(count, tcb, path), Ret(e), Again(e)),
         main' = Joined(Tail(main), Moved(count, tcb, path)),
         stage' = [stage EXCEPT ![e] = "END"], Goes,
         UNCHANGED <<kids, responseCur, val, bound, sent, logged, requested, host>>
  PROVE  IInv'
<1> DEFINE H == Holds \ {ResultHold(e)}
<1>1. /\ Busy(e) /\ Set(e) \notin Queued /\ SelfHold(e) \in Holds /\ ResultHold(e) \in Holds
      /\ ValueHold(e) \notin Holds /\ ParamsHold(e) \notin Holds
      /\ path = SPath(sheet)[At(sheet, ResultHold(e))]
  BY AnswerIs
<1>2. /\ kids' = kids /\ val' = val /\ bound' = bound /\ sheet' = sheet /\ answer' = answer
      /\ requested' = requested /\ responseCur' = responseCur /\ UNCHANGED <<output, host>>
  BY DEF output, host
<1>3. /\ stage' \in [Elem -> Stage] /\ stage'[e] = "END"
      /\ \A f \in Elem : f # e => stage'[f] = stage[f]
  <2>1. "END" \in Stage
    BY DEF Stage
  <2> QED BY <2>1, OwnSame
<1>4. Ret(e) \in Node /\ Ret(e) # NULL
  BY NodesDiffer
<1>5. Again(e) # Set(e) /\ Again(e)[1] = "again" /\ Again(e)[2] = e
  BY CallsDiffer
<1>6. ResultHold(e)[2] = e
  BY HoldsDiffer
<1>7. main' = Joined(Tail(main), Moved(count, tcb, path)) \o <<>>
  BY <1>1, MovesCalls
<1>8. Scheduled(e, <<>>, Ret(e), Again(e)) /\ ToSet(<<>>) = {}
  BY <1>4, SchedulesNone
<1>9. Counts(e, H) /\ Queues(e, <<>>, Ret(e), Again(e))
  BY <1>1, <1>4, <1>6, <1>7, <1>8, ReleaseTurn
<1>10. Leaves(e)
  BY <1>2, <1>3 DEF Leaves
<1>11. Parks(e, H, Ret(e))
  BY <1>1, <1>2, <1>3, <1>9, <1>10 DEF Parks
<1>12. \A x : x \in Queued' <=> x \in Queued
  <2>1. Again(e) \in Queued
    BY LaterIs
  <2> QED BY <1>4, <1>8, <1>9, <2>1, QueuesAre
<1>13. Kin(e)' = Kin(e)
  BY <1>2 DEF Kin
<1>14. OwnHolds(e, H)
  <2>1. HeldSelf(e)'
    <3>1. Again(e) \in Queued'
      BY <1>12, LaterIs
    <3> QED BY <1>13, <3>1 DEF HeldSelf, Busy
  <2>2. ~ HeldValue(e)'
    BY <1>1, <1>12 DEF HeldValue
  <2>3. ~ HeldParams(e)' /\ ~ HeldResult(e)'
    BY <1>3 DEF HeldParams, HeldResult
  <2>4. SelfHold(e) \in H /\ ValueHold(e) \notin H /\ ParamsHold(e) \notin H /\ ResultHold(e) \notin H
    BY <1>1, HoldsDiffer
  <2> QED BY <2>1, <2>2, <2>3, <2>4 DEF OwnHolds
<1>15. MayWait(Again(e), Ret(e))'
  BY <1>3, <1>5, <1>13 DEF MayWait
<1>16. Quiet
  <2>1. /\ val' \in [Elem -> {Unset} \cup Seq(Elem)] /\ bound' \in [Elem -> {"no", "document", "value"}]
    BY <1>2, OwnSame
  <2>2. OthersOK' /\ ~ failed' /\ "DONE" \notin cur'
    BY <1>2, <1>3, <2>1, OthersSame
  <2>3. Cursor'
    BY <1>2, InvIs DEF Cursor
  <2> QED BY <2>2, <2>3 DEF Quiet
<1> HIDE DEF H
<1> QED BY <1>4, <1>11, <1>14, <1>15, <1>16, ParksKeeps

\* What is freed at the node of a result, when nothing is freed above it.
LEMMA FreedFirst ==
  ASSUME NEW s, WellFormed(s), NEW e \in Elem, NEW M \in Seq(Call), NEW T \in [Node -> Seq(Call)],
         QueuesApart(M, T), NEW C \in [Node -> Nat], C[Ret(e)] = 0, \A m \in Up(s, Self(e)) : C[m] # 0
  PROVE  Freed(s, T, C, Ret(e)) = T[Ret(e)]
<1>1. Ret(e) \in Node /\ Self(e) \in Node /\ Ret(e) # Doc
  BY NodesDiffer
<1>2. Above(s, Ret(e)) = Self(e)
  BY AboveIs
<1>3. Freed(s, T, C, Ret(e)) = T[Ret(e)] \o Freed(s, T, C, Self(e)) /\ Freed(s, T, C, Self(e)) \in Seq(Call)
  BY <1>1, <1>2, FreedStep
<1>4. /\ \A m \in Node : IsInjective(T[m])
      /\ \A l, m \in Node : l # m => ToSet(T[l]) \cap ToSet(T[m]) = {}
  <2>1. DOMAIN T = Node
    OBVIOUS
  <2> QED BY <2>1 DEF QueuesApart
<1>5. \A x : x \in ToSet(Freed(s, T, C, Self(e))) <=>
             \E m \in Up(s, Self(e)) : C[m] = 0 /\ x \in ToSet(T[m])
  <2> DEFINE n == Self(e)
             fl == Freed(s, T, C, n)
  <2>1. n \in Node
    BY <1>1
  <2> HIDE DEF n
  <2>2. /\ fl \in Seq(Call) /\ IsInjective(fl)
        /\ \A x : x \in ToSet(fl) <=> \E m \in Up(s, n) : C[m] = 0 /\ x \in ToSet(T[m])
        /\ \A m \in Up(s, n) : \A l \in Up(s, m) : m # l /\ C[m] = 0 /\ C[l] = 0 =>
             \A x \in ToSet(T[m]), y \in ToSet(T[l]) : InFront(fl, x, y)
        /\ \A m \in Up(s, n) : \A x, y :
             m # Doc /\ C[m] = 0 /\ C[Above(s, m)] = 0
               /\ T[m] = << x >> /\ T[Above(s, m)] = << y >> => NextTo(fl, x, y)
    BY <1>4, <2>1, FreedAre
  <2>3. \A x : x \in ToSet(fl) <=> \E m \in Up(s, n) : C[m] = 0 /\ x \in ToSet(T[m])
    BY <2>2
  <2> QED BY <2>3 DEF n
<1>6. ToSet(Freed(s, T, C, Self(e))) = {}
  BY <1>5
<1>7. Freed(s, T, C, Self(e)) = <<>>
  BY <1>3, <1>6, EmptyIs
<1>8. T[Ret(e)] \in Seq(Call)
  BY <1>1
<1> QED BY <1>3, <1>7, <1>8

\* Joined in two steps or in one.
JoinsUp(N, a, b, c) == (N \o a) \o b = N \o (c \o <<>>)

\* What is freed at the node of a result, and above it afterwards.
LEMMA FreedTwice ==
  ASSUME NEW s, WellFormed(s), NEW e \in Elem, NEW N \in Seq(Call), NEW T \in [Node -> Seq(Call)],
         NEW D \in [Node -> Nat], D[Ret(e)] = 0, NEW T1,
         \A m \in Up(s, Self(e)) : T1[m] = T[m]
  PROVE  JoinsUp(N, T[Ret(e)], Freed(s, T1, D, Self(e)), Freed(s, T, D, Ret(e)))
<1>1. Ret(e) \in Node /\ Self(e) \in Node /\ Ret(e) # Doc
  BY NodesDiffer
<1>2. Above(s, Ret(e)) = Self(e)
  BY AboveIs
<1>3. Freed(s, T, D, Ret(e)) = T[Ret(e)] \o Freed(s, T, D, Self(e)) /\ Freed(s, T, D, Self(e)) \in Seq(Call)
  BY <1>1, <1>2, FreedStep
<1>4. Freed(s, T1, D, Self(e)) = Freed(s, T, D, Self(e))
  <2>1. \A i \in 1..Len(SPath(s)[Self(e)]) : T1[SPath(s)[Self(e)][i]] = T[SPath(s)[Self(e)][i]]
    <3> TAKE i \in 1..Len(SPath(s)[Self(e)])
    <3>1. SPath(s)[Self(e)] \in Seq(Node)
      BY <1>1, PathGood DEF GoodPath
    <3>2. SPath(s)[Self(e)][i] \in Up(s, Self(e))
      BY <3>1 DEF Up, ToSet
    <3> QED BY <3>2
  <2>2. [i \in 1..Len(SPath(s)[Self(e)]) |->
            IF D[SPath(s)[Self(e)][i]] = 0 THEN T1[SPath(s)[Self(e)][i]] ELSE <<>>] =
        [i \in 1..Len(SPath(s)[Self(e)]) |->
            IF D[SPath(s)[Self(e)][i]] = 0 THEN T[SPath(s)[Self(e)][i]] ELSE <<>>]
    BY <2>1
  <2> QED BY <2>2 DEF Freed
<1> DEFINE a == T[Ret(e)]
           b == Freed(s, T, D, Self(e))
<1>5. a \in Seq(Call) /\ b \in Seq(Call)
  BY <1>1, <1>3
<1>6. (N \o a) \o b = N \o (a \o b) /\ (a \o b) \o <<>> = a \o b
  <2> HIDE DEF a, b
  <2> QED BY <1>5, JoinsAssociate
<1> QED BY <1>3, <1>4, <1>6 DEF JoinsUp

\* The hold of the result and the one of the node given up, one after the other.
Twice(e, C, T) ==
  LET path == SPath(sheet)[At(sheet, ResultHold(e))]
      up == SPath(sheet)[At(sheet, SelfHold(e))]
  IN /\ C = Decreased(count, path) /\ T = Drained(count, tcb, path)
     /\ count' = Decreased(C, up) /\ tcb' = Drained(C, T, up)
     /\ main' = Joined(Joined(Tail(main), Moved(count, tcb, path)), Moved(C, T, up))

\* An include gives up its result and its node in one call.
LEMMA ReleaseTwice ==
  ASSUME NEW B, Inv(B), NEW e \in Elem, main # <<>>, Head(main) = Again(e),
         SelfHold(e) \in Holds, ResultHold(e) \in Holds,
         NEW C, NEW T, Twice(e, C, T), ~ (C[Ret(e)] > 0)
  PROVE  /\ Counts(e, (Holds \ {ResultHold(e)}) \ {SelfHold(e)}) /\ Queues(e, <<>>, NULL, NULL)
         /\ \A h \in Holds : Ret(e) \in Up(sheet, At(sheet, h)) => h = ResultHold(e)
<1> DEFINE H1 == Holds \ {ResultHold(e)}
           H2 == H1 \ {SelfHold(e)}
           path == SPath(sheet)[At(sheet, ResultHold(e))]
           up == SPath(sheet)[At(sheet, SelfHold(e))]
           C2 == Tally(sheet, H2)
<1>1. /\ WellFormed(sheet) /\ main \in Seq(Call) /\ tcb \in [Node -> Seq(Call)] /\ QueuesApart(main, tcb)
      /\ Holds \subseteq Hold
  BY InvIs
<1>0. count = Tally(sheet, Holds)
  BY InvIs DEF Counted
<1>2. /\ At(sheet, ResultHold(e)) = Ret(e) /\ At(sheet, SelfHold(e)) = Self(e)
      /\ Ret(e) \in Node /\ Self(e) \in Node
  <2>1. At(sheet, ResultHold(e)) = Ret(e) /\ At(sheet, SelfHold(e)) = Self(e)
    BY AtIs
  <2>2. Ret(e) \in Node /\ Self(e) \in Node
    BY NodesDiffer
  <2> QED BY <2>1, <2>2
<1>3. H1 \subseteq Hold /\ H2 \subseteq Hold /\ SelfHold(e) \in H1 /\ SelfHold(e)[2] = e /\ ResultHold(e)[2] = e
  BY <1>1, HoldsDiffer
<1>4. C = Tally(sheet, H1)
  <2>1. Decreased(Tally(sheet, Holds), SPath(sheet)[At(sheet, ResultHold(e))]) = Tally(sheet, H1)
    BY <1>1, TallyDrop
  <2> QED BY <1>0, <2>1 DEF Twice
<1>5. count' = C2
  <2>1. Decreased(Tally(sheet, H1), SPath(sheet)[At(sheet, SelfHold(e))]) = Tally(sheet, H2)
    <3> HIDE DEF H1
    <3> QED BY <1>1, <1>3, TallyDrop
  <2> QED BY <1>4, <2>1 DEF Twice
<1>6. Counts(e, H2)
  BY <1>1, <1>3, <1>5 DEF Counts
<1>7. /\ Tally(sheet, H1) \in [Node -> Nat] /\ C2 \in [Node -> Nat]
      /\ \A n \in Node : Tally(sheet, H1)[n] = 0 <=> \A h \in H1 : n \notin Up(sheet, At(sheet, h))
      /\ \A n \in Node : C2[n] = 0 <=> \A h \in H2 : n \notin Up(sheet, At(sheet, h))
  <2> HIDE DEF H1, H2
  <2> QED BY <1>3, TallyZero
<1>8. C \in [Node -> Nat] /\ C[Ret(e)] = 0
  <2>1. C \in [Node -> Nat]
    BY <1>4, <1>7
  <2>2. C[Ret(e)] \in Nat
    BY <1>2, <2>1
  <2>3. C[Ret(e)] = 0
    BY <2>2
  <2> QED BY <2>1, <2>3
<1>9. \A h \in H1 : Ret(e) \notin Up(sheet, At(sheet, h))
  BY <1>2, <1>4, <1>7, <1>8
<1>10. \A m \in Node : C[m] = 0 => C2[m] = 0
  BY <1>4, <1>7
<1>11. \A m \in Up(sheet, Self(e)) : m \in Node /\ C[m] # 0
  <2>1. Up(sheet, Self(e)) \subseteq Node
    BY <1>1, <1>2, UpFacts
  <2> HIDE DEF H1
  <2> QED BY <1>2, <1>3, <1>4, <1>7, <2>1
<1>12. \A m \in Node : count[m] = 0 => tcb[m] = <<>>
  <2> SUFFICES ASSUME NEW m \in Node, count[m] = 0 PROVE tcb[m] = <<>>
    OBVIOUS
  <2>1. ~ (count[m] > 0)
    OBVIOUS
  <2>2. \A x : x \notin ToSet(tcb[m])
    BY <2>1, InvIs DEF Placed
  <2>3. tcb[m] \in Seq(Call)
    BY <1>1
  <2> QED BY <2>2, <2>3, EmptyIs
<1>13. /\ Moved(count, tcb, path) = Freed(sheet, tcb, C, Ret(e))
       /\ Drained(count, tcb, path) = [m \in Node |-> IF C[m] = 0 THEN <<>> ELSE tcb[m]]
       /\ \A m \in Node : C[m] = 0 /\ tcb[m] # <<>> => m \in Up(sheet, Ret(e))
  <2>1. \A m \in Node : Tally(sheet, Holds)[m] = 0 => tcb[m] = <<>>
    BY <1>0, <1>12
  <2>2. /\ Moved(Tally(sheet, Holds), tcb, SPath(sheet)[At(sheet, ResultHold(e))])
            = Freed(sheet, tcb, Tally(sheet, Holds \ {ResultHold(e)}), At(sheet, ResultHold(e)))
        /\ Drained(Tally(sheet, Holds), tcb, SPath(sheet)[At(sheet, ResultHold(e))]) =
             [m \in Node |-> IF Tally(sheet, Holds \ {ResultHold(e)})[m] = 0 THEN <<>> ELSE tcb[m]]
        /\ \A m \in Node : Tally(sheet, Holds \ {ResultHold(e)})[m] = 0 /\ tcb[m] # <<>> =>
             m \in Up(sheet, At(sheet, ResultHold(e)))
    BY <1>1, <2>1, MovedIs
  <2> QED BY <1>0, <1>2, <1>4, <2>2
<1>14. T = [m \in Node |-> IF C[m] = 0 THEN <<>> ELSE tcb[m]]
  BY <1>13 DEF Twice
<1>15. T \in [Node -> Seq(Call)] /\ \A m \in Node : C[m] = 0 => T[m] = <<>>
  <2>1. \A m \in Node : tcb[m] \in Seq(Call) /\ <<>> \in Seq(Call)
    BY <1>1
  <2> QED BY <1>14, <2>1
<1>16. /\ Moved(C, T, up) = Freed(sheet, T, C2, Self(e))
       /\ Drained(C, T, up) = [m \in Node |-> IF C2[m] = 0 THEN <<>> ELSE T[m]]
       /\ \A m \in Node : C2[m] = 0 /\ T[m] # <<>> => m \in Up(sheet, Self(e))
  <2> HIDE DEF H1
  <2>1. \A m \in Node : Tally(sheet, H1)[m] = 0 => T[m] = <<>>
    BY <1>4, <1>15
  <2>2. /\ Moved(Tally(sheet, H1), T, SPath(sheet)[At(sheet, SelfHold(e))])
            = Freed(sheet, T, Tally(sheet, H1 \ {SelfHold(e)}), At(sheet, SelfHold(e)))
        /\ Drained(Tally(sheet, H1), T, SPath(sheet)[At(sheet, SelfHold(e))]) =
             [m \in Node |-> IF Tally(sheet, H1 \ {SelfHold(e)})[m] = 0 THEN <<>> ELSE T[m]]
        /\ \A m \in Node : Tally(sheet, H1 \ {SelfHold(e)})[m] = 0 /\ T[m] # <<>> =>
             m \in Up(sheet, At(sheet, SelfHold(e)))
    BY <1>1, <1>3, <1>15, <2>1, MovedIs
  <2> QED BY <1>2, <1>4, <2>2
<1> HIDE DEF H1, H2, C2
<1>17. main' = Tail(main) \o (Freed(sheet, tcb, C2, Ret(e)) \o <<>>)
  <2>1. Freed(sheet, tcb, C, Ret(e)) = tcb[Ret(e)]
    BY <1>1, <1>8, <1>11, FreedFirst
  <2>2. main' = (Tail(main) \o tcb[Ret(e)]) \o Freed(sheet, T, C2, Self(e))
    BY <1>13, <1>16, <2>1 DEF Twice, Joined
  <2>3. Tail(main) \in Seq(Call) /\ C2[Ret(e)] = 0
    BY <1>1, <1>2, <1>8, <1>10
  <2>4. \A m \in Up(sheet, Self(e)) : T[m] = tcb[m]
    BY <1>11, <1>14
  <2>5. WellFormed(sheet) /\ tcb \in [Node -> Seq(Call)] /\ C2 \in [Node -> Nat]
    BY <1>1, <1>7
  <2>6. JoinsUp(Tail(main), tcb[Ret(e)], Freed(sheet, T, C2, Self(e)), Freed(sheet, tcb, C2, Ret(e)))
    BY <2>3, <2>4, <2>5, FreedTwice
  <2> QED BY <2>2, <2>6 DEF JoinsUp
<1>18. tcb' = [m \in Node |-> IF m = NULL THEN Append(IF C2[m] = 0 THEN <<>> ELSE tcb[m], NULL)
                              ELSE IF C2[m] = 0 THEN <<>> ELSE tcb[m]]
  <2>1. NULL \notin Node
    BY NodesDiffer
  <2>2. tcb' = [m \in Node |-> IF C2[m] = 0 THEN <<>> ELSE T[m]]
    BY <1>16 DEF Twice
  <2>3. \A m \in Node : (IF C2[m] = 0 THEN <<>> ELSE T[m]) = (IF C2[m] = 0 THEN <<>> ELSE tcb[m])
    BY <1>10, <1>14
  <2> QED BY <2>1, <2>2, <2>3
<1>19. \A m \in Node : C2[m] = 0 /\ tcb[m] # <<>> => m \in Up(sheet, Ret(e))
  <2> SUFFICES ASSUME NEW m \in Node, C2[m] = 0, tcb[m] # <<>> PROVE m \in Up(sheet, Ret(e))
    OBVIOUS
  <2>1. CASE C[m] = 0
    BY <1>13, <2>1
  <2>2. CASE C[m] # 0
    <3>1. T[m] = tcb[m]
      BY <1>14, <2>2
    <3>2. m \in Up(sheet, Self(e))
      BY <1>16, <3>1
    <3>3. Up(sheet, Ret(e)) = {Ret(e)} \cup Up(sheet, Self(e))
      BY <1>1, UpIs
    <3> QED BY <3>2, <3>3
  <2> QED BY <2>1, <2>2
<1>20. QueueTurn(sheet, main, tcb, count', Ret(e), <<>>, NULL, NULL, main', tcb')
  BY <1>5, <1>17, <1>18, <1>19 DEF QueueTurn
<1>21. Scheduled(e, <<>>, NULL, NULL)
  BY SchedulesNone
<1>22. Queues(e, <<>>, NULL, NULL)
  BY <1>2, <1>6, <1>20, <1>21, QueuesTurned
<1>23. \A h \in Holds : Ret(e) \in Up(sheet, At(sheet, h)) => h = ResultHold(e)
  BY <1>9 DEF H1
<1>24. Counts(e, (Holds \ {ResultHold(e)}) \ {SelfHold(e)})
  BY <1>6 DEF H1, H2
<1> QED BY <1>22, <1>23, <1>24

\* The result is ready: the include is over.
LEMMA AnswerEnds ==
  ASSUME NEW B, Inv(B), NEW e \in Elem, running, main # <<>>, Head(main) = Again(e), Kin(e) = "include",
         stage[e] \in {"SUCCESS", "FAILURE"}, HasResult(e),
         NEW H, H = (Holds \ {ResultHold(e)}) \ {SelfHold(e)}, Counts(e, H), Queues(e, <<>>, NULL, NULL),
         \A h \in Holds : Ret(e) \in Up(sheet, At(sheet, h)) => h = ResultHold(e),
         kids' = Replaced(kids, e, kids[Ret(e)]), responseCur' = CurAfter(kids, Self(e), kids[Ret(e)]),
         stage' = [stage EXCEPT ![e] = "END"], Goes,
         UNCHANGED <<val, bound, sent, logged, requested, host>>
  PROVE  IInv'
<1>1. /\ sheet' = sheet /\ answer' = answer /\ val' = val /\ bound' = bound
      /\ sent' = sent /\ logged' = logged /\ requested' = requested
      /\ cur' = cur /\ running' = running /\ failed' = failed
  BY DEF host, Goes
<1>2. /\ Busy(e) /\ Set(e) \notin Queued /\ ValueHold(e) \notin Holds /\ ParamsHold(e) \notin Holds
  BY AnswerIs
<1>3. /\ stage' \in [Elem -> Stage] /\ \A f \in Elem : f # e => stage'[f] = stage[f]
      /\ stage'[e] = "END"
  <2>1. "END" \in Stage
    BY DEF Stage
  <2> QED BY <2>1, OwnSame
<1>4. Leaves(e)
  BY <1>1, <1>3 DEF Leaves
<1>5. \A h \in H : h[2] # e
  <2> SUFFICES ASSUME NEW h \in H, h[2] = e PROVE FALSE
    OBVIOUS
  <2>1. h \in Hold /\ h \in Holds
    BY InvIs
  <2>2. h \in {SelfHold(e), ValueHold(e), ParamsHold(e), ResultHold(e)}
    BY <2>1, HoldsDiffer
  <2> QED BY <1>2, <2>1, <2>2
<1>6. Clear(e)
  <2> SUFFICES ASSUME NEW d \in Elem, d # e, Kin(d) # "response", Self(e) \in Up(sheet, Self(d)), Busy(d)
               PROVE  FALSE
    BY DEF Clear
  <2>1. WellFormed(sheet) /\ KeptIn(d, e)
    BY InvIs DEF Kept
  <2>2. Arg(e) \notin Up(sheet, Self(d))
    BY <1>2, <2>1 DEF KeptIn
  <2>3. Ret(e) \in Up(sheet, Self(d))
    BY <2>1, <2>2, InParts DEF Kin
  <2>4. Gate(Again(e)) = Ret(e)
    BY CallsDiffer DEF Gate
  <2>5. ResultHold(e)[2] = e
    BY HoldsDiffer
  <2> QED BY <2>3, <2>4, <2>5, GateClear
<1>7. H \subseteq Holds
  OBVIOUS
<1>8. count'[Self(e)] = 0
  BY <1>5, <1>6, <1>7, ClearCount
<1>9. Result(e, kids, kids[Ret(e)])
  BY DEF Result
<1>10. Grows(e, kids, kids)
  BY InvIs DEF Grows
<1>11. Alters(e, B, B, TRUE)
  BY <1>9, <1>10, ReplacedAlters
<1>12. Cursor' /\ responseCur' \in Node \cup {NULL}
  BY <1>9, <1>10, CursorMoves
<1>13. Ends(e, H, TRUE)
  BY <1>1, <1>2, <1>3, <1>4, <1>5, <1>6, <1>8 DEF Ends
<1>14. Quiet
  <2>1. val' \in [Elem -> {Unset} \cup Seq(Elem)] /\ bound' \in [Elem -> {"no", "document", "value"}]
    BY <1>1, OwnSame
  <2>2. /\ sent' \in Seq(Elem) /\ logged' \in Seq(Seq(Elem)) /\ requested' \subseteq Elem
        /\ running' \in BOOLEAN
    BY <1>1, InvIs DEF TypeOK
  <2>3. OthersOK' /\ ~ failed' /\ "DONE" \notin cur'
    BY <1>1, <1>3, <1>12, <2>1, <2>2, OthersGood
  <2> QED BY <1>12, <2>3 DEF Quiet
<1> QED BY <1>11, <1>13, <1>14, EndKeeps

\* An include whose node list has been transformed.
LEMMA IncludeResultKeeps ==
  ASSUME NEW B, Inv(B), NEW e \in Elem, IncludeResult(e)
  PROVE  IInv'
<1> DEFINE path == PathIn(kids, Ret(e))
           C == Decreased(count, path)
           T == Drained(count, tcb, path)
           M == Joined(Tail(main), Moved(count, tcb, path))
           up == PathIn(kids, Self(e))
           ns == kids[Ret(e)]
<1>1. running /\ main # <<>> /\ Head(main) = Again(e) /\ Kin(e) = "include"
  <2>1. Calls("again", e, "include")
    BY DEF IncludeResult
  <2> QED BY <2>1, CallsIs
<1>2. stage[e] \in {"SUCCESS", "FAILURE"} /\ HasResult(e) /\ stage' = [stage EXCEPT ![e] = "END"]
      /\ Goes /\ UNCHANGED <<val, bound, sent, logged, requested, host>>
  BY DEF IncludeResult, HasResult
<1>3. \/ /\ C[Ret(e)] > 0 /\ count' = C
         /\ tcb' = Parked(T, Ret(e), Again(e)) /\ main' = M
         /\ kids' = kids /\ responseCur' = responseCur
      \/ /\ ~ (C[Ret(e)] > 0) /\ count' = Decreased(C, up) /\ tcb' = Drained(C, T, up)
         /\ main' = Joined(M, Moved(C, T, up))
         /\ kids' = Replaced(kids, e, ns) /\ responseCur' = CurAfter(kids, Self(e), ns)
  BY DEF IncludeResult, Rest, Again
<1>4. CASE /\ C[Ret(e)] > 0 /\ count' = C
           /\ tcb' = Parked(T, Ret(e), Again(e)) /\ main' = M
           /\ kids' = kids /\ responseCur' = responseCur
  BY <1>1, <1>2, <1>4, AnswerWaits
<1>5. CASE /\ ~ (C[Ret(e)] > 0) /\ count' = Decreased(C, up) /\ tcb' = Drained(C, T, up)
           /\ main' = Joined(M, Moved(C, T, up))
           /\ kids' = Replaced(kids, e, ns) /\ responseCur' = CurAfter(kids, Self(e), ns)
  <2>1. /\ SelfHold(e) \in Holds /\ ResultHold(e) \in Holds
        /\ path = SPath(sheet)[At(sheet, ResultHold(e))]
        /\ up = SPath(sheet)[At(sheet, SelfHold(e))]
    BY <1>1, <1>2, AnswerIs
  <2>3. Twice(e, C, T)
    BY <1>5, <2>1 DEF Twice
  <2> HIDE DEF path, up, C, T
  <2>2. /\ Counts(e, (Holds \ {ResultHold(e)}) \ {SelfHold(e)}) /\ Queues(e, <<>>, NULL, NULL)
        /\ \A h \in Holds : Ret(e) \in Up(sheet, At(sheet, h)) => h = ResultHold(e)
    BY <1>1, <1>5, <2>1, <2>3, ReleaseTwice
  <2> QED BY <1>1, <1>2, <1>5, <2>2, AnswerEnds
<1> QED BY <1>3, <1>4, <1>5

-----------------------------------------------------------------------------
(***************************************************************************)
(* A variable that is the value of another one.                            *)
(***************************************************************************)
\* What a variable may have to come with the call that brings its value.
LEMMA VariableSet ==
  ASSUME NEW B, Inv(B), NEW e \in Elem, main # <<>>, Head(main) = Set(e), Kin(e) = "variable"
  PROVE  /\ e \in B /\ B \subseteq Elem /\ Set(e) \in Queued /\ Again(e) \notin Queued
         /\ Source(sheet, e) = "variable"
         /\ stage[e] # "READ_RESPONSE" /\ ~ Awaits(e) /\ Busy(e)
         /\ SelfHold(e) \in Holds /\ ValueHold(e) \in Holds
         /\ Stands(sheet, kids, Self(e))
<1>1. /\ e \in B /\ B \subseteq Elem /\ Set(e) \in Queued
      /\ stage[e] # "READ_RESPONSE" /\ ~ Awaits(e) /\ Busy(e) /\ Phased(e)
      /\ Stands(sheet, kids, Self(e))
  BY LaterIs
<1>2. Again(e) \notin Queued /\ Source(sheet, e) = "variable"
  BY <1>1 DEF Phased
<1>3. HeldSelf(e) /\ HeldValue(e)
  BY <1>1, <1>2 DEF HeldSelf, HeldValue
<1>4. SelfHold(e) \in Holds /\ ValueHold(e) \in Holds
  BY <1>3, HeldAre
<1> QED BY <1>1, <1>2, <1>4

LEMMA ValueArrives ==
  ASSUME NEW B, Inv(B), NEW e \in Elem, running, main # <<>>, Head(main) = Set(e), Kin(e) = "variable",
         Counts(e, Holds \ {ValueHold(e)}), Queues(e, << Again(e) >>, NULL, NULL),
         val' \in [Elem -> {Unset} \cup Seq(Elem)], bound' = [bound EXCEPT ![e] = "value"],
         Goes, UNCHANGED <<kids, stage, output, host>>
  PROVE  IInv'
<1> DEFINE H == Holds \ {ValueHold(e)}
<1>1. /\ e \in B /\ B \subseteq Elem /\ Set(e) \in Queued /\ Again(e) \notin Queued
      /\ Source(sheet, e) = "variable"
      /\ stage[e] # "READ_RESPONSE" /\ ~ Awaits(e) /\ Busy(e)
      /\ SelfHold(e) \in Holds /\ ValueHold(e) \in Holds
      /\ Stands(sheet, kids, Self(e))
  BY VariableSet
<1>2. /\ stage' = stage /\ kids' = kids
      /\ sheet' = sheet /\ answer' = answer /\ requested' = requested /\ responseCur' = responseCur
  BY DEF output, host
<1>3. Kin(e)' = Kin(e) /\ WellFormed(sheet)
  BY <1>2, InvIs DEF Kin
<1>4. ToSet(<< Again(e) >>) = {Again(e)} /\ Again(e) # Set(e)
  BY ListedFew, CallsDiffer
<1>5. \A d : First(d) # Again(e)
  BY CallsDiffer
<1>6. /\ bound' \in [Elem -> {"no", "document", "value"}] /\ bound'[e] = "value"
      /\ \A f \in Elem : f # e => bound'[f] = bound[f]
  BY OwnSame
<1>7. Leaves(e)
  BY <1>2, <1>6 DEF Leaves
<1>8. /\ Alters(e, B, B, FALSE)
      /\ \A n : Stands(sheet, kids', n) <=> Stands(sheet, kids, n)
  BY <1>2, SameNodes
<1>9. Again(e) \in Queued' /\ Set(e) \notin Queued'
  BY <1>4, QueuesAre
<1>10. Busy(e)'
  BY <1>9 DEF Busy
<1>11. Opens(e, B, B, << Again(e) >>) /\ Opened(e, B, B, << Again(e) >>)
  <2>1. ASSUME NEW d \in Elem, Closed(B, e, sheet.slot[d])'
        PROVE  Closed(B, e, sheet.slot[d])
    BY <1>1, <1>2, <1>3, <2>1 DEF Closed
  <2>2. Opened(e, B, B, << Again(e) >>)
    BY <1>4, <1>5, <2>1 DEF Opened
  <2> QED BY <1>1, <1>4, <1>5, <2>2 DEF Opens
<1>12. Step(e, B, B, H, << Again(e) >>, NULL, NULL, FALSE)
  BY <1>7, <1>8, <1>11 DEF Step
<1>13. OwnHolds(e, H)
  <2>1. HeldSelf(e)' /\ ~ HeldValue(e)'
    BY <1>3, <1>9, <1>10 DEF HeldSelf, HeldValue
  <2>2. ~ HeldParams(e)' /\ ~ HeldResult(e)' /\ ~ HeldParams(e) /\ ~ HeldResult(e)
    BY <1>3 DEF HeldParams, HeldResult
  <2>3. ParamsHold(e) \notin Holds /\ ResultHold(e) \notin Holds
    BY <2>2, HeldAre
  <2>4. SelfHold(e) # ValueHold(e)
    BY HoldsDiffer
  <2> QED BY <1>1, <2>1, <2>2, <2>3, <2>4 DEF OwnHolds
<1>14. OwnNodes(e)
  <2>1. Stocked(e)' /\ Unused(e)'
    BY <1>3, <1>9 DEF Stocked, Unused
  <2> QED BY <1>1, <1>8, <2>1 DEF OwnNodes
<1>15. OwnCalls(e, NULL, NULL)
  <2>1. ~ Awaits(e)'
    BY <1>1, <1>2 DEF Awaits
  <2>2. Phased(e)'
    BY <1>1, <1>2, <1>3, <1>9, <2>1 DEF Phased
  <2>3. Paired(e)'
    BY <1>9 DEF Paired
  <2> QED BY <1>1, <1>6, <2>2, <2>3 DEF OwnCalls
<1>16. OwnParts(e, << Again(e) >>)
  <2>1. ASSUME NEW d \in Elem, d # e, Busy(d), Kin(d) # "response"
        PROVE  KeptIn(d, e)'
    <3>1. Arg(e) \notin Up(sheet, Self(d)) /\ Ret(e) \notin Up(sheet, Self(d))
      BY <1>3, <2>1, InParts DEF Kin
    <3> QED BY <1>2, <1>3, <3>1 DEF KeptIn
  <2> QED BY <1>4, <1>5, <2>1 DEF OwnParts
<1>17. OwnOrder(e, << Again(e) >>)
  <2>1. ASSUME NEW g \in Elem, g # e
        PROVE  Gate(Again(e)) \notin Up(sheet, Self(g))
    <3>1. Gate(Again(e)) = Ret(e)
      BY CallsDiffer DEF Gate
    <3>2. Ret(e) \notin Up(sheet, Self(g))
      BY <1>3, <2>1, InParts DEF Kin
    <3> QED BY <3>1, <3>2
  <2> QED BY <1>4, <2>1 DEF OwnOrder
<1>18. Settles(e, H, << Again(e) >>, NULL, NULL)
  BY <1>13, <1>14, <1>15, <1>16, <1>17 DEF Settles
<1>19. Quiet
  <2>1. stage' \in [Elem -> Stage]
    BY <1>2, OwnSame
  <2>2. OthersOK' /\ ~ failed' /\ "DONE" \notin cur'
    BY <1>6, <2>1, OthersSame
  <2>3. Cursor'
    BY <1>2, InvIs DEF Cursor
  <2> QED BY <2>2, <2>3 DEF Quiet
<1> QED BY <1>12, <1>18, <1>19, StepKeeps

\* A variable whose expression is ready.
LEMMA VariableFromXPathKeeps ==
  ASSUME NEW B, Inv(B), NEW e \in Elem, VariableFromXPath(e)
  PROVE  IInv'
<1>1. Calls("set", e, "variable") /\ bound[sheet.ref[e]] # "no"
  BY DEF VariableFromXPath
<1>2. /\ running /\ main # <<>> /\ Head(main) = Set(e) /\ WellFormed(sheet) /\ Kin(e) = "variable"
  BY <1>1, CallsIs
<1>3. /\ Set(e) \in Queued /\ Again(e) \notin Queued /\ Source(sheet, e) = "variable"
      /\ ValueHold(e) \in Holds /\ Busy(e)
  BY <1>2, VariableSet
<1>4. PICK v \in Elem : v = sheet.ref[e]
  <2>1. sheet.ref[e] # 0
    BY <1>3 DEF Source
  <2> QED BY <1>2, <2>1, KindsAre
<1>5. Self(v) \in Node
  BY NodesDiffer
<1>6. CASE Pending(v) /\ WaitsOn(Self(v))
  <2>1. MayWait(Set(e), Self(v))
    BY <1>3, <1>4, CallsDiffer DEF MayWait
  <2>2. Set(e) # Again(e) /\ Kin(e) \notin {"response", "log"}
    BY <1>2, CallsDiffer
  <2>3. count[Self(v)] > 0 /\ WaitsOn(Self(v))
    BY <1>6 DEF Pending
  <2> QED BY <1>2, <1>5, <2>1, <2>2, <2>3, WaitKeeps
<1>7. CASE /\ bound' = [bound EXCEPT ![e] = "value"]
           /\ val' = [val EXCEPT ![e] = TextOfVariable(v)]
           /\ Releases(Self(e), << Again(e) >>)
           /\ Goes
           /\ UNCHANGED <<kids, stage, output, host>>
  <2>1. PathIn(kids, Self(e)) = SPath(sheet)[Self(e)]
    BY <1>2, <1>3, SelfPath
  <2>2. At(sheet, ValueHold(e)) = Self(e)
    BY <1>2, AtIs DEF Kin
  <2>3. ValueHold(e)[2] = e
    BY HoldsDiffer
  <2> DEFINE path == PathIn(kids, Self(e))
  <2>4. /\ path = SPath(sheet)[At(sheet, ValueHold(e))]
        /\ count' = Decreased(count, path)
        /\ tcb' = Drained(count, tcb, path)
        /\ main' = Joined(Tail(main), Moved(count, tcb, path)) \o << Again(e) >>
    BY <1>7, <2>1, <2>2 DEF Releases, Rest
  <2> HIDE DEF path
  <2>5. Scheduled(e, << Again(e) >>, NULL, NULL)
    BY <1>2, <1>3, SchedulesOne
  <2>6. Counts(e, Holds \ {ValueHold(e)}) /\ Queues(e, << Again(e) >>, NULL, NULL)
    BY <1>2, <1>3, <2>3, <2>4, <2>5, ReleaseTurn
  <2>7. val' \in [Elem -> {Unset} \cup Seq(Elem)]
    <3>1. TextOfVariable(v) \in {Unset} \cup Seq(Elem)
      BY <1>1, <1>4, TextsAre
    <3> QED BY <1>7, <3>1, OwnSame
  <2> QED BY <1>2, <1>7, <2>6, <2>7, ValueArrives
<1>8. \/ Pending(v) /\ WaitsOn(Self(v))
      \/ /\ bound' = [bound EXCEPT ![e] = "value"]
         /\ val' = [val EXCEPT ![e] = TextOfVariable(v)]
         /\ Releases(Self(e), << Again(e) >>)
         /\ Goes
         /\ UNCHANGED <<kids, stage, output, host>>
  BY <1>4 DEF VariableFromXPath, Again
<1> QED BY <1>6, <1>7, <1>8

-----------------------------------------------------------------------------
(***************************************************************************)
(* A log gives up its hold on its node, waits for what is written in it if *)
(* it has to, and sends it out.                                            *)
(***************************************************************************)
LEMMA LogIs ==
  ASSUME NEW B, Inv(B), NEW e \in Elem, main # <<>>, Head(main) = Again(e), Kin(e) = "log"
  PROVE  /\ e \in B /\ Busy(e) /\ InMain(Again(e)) /\ Set(e) \notin Queued /\ stage[e] # "READ_RESPONSE"
         /\ HeldSelf(e) <=> count[Self(e)] > 0
         /\ ~ HeldValue(e) /\ ~ HeldParams(e) /\ ~ HeldResult(e)
         /\ \A h \in Holds : h[2] = e => h = SelfHold(e)
         /\ PathIn(kids, Self(e)) = SPath(sheet)[At(sheet, SelfHold(e))]
<1>1. e \in B /\ Busy(e) /\ InMain(Again(e)) /\ Phased(e) /\ stage[e] # "READ_RESPONSE"
  BY LaterIs
<1>2. Set(e) \notin Queued
  BY <1>1 DEF Phased
<1>3. /\ HeldSelf(e) <=> count[Self(e)] > 0
      /\ ~ HeldValue(e) /\ ~ HeldParams(e) /\ ~ HeldResult(e)
  BY <1>1, <1>2 DEF HeldSelf, HeldValue, HeldParams, HeldResult
<1>4. \A h \in Holds : h[2] = e => h = SelfHold(e)
  <2>1. OnlySelf(e)
    BY <1>2, OnlySelfIs
  <2> QED BY <2>1 DEF OnlySelf
<1>5. PathIn(kids, Self(e)) = SPath(sheet)[At(sheet, SelfHold(e))]
  BY <1>1, SelfPath, AtIs
<1> QED BY <1>1, <1>2, <1>3, <1>4, <1>5

\* The hold given up, while the node stays not ready.
LEMMA LogReleases ==
  ASSUME NEW B, Inv(B), NEW e \in Elem, SelfHold(e) \in Holds,
         count' = Decreased(count, SPath(sheet)[At(sheet, SelfHold(e))]), count'[Self(e)] > 0
  PROVE  /\ Counts(e, Holds \ {SelfHold(e)})
         /\ \A m \in Node : count'[m] = 0 => tcb[m] = <<>>
<1> DEFINE H == Holds \ {SelfHold(e)}
<1>1. WellFormed(sheet) /\ Holds \subseteq Hold /\ tcb \in [Node -> Seq(Call)] /\ count = Tally(sheet, Holds)
  BY InvIs DEF Counted
<1>2. /\ Tally(sheet, H) = Decreased(Tally(sheet, Holds), SPath(sheet)[At(sheet, SelfHold(e))])
      /\ \A n \in Node : Tally(sheet, H)[n] =
           IF n \in Up(sheet, At(sheet, SelfHold(e))) THEN Tally(sheet, Holds)[n] - 1
                                                      ELSE Tally(sheet, Holds)[n]
      /\ H \subseteq Hold
  BY <1>1, TallyDrop
<1>3. count' = Tally(sheet, H)
  BY <1>1, <1>2
<1>4. SelfHold(e)[2] = e
  BY HoldsDiffer
<1>5. Counts(e, H)
  BY <1>2, <1>3, <1>4 DEF Counts
<1>6. At(sheet, SelfHold(e)) = Self(e) /\ Self(e) \in Node
  BY AtIs, NodesDiffer
<1>7. \A n \in Up(sheet, Self(e)) : ~ (count'[n] = 0)
  <2>1. \A n \in Up(sheet, Self(e)) : count'[n] > 0
    BY <1>5, <1>6, CountsAre
  <2> QED BY <2>1
<1>8. ASSUME NEW m \in Node, count'[m] = 0
      PROVE  tcb[m] = <<>>
  <2>1. m \notin Up(sheet, Self(e))
    BY <1>7, <1>8
  <2>2. count[m] = 0
    BY <1>1, <1>2, <1>3, <1>6, <1>8, <2>1
  <2>3. ~ (count[m] > 0)
    BY <2>2
  <2>4. \A x : x \notin ToSet(tcb[m])
    BY <2>3, InvIs DEF Placed
  <2>5. tcb[m] \in Seq(Call)
    BY <1>1
  <2> QED BY <2>4, <2>5, EmptyIs
<1> QED BY <1>5, <1>8

\* What is written in it is not ready.
LEMMA LogWaits ==
  ASSUME NEW B, Inv(B), NEW e \in Elem, running, main # <<>>, Head(main) = Again(e), Kin(e) = "log",
         SelfHold(e) \in Holds,
         count' = Decreased(count, SPath(sheet)[At(sheet, SelfHold(e))]), count'[Self(e)] > 0,
         tcb' = Parked(tcb, Self(e), Again(e)), main' = Tail(main), Goes,
         UNCHANGED <<kids, elements, output, host>>
  PROVE  IInv'
<1> DEFINE H == Holds \ {SelfHold(e)}
<1>1. /\ kids' = kids /\ stage' = stage /\ val' = val /\ bound' = bound /\ responseCur' = responseCur
      /\ requested' = requested /\ sheet' = sheet /\ answer' = answer
      /\ UNCHANGED <<output, host>>
  BY DEF elements, output, host
<1>2. /\ e \in B /\ InMain(Again(e)) /\ Set(e) \notin Queued /\ stage[e] # "READ_RESPONSE"
      /\ ~ HeldValue(e) /\ ~ HeldParams(e) /\ ~ HeldResult(e)
      /\ \A h \in Holds : h[2] = e => h = SelfHold(e)
  BY LogIs
<1>3. Counts(e, H) /\ \A m \in Node : count'[m] = 0 => tcb[m] = <<>>
  BY LogReleases
<1>4. Self(e) \in Node /\ Self(e) # NULL /\ ToSet(<<>>) = {}
  <2>1. ToSet(<<>>) = {}
    BY ListedFew
  <2> QED BY <2>1, NodesDiffer
<1>5. Queues(e, <<>>, Self(e), Again(e))
  <2>1. Scheduled(e, <<>>, Self(e), Again(e))
    BY <1>4, SchedulesNone
  <2>2. main' = Tail(main) \o <<>>
    <3>1. main \in Seq(Call)
      BY InvIs
    <3> QED BY <3>1
  <2> HIDE DEF H
  <2> QED BY <1>3, <1>4, <2>1, <2>2, PlainTurn
<1>6. Leaves(e)
  BY <1>1 DEF Leaves
<1>7. \A x : InMain(x)' <=> InMain(x) /\ x # Again(e)
  <2>1. \A m \in Node : count'[m] = 0 => ToSet(tcb[m]) = {}
    BY <1>3, <1>4
  <2>2. \A x : InMain(x)' <=> \/ InMain(x) /\ x # Head(main)
                              \/ \E m \in Node : count'[m] = 0 /\ x \in ToSet(tcb[m])
                              \/ x \in ToSet(<<>>)
    BY <1>5, QueuesAre
  <2> QED BY <1>4, <2>1, <2>2
<1>8. ASSUME NEW x \in Call, Closes(x, e)
      PROVE  LogOrder(e, x)'
  <2>1. LogOrder(e, x)
    BY <1>8, InvIs DEF Logs
  <2>2. ~ InFront(main, x, Head(main))
    BY HeadFirst
  <2>3. SelfHold(e) \in Holds => HeldSelf(e)
    BY HeldAre
  <2>4. count[Self(e)] > 0
    BY <2>3, LogIs
  <2>5. ~ InMain(x)
    BY <1>2, <2>1, <2>2, <2>4 DEF LogOrder
  <2>6. ~ InMain(x)' /\ ~ InMain(Again(e))'
    BY <1>7, <2>5
  <2> QED BY <2>6 DEF LogOrder
<1>9. Parks(e, H, Self(e))
  BY <1>1, <1>2, <1>3, <1>5, <1>6, <1>8 DEF Parks
<1>10. OwnHolds(e, H)
  <2>1. ValueHold(e) \notin Holds /\ ParamsHold(e) \notin Holds /\ ResultHold(e) \notin Holds
    BY <1>2, HeldAre
  <2>2. Kin(e)' = "log"
    BY <1>1 DEF Kin
  <2>3. ~ HeldSelf(e)'
    BY <1>7, <2>2 DEF HeldSelf
  <2>4. ~ HeldParams(e)' /\ ~ HeldResult(e)'
    BY <2>2 DEF HeldParams, HeldResult
  <2>5. Set(e) \notin Queued'
    <3>1. Set(e) # Again(e)
      BY CallsDiffer
    <3> QED BY <1>2, <1>4, <1>5, <3>1, QueuesAre
  <2>6. ~ HeldValue(e)'
    BY <2>5 DEF HeldValue
  <2> QED BY <2>1, <2>3, <2>4, <2>6 DEF OwnHolds
<1>11. MayWait(Again(e), Self(e))'
  <2>1. Again(e)[1] = "again" /\ Again(e)[2] = e
    BY CallsDiffer
  <2>2. Kin(e)' = "log"
    BY <1>1 DEF Kin
  <2> QED BY <2>1, <2>2 DEF MayWait
<1>12. Quiet
  <2>1. /\ stage' \in [Elem -> Stage] /\ val' \in [Elem -> {Unset} \cup Seq(Elem)]
        /\ bound' \in [Elem -> {"no", "document", "value"}]
    BY <1>1, OwnSame
  <2>2. OthersOK' /\ ~ failed' /\ "DONE" \notin cur'
    BY <1>1, <2>1, OthersSame
  <2>3. Cursor'
    BY <1>1, InvIs DEF Cursor
  <2> QED BY <2>2, <2>3 DEF Quiet
<1> HIDE DEF H
<1> QED BY <1>4, <1>9, <1>10, <1>11, <1>12, ParksKeeps

\* It is ready: the log is over, whether it held its node until now or not.
LEMMA LogEnds ==
  ASSUME NEW B, Inv(B), NEW e \in Elem, running, main # <<>>, Head(main) = Again(e), Kin(e) = "log",
         NEW H, H \subseteq Holds, \A h \in Holds : h \in H \/ h = SelfHold(e), SelfHold(e) \notin H,
         Counts(e, H), Queues(e, <<>>, NULL, NULL), count'[Self(e)] = 0,
         kids' = Replaced(kids, e, <<>>), responseCur' = CurAfter(kids, Self(e), <<>>),
         logged' \in Seq(Seq(Elem)), failed' = failed, running' \in BOOLEAN,
         cur' = cur \/ cur' = {"LOG"},
         UNCHANGED <<elements, sent, requested, host>>
  PROVE  IInv'
<1>1. /\ stage' = stage /\ val' = val /\ bound' = bound /\ sent' = sent
      /\ requested' = requested /\ sheet' = sheet /\ answer' = answer
  BY DEF elements, host
<1>2. /\ Set(e) \notin Queued /\ \A h \in Holds : h[2] = e => h = SelfHold(e)
  BY LogIs
<1>3. Leaves(e)
  BY <1>1 DEF Leaves
<1>4. \A h \in H : h[2] # e
  BY <1>2
<1>5. Clear(e)
  <2> SUFFICES ASSUME NEW d \in Elem, d # e, Kin(d) # "response", Self(e) \in Up(sheet, Self(d)), Busy(d)
               PROVE  FALSE
    BY DEF Clear
  <2>1. Gate(Head(main)) = Self(e)
    BY CallsDiffer DEF Gate
  <2>2. Self(e) \in Node /\ SelfHold(e)[2] = e
    BY NodesDiffer, HoldsDiffer
  <2>3. \A h \in H : Self(e) \notin Up(sheet, At(sheet, h))
    BY <2>2, CountsAre
  <2>4. \A h \in Holds : Gate(Head(main)) \in Up(sheet, At(sheet, h)) => h[2] = e
    BY <2>1, <2>2, <2>3
  <2>5. Gate(Head(main)) \in Up(sheet, Self(d))
    BY <2>1
  <2> QED BY <2>4, <2>5, GateClear
<1>6. Ends(e, H, TRUE)
  BY <1>1, <1>2, <1>3, <1>4, <1>5 DEF Ends
<1>7. Result(e, kids, <<>>)
  BY DEF Result
<1>8. Grows(e, kids, kids)
  BY InvIs DEF Grows
<1>9. Alters(e, B, B, TRUE)
  BY <1>7, <1>8, ReplacedAlters
<1>10. Cursor' /\ responseCur' \in Node \cup {NULL}
  BY <1>7, <1>8, CursorMoves
<1>11. Quiet
  <2>1. /\ stage' \in [Elem -> Stage] /\ val' \in [Elem -> {Unset} \cup Seq(Elem)]
        /\ bound' \in [Elem -> {"no", "document", "value"}]
    BY <1>1, OwnSame
  <2>2. sent' \in Seq(Elem) /\ requested' \subseteq Elem
    BY <1>1, InvIs DEF TypeOK
  <2>3. cur' = cur \/ (cur' \subseteq Status /\ "DONE" \notin cur')
    BY DEF Status
  <2>4. OthersOK' /\ ~ failed' /\ "DONE" \notin cur'
    BY <1>1, <1>10, <2>1, <2>2, <2>3, OthersGood
  <2> QED BY <1>10, <2>4 DEF Quiet
<1> QED BY <1>6, <1>9, <1>11, EndKeeps

\* A later call of a log.
LEMMA LogAgainKeeps ==
  ASSUME NEW B, Inv(B), NEW e \in Elem, LogAgain(e)
  PROVE  IInv'
<1> DEFINE path == PathIn(kids, Self(e))
           msg == TextIn(kids, Self(e))
<1>1. running /\ main # <<>> /\ Head(main) = Again(e) /\ Kin(e) = "log" /\ Tail(main) \in Seq(Call)
  <2>1. Calls("again", e, "log")
    BY DEF LogAgain
  <2> QED BY <2>1, CallsIs
<1>2. /\ count[Self(e)] > 0 => count' = Decreased(count, path)
      /\ ~ (count[Self(e)] > 0) => count' = count
      /\ \/ /\ count'[Self(e)] > 0
            /\ tcb' = Parked(tcb, Self(e), Again(e)) /\ main' = Tail(main)
            /\ Goes /\ UNCHANGED <<kids, output>>
         \/ /\ ~ (count'[Self(e)] > 0)
            /\ \/ /\ count[Self(e)] > 0
                  /\ tcb' = Drained(count, tcb, path)
                  /\ main' = Joined(Tail(main), Moved(count, tcb, path))
               \/ /\ count[Self(e)] = 0 /\ tcb' = tcb /\ main' = Tail(main)
            /\ kids' = Replaced(kids, e, <<>>) /\ responseCur' = CurAfter(kids, Self(e), <<>>)
            /\ IF msg = <<>> THEN Goes /\ UNCHANGED logged
                             ELSE logged' = Append(logged, msg) /\ Returns({"LOG"})
            /\ UNCHANGED <<sent, requested>>
      /\ UNCHANGED <<elements, host>>
  BY DEF LogAgain, Rest, Again
<1>3. /\ HeldSelf(e) <=> count[Self(e)] > 0
      /\ path = SPath(sheet)[At(sheet, SelfHold(e))]
  BY <1>1, LogIs
<1>4. /\ SelfHold(e) \in Holds <=> count[Self(e)] > 0
      /\ SelfHold(e)[2] = e
  BY <1>3, HeldAre, HoldsDiffer
<1>5. /\ count \in [Node -> Nat] /\ Self(e) \in Node /\ msg \in Seq(Elem) /\ logged \in Seq(Seq(Elem))
      /\ running \in BOOLEAN
  BY InvIs, NodesDiffer, TextsAre DEF TypeOK
<1> HIDE DEF path, msg
<1>6. CASE /\ count'[Self(e)] > 0
           /\ tcb' = Parked(tcb, Self(e), Again(e)) /\ main' = Tail(main)
           /\ Goes /\ UNCHANGED <<kids, output>>
  <2>1. count[Self(e)] > 0
    BY <1>2, <1>6
  <2>2. SelfHold(e) \in Holds /\ count' = Decreased(count, SPath(sheet)[At(sheet, SelfHold(e))])
    BY <1>2, <1>3, <1>4, <2>1
  <2>3. UNCHANGED <<kids, elements, output, host>>
    BY <1>2, <1>6
  <2> QED BY <1>1, <1>6, <2>2, <2>3, LogWaits
<1>7. CASE /\ ~ (count'[Self(e)] > 0)
           /\ \/ /\ count[Self(e)] > 0
                 /\ tcb' = Drained(count, tcb, path)
                 /\ main' = Joined(Tail(main), Moved(count, tcb, path))
              \/ /\ count[Self(e)] = 0 /\ tcb' = tcb /\ main' = Tail(main)
           /\ kids' = Replaced(kids, e, <<>>) /\ responseCur' = CurAfter(kids, Self(e), <<>>)
           /\ IF msg = <<>> THEN Goes /\ UNCHANGED logged
                            ELSE logged' = Append(logged, msg) /\ Returns({"LOG"})
           /\ UNCHANGED <<sent, requested>>
  <2>1. logged' \in Seq(Seq(Elem)) /\ failed' = failed /\ running' \in BOOLEAN /\ (cur' = cur \/ cur' = {"LOG"})
    <3>1. CASE msg = <<>>
      BY <1>5, <1>7, <3>1 DEF Goes
    <3>2. CASE msg # <<>>
      <4>1. Append(logged, msg) \in Seq(Seq(Elem))
        BY <1>5
      <4> QED BY <1>7, <3>2, <4>1 DEF Returns
    <3> QED BY <3>1, <3>2
  <2>2. UNCHANGED <<elements, sent, requested, host>>
    BY <1>2, <1>7
  <2>3. \E H : /\ H \subseteq Holds /\ \A h \in Holds : h \in H \/ h = SelfHold(e)
               /\ SelfHold(e) \notin H
               /\ Counts(e, H) /\ Queues(e, <<>>, NULL, NULL)
    <3>1. CASE count[Self(e)] > 0
      <4>1. SelfHold(e) \in Holds
        BY <1>4, <3>1
      <4>2. Joined(Tail(main), Moved(count, tcb, path)) \o <<>> = Joined(Tail(main), Moved(count, tcb, path))
        BY <1>1, <1>3, <4>1, MovesCalls
      <4>3. Scheduled(e, <<>>, NULL, NULL)
        BY <1>1, SchedulesNone
      <4>4. /\ count' = Decreased(count, path) /\ tcb' = Drained(count, tcb, path)
            /\ main' = Joined(Tail(main), Moved(count, tcb, path)) \o <<>>
        BY <1>2, <1>7, <3>1, <4>2
      <4>5. Counts(e, Holds \ {SelfHold(e)}) /\ Queues(e, <<>>, NULL, NULL)
        BY <1>1, <1>3, <1>4, <4>1, <4>3, <4>4, ReleaseTurn
      <4> QED BY <4>5
    <3>2. CASE ~ (count[Self(e)] > 0)
      <4>1. count' = count /\ tcb' = tcb /\ main' = Tail(main) \o <<>>
        BY <1>1, <1>2, <1>7, <3>2
      <4>2. sheet' = sheet
        BY <1>2 DEF host
      <4>3. Counts(e, Holds)
        BY <4>1, InvIs DEF Counts, Counted
      <4>4. \A m \in Node : count'[m] = 0 => tcb[m] = <<>>
        BY <4>3, NoneFreed
      <4>5. Scheduled(e, <<>>, NULL, NULL)
        BY <1>1, SchedulesNone
      <4>6. Queues(e, <<>>, NULL, NULL)
        BY <1>1, <4>1, <4>3, <4>4, <4>5, PlainTurn
      <4> QED BY <1>4, <3>2, <4>3, <4>6
    <3> QED BY <3>1, <3>2
  <2>4. PICK H : /\ H \subseteq Holds /\ \A h \in Holds : h \in H \/ h = SelfHold(e)
                 /\ SelfHold(e) \notin H
                 /\ Counts(e, H) /\ Queues(e, <<>>, NULL, NULL)
    BY <2>3
  <2>5. count'[Self(e)] = 0
    <3>1. count'[Self(e)] = 0 \/ count'[Self(e)] > 0
      BY <1>5, <2>4, CountsAre
    <3> QED BY <1>7, <3>1
  <2> QED BY <1>1, <1>7, <2>1, <2>2, <2>4, <2>5, LogEnds
<1> QED BY <1>2, <1>6, <1>7

-----------------------------------------------------------------------------
(***************************************************************************)
(* The response sends what is ready, and waits for the first node that is  *)
(* not.                                                                    *)
(***************************************************************************)
LEMMA FirstBusyIs ==
  ASSUME NEW ns \in Seq(Node), NEW from \in 1..(Len(ns) + 1)
  PROVE  /\ FirstBusy(ns, from) \in from..(Len(ns) + 1)
         /\ FirstBusy(ns, from) <= Len(ns) =>
              FirstBusy(ns, from) \in 1..Len(ns) /\ count[ns[FirstBusy(ns, from)]] > 0
<1> DEFINE busy == { i \in from..Len(ns) : count[ns[i]] > 0 }
<1>1. Len(ns) \in Nat /\ from \in Nat /\ from > 0 /\ from <= Len(ns) + 1
  OBVIOUS
<1>2. FirstBusy(ns, from) = IF busy = {} THEN Len(ns) + 1
                            ELSE CHOOSE i \in busy : \A j \in busy : i <= j
  BY DEF FirstBusy
<1>3. CASE busy = {}
  <2>1. FirstBusy(ns, from) = Len(ns) + 1
    BY <1>2, <1>3
  <2> QED BY <1>1, <2>1
<1>4. CASE busy # {}
  <2>1. busy \subseteq Nat
    BY <1>1
  <2>2. \E i \in busy : \A j \in busy : i <= j
    BY <1>4, <2>1, LeastNumber
  <2>3. FirstBusy(ns, from) = CHOOSE i \in busy : \A j \in busy : i <= j
    BY <1>2, <1>4
  <2>4. FirstBusy(ns, from) \in busy
    BY <2>2, <2>3
  <2> QED BY <1>1, <2>4
<1> QED BY <1>3, <1>4

\* Where the cursor is.
LEMMA FromIs ==
  ASSUME NEW B, Inv(B)
  PROVE  /\ kids[Response] \in Seq(Node)
         /\ responseCur # NULL =>
              SelectInSeq(kids[Response], LAMBDA n : n = responseCur) \in 1..Len(kids[Response])
<1>1. kids \in [Node -> Seq(Node)] /\ TreeOK(sheet, kids) /\ Cursor /\ Response \in Node
  BY InvIs, NodesDiffer
<1>2. kids[Response] \in Seq(Node) /\ IsInjective(kids[Response])
  BY <1>1 DEF TreeOK, Forest
<1>3. ASSUME responseCur # NULL
      PROVE  SelectInSeq(kids[Response], LAMBDA n : n = responseCur) \in 1..Len(kids[Response])
  <2>1. responseCur \in ToSet(kids[Response])
    BY <1>1, <1>3 DEF Cursor
  <2>2. \E j \in 1..Len(kids[Response]) :
          kids[Response][j] = responseCur /\ SelectInSeq(kids[Response], LAMBDA m : m = responseCur) = j
    BY <1>2, <2>1, PlaceFound
  <2> QED BY <2>2
<1> QED BY <1>2, <1>3

\* A call of the response, which holds nothing, keeps the invariant.
LEMMA ResponseKeeps ==
  ASSUME NEW B, Inv(B), NEW e \in Elem, running, main # <<>>, Head(main) = Again(e), Kin(e) = "response",
         NEW k \in Node \cup {NULL}, k # NULL => k \in ToSet(kids[Response]) /\ count[k] > 0,
         stage' = [stage EXCEPT ![e] = "third"], main' = Tail(main), responseCur' = k,
         k = NULL => tcb' = tcb, k # NULL => tcb' = Parked(tcb, k, Again(e)),
         sent' \in Seq(Elem), failed' = failed, running' \in BOOLEAN, cur' = cur \/ cur' = {"CHUNK"},
         UNCHANGED <<kids, count, val, bound, logged, requested, host>>
  PROVE  IInv'
<1>1. /\ kids' = kids /\ count' = count /\ val' = val /\ bound' = bound /\ logged' = logged
      /\ requested' = requested /\ sheet' = sheet /\ answer' = answer
  BY DEF host
<1>2. /\ e \in B /\ Again(e) \in Queued /\ stage[e] # "READ_RESPONSE" /\ ~ Awaits(e) /\ Phased(e) /\ Busy(e)
  BY LaterIs
<1>3. Set(e) \notin Queued
  BY <1>2 DEF Phased
<1>4. Kin(e)' = Kin(e) /\ WellFormed(sheet) /\ main \in Seq(Call)
  BY <1>1, InvIs DEF Kin
<1>5. ToSet(<<>>) = {}
  BY ListedFew
<1>6. Counts(e, Holds)
  BY <1>1, InvIs DEF Counts, Counted
<1>7. Queues(e, <<>>, k, Again(e))
  <2>1. \A m \in Node : count'[m] = 0 => tcb[m] = <<>>
    BY <1>6, NoneFreed
  <2>2. Scheduled(e, <<>>, k, Again(e))
    BY SchedulesNone
  <2>3. main' = Tail(main) \o <<>>
    BY <1>4
  <2> QED BY <1>6, <2>1, <2>2, <2>3, PlainTurn
<1>8. Set(e) \notin Queued'
  <2>1. Set(e) # Again(e)
    BY CallsDiffer
  <2> QED BY <1>3, <1>5, <1>7, <2>1, QueuesAre
<1>9. "third" \in Stage
  BY DEF Stage
<1>10. /\ stage' \in [Elem -> Stage] /\ \A f \in Elem : f # e => stage'[f] = stage[f]
       /\ stage'[e] = "third"
  BY <1>9, OwnSame
<1>11. Leaves(e)
  BY <1>1, <1>10 DEF Leaves
<1>12. Alters(e, B, B, FALSE)
  BY <1>1, SameNodes
<1>13. Opens(e, B, B, <<>>) /\ Opened(e, B, B, <<>>)
  <2>1. ASSUME NEW d \in Elem, Closed(B, e, sheet.slot[d])'
        PROVE  Closed(B, e, sheet.slot[d])
    BY <1>1, <1>2, <1>4, <2>1 DEF Closed
  <2> QED BY <1>2, <1>5, <2>1 DEF Opens, Opened
<1>14. Step(e, B, B, Holds, <<>>, k, Again(e), FALSE)
  BY <1>6, <1>7, <1>11, <1>12, <1>13 DEF Step
<1>15. OwnHolds(e, Holds)
  <2>1. ~ HeldSelf(e) /\ ~ HeldValue(e) /\ ~ HeldParams(e) /\ ~ HeldResult(e)
    BY <1>3 DEF HeldSelf, HeldValue, HeldParams, HeldResult
  <2>2. ~ HeldSelf(e)' /\ ~ HeldValue(e)' /\ ~ HeldParams(e)' /\ ~ HeldResult(e)'
    BY <1>4, <1>8 DEF HeldSelf, HeldValue, HeldParams, HeldResult
  <2> QED BY <2>1, <2>2, HeldAre DEF OwnHolds
<1>16. OwnNodes(e)
  <2>1. Stocked(e)' /\ Unused(e)'
    BY <1>4, <1>8 DEF Stocked, Unused
  <2> QED BY <2>1 DEF OwnNodes
<1>17. OwnCalls(e, k, Again(e))
  <2>1. ~ Awaits(e)'
    BY <1>1, <1>2 DEF Awaits
  <2>2. Phased(e)'
    BY <1>4, <1>8, <1>10, <2>1 DEF Phased
  <2>3. Paired(e)'
    BY <1>8 DEF Paired
  <2>4. k # NULL => MayWait(Again(e), k)'
    <3>1. Again(e)[1] = "again" /\ Again(e)[2] = e
      BY CallsDiffer
    <3> QED BY <1>1, <1>4, <3>1 DEF MayWait
  <2> QED BY <1>1, <2>2, <2>3, <2>4 DEF OwnCalls
<1>18. OwnParts(e, <<>>)
  <2>1. ASSUME NEW d \in Elem, d # e
        PROVE  KeptIn(d, e)'
    <3>1. Arg(e) \notin Up(sheet, Self(d)) /\ Ret(e) \notin Up(sheet, Self(d))
      BY <1>4, <2>1, InParts DEF Kin
    <3> QED BY <1>1, <1>4, <3>1 DEF KeptIn
  <2> QED BY <1>5, <2>1 DEF OwnParts
<1>19. OwnOrder(e, <<>>)
  BY <1>5 DEF OwnOrder
<1>20. Settles(e, Holds, <<>>, k, Again(e))
  BY <1>15, <1>16, <1>17, <1>18, <1>19 DEF Settles
<1>21. Quiet
  <2>1. /\ val' \in [Elem -> {Unset} \cup Seq(Elem)] /\ bound' \in [Elem -> {"no", "document", "value"}]
    BY <1>1, OwnSame
  <2>2. logged' \in Seq(Seq(Elem)) /\ requested' \subseteq Elem /\ responseCur' \in Node \cup {NULL}
    BY <1>1, InvIs DEF TypeOK
  <2>3. cur' = cur \/ (cur' \subseteq Status /\ "DONE" \notin cur')
    BY DEF Status
  <2>4. OthersOK' /\ ~ failed' /\ "DONE" \notin cur'
    BY <1>1, <1>10, <2>1, <2>2, <2>3, OthersGood
  <2>5. Cursor'
    BY <1>1 DEF Cursor
  <2> QED BY <2>4, <2>5 DEF Quiet
<1> QED BY <1>14, <1>20, <1>21, StepKeeps

\* A later call of a response.
LEMMA ResponseAgainKeeps ==
  ASSUME NEW B, Inv(B), NEW e \in Elem, ResponseAgain(e)
  PROVE  IInv'
<1> DEFINE ns == kids[Response]
           from == IF stage[e] = "second" THEN 1
                   ELSE IF responseCur = NULL THEN Len(ns) + 1
                   ELSE SelectInSeq(ns, LAMBDA n : n = responseCur)
           stop == FirstBusy(ns, from)
           parts == [i \in 1..(stop - from) |-> TextIn(kids, ns[from + i - 1])]
           text == FlattenSeq(parts)
<1>1. running /\ main # <<>> /\ Head(main) = Again(e) /\ Kin(e) = "response"
  <2>1. Calls("again", e, "response")
    BY DEF ResponseAgain
  <2> QED BY <2>1, CallsIs
<1>2. /\ stage' = [stage EXCEPT ![e] = "third"] /\ sent' = sent \o text /\ main' = Tail(main)
      /\ \/ /\ stop <= Len(ns) /\ responseCur' = ns[stop] /\ tcb' = Parked(tcb, ns[stop], Again(e))
         \/ /\ ~ (stop <= Len(ns)) /\ responseCur' = NULL /\ tcb' = tcb
      /\ Goes \/ Returns({"CHUNK"})
      /\ UNCHANGED <<kids, count, val, bound, logged, requested, host>>
  BY DEF ResponseAgain, Rest, Again
<1>3. ns \in Seq(Node) /\ from \in 1..(Len(ns) + 1)
  <2>1. /\ ns \in Seq(Node)
        /\ responseCur # NULL => SelectInSeq(ns, LAMBDA n : n = responseCur) \in 1..Len(ns)
    BY FromIs
  <2> QED BY <2>1
<1> HIDE DEF ns, from
<1>4. /\ stop \in from..(Len(ns) + 1)
      /\ stop <= Len(ns) => stop \in 1..Len(ns) /\ count[ns[stop]] > 0
  BY <1>3, FirstBusyIs
<1> HIDE DEF stop
<1>5. text \in Seq(Elem)
  <2>1. \A n \in Node : TextIn(kids, n) \in Seq(Elem)
    BY TextsAre
  <2>2. \A i \in 1..(stop - from) : ns[from + i - 1] \in Node
    BY <1>3, <1>4
  <2>3. stop - from \in Nat
    BY <1>3, <1>4
  <2>4. parts \in Seq(Seq(Elem))
    BY <2>1, <2>2, <2>3
  <2> HIDE DEF parts
  <2> QED BY <2>4, FlattenType
<1> HIDE DEF text
<1>6. sent' \in Seq(Elem) /\ failed' = failed /\ running' \in BOOLEAN /\ (cur' = cur \/ cur' = {"CHUNK"})
  <2>1. sent \in Seq(Elem) /\ running \in BOOLEAN
    BY InvIs DEF TypeOK
  <2>2. sent \o text \in Seq(Elem)
    BY <1>5, <2>1
  <2>3. sent' \in Seq(Elem)
    BY <1>2, <2>2
  <2>4. failed' = failed /\ running' \in BOOLEAN
    BY <1>2, <2>1 DEF Goes, Returns
  <2>5. cur' = cur \/ cur' = {"CHUNK"}
    BY <1>2 DEF Goes, Returns
  <2> QED BY <2>3, <2>4, <2>5
<1>7. CASE stop <= Len(ns) /\ responseCur' = ns[stop] /\ tcb' = Parked(tcb, ns[stop], Again(e))
  <2>1. stop \in 1..Len(ns) /\ count[ns[stop]] > 0
    BY <1>4, <1>7
  <2>2. PICK k \in Node : k = ns[stop]
    BY <1>3, <2>1
  <2>3. k \in ToSet(kids[Response])
    BY <1>3, <2>1, <2>2 DEF ToSet, ns
  <2>4. k # NULL
    BY NodesDiffer
  <2>5. responseCur' = k /\ tcb' = Parked(tcb, k, Again(e)) /\ count[k] > 0
    BY <1>7, <2>1, <2>2
  <2> QED BY <1>1, <1>2, <1>6, <2>3, <2>4, <2>5, ResponseKeeps
<1>8. CASE ~ (stop <= Len(ns)) /\ responseCur' = NULL /\ tcb' = tcb
  BY <1>1, <1>2, <1>6, <1>8, ResponseKeeps
<1> QED BY <1>2, <1>7, <1>8

-----------------------------------------------------------------------------
(***************************************************************************)
(* The steps that call no function: the loop has run out of callbacks, the *)
(* host calls again, or gives a part of an answer.                         *)
(***************************************************************************)
Still ==
  /\ kids' = kids /\ count' = count /\ tcb' = tcb /\ main' = main
  /\ stage' = stage /\ bound' = bound /\ responseCur' = responseCur /\ sheet' = sheet

\* When no call, stage or counter changes, the same is held.
LEMMA StillHolds ==
  ASSUME Still
  PROVE  /\ Queued' = Queued /\ Holds' = Holds
         /\ \A e \in Elem :
              /\ Kin(e)' = Kin(e)
              /\ Busy(e)' <=> Busy(e)
              /\ HasResult(e)' <=> HasResult(e)
              /\ HeldSelf(e)' <=> HeldSelf(e)
              /\ HeldParams(e)' <=> HeldParams(e)
              /\ HeldResult(e)' <=> HeldResult(e)
<1>1. Queued' = Queued
  BY DEF Still, Queued
<1>2. ASSUME NEW e \in Elem
      PROVE  /\ Kin(e)' = Kin(e)
             /\ Busy(e)' <=> Busy(e)
             /\ HasResult(e)' <=> HasResult(e)
             /\ HeldSelf(e)' <=> HeldSelf(e)
             /\ HeldValue(e)' <=> HeldValue(e)
             /\ HeldParams(e)' <=> HeldParams(e)
             /\ HeldResult(e)' <=> HeldResult(e)
  <2>1. Kin(e)' = Kin(e)
    BY DEF Still, Kin
  <2>2. Busy(e)' <=> Busy(e)
    BY <1>1 DEF Still, Busy
  <2>3. HasResult(e)' <=> HasResult(e)
    BY DEF Still, HasResult
  <2>4. HeldSelf(e)' <=> HeldSelf(e)
    BY <2>1, <2>2 DEF Still, HeldSelf, InMain
  <2>5. HeldValue(e)' <=> HeldValue(e)
    BY <1>1 DEF Still, HeldValue
  <2>6. HeldParams(e)' <=> HeldParams(e)
    BY <2>1 DEF Still, HeldParams, InMain
  <2>7. HeldResult(e)' <=> HeldResult(e)
    BY <2>1, <2>3 DEF Still, HeldResult
  <2> QED BY <2>1, <2>2, <2>3, <2>4, <2>5, <2>6, <2>7
<1>3. \A h \in Hold : Held(h)' <=> Held(h)
  <2> TAKE h \in Hold
  <2>1. h[2] \in Elem
    BY HeldAre DEF Hold
  <2>2. PICK d \in Elem : d = h[2]
    BY <2>1
  <2>3. /\ HeldSelf(d)' <=> HeldSelf(d)
        /\ HeldValue(d)' <=> HeldValue(d)
        /\ HeldParams(d)' <=> HeldParams(d)
        /\ HeldResult(d)' <=> HeldResult(d)
    BY <1>2
  <2> QED BY <2>2, <2>3 DEF Held
<1>4. Holds' = Holds
  BY <1>3 DEF Holds
<1> QED BY <1>1, <1>2, <1>4

\* And the invariant is kept.
LEMMA NothingMoves ==
  ASSUME NEW B, Inv(B), Still, \A e \in Elem : Awaits(e)' => Awaits(e), TypeOK', Ended'
  PROVE  Inv(B)'
<1>1. /\ kids' = kids /\ count' = count /\ tcb' = tcb /\ main' = main
      /\ stage' = stage /\ bound' = bound /\ responseCur' = responseCur /\ sheet' = sheet
  BY DEF Still
<1>2. /\ TypeOK /\ QueuesApart(main, tcb) /\ TreeOK(sheet, kids)
      /\ Begun(B) /\ Spare /\ Cursor
      /\ Counted /\ Standing /\ Reserve /\ Phase /\ Placed
      /\ FirstsClosed /\ Kept /\ Logs /\ Pairs /\ Scope(B)
  BY DEF Inv, Shape, Order
<1>3. /\ Queued' = Queued /\ Holds' = Holds
      /\ \A e \in Elem :
           /\ Kin(e)' = Kin(e)
           /\ Busy(e)' <=> Busy(e)
           /\ HasResult(e)' <=> HasResult(e)
           /\ HeldSelf(e)' <=> HeldSelf(e)
           /\ HeldParams(e)' <=> HeldParams(e)
           /\ HeldResult(e)' <=> HeldResult(e)
  BY StillHolds
<1>4. QueuesApart(main, tcb)' /\ TreeOK(sheet, kids)' /\ Cursor'
  BY <1>1, <1>2 DEF Cursor
<1>5. \A e \in Elem : Early(e)' <=> Early(e)
  BY <1>1, <1>3 DEF Early
<1>6. Begun(B)'
  <2>1. \A e \in Elem : Blank(e)' <=> Blank(e)
    BY <1>1, <1>3 DEF Blank, Loose
  <2>2. \A e, p \in Elem : Closed(B, p, sheet.slot[e])' <=> Closed(B, p, sheet.slot[e])
    BY <1>1, <1>3, <1>5 DEF Closed
  <2>3. /\ B \subseteq Elem
        /\ \A e \in Elem : e \notin B => Blank(e)
        /\ \A e \in Elem : First(e) \in Queued => e \notin B /\ InMain(First(e))
        /\ \A e \in Elem : sheet.up[e] # 0 /\ Closed(B, sheet.up[e], sheet.slot[e]) =>
             e \notin B /\ First(e) \notin Queued
    BY <1>2 DEF Begun
  <2>4. \A e \in Elem : e \notin B => Blank(e)'
    BY <2>1, <2>3
  <2>5. \A e \in Elem : (First(e) \in Queued)' => e \notin B /\ InMain(First(e))'
    BY <1>1, <1>3, <2>3 DEF InMain
  <2>6. \A e \in Elem : sheet.up[e] # 0 => sheet.up[e] \in Elem
    <3>1. WellFormed(sheet)
      BY InvIs
    <3> QED BY <3>1 DEF WellFormed
  <2>7. \A e \in Elem : (sheet.up[e] # 0 /\ Closed(B, sheet.up[e], sheet.slot[e]))' =>
          e \notin B /\ (First(e) \notin Queued)'
    <3> TAKE e \in Elem
    <3>1. sheet'.up[e] = sheet.up[e]
      BY <1>1
    <3>2. CASE sheet.up[e] = 0
      BY <3>1, <3>2
    <3>3. CASE sheet.up[e] # 0
      <4>1. PICK p \in Elem : p = sheet.up[e]
        BY <2>6, <3>3
      <4>2. Closed(B, p, sheet.slot[e])' <=> Closed(B, p, sheet.slot[e])
        BY <2>2
      <4> QED BY <1>1, <1>3, <2>3, <3>1, <4>1, <4>2
    <3> QED BY <3>2, <3>3
  <2> QED BY <2>3, <2>4, <2>5, <2>7 DEF Begun
<1>7. Spare'
  BY <1>1, <1>2, <1>3, <1>5 DEF Spare, Unused, Loose
<1>8. Counted'
  BY <1>1, <1>2, <1>3 DEF Counted
<1>9. Standing'
  BY <1>1, <1>2, <1>3 DEF Standing
<1>10. Reserve'
  BY <1>1, <1>2, <1>3 DEF Reserve, Stocked
<1>11. Phase'
  <2>1. \A e \in Elem : Phased(e)'
    <3> TAKE e \in Elem
    <3>1. Phased(e)
      BY <1>2 DEF Phase
    <3>2. Kin(e)' = Kin(e) /\ (Awaits(e)' => Awaits(e)) /\ Queued' = Queued
      BY <1>3
    <3> QED BY <1>1, <3>1, <3>2 DEF Phased, InMain
  <2> QED BY <2>1 DEF Phase
<1>12. Placed'
  BY <1>1, <1>2 DEF Placed, MayWait, Kin
<1>13. FirstsClosed'
  <2>1. \A d, p \in Elem : Awaited(d, p)' <=> Awaited(d, p)
    BY <1>1, <1>3 DEF Awaited, Closer
  <2> QED BY <1>1, <1>2, <1>3, <2>1 DEF FirstsClosed
<1>14. Kept'
  BY <1>1, <1>2, <1>3, <1>5 DEF Kept, KeptIn
<1>15. Logs'
  BY <1>1, <1>2, <1>3 DEF Logs, Closes, LogOrder, Gate, InMain, Kin
<1>16. Pairs'
  BY <1>1, <1>2, <1>3 DEF Pairs, Paired, InMain
<1>17. Scope(B)'
  BY <1>1, <1>2, <1>3 DEF Scope, Kin
<1> QED BY <1>4, <1>6, <1>7, <1>8, <1>9, <1>10, <1>11, <1>12, <1>13, <1>14, <1>15, <1>16, <1>17 DEF Inv, Shape, Order

\* The loop runs out of callbacks: DONE is told when the document is ready, and
\* then nothing is held, so that no node has a call left on it.
LEMMA RunsOutKeeps ==
  ASSUME NEW B, Inv(B), RunsOut
  PROVE  IInv'
<1>1. /\ running /\ main = <<>> /\ running' = FALSE /\ failed' = failed
      /\ cur' = IF count[Doc] = 0 THEN {"DONE"} ELSE {"WAITING"}
      /\ UNCHANGED <<document, main, elements, output, host>>
  BY DEF RunsOut, Returns
<1>2. Still
  BY <1>1 DEF Still, document, elements, output, host
<1>3. \A e \in Elem : Awaits(e)' => Awaits(e)
  BY <1>1 DEF Awaits, output, host
<1>4. TypeOK'
  <2>1. TypeOK
    BY InvIs
  <2>2. cur' \subseteq Status
    BY <1>1 DEF Status
  <2> QED BY <1>1, <2>1, <2>2 DEF TypeOK, document, elements, output, host
<1>5. Ended'
  <2>1. ~ failed
    BY <1>1, InvIs DEF Ended
  <2>2. ASSUME count[Doc] = 0
        PROVE  Holds = {}
    <3>1. Holds \subseteq Hold /\ count = Tally(sheet, Holds) /\ WellFormed(sheet)
      BY InvIs DEF Counted
    <3>2. \A h \in Holds : Doc \notin Up(sheet, At(sheet, h))
      BY <2>2, <3>1, TallyZero, NodesDiffer
    <3>3. \A h \in Holds : At(sheet, h) \in Node
      <4> TAKE h \in Holds
      <4>1. PICK e \in Elem : h \in {SelfHold(e), ValueHold(e), ParamsHold(e), ResultHold(e)}
        BY <3>1, HoldsDiffer
      <4>2. At(sheet, h) \in {Self(e), Tmp(e), Ret(e)}
        BY <4>1, AtIs
      <4> QED BY <4>2, NodesDiffer
    <3>4. \A h \in Holds : Doc \in Up(sheet, At(sheet, h))
      BY <3>1, <3>3, UpFacts
    <3> QED BY <3>2, <3>4
  <2>3. Holds' = Holds
    BY <1>2, StillHolds
  <2>4. "DONE" \in cur' => main' = <<>> /\ Holds' = {} /\ ~ running'
    BY <1>1, <1>2, <2>2, <2>3 DEF Still
  <2> QED BY <1>1, <2>1, <2>4 DEF Ended
<1>6. Inv(B)'
  BY <1>2, <1>3, <1>4, <1>5, NothingMoves
<1> QED BY <1>6 DEF IInv

\* The host calls again.
LEMMA ResumeKeeps ==
  ASSUME NEW B, Inv(B), Resume
  PROVE  IInv'
<1>1. /\ ~ failed /\ failed' = failed /\ cur' = {} /\ running' = TRUE
      /\ UNCHANGED <<document, main, elements, output, host>>
  BY DEF Resume
<1>2. Still
  BY <1>1 DEF Still, document, elements, output, host
<1>3. \A e \in Elem : Awaits(e)' => Awaits(e)
  BY <1>1 DEF Awaits, output, host
<1>4. TypeOK'
  <2>1. TypeOK
    BY InvIs
  <2> QED BY <1>1, <2>1 DEF TypeOK, document, elements, output, host
<1>5. Ended'
  BY <1>1 DEF Ended
<1>6. Inv(B)'
  BY <1>2, <1>3, <1>4, <1>5, NothingMoves
<1> QED BY <1>6 DEF IInv

\* A part of an answer comes in.
LEMMA AnswerPartlyKeeps ==
  ASSUME NEW B, Inv(B), NEW e \in Elem, AnswerPartly(e)
  PROVE  IInv'
<1>1. /\ ~ failed /\ failed' = failed /\ cur' = {"WAITING"} /\ running' = running /\ ~ running
      /\ e \in requested /\ answer[e] = "none"
      /\ UNCHANGED <<document, main, elements, output, sheet>>
  BY DEF AnswerPartly
<1>2. Still
  BY <1>1 DEF Still, document, elements, output
<1>3. TypeOK
  BY InvIs
<1>4. answer' = [answer EXCEPT ![e] = "partial"] /\ answer \in [Elem -> Answer]
  BY <1>3 DEF AnswerPartly, TypeOK
<1>5. \A f \in Elem : Awaits(f)' => Awaits(f)
  <2> TAKE f \in Elem
  <2>1. CASE f = e
    BY <1>1, <2>1 DEF Awaits
  <2>2. CASE f # e
    <3>1. answer'[f] = answer[f]
      BY <1>4, <2>2
    <3> QED BY <1>1, <3>1 DEF Awaits, output
  <2> QED BY <2>1, <2>2
<1>6. TypeOK'
  <2>1. cur' \subseteq Status
    BY <1>1 DEF Status
  <2>2. answer' \in [Elem -> Answer]
    BY <1>4 DEF Answer
  <2> QED BY <1>1, <1>3, <2>1, <2>2 DEF TypeOK, document, elements, output
<1>7. Ended'
  BY <1>1 DEF Ended
<1>8. Inv(B)'
  BY <1>2, <1>5, <1>6, <1>7, NothingMoves
<1> QED BY <1>8 DEF IInv

-----------------------------------------------------------------------------
(***************************************************************************)
(* The elements an element is written in.                                  *)
(***************************************************************************)
Written(s, f, m) == {m} \cup IF s.up[m] = 0 THEN {} ELSE f[s.up[m]]

\* What an element is written in is defined, going up the sheet.
LEMMA WrittenExists ==
  ASSUME NEW s, WellFormed(s)
  PROVE  \E f : f = [m \in Elem |-> Written(s, f, m)]
<1> DEFINE N == Cardinality(Elem) + 1
           Low(k) == { m \in Elem : m < k }
           Good(k, g) == g = [m \in Low(k) |-> Written(s, g, m)]
           Has(k) == \E g : Good(k, g)
           Bad == { k \in 0..N : ~ Has(k) }
<1>0. Cardinality(Elem) \in Nat /\ N \in Nat
  BY ElemAssumption, FS_CardinalityType
<1>1. \A m \in Elem : m \in Nat /\ m < N /\ m > 0
  BY <1>0, ElemAssumption
<1>2. Has(0)
  <2>1. Low(0) = {}
    BY <1>1
  <2>2. Good(0, [m \in {} |-> Written(s, <<>>, m)])
    BY <2>1
  <2> QED BY <2>2
<1>3. ASSUME NEW k \in 0..N, k # 0, Has(k - 1) PROVE Has(k)
  <2>1. PICK g : Good(k - 1, g)
    BY <1>3
  <2> DEFINE h == [m \in Low(k) |-> Written(s, g, m)]
  <2>2. ASSUME NEW m \in Low(k), s.up[m] # 0 PROVE h[s.up[m]] = g[s.up[m]]
    <3>1. s.up[m] \in Elem /\ s.up[m] < m /\ m < k
      BY <2>2 DEF WellFormed
    <3>2. m \in Nat /\ s.up[m] \in Nat /\ k \in Nat
      BY <1>1, <3>1, <2>2, <1>3
    <3>3. s.up[m] \in Low(k - 1) /\ s.up[m] \in Low(k)
      BY <3>1, <3>2
    <3>4. g[s.up[m]] = Written(s, g, s.up[m])
      BY <2>1, <3>3
    <3> QED BY <3>3, <3>4
  <2>3. \A m \in Low(k) : Written(s, h, m) = Written(s, g, m)
    <3> HIDE DEF h
    <3> QED BY <2>2 DEF Written
  <2>4. Good(k, h)
    BY <2>3
  <2> QED BY <2>4
<1> HIDE DEF Has
<1>4. Bad = {}
  <2> SUFFICES ASSUME Bad # {} PROVE FALSE
    OBVIOUS
  <2>1. Bad \subseteq Nat
    BY <1>0
  <2>2. PICK k \in Bad : \A m \in Bad : k <= m
    BY <2>1, LeastNumber
  <2>3. k \in 0..N /\ ~ Has(k) /\ k # 0
    BY <2>2, <1>2
  <2>4. k - 1 \in 0..N /\ ~ (k <= k - 1)
    BY <2>3, <1>0
  <2>5. Has(k - 1)
    BY <2>2, <2>4
  <2> QED BY <1>3, <2>3, <2>5
<1>5. Has(N)
  BY <1>0, <1>4
<1>6. Low(N) = Elem
  BY <1>1
<1>7. PICK g : Good(N, g)
  BY <1>5 DEF Has
<1> HIDE DEF Low
<1> QED BY <1>6, <1>7

\* Those above an element.
LEMMA AncestorsAre ==
  ASSUME NEW s, WellFormed(s), NEW e \in Elem
  PROVE  AncestorsOrSelf(s, e) =
           {e} \cup IF s.up[e] = 0 THEN {} ELSE AncestorsOrSelf(s, s.up[e])
<1> DEFINE f == CHOOSE f : f = [m \in Elem |-> {m} \cup IF s.up[m] = 0 THEN {} ELSE f[s.up[m]]]
<1>1. \E g : g = [m \in Elem |-> {m} \cup IF s.up[m] = 0 THEN {} ELSE g[s.up[m]]]
  BY WrittenExists DEF Written
<1>2. f = [m \in Elem |-> {m} \cup IF s.up[m] = 0 THEN {} ELSE f[s.up[m]]]
  BY <1>1
<1>3. \A m : AncestorsOrSelf(s, m) = f[m]
  BY DEF AncestorsOrSelf
<1> HIDE DEF f
<1>4. f[e] = {e} \cup IF s.up[e] = 0 THEN {} ELSE f[s.up[e]]
  BY <1>2
<1> QED BY <1>3, <1>4

\* What has been begun has been written in what has been begun.
LEMMA AncestorsBegun ==
  ASSUME NEW B, Inv(B), NEW e \in Elem, e \in B \/ First(e) \in Queued
  PROVE  \A a \in AncestorsOrSelf(sheet, e) : a \in Elem /\ (a = e \/ a \in B)
<1> DEFINE P(m) == \A a \in AncestorsOrSelf(sheet, m) : a \in Elem /\ (a = m \/ a \in B)
           Wrong == { m \in Elem : (m \in B \/ First(m) \in Queued) /\ ~ P(m) }
<1> SUFFICES ASSUME Wrong # {} PROVE FALSE
  OBVIOUS
<1>1. Wrong \subseteq Nat
  BY ElemNumbers
<1>2. PICK m \in Wrong : \A k \in Wrong : m <= k
  BY <1>1, LeastNumber
<1>3. m \in Elem /\ (m \in B \/ First(m) \in Queued) /\ ~ P(m)
  BY <1>2
<1>4. WellFormed(sheet) /\ Begun(B)
  BY InvIs
<1>5. AncestorsOrSelf(sheet, m) =
        {m} \cup IF sheet.up[m] = 0 THEN {} ELSE AncestorsOrSelf(sheet, sheet.up[m])
  BY <1>3, <1>4, AncestorsAre
<1>6. sheet.up[m] # 0
  BY <1>3, <1>5
<1>7. PICK u \in Elem : u = sheet.up[m]
  BY <1>3, <1>4, <1>6 DEF WellFormed
<1>8. u < m /\ u \in Nat /\ m \in Nat
  BY <1>3, <1>4, <1>7, ElemNumbers DEF WellFormed
<1>9. u \in B
  <2>1. ~ Closed(B, sheet.up[m], sheet.slot[m])
    BY <1>3, <1>4, <1>6 DEF Begun
  <2> QED BY <1>7, <2>1 DEF Closed
<1>10. u \notin Wrong
  BY <1>2, <1>8
<1>11. P(u)
  BY <1>9, <1>10
<1>12. P(m)
  BY <1>3, <1>5, <1>6, <1>7, <1>9, <1>11
<1> QED BY <1>3, <1>12

(***************************************************************************)
(* An expression that reads a variable too early is out of scope.          *)
(***************************************************************************)
LEMMA OutOfScope ==
  ASSUME NEW B, Inv(B), NEW e \in Elem, main # <<>>, Head(main) = First(e), Kin(e) # "response",
         sheet.ref[e] # 0, bound[sheet.ref[e]] = "no"
  PROVE  ~ WellScoped(sheet)
<1>1. WellFormed(sheet) /\ Scope(B)
  BY InvIs
<1>2. PICK v \in Elem : v = sheet.ref[e]
  BY <1>1 DEF WellFormed
<1>3. v \notin B
  <2>1. Kin(v) = "variable"
    BY <1>1, <1>2 DEF WellFormed, Kin
  <2> QED BY <1>1, <1>2, <2>1 DEF Scope
<1>4. e \notin B /\ First(e) \in Queued /\ InMain(First(e))
  BY HeadBlank
<1>5. \A x : ~ InFront(main, x, First(e))
  BY HeadFirst
<1>6. \A a \in AncestorsOrSelf(sheet, e) : a \in Elem /\ (a = e \/ a \in B)
  BY <1>4, AncestorsBegun
<1>7. ASSUME NEW a \in AncestorsOrSelf(sheet, e),
             sheet.up[a] = sheet.up[v], sheet.slot[a] = sheet.slot[v], v < a
      PROVE  FALSE
  <2>1. PICK b \in Elem : b = a
    BY <1>6
  <2>2. /\ b \in B => v \in B
        /\ First(b) \in Queued => v \in B \/ InFront(main, First(v), First(b))
    BY <1>1, <1>7, <2>1 DEF Scope
  <2>3. CASE b \in B
    BY <1>3, <2>2, <2>3
  <2>4. CASE b = e
    BY <1>3, <1>4, <1>5, <2>2, <2>4
  <2> QED BY <1>6, <2>1, <2>3, <2>4
<1>8. ASSUME sheet.up[v] = 0, NEW a \in AncestorsOrSelf(sheet, e), sheet.kind[a] = "response"
      PROVE  FALSE
  <2>1. First(v) \in Queued
    BY <1>1, <1>3, <1>8 DEF Scope
  <2>2. InFront(main, First(v), First(e)) \/ (First(e)[1] = "first" /\ sheet.up[First(e)[2]] = 0)
    BY <1>1, <1>4, <1>8, <2>1 DEF Scope, InMain
  <2>3. sheet.up[e] = 0
    BY <1>5, <2>2, CallsDiffer
  <2>4. AncestorsOrSelf(sheet, e) = {e}
    BY <1>1, <2>3, AncestorsAre
  <2> QED BY <1>8, <2>4 DEF Kin
<1>9. ~ InScope(sheet, sheet.ref[e], e)
  <2>1. ~ InScope(sheet, v, e)
    BY <1>7, <1>8 DEF InScope
  <2> QED BY <1>2, <2>1
<1> QED BY <1>9 DEF WellScoped

\* A call fails only if its sheet reads a variable out of its scope.
LEMMA UndefinedVariableKeeps ==
  ASSUME NEW B, Inv(B), NEW e \in Elem, UndefinedVariable(e)
  PROVE  IInv'
<1>1. /\ Calls("first", e, sheet.kind[e]) /\ Source(sheet, e) = "variable" /\ Fails
      /\ bound[sheet.ref[e]] = "no" /\ Kin(e) # "response"
  BY DEF UndefinedVariable, Kin
<1>2. main # <<>> /\ Head(main) = First(e)
  BY <1>1, CallsIs
<1>3. sheet.ref[e] # 0
  BY <1>1, SourceIs
<1>4. ~ WellScoped(sheet)
  BY <1>1, <1>2, <1>3, OutOfScope
<1>5. /\ failed' = TRUE /\ cur' = {"ERROR"} /\ running' = FALSE
      /\ UNCHANGED <<document, main, elements, output, host>>
  BY <1>1 DEF Fails
<1>6. Still
  BY <1>5 DEF Still, document, elements, output, host
<1>7. \A f \in Elem : Awaits(f)' => Awaits(f)
  BY <1>5 DEF Awaits, output, host
<1>8. TypeOK'
  <2>1. TypeOK
    BY InvIs
  <2>2. cur' \subseteq Status
    BY <1>5 DEF Status
  <2> QED BY <1>5, <2>1, <2>2 DEF TypeOK, document, elements, output, host
<1>9. Ended'
  BY <1>4, <1>5, <1>6 DEF Ended, Still
<1>10. Inv(B)'
  BY <1>6, <1>7, <1>8, <1>9, NothingMoves
<1> QED BY <1>10 DEF IInv

-----------------------------------------------------------------------------
(***************************************************************************)
(* The last of an answer wakes the include that awaits it.                 *)
(***************************************************************************)
Wakes(e) ==
  /\ kids' = kids /\ count' = count /\ tcb' = tcb /\ bound' = bound
  /\ responseCur' = responseCur /\ requested' = requested /\ sheet' = sheet
  /\ main' = Append(main, Again(e))
  /\ \A f \in Elem : f # e => stage'[f] = stage[f] /\ answer'[f] = answer[f]
  /\ stage'[e] \in {"SUCCESS", "FAILURE"}
  /\ answer'[e] \notin {"none", "partial"}

\* What the main queue holds then.
Joins(e) ==
  /\ \A x : InMain(x)' <=> InMain(x) \/ x = Again(e)
  /\ \A x : x \in Queued' <=> x \in Queued \/ x = Again(e)
  /\ \A x, y : InFront(main, x, y) => InFront(main, x, y)'
  /\ \A x : InMain(x) => InFront(main, x, Again(e))'
  /\ \A x, y : NextTo(main, x, y) => NextTo(main, x, y)'
  /\ main # <<>> => Head(main') = Head(main)
  /\ main' \in Seq(Call) /\ QueuesApart(main, tcb)'

\* An include that awaits an answer is busy.
LEMMA AwaitsIs ==
  ASSUME NEW B, Inv(B), NEW e \in Elem, Awaits(e)
  PROVE  /\ stage[e] = "READ_RESPONSE" /\ Kin(e) = "include" /\ e \in B
         /\ Again(e) \notin Queued /\ Set(e) \notin Queued
         /\ Busy(e) /\ Early(e) /\ ~ HasResult(e)
<1>1. Phased(e) /\ Unused(e) /\ Begun(B)
  BY InvIs DEF Phase, Spare
<1>2. /\ stage[e] = "READ_RESPONSE" /\ Kin(e) = "include"
      /\ Again(e) \notin Queued /\ Set(e) \notin Queued
  BY <1>1 DEF Phased
<1>3. Busy(e) /\ Early(e)
  BY <1>2 DEF Busy, Early
<1>4. Loose(Ret(e))
  BY <1>1, <1>2, <1>3 DEF Unused
<1>5. ~ HasResult(e)
  BY <1>4, NodesDiffer DEF Loose, HasResult
<1>6. e \in B
  BY <1>1, <1>2 DEF Begun, Blank
<1> QED BY <1>2, <1>3, <1>5, <1>6

LEMMA JoinsIs ==
  ASSUME NEW B, Inv(B), NEW e \in Elem, Again(e) \notin Queued, tcb' = tcb, main' = Append(main, Again(e))
  PROVE  Joins(e)
<1>1. main \in Seq(Call) /\ tcb \in [Node -> Seq(Call)] /\ QueuesApart(main, tcb) /\ Again(e) \in Call
  BY InvIs, CallsDiffer
<1>2. Again(e) \notin InQueues(main, tcb)
  BY <1>1, QueuedIs DEF InQueues
<1>3. /\ Append(main, Again(e)) \in Seq(Call) /\ QueuesApart(Append(main, Again(e)), tcb)
  BY <1>1, <1>2, ScheduleApart
<1>4. ToSet(Append(main, Again(e))) = ToSet(main) \cup {Again(e)}
  BY <1>1, Appended
<1>5. \A x : InMain(x)' <=> InMain(x) \/ x = Again(e)
  BY <1>4 DEF InMain
<1>6. \A x : x \in Queued' <=> x \in Queued \/ x = Again(e)
  BY <1>4, QueuedIs
<1>7. \A x, y : InFront(main, x, y) => InFront(Append(main, Again(e)), x, y)
  BY <1>1, InFrontAppended
<1>8. \A x : x \in ToSet(main) => InFront(Append(main, Again(e)), x, Again(e))
  BY <1>1, InFrontAppended
<1>9. \A x, y : NextTo(main, x, y) => NextTo(Append(main, Again(e)), x, y)
  <2>1. <<Again(e)>> \in Seq(Call) /\ Append(main, Again(e)) = main \o <<Again(e)>>
    BY <1>1
  <2>2. \A x, y : NextTo(main, x, y) => NextTo(main \o <<Again(e)>>, x, y)
    BY <1>1, <2>1, NextToKept
  <2> QED BY <2>1, <2>2
<1>10. main # <<>> => Head(Append(main, Again(e))) = Head(main)
  BY <1>1
<1> QED BY <1>3, <1>5, <1>6, <1>7, <1>8, <1>9, <1>10 DEF Joins, InMain

\* An answer changes nothing of what is held.
LEMMA WakesHolds ==
  ASSUME NEW B, Inv(B), NEW e \in Elem, Awaits(e), Wakes(e), Joins(e)
  PROVE  /\ Holds' = Holds
         /\ \A f \in Elem :
              /\ Kin(f)' = Kin(f)
              /\ Busy(f)' <=> Busy(f)
              /\ Early(f)' <=> Early(f)
              /\ HasResult(f)' <=> HasResult(f)
              /\ HeldSelf(f)' <=> HeldSelf(f)
              /\ HeldParams(f)' <=> HeldParams(f)
              /\ HeldResult(f)' <=> HeldResult(f)
              /\ (Set(f) \in Queued)' <=> Set(f) \in Queued
              /\ (First(f) \in Queued)' <=> First(f) \in Queued
              /\ InMain(Set(f))' <=> InMain(Set(f))
              /\ InMain(First(f))' <=> InMain(First(f))
              /\ f # e => (InMain(Again(f))' <=> InMain(Again(f)))
                          /\ ((Again(f) \in Queued)' <=> Again(f) \in Queued)
<1>1. /\ kids' = kids /\ count' = count /\ sheet' = sheet
      /\ \A f \in Elem : f # e => stage'[f] = stage[f]
      /\ stage'[e] \in {"SUCCESS", "FAILURE"}
  BY DEF Wakes
<1>2. /\ stage[e] = "READ_RESPONSE" /\ Kin(e) = "include"
      /\ Set(e) \notin Queued /\ Busy(e) /\ Early(e) /\ ~ HasResult(e)
  BY AwaitsIs
<1>3. ASSUME NEW f \in Elem
      PROVE  /\ Kin(f)' = Kin(f)
             /\ Busy(f)' <=> Busy(f)
             /\ Early(f)' <=> Early(f)
             /\ HasResult(f)' <=> HasResult(f)
             /\ HeldSelf(f)' <=> HeldSelf(f)
             /\ HeldValue(f)' <=> HeldValue(f)
             /\ HeldParams(f)' <=> HeldParams(f)
             /\ HeldResult(f)' <=> HeldResult(f)
             /\ (Set(f) \in Queued)' <=> Set(f) \in Queued
             /\ (First(f) \in Queued)' <=> First(f) \in Queued
             /\ InMain(Set(f))' <=> InMain(Set(f))
             /\ InMain(First(f))' <=> InMain(First(f))
             /\ f # e => (InMain(Again(f))' <=> InMain(Again(f)))
                         /\ ((Again(f) \in Queued)' <=> Again(f) \in Queued)
  <2>1. Kin(f)' = Kin(f) /\ (HasResult(f)' <=> HasResult(f))
    BY <1>1 DEF Kin, HasResult
  <2>2. Set(f) # Again(e) /\ First(f) # Again(e) /\ (f # e => Again(f) # Again(e))
    BY CallsDiffer
  <2>3. /\ (Set(f) \in Queued)' <=> Set(f) \in Queued
        /\ (First(f) \in Queued)' <=> First(f) \in Queued
        /\ InMain(Set(f))' <=> InMain(Set(f))
        /\ InMain(First(f))' <=> InMain(First(f))
        /\ f # e => (InMain(Again(f))' <=> InMain(Again(f)))
                    /\ ((Again(f) \in Queued)' <=> Again(f) \in Queued)
    BY <2>2 DEF Joins
  <2>4. Busy(f)' <=> Busy(f)
    <3>1. CASE f = e
      <4>1. (Again(f) \in Queued)'
        BY <3>1 DEF Joins
      <4> QED BY <1>2, <3>1, <4>1 DEF Busy
    <3>2. CASE f # e
      BY <1>1, <2>3, <3>2 DEF Busy
    <3> QED BY <3>1, <3>2
  <2>5. Early(f)' <=> Early(f)
    BY <1>1, <1>2, <2>1 DEF Early
  <2>6. HeldSelf(f)' <=> HeldSelf(f)
    <3>1. f = e => Kin(f) # "log"
      BY <1>2
    <3> QED BY <1>1, <2>1, <2>3, <2>4, <3>1 DEF HeldSelf
  <2>7. HeldValue(f)' <=> HeldValue(f)
    BY <1>1, <2>3 DEF HeldValue
  <2>8. HeldParams(f)' <=> HeldParams(f)
    BY <1>1, <1>2, <2>1, <2>3 DEF HeldParams
  <2>9. HeldResult(f)' <=> HeldResult(f)
    BY <1>1, <1>2, <2>1 DEF HeldResult
  <2> QED BY <2>1, <2>3, <2>4, <2>5, <2>6, <2>7, <2>8, <2>9
<1>4. \A h \in Hold : Held(h)' <=> Held(h)
  <2> TAKE h \in Hold
  <2>1. PICK d \in Elem : d = h[2]
    BY DEF Hold
  <2>2. /\ HeldSelf(d)' <=> HeldSelf(d)
        /\ HeldValue(d)' <=> HeldValue(d)
        /\ HeldParams(d)' <=> HeldParams(d)
        /\ HeldResult(d)' <=> HeldResult(d)
    BY <1>3
  <2> QED BY <2>1, <2>2 DEF Held
<1>5. Holds' = Holds
  BY <1>4 DEF Holds
<1> QED BY <1>3, <1>5

\* The log that is to be called lies in no include that awaits an answer.
LEMMA NoLogWaits ==
  ASSUME NEW B, Inv(B), NEW e \in Elem, Awaits(e), NEW g \in Elem, Kin(g) = "log", Busy(g)
  PROVE  ~ Closes(Again(e), g)
<1>1. Kin(e) = "include" /\ Early(e)
  BY AwaitsIs
<1>2. KeptIn(g, e)
  BY <1>1, InvIs DEF Kept
<1>3. Ret(e) \notin Up(sheet, Self(g))
  BY <1>1, <1>2 DEF KeptIn
<1>4. Gate(Again(e)) = Ret(e)
  BY <1>1, CallsDiffer DEF Gate
<1> QED BY <1>3, <1>4 DEF Closes

\* And nothing of the order of the calls.
LEMMA WakesOrder ==
  ASSUME NEW B, Inv(B), NEW e \in Elem, Awaits(e), Wakes(e), Joins(e)
  PROVE  FirstsClosed' /\ Kept' /\ Logs' /\ Pairs' /\ Scope(B)'
<1>1. /\ kids' = kids /\ count' = count /\ sheet' = sheet /\ bound' = bound
      /\ \A f \in Elem : f # e => stage'[f] = stage[f]
  BY DEF Wakes
<1>2. /\ stage[e] = "READ_RESPONSE" /\ Kin(e) = "include" /\ Again(e) \notin Queued
      /\ Set(e) \notin Queued
  BY AwaitsIs
<1>3. \A f \in Elem :
        /\ Kin(f)' = Kin(f)
        /\ Busy(f)' <=> Busy(f)
        /\ Early(f)' <=> Early(f)
        /\ HeldSelf(f)' <=> HeldSelf(f)
        /\ HeldParams(f)' <=> HeldParams(f)
        /\ HeldResult(f)' <=> HeldResult(f)
        /\ (Set(f) \in Queued)' <=> Set(f) \in Queued
        /\ (First(f) \in Queued)' <=> First(f) \in Queued
        /\ InMain(Set(f))' <=> InMain(Set(f))
        /\ f # e => (InMain(Again(f))' <=> InMain(Again(f)))
                    /\ ((Again(f) \in Queued)' <=> Again(f) \in Queued)
  BY WakesHolds
<1>4. /\ \A x : InMain(x)' <=> InMain(x) \/ x = Again(e)
      /\ \A x : x \in Queued' <=> x \in Queued \/ x = Again(e)
      /\ \A x, y : InFront(main, x, y) => InFront(main, x, y)'
      /\ \A x : InMain(x) => InFront(main, x, Again(e))'
      /\ \A x, y : NextTo(main, x, y) => NextTo(main, x, y)'
      /\ main # <<>> => Head(main') = Head(main)
  BY DEF Joins
<1>5. WellFormed(sheet) /\ FirstsClosed /\ Kept /\ Logs /\ Pairs /\ Scope(B) /\ Begun(B)
  BY InvIs
<1>6. FirstsClosed'
  <2>1. \A d, p \in Elem : Awaited(d, p) => Awaited(d, p)'
    <3> TAKE d, p \in Elem
    <3>1. Closer(d)' = Closer(d)
      BY <1>1 DEF Closer
    <3> QED BY <1>1, <1>3, <1>4, <3>1 DEF Awaited
  <2> QED BY <1>1, <1>3, <1>5, <2>1 DEF FirstsClosed
<1>7. Kept'
  <2>1. ASSUME NEW d \in Elem, NEW q \in Elem, KeptIn(d, q)
        PROVE  KeptIn(d, q)'
    <3>1. /\ Kin(q)' = Kin(q) /\ (Early(q)' <=> Early(q))
          /\ Kin(q) = "if" => stage'[q] = stage[q]
          /\ (Set(q) \in Queued)' <=> Set(q) \in Queued
          /\ Again(q) \in Queued => (Again(q) \in Queued)'
      BY <1>1, <1>2, <1>3, <1>4
    <3> QED BY <1>1, <2>1, <3>1 DEF KeptIn
  <2> QED BY <1>3, <1>5, <2>1 DEF Kept
<1>8. Logs'
  <2>1. ASSUME NEW g \in Elem, NEW x \in Call, Kin(g) = "log", Closes(x, g)
        PROVE  LogOrder(g, x)'
    <3>1. LogOrder(g, x) /\ g # e
      BY <1>2, <1>5, <2>1 DEF Logs
    <3>2. /\ InMain(Again(g))' <=> InMain(Again(g))
          /\ (Again(g) \in Queued)' <=> Again(g) \in Queued
      BY <1>3, <3>1
    <3>3. InMain(Again(g)) => Again(g) \in Queued
      BY QueuedIs DEF InMain
    <3>4. CASE x # Again(e)
      <4>1. InMain(x)' <=> InMain(x)
        BY <1>4, <3>4
      <4> QED BY <1>1, <1>4, <3>1, <3>2, <4>1 DEF LogOrder
    <3>5. CASE x = Again(e)
      <4>1. ~ Busy(g)
        BY <2>1, <3>5, NoLogWaits
      <4>2. Again(g) \notin Queued
        BY <4>1 DEF Busy
      <4> QED BY <3>2, <3>3, <4>2 DEF LogOrder
    <3> QED BY <3>4, <3>5
  <2>2. \A g \in Elem : \A x \in Call : Closes(x, g)' => Closes(x, g)
    BY <1>1 DEF Closes, Gate, Kin
  <2> QED BY <1>3, <2>1, <2>2 DEF Logs
<1>9. Pairs'
  <2>1. ASSUME NEW f \in Elem
        PROVE  Paired(f)'
    <3>1. Paired(f)
      BY <1>5 DEF Pairs
    <3>2. /\ Kin(f)' = Kin(f) /\ ((Set(f) \in Queued)' <=> Set(f) \in Queued)
          /\ InMain(Set(f))' <=> InMain(Set(f))
          /\ f # e => (InMain(Again(f))' <=> InMain(Again(f)))
      BY <1>3
    <3>3. Set(f) \in Queued => f # e
      BY <1>2
    <3>4. InMain(Again(f)) => main # <<>>
      BY ListedFew DEF InMain
    <3> QED BY <1>1, <1>4, <3>1, <3>2, <3>3, <3>4 DEF Paired
  <2> QED BY <2>1 DEF Pairs
<1>10. Scope(B)'
  <2>1. /\ \A v \in B : Kin(v) = "variable" => bound[v] # "no"
        /\ \A v, a \in Elem : sheet.up[v] = sheet.up[a] /\ sheet.slot[v] = sheet.slot[a] /\ v < a =>
             /\ a \in B => v \in B
             /\ First(a) \in Queued => v \in B \/ InFront(main, First(v), First(a))
        /\ \A v \in Elem : sheet.up[v] = 0 => v \in B \/ First(v) \in Queued
        /\ \A v \in Elem : sheet.up[v] = 0 /\ First(v) \in Queued =>
             \A x \in ToSet(main) :
               InFront(main, First(v), x) \/ (x[1] = "first" /\ sheet.up[x[2]] = 0)
    BY <1>5 DEF Scope
  <2>2. \A v \in B : (Kin(v) = "variable" => bound[v] # "no")'
    BY <1>1, <2>1 DEF Kin
  <2>3. \A v, a \in Elem :
          (sheet.up[v] = sheet.up[a] /\ sheet.slot[v] = sheet.slot[a] /\ v < a =>
             /\ a \in B => v \in B
             /\ First(a) \in Queued => v \in B \/ InFront(main, First(v), First(a)))'
    BY <1>1, <1>3, <1>4, <2>1
  <2>4. \A v \in Elem : (sheet.up[v] = 0 => v \in B \/ First(v) \in Queued)'
    BY <1>1, <1>3, <2>1
  <2>5. \A v \in Elem : (sheet.up[v] = 0 /\ First(v) \in Queued)' =>
          \A x \in ToSet(main') :
            InFront(main, First(v), x)' \/ (x[1] = "first" /\ sheet'.up[x[2]] = 0)
    <3> TAKE v \in Elem
    <3> HAVE (sheet.up[v] = 0 /\ First(v) \in Queued)'
    <3> TAKE x \in ToSet(main')
    <3>1. sheet.up[v] = 0 /\ First(v) \in Queued
      BY <1>1, <1>3
    <3>2. InMain(First(v))
      BY <1>5, <3>1 DEF Begun
    <3>3. x \in ToSet(main) \/ x = Again(e)
      BY <1>4 DEF InMain
    <3>4. CASE x \in ToSet(main)
      BY <1>1, <1>4, <2>1, <3>1, <3>4
    <3>5. CASE x = Again(e)
      BY <1>4, <3>2, <3>5
    <3> QED BY <3>3, <3>4, <3>5
  <2> QED BY <2>2, <2>3, <2>4, <2>5 DEF Scope
<1> QED BY <1>6, <1>7, <1>8, <1>9, <1>10

\* An include that is called for its answer keeps the invariant.
LEMMA WakesKeeps ==
  ASSUME NEW B, Inv(B), NEW e \in Elem, Awaits(e), Wakes(e), TypeOK', Ended'
  PROVE  Inv(B)'
<1>1. /\ kids' = kids /\ count' = count /\ tcb' = tcb /\ bound' = bound
      /\ responseCur' = responseCur /\ requested' = requested /\ sheet' = sheet
      /\ \A f \in Elem : f # e => stage'[f] = stage[f] /\ answer'[f] = answer[f]
      /\ stage'[e] \in {"SUCCESS", "FAILURE"}
      /\ answer'[e] \notin {"none", "partial"}
  BY DEF Wakes
<1>2. /\ stage[e] = "READ_RESPONSE" /\ Kin(e) = "include" /\ Again(e) \notin Queued
      /\ Set(e) \notin Queued /\ e \in B
  BY AwaitsIs
<1>3. Joins(e)
  BY <1>2, JoinsIs DEF Wakes
<1>4. /\ Holds' = Holds
      /\ \A f \in Elem :
           /\ Kin(f)' = Kin(f)
           /\ Busy(f)' <=> Busy(f)
           /\ Early(f)' <=> Early(f)
           /\ HasResult(f)' <=> HasResult(f)
           /\ (Set(f) \in Queued)' <=> Set(f) \in Queued
           /\ (First(f) \in Queued)' <=> First(f) \in Queued
           /\ InMain(First(f))' <=> InMain(First(f))
           /\ f # e => (InMain(Again(f))' <=> InMain(Again(f)))
                       /\ ((Again(f) \in Queued)' <=> Again(f) \in Queued)
  BY <1>3, WakesHolds
<1>5. /\ TreeOK(sheet, kids) /\ Begun(B) /\ Spare /\ Cursor
      /\ Counted /\ Standing /\ Reserve /\ Phase /\ Placed /\ WellFormed(sheet)
  BY InvIs
<1>6. QueuesApart(main, tcb)' /\ TreeOK(sheet, kids)' /\ Cursor'
  BY <1>1, <1>3, <1>5 DEF Joins, Cursor
<1>7. Begun(B)'
  <2>1. /\ B \subseteq Elem
        /\ \A f \in Elem : f \notin B => Blank(f)
        /\ \A f \in Elem : First(f) \in Queued => f \notin B /\ InMain(First(f))
        /\ \A f \in Elem : sheet.up[f] # 0 /\ Closed(B, sheet.up[f], sheet.slot[f]) =>
             f \notin B /\ First(f) \notin Queued
    BY <1>5 DEF Begun
  <2>2. \A f \in Elem : f \notin B => Blank(f)'
    BY <1>1, <1>2, <1>4, <2>1 DEF Blank, Loose
  <2>3. \A f \in Elem : (First(f) \in Queued)' => f \notin B /\ InMain(First(f))'
    BY <1>4, <2>1
  <2>4. \A f \in Elem : sheet.up[f] # 0 => sheet.up[f] \in Elem
    BY <1>5 DEF WellFormed
  <2>5. \A f, p \in Elem : Closed(B, p, sheet.slot[f])' <=> Closed(B, p, sheet.slot[f])
    <3> TAKE f, p \in Elem
    <3>1. /\ Kin(p)' = Kin(p) /\ (Early(p)' <=> Early(p))
          /\ Kin(p) = "if" => stage'[p] = stage[p]
      BY <1>1, <1>2, <1>4
    <3> QED BY <1>1, <3>1 DEF Closed
  <2>6. \A f \in Elem : (sheet.up[f] # 0 /\ Closed(B, sheet.up[f], sheet.slot[f]))' =>
          f \notin B /\ (First(f) \notin Queued)'
    <3> TAKE f \in Elem
    <3>1. sheet'.up[f] = sheet.up[f]
      BY <1>1
    <3>2. CASE sheet.up[f] = 0
      BY <3>1, <3>2
    <3>3. CASE sheet.up[f] # 0
      <4>1. PICK p \in Elem : p = sheet.up[f]
        BY <2>4, <3>3
      <4>2. Closed(B, p, sheet.slot[f])' <=> Closed(B, p, sheet.slot[f])
        BY <2>5
      <4> QED BY <1>1, <1>4, <2>1, <3>1, <4>1, <4>2
    <3> QED BY <3>2, <3>3
  <2> QED BY <2>1, <2>2, <2>3, <2>6 DEF Begun
<1>8. Spare'
  <2>1. ASSUME NEW f \in Elem
        PROVE  Unused(f)'
    <3>1. /\ Kin(f)' = Kin(f) /\ (Busy(f)' <=> Busy(f)) /\ (Early(f)' <=> Early(f))
          /\ (Set(f) \in Queued)' <=> Set(f) \in Queued
          /\ Kin(f) = "if" => stage'[f] = stage[f]
      BY <1>1, <1>2, <1>4
    <3>2. Unused(f)
      BY <1>5 DEF Spare
    <3> QED BY <1>1, <3>1, <3>2 DEF Unused, Loose
  <2> QED BY <2>1 DEF Spare
<1>9. Counted' /\ Standing'
  BY <1>1, <1>4, <1>5 DEF Counted, Standing
<1>10. Reserve'
  <2>1. ASSUME NEW f \in Elem
        PROVE  Stocked(f)'
    <3>1. /\ Kin(f)' = Kin(f) /\ (Busy(f)' <=> Busy(f)) /\ (HasResult(f)' <=> HasResult(f))
          /\ (Set(f) \in Queued)' <=> Set(f) \in Queued
          /\ Kin(f) = "if" => stage'[f] = stage[f]
          /\ stage'[f] = "END" => stage[f] = "END"
      BY <1>1, <1>2, <1>4
    <3>2. Stocked(f)
      BY <1>5 DEF Reserve
    <3> QED BY <1>1, <3>1, <3>2 DEF Stocked
  <2> QED BY <2>1 DEF Reserve
<1>11. Phase'
  <2>1. ASSUME NEW f \in Elem, f # e
        PROVE  Phased(f)'
    <3>1. /\ Kin(f)' = Kin(f) /\ stage'[f] = stage[f]
          /\ (Set(f) \in Queued)' <=> Set(f) \in Queued
          /\ (Again(f) \in Queued)' <=> Again(f) \in Queued
          /\ InMain(Again(f))' <=> InMain(Again(f))
      BY <1>1, <1>4, <2>1
    <3>2. Awaits(f)' <=> Awaits(f)
      BY <1>1, <2>1 DEF Awaits
    <3>3. Phased(f)
      BY <1>5 DEF Phase
    <3> QED BY <1>1, <3>1, <3>2, <3>3 DEF Phased
  <2>2. Phased(e)'
    <3>1. ~ Awaits(e)' /\ Kin(e)' = "include" /\ (Set(e) \notin Queued)'
      BY <1>1, <1>2, <1>4 DEF Awaits
    <3>2. InMain(Again(e))'
      BY <1>3 DEF Joins
    <3> QED BY <1>1, <3>1, <3>2 DEF Phased
  <2> QED BY <2>1, <2>2 DEF Phase
<1>12. Placed'
  <2>1. ASSUME NEW n \in Node, NEW c \in ToSet(tcb[n])
        PROVE  count[n] > 0 /\ MayWait(c, n)'
    <3>1. count[n] > 0 /\ MayWait(c, n) /\ c \in Queued
      BY <1>5, <2>1, Waits
    <3>2. c \in Call
      <4>1. tcb[n] \in Seq(Call)
        BY InvIs
      <4> QED BY <2>1, <4>1, InParts DEF ToSet
    <3>3. PICK f \in Elem : f = c[2] /\ c \in {First(f), Again(f), Set(f)}
      BY <3>2, CallsDiffer
    <3>4. CASE f = e
      <4>1. c = First(e)
        BY <1>2, <3>1, <3>3, <3>4
      <4> QED BY <3>1, <4>1, CallsDiffer DEF MayWait
    <3>5. CASE f # e
      <4>1. Kin(f)' = Kin(f) /\ stage'[f] = stage[f]
        BY <1>1, <1>4, <3>5
      <4> QED BY <1>1, <3>1, <3>3, <4>1 DEF MayWait
    <3> QED BY <3>4, <3>5
  <2> QED BY <1>1, <2>1 DEF Placed
<1>13. FirstsClosed' /\ Kept' /\ Logs' /\ Pairs' /\ Scope(B)'
  BY <1>3, WakesOrder
<1> QED BY <1>6, <1>7, <1>8, <1>9, <1>10, <1>11, <1>12, <1>13 DEF Inv, Shape, Order

\* An answer has ended: the include it is for is called again.
LEMMA AnswerFullyKeeps ==
  ASSUME NEW B, Inv(B), NEW e \in Elem, NEW r \in {"success", "failure", "error"}, AnswerFully(e, r)
  PROVE  IInv'
<1>1. /\ ~ failed /\ failed' = failed /\ Awaits(e)
      /\ answer' = [answer EXCEPT ![e] = r]
      /\ stage' = [stage EXCEPT ![e] = IF r = "success" THEN "SUCCESS" ELSE "FAILURE"]
      /\ main' = Append(main, Again(e))
      /\ cur' \in {{}, {"REFUSE_SUBREQUEST"}} /\ running' \in BOOLEAN
      /\ UNCHANGED <<document, val, bound, output, sheet>>
  BY DEF AnswerFully, Again
<1>2. TypeOK
  BY InvIs
<1>3. /\ answer' \in [Elem -> Answer] /\ answer'[e] = r
      /\ \A f \in Elem : f # e => answer'[f] = answer[f]
  <2>1. answer \in [Elem -> Answer] /\ r \in Answer
    BY <1>2 DEF TypeOK, Answer
  <2> QED BY <1>1, <2>1
<1>4. PICK x \in {"SUCCESS", "FAILURE"} : stage' = [stage EXCEPT ![e] = x]
  BY <1>1
<1>5. stage' \in [Elem -> Stage] /\ stage'[e] = x /\ \A f \in Elem : f # e => stage'[f] = stage[f]
  <2>1. x \in Stage
    BY DEF Stage
  <2> QED BY <1>4, <2>1, OwnSame
<1>6. Wakes(e)
  <2>1. /\ kids' = kids /\ count' = count /\ tcb' = tcb /\ bound' = bound
        /\ responseCur' = responseCur /\ requested' = requested /\ sheet' = sheet
    BY <1>1 DEF document, output
  <2>2. main' = Append(main, Again(e))
    BY <1>1
  <2> QED BY <1>3, <1>5, <2>1, <2>2 DEF Wakes
<1>7. Joins(e)
  BY <1>1, <1>6, AwaitsIs, JoinsIs DEF Wakes
<1>8. TypeOK'
  <2>1. main' \in Seq(Call)
    BY <1>7 DEF Joins
  <2>2. cur' \subseteq Status
    BY <1>1 DEF Status
  <2> QED BY <1>1, <1>2, <1>3, <1>5, <2>1, <2>2 DEF TypeOK, document, output
<1>9. Ended'
  BY <1>1 DEF Ended
<1>10. Inv(B)'
  BY <1>1, <1>6, <1>8, <1>9, WakesKeeps
<1> QED BY <1>10 DEF IInv

-----------------------------------------------------------------------------
(***************************************************************************)
(* The beginning: the top level of the sheet is scheduled, in order, and   *)
(* nothing has been done.                                                  *)
(***************************************************************************)
LEMMA TopIs ==
  ASSUME Init
  PROVE  /\ main \in Seq(Call) /\ IsInjective(main)
         /\ \A x : x \in ToSet(main) <=> \E e \in Elem : sheet.up[e] = 0 /\ x = First(e)
         /\ \A v, a \in Elem : sheet.up[v] = 0 /\ sheet.up[a] = 0 /\ v < a =>
              InFront(main, First(v), First(a))
<1> DEFINE S == { e \in Elem : sheet.up[e] = 0 }
           top == InOrder(S)
           firsts == [i \in DOMAIN top |-> <<"first", top[i]>>]
<1>1. /\ top \in Seq(Elem) /\ ToSet(top) = S
      /\ \A i, k \in 1..Len(top) : i < k => top[i] < top[k]
  BY InOrderIs
<1>2. main = firsts
  BY DEF Init, TopLevel
<1> HIDE DEF top
<1>3. DOMAIN top = 1..Len(top) /\ Len(top) \in Nat /\ \A i \in 1..Len(top) : top[i] \in Elem
  BY <1>1
<1>4. firsts \in Seq(Call) /\ Len(firsts) = Len(top) /\ DOMAIN firsts = 1..Len(top)
      /\ \A i \in 1..Len(top) : firsts[i] = First(top[i])
  <2>1. \A i \in DOMAIN top : <<"first", top[i]>> \in Call
    BY <1>3 DEF Call
  <2> QED BY <1>3, <2>1 DEF First
<1> HIDE DEF firsts
<1>5. \A i, k \in 1..Len(top) : top[i] = top[k] => i = k
  <2> SUFFICES ASSUME NEW i \in 1..Len(top), NEW k \in 1..Len(top), top[i] = top[k], i # k
               PROVE  FALSE
    OBVIOUS
  <2>1. i < k \/ k < i
    BY <1>3
  <2>2. top[i] \in Nat /\ top[k] \in Nat
    BY <1>3, ElemNumbers
  <2> QED BY <1>1, <2>1, <2>2
<1>6. IsInjective(firsts)
  <2>1. ASSUME NEW i \in 1..Len(top), NEW k \in 1..Len(top), firsts[i] = firsts[k]
        PROVE  i = k
    <3>1. top[i] = top[k]
      BY <1>4, <2>1, CallsDiffer
    <3> QED BY <1>5, <3>1
  <2> QED BY <1>4, <2>1 DEF IsInjective
<1>7. \A x : x \in ToSet(firsts) <=> \E e \in Elem : sheet.up[e] = 0 /\ x = First(e)
  <2>1. \A x : x \in ToSet(firsts) <=> \E i \in 1..Len(top) : x = First(top[i])
    BY <1>4 DEF ToSet
  <2>2. \A e : e \in S <=> \E i \in 1..Len(top) : e = top[i]
    BY <1>1, <1>3 DEF ToSet
  <2> QED BY <2>1, <2>2
<1>8. ASSUME NEW v \in Elem, NEW a \in Elem, sheet.up[v] = 0, sheet.up[a] = 0, v < a
      PROVE  InFront(firsts, First(v), First(a))
  <2>1. v \in ToSet(top) /\ a \in ToSet(top)
    BY <1>1, <1>8
  <2>2. PICK i \in 1..Len(top) : top[i] = v
    BY <1>3, <2>1 DEF ToSet
  <2>3. PICK k \in 1..Len(top) : top[k] = a
    BY <1>3, <2>1 DEF ToSet
  <2>4. i < k
    <3>1. i < k \/ i = k \/ k < i
      BY <1>3
    <3>2. v \in Nat /\ a \in Nat
      BY ElemNumbers
    <3> QED BY <1>1, <1>8, <2>2, <2>3, <3>1, <3>2
  <2>5. firsts[i] = First(v) /\ firsts[k] = First(a)
    BY <1>4, <2>2, <2>3
  <2> QED BY <1>4, <2>4, <2>5 DEF InFront
<1> QED BY <1>2, <1>4, <1>6, <1>7, <1>8

\* The document is a tree at first.
LEMMA InitTree ==
  ASSUME Init
  PROVE  /\ WellFormed(sheet) /\ TreeOK(sheet, kids)
         /\ Hangs(sheet, kids, Response) /\ Hangs(sheet, kids, Var)
         /\ \A r \in Role : \A e \in Elem : Loose(<<r, e>>)
<1>1. sheet \in Sheets /\ kids = [[n \in Node |-> <<>>] EXCEPT ![Doc] = <<Response, Var>>]
  BY DEF Init
<1>2. WellFormed(sheet)
  BY <1>1, SheetsAssumption
<1>3. Doc \in Node /\ Response \in Node /\ Var \in Node /\ Response # Var
  BY NodesDiffer
<1>4. /\ kids \in [Node -> Seq(Node)] /\ kids[Doc] = <<Response, Var>>
      /\ \A n \in Node : n # Doc => kids[n] = <<>>
  <2>1. <<Response, Var>> \in Seq(Node) /\ <<>> \in Seq(Node)
    BY <1>3
  <2>2. [n \in Node |-> <<>>] \in [Node -> Seq(Node)]
    BY <2>1
  <2>3. kids \in [Node -> Seq(Node)]
    BY <1>1, <2>1, <2>2
  <2> QED BY <1>1, <1>3, <2>3
<1>5. /\ ToSet(kids[Doc]) = {Response, Var} /\ IsInjective(kids[Doc])
      /\ \A n \in Node : n # Doc => ToSet(kids[n]) = {} /\ IsInjective(kids[n])
  <2>1. ToSet(<<Response, Var>>) = {Response, Var}
    BY DEF ToSet
  <2>2. IsInjective(<<Response, Var>>)
    BY <1>3 DEF IsInjective
  <2>3. ToSet(<<>>) = {} /\ IsInjective(<<>>)
    BY DEF ToSet, IsInjective
  <2> QED BY <1>4, <2>1, <2>2, <2>3
<1>6. Forest(kids)
  BY <1>5 DEF Forest
<1>7. Ranked(kids)
  <2>1. Rank(Doc) = 0 /\ Rank(Response) = 1 /\ Rank(Var) = 1
    BY RankIs
  <2>2. ASSUME NEW m \in Node, NEW n \in ToSet(kids[m])
        PROVE  Rank(m) < Rank(n)
    <3>1. m = Doc /\ n \in {Response, Var}
      BY <1>5, <2>2
    <3> QED BY <2>1, <3>1
  <2> QED BY <2>2 DEF Ranked
<1>8. Fixed(sheet, kids)
  <2>1. \A e \in Elem : {Tmp(e), Arg(e), Ret(e)} \cap {Response, Var} = {}
    BY NodesDiffer
  <2> QED BY <1>5, <2>1 DEF Fixed
<1>9. Hangs(sheet, kids, Response) /\ Hangs(sheet, kids, Var)
  BY <1>5, AboveIs DEF Hangs
<1>10. ASSUME NEW r \in Role, NEW e \in Elem
       PROVE  Loose(<<r, e>>)
  <2>1. <<r, e>> \notin {Response, Var}
    BY DEF Response, Var
  <2> QED BY <1>5, <2>1 DEF Loose
<1> QED BY <1>2, <1>4, <1>6, <1>7, <1>8, <1>9, <1>10 DEF TreeOK

\* The invariant holds at first: no first call has been made.
LEMMA InitKeeps ==
  ASSUME Init
  PROVE  IInv
<1>1. /\ sheet \in Sheets
      /\ kids = [[n \in Node |-> <<>>] EXCEPT ![Doc] = <<Response, Var>>]
      /\ count = [n \in Node |-> 0] /\ tcb = [n \in Node |-> <<>>]
      /\ stage = [e \in Elem |-> "start"] /\ val = [e \in Elem |-> Unset]
      /\ bound = [e \in Elem |-> "no"] /\ responseCur = NULL /\ sent = <<>> /\ logged = <<>>
      /\ requested = {} /\ answer = [e \in Elem |-> "none"] /\ cur = {}
      /\ running = FALSE /\ failed = FALSE
  BY DEF Init
<1>2. /\ main \in Seq(Call) /\ IsInjective(main)
      /\ \A x : x \in ToSet(main) <=> \E e \in Elem : sheet.up[e] = 0 /\ x = First(e)
      /\ \A v, a \in Elem : sheet.up[v] = 0 /\ sheet.up[a] = 0 /\ v < a =>
           InFront(main, First(v), First(a))
  BY TopIs
<1>3. /\ WellFormed(sheet) /\ TreeOK(sheet, kids)
      /\ Hangs(sheet, kids, Response) /\ Hangs(sheet, kids, Var)
      /\ \A r \in Role : \A e \in Elem : Loose(<<r, e>>)
  BY InitTree
<1>4. \A n \in Node : count[n] = 0 /\ tcb[n] = <<>> /\ ToSet(tcb[n]) = {}
  BY <1>1, ListedFew DEF ToSet
<1>5. \A x : x \in Queued <=> \E e \in Elem : sheet.up[e] = 0 /\ x = First(e)
  BY <1>2, <1>4, QueuedIs
<1>6. \A e \in Elem : stage[e] = "start" /\ bound[e] = "no"
  BY <1>1
<1>7. \A e \in Elem : Again(e) \notin Queued /\ Set(e) \notin Queued
                      /\ (First(e) \in Queued => sheet.up[e] = 0 /\ InMain(First(e)))
  BY <1>2, <1>5, CallsDiffer DEF InMain
<1>8. \A e \in Elem : ~ Busy(e)
  BY <1>6, <1>7 DEF Busy
<1>9. \A e \in Elem : ~ InMain(Again(e)) /\ ~ InMain(Set(e))
  BY <1>7, QueuedIs DEF InMain
<1>10. TypeOK
  <2>1. kids \in [Node -> Seq(Node)]
    BY <1>3 DEF TreeOK
  <2>2. tcb \in [Node -> Seq(Call)] /\ count \in [Node -> Nat]
    BY <1>1
  <2>3. stage \in [Elem -> Stage] /\ bound \in [Elem -> {"no", "document", "value"}]
    BY <1>1 DEF Stage
  <2>4. val \in [Elem -> {Unset} \cup Seq(Elem)] /\ answer \in [Elem -> Answer]
    BY <1>1 DEF Answer
  <2>5. sent \in Seq(Elem) /\ logged \in Seq(Seq(Elem))
    BY <1>1
  <2> QED BY <1>1, <1>2, <2>1, <2>2, <2>3, <2>4, <2>5 DEF TypeOK
<1>11. QueuesApart(main, tcb)
  <2>1. DOMAIN tcb = Node /\ \A n \in Node : IsInjective(tcb[n])
    BY <1>1, <1>4 DEF IsInjective
  <2> QED BY <1>2, <1>4, <2>1 DEF QueuesApart
<1>12. Begun({})
  <2>1. \A e \in Elem : Blank(e)
    BY <1>3, <1>6, <1>7 DEF Blank
  <2> QED BY <1>7, <2>1 DEF Begun
<1>13. Spare /\ Cursor
  <2>1. Cursor
    BY <1>1 DEF Cursor
  <2>2. ASSUME NEW e \in Elem
        PROVE  Loose(Ret(e))
    <3>1. "ret" \in Role
      BY DEF Role
    <3>2. Loose(<<"ret", e>>)
      BY <1>3, <3>1
    <3> QED BY <3>2 DEF Ret
  <2>3. Spare
    BY <1>6, <1>7, <1>8, <2>2 DEF Spare, Unused
  <2> QED BY <2>1, <2>3
<1>14. Holds = {}
  <2>1. ASSUME NEW e \in Elem
        PROVE  ~ HeldSelf(e) /\ ~ HeldValue(e) /\ ~ HeldParams(e) /\ ~ HeldResult(e)
    BY <1>6, <1>7, <1>8, <1>9 DEF HeldSelf, HeldValue, HeldParams, HeldResult
  <2>2. \A h \in Hold : ~ Held(h)
    <3> TAKE h \in Hold
    <3>1. PICK d \in Elem : d = h[2]
      BY DEF Hold
    <3> QED BY <2>1, <3>1 DEF Held
  <2> QED BY <2>2 DEF Holds
<1>15. Counted
  <2>1. Tally(sheet, Holds) \in [Node -> Nat] /\ \A n \in Node : Tally(sheet, Holds)[n] = 0
    BY <1>14, TallyZero
  <2>2. count \in [Node -> Nat] /\ \A n \in Node : count[n] = Tally(sheet, Holds)[n]
    BY <1>1, <2>1
  <2> QED BY <2>1, <2>2 DEF Counted
<1>16. Standing /\ Reserve
  BY <1>3, <1>8 DEF Standing, Reserve, Stocked
<1>17. Phase
  <2>1. \A e \in Elem : ~ Awaits(e)
    BY <1>1 DEF Awaits
  <2> QED BY <1>6, <1>7, <2>1 DEF Phase, Phased
<1>18. Placed
  BY <1>4 DEF Placed
<1>19. FirstsClosed
  <2> SUFFICES ASSUME NEW d \in Elem, NEW p \in Elem, First(d) \in Queued, sheet.up[d] = p
               PROVE  FALSE
    BY DEF FirstsClosed
  <2> QED BY <1>7, ElemNumbers
<1>20. Kept /\ Pairs
  BY <1>7, <1>8 DEF Kept, Pairs, Paired
<1>21. Logs
  BY <1>7, <1>9 DEF Logs, LogOrder
<1>22. Scope({})
  <2>1. \A v, a \in Elem : sheet.up[v] = sheet.up[a] /\ v < a /\ First(a) \in Queued =>
          InFront(main, First(v), First(a))
    BY <1>2, <1>7
  <2>2. \A v \in Elem : sheet.up[v] = 0 => First(v) \in Queued
    BY <1>5
  <2>3. \A x \in ToSet(main) : x[1] = "first" /\ sheet.up[x[2]] = 0
    BY <1>2, CallsDiffer
  <2> QED BY <2>1, <2>2, <2>3 DEF Scope
<1>23. Ended
  BY <1>1 DEF Ended
<1>24. Shape({})
  BY <1>3, <1>10, <1>11, <1>12, <1>13 DEF Shape
<1>25. Order
  BY <1>15, <1>16, <1>17, <1>18, <1>19, <1>20, <1>21 DEF Order
<1>26. Inv({})
  BY <1>22, <1>23, <1>24, <1>25 DEF Inv
<1> QED BY <1>26 DEF IInv

\* A step that changes nothing keeps it.
LEMMA StutterKeeps ==
  ASSUME IInv, UNCHANGED vars
  PROVE  IInv'
<1>1. PICK B : Inv(B)
  BY DEF IInv
<1>2. /\ UNCHANGED <<document, main, elements, output, host>>
      /\ cur' = cur /\ running' = running /\ failed' = failed
  BY DEF vars
<1>3. Still
  BY <1>2 DEF Still, document, elements, output, host
<1>4. \A f \in Elem : Awaits(f)' => Awaits(f)
  BY <1>2 DEF Awaits, output, host
<1>5. TypeOK'
  <2>1. TypeOK
    BY <1>1, InvIs
  <2> QED BY <1>2, <2>1 DEF TypeOK, document, elements, output, host
<1>6. Ended'
  <2>1. Ended /\ Holds' = Holds
    BY <1>1, <1>3, InvIs, StillHolds
  <2> QED BY <1>2, <1>3, <2>1 DEF Ended, Still
<1>7. Inv(B)'
  BY <1>1, <1>3, <1>4, <1>5, <1>6, NothingMoves
<1> QED BY <1>7 DEF IInv

\* Every step keeps it.
LEMMA NextKeeps ==
  ASSUME IInv, [Next]_vars
  PROVE  IInv'
<1>1. PICK B : Inv(B)
  BY DEF IInv
<1>2. ASSUME NEW e \in Elem, ElementCall(e)
      PROVE  IInv'
  <2>1. CASE UndefinedVariable(e)
    BY <1>1, <2>1, UndefinedVariableKeeps
  <2>2. CASE SetStringResult(e)
    BY <1>1, <2>2, SetStringResultKeeps
  <2>3. CASE SetResultByXPath(e)
    BY <1>1, <2>3, SetResultByXPathKeeps
  <2>4. CASE TextFirst(e)
    BY <1>1, <2>4, TextFirstKeeps
  <2>5. CASE CopyFirst(e)
    BY <1>1, <2>5, CopyFirstKeeps
  <2>6. CASE CopyAgain(e)
    BY <1>1, <2>6, CopyAgainKeeps
  <2>7. CASE ValueOfFirst(e) \/ CopyOfFirst(e) \/ IfFirst(e) \/ IncludeFirst(e)
    BY <1>1, <2>7, ValueFirstKeeps
  <2>8. CASE ValueOfAgain(e)
    BY <1>1, <2>8, ValueOfAgainKeeps
  <2>9. CASE CopyOfAgain(e)
    BY <1>1, <2>9, CopyOfAgainKeeps
  <2>10. CASE IfTest(e)
    BY <1>1, <2>10, IfTestKeeps
  <2>11. CASE IfResult(e)
    BY <1>1, <2>11, IfResultKeeps
  <2>12. CASE LogFirst(e)
    BY <1>1, <2>12, LogFirstKeeps
  <2>13. CASE LogAgain(e)
    BY <1>1, <2>13, LogAgainKeeps
  <2>14. CASE VariableFirst(e)
    BY <1>1, <2>14, VariableFirstKeeps
  <2>15. CASE VariableFromXPath(e)
    BY <1>1, <2>15, VariableFromXPathKeeps
  <2>16. CASE VariableAgain(e)
    BY <1>1, <2>16, VariableAgainKeeps
  <2>17. CASE IncludeParamsBegin(e)
    BY <1>1, <2>17, IncludeParamsBeginKeeps
  <2>18. CASE IncludeParamsEnd(e)
    BY <1>1, <2>18, IncludeParamsEndKeeps
  <2>19. CASE IncludeBranch(e)
    BY <1>1, <2>19, IncludeBranchKeeps
  <2>20. CASE IncludeResult(e)
    BY <1>1, <2>20, IncludeResultKeeps
  <2>21. CASE IncludeEnd(e)
    BY <1>1, <2>21, IncludeEndKeeps
  <2>22. CASE ResponseFirst(e)
    BY <1>1, <2>22, ResponseFirstKeeps
  <2>23. CASE ResponseAgain(e)
    BY <1>1, <2>23, ResponseAgainKeeps
  <2> QED BY <1>2, <2>1, <2>2, <2>3, <2>4, <2>5, <2>6, <2>7, <2>8, <2>9, <2>10, <2>11, <2>12,
             <2>13, <2>14, <2>15, <2>16, <2>17, <2>18, <2>19, <2>20, <2>21, <2>22, <2>23 DEF ElementCall
<1>3. CASE RunsOut
  BY <1>1, <1>3, RunsOutKeeps
<1>4. CASE Resume
  BY <1>1, <1>4, ResumeKeeps
<1>5. ASSUME NEW e \in Elem, AnswerPartly(e)
      PROVE  IInv'
  BY <1>1, <1>5, AnswerPartlyKeeps
<1>6. ASSUME NEW e \in Elem, Answers(e)
      PROVE  IInv'
  BY <1>1, <1>6, AnswerFullyKeeps DEF Answers
<1>7. CASE UNCHANGED vars
  BY <1>7, StutterKeeps
<1> QED BY <1>2, <1>3, <1>4, <1>5, <1>6, <1>7 DEF Next, Loop, Host

-----------------------------------------------------------------------------
(***************************************************************************)
(* What the invariant says of the nodes that are used.                     *)
(***************************************************************************)
LEMMA StandsOwn ==
  ASSUME NEW B, Inv(B), NEW e \in Elem, Busy(e), Kin(e) # "response"
  PROVE  /\ Stands(sheet, kids, Self(e))
         /\ Hangs(sheet, kids, Tmp(e)) => Stands(sheet, kids, Tmp(e))
         /\ Hangs(sheet, kids, Ret(e)) => Stands(sheet, kids, Ret(e))
         /\ Hangs(sheet, kids, Tmp(e)) /\ Hangs(sheet, kids, Arg(e)) => Stands(sheet, kids, Arg(e))
         /\ HasResult(e) => Hangs(sheet, kids, Ret(e))
         /\ Stocked(e) /\ Phased(e)
<1>1. WellFormed(sheet) /\ Stands(sheet, kids, Self(e)) /\ Stocked(e) /\ Phased(e)
  BY InvIs DEF Standing, Reserve, Phase
<1>2. /\ Up(sheet, Tmp(e)) = {Tmp(e)} \cup Up(sheet, Self(e))
      /\ Up(sheet, Ret(e)) = {Ret(e)} \cup Up(sheet, Self(e))
      /\ Up(sheet, Arg(e)) = {Arg(e)} \cup Up(sheet, Tmp(e))
  BY <1>1, UpIs
<1>3. HasResult(e) => Hangs(sheet, kids, Ret(e))
  BY AboveIs DEF HasResult, Hangs
<1> QED BY <1>1, <1>2, <1>3 DEF Stands

\* The nodes the sheet begins with stand in the document.
LEMMA RootsStand ==
  ASSUME NEW B, Inv(B)
  PROVE  Stands(sheet, kids, Response) /\ Stands(sheet, kids, Var)
<1>1. WellFormed(sheet) /\ Hangs(sheet, kids, Response) /\ Hangs(sheet, kids, Var)
  BY InvIs DEF Standing
<1>2. Hangs(sheet, kids, Doc)
  BY DEF Hangs
<1>3. Up(sheet, Response) = {Response, Doc} /\ Up(sheet, Var) = {Var, Doc}
  BY <1>1, UpIs
<1> QED BY <1>1, <1>2, <1>3 DEF Stands

\* A node at which something is held stands in the document.
LEMMA HeldStands ==
  ASSUME NEW B, Inv(B), NEW h \in Holds
  PROVE  Stands(sheet, kids, At(sheet, h))
<1>1. /\ h[2] \in Elem /\ Busy(h[2]) /\ Kin(h[2]) \notin {"response", "text"} /\ h \in Hold
  BY InvIs, HoldBusy
<1>2. PICK e \in Elem : e = h[2] /\ h \in {SelfHold(e), ValueHold(e), ParamsHold(e), ResultHold(e)}
  BY <1>1, HoldsDiffer
<1>3. /\ Stands(sheet, kids, Self(e))
      /\ Hangs(sheet, kids, Tmp(e)) => Stands(sheet, kids, Tmp(e))
      /\ Hangs(sheet, kids, Ret(e)) => Stands(sheet, kids, Ret(e))
      /\ HasResult(e) => Hangs(sheet, kids, Ret(e))
      /\ Stocked(e) /\ Phased(e) /\ Busy(e)
  BY <1>1, <1>2, StandsOwn
<1>4. CASE h = SelfHold(e)
  BY <1>3, <1>4, AtIs
<1>5. CASE h = ValueHold(e)
  <2>1. Set(e) \in Queued
    BY <1>5, HeldAre DEF HeldValue
  <2>2. Kin(e) \in {"value-of", "copy-of", "if", "include", "variable"}
    BY <1>3, <2>1 DEF Phased
  <2>3. /\ Kin(e) \in {"value-of", "if", "include"} => Hangs(sheet, kids, Tmp(e))
        /\ Kin(e) = "copy-of" => Hangs(sheet, kids, Ret(e))
    BY <1>3 DEF Stocked
  <2>4. At(sheet, h) = IF Kin(e) = "variable" THEN Self(e)
                       ELSE IF Kin(e) = "copy-of" THEN Ret(e) ELSE Tmp(e)
    BY <1>5, AtIs DEF Kin
  <2> QED BY <1>3, <2>2, <2>3, <2>4
<1>6. CASE h = ParamsHold(e)
  <2>1. Kin(e) = "include"
    BY <1>6, HeldAre DEF HeldParams
  <2>2. Hangs(sheet, kids, Tmp(e))
    BY <1>3, <2>1 DEF Stocked
  <2> QED BY <1>3, <1>6, <2>2, AtIs
<1>7. CASE h = ResultHold(e)
  <2>1. HasResult(e)
    BY <1>7, HeldAre DEF HeldResult
  <2> QED BY <1>3, <1>7, <2>1, AtIs
<1> QED BY <1>2, <1>4, <1>5, <1>6, <1>7

\* A node that is not ready stands in the document.
LEMMA CountedStands ==
  ASSUME NEW B, Inv(B), NEW n \in Node, count[n] > 0
  PROVE  Stands(sheet, kids, n)
<1>1. Holds \subseteq Hold /\ count = Tally(sheet, Holds) /\ WellFormed(sheet)
  BY InvIs DEF Counted
<1>2. count[n] # 0
  BY InvIs
<1>3. ~ \A h \in Holds : n \notin Up(sheet, At(sheet, h))
  BY <1>1, <1>2, TallyZero
<1>4. PICK h \in Holds : n \in Up(sheet, At(sheet, h))
  BY <1>3
<1>5. At(sheet, h) \in Node
  BY <1>1, AtIs
<1>6. Up(sheet, n) \subseteq Up(sheet, At(sheet, h))
  BY <1>1, <1>4, <1>5, UpFacts
<1>7. Stands(sheet, kids, At(sheet, h))
  BY HeldStands
<1> QED BY <1>6, <1>7 DEF Stands

\* The nodes a call is going to use stand in the document.
LEMMA UsedStand ==
  ASSUME NEW B, Inv(B), NEW c \in Queued
  PROVE  \A n \in Uses(c) : n \in Node /\ Stands(sheet, kids, n)
<1>1. WellFormed(sheet)
  BY InvIs
<1>2. c \in Call
  <2>1. main \in Seq(Call) /\ tcb \in [Node -> Seq(Call)]
    BY InvIs
  <2>2. c \in ToSet(main) \/ \E m \in Node : c \in ToSet(tcb[m])
    BY QueuedIs
  <2> QED BY <2>1, <2>2 DEF ToSet
<1>3. PICK e \in Elem : e = c[2] /\ c \in {First(e), Again(e), Set(e)}
  BY <1>2, CallsDiffer
<1>4. c[1] \in {"first", "again", "set"}
  BY <1>3, CallsDiffer
<1>5. CASE Kin(e) = "response"
  <2>1. Uses(c) = {Response}
    BY <1>3, <1>5 DEF Uses, Kin
  <2> QED BY <2>1, RootsStand, NodesDiffer
<1>6. CASE Kin(e) # "response" /\ c = First(e)
  <2>1. c[1] = "first"
    BY <1>6, CallsDiffer
  <2>2. Uses(c) = IF Kin(e) = "variable" THEN {Var} ELSE {Insert(e)}
    BY <1>3, <1>6, <2>1 DEF Uses, Kin
  <2>3. CASE Kin(e) = "variable"
    BY <2>2, <2>3, RootsStand, NodesDiffer
  <2>4. CASE Kin(e) # "variable"
    <3>1. Insert(e) = Place(sheet, e)
      BY <1>1, <1>6, <2>4, InsertIs
    <3>2. Stands(sheet, kids, Place(sheet, e))
      BY <1>6, FirstIn
    <3>3. Place(sheet, e) \in Node
      <4>1. Above(sheet, Self(e)) \in Node /\ Above(sheet, Self(e)) = Place(sheet, e)
        BY <1>1, NodesDiffer, AboveIs, AboveRanks
      <4> QED BY <4>1
    <3> QED BY <2>2, <2>4, <3>1, <3>2, <3>3
  <2> QED BY <2>3, <2>4
<1>7. CASE Kin(e) # "response" /\ c = Again(e)
  <2>1. c[1] = "again" /\ Busy(e)
    BY <1>7, CallsDiffer DEF Busy
  <2>2. Uses(c) = {Self(e)}
    BY <1>3, <1>7, <2>1 DEF Uses, Kin
  <2> QED BY <1>7, <2>1, <2>2, StandsOwn, NodesDiffer
<1>8. CASE Kin(e) # "response" /\ c = Set(e)
  <2>1. c[1] = "set" /\ Busy(e) /\ Set(e) \in Queued
    BY <1>8, CallsDiffer DEF Busy
  <2>2. Uses(c) = IF Kin(e) = "variable" THEN {Self(e)}
                  ELSE IF Source(sheet, e) = "nodelist" THEN {Arg(e)} ELSE {Waiting(e)}
    BY <1>3, <1>8, <2>1 DEF Uses, Kin
  <2>3. /\ Stands(sheet, kids, Self(e))
        /\ Hangs(sheet, kids, Tmp(e)) => Stands(sheet, kids, Tmp(e))
        /\ Hangs(sheet, kids, Ret(e)) => Stands(sheet, kids, Ret(e))
        /\ Hangs(sheet, kids, Tmp(e)) /\ Hangs(sheet, kids, Arg(e)) => Stands(sheet, kids, Arg(e))
        /\ Stocked(e) /\ Phased(e)
    BY <1>8, <2>1, StandsOwn
  <2>4. /\ Kin(e) \in {"value-of", "copy-of", "if", "include", "variable"}
        /\ \/ Source(sheet, e) = "variable"
           \/ Source(sheet, e) = "nodelist" /\ Kin(e) \in {"value-of", "include"}
    BY <2>1, <2>3 DEF Phased
  <2>5. /\ Kin(e) \in {"value-of", "if", "include"} => Hangs(sheet, kids, Tmp(e))
        /\ Kin(e) = "copy-of" => Hangs(sheet, kids, Ret(e))
        /\ Kin(e) # "variable" /\ Source(sheet, e) = "nodelist" => Hangs(sheet, kids, Arg(e))
    BY <2>1, <2>3 DEF Stocked
  <2>6. CASE Kin(e) = "variable"
    BY <2>2, <2>3, <2>6, NodesDiffer
  <2>7. CASE Kin(e) # "variable" /\ Source(sheet, e) = "nodelist"
    BY <2>2, <2>3, <2>4, <2>5, <2>7, NodesDiffer
  <2>8. CASE Kin(e) # "variable" /\ Source(sheet, e) # "nodelist"
    <3>1. Waiting(e) = IF Kin(e) = "copy-of" THEN Ret(e) ELSE Tmp(e)
      BY DEF Waiting, Kin
    <3>2. Uses(c) = {Waiting(e)}
      BY <2>2, <2>8
    <3> QED BY <2>3, <2>4, <2>5, <2>8, <3>1, <3>2, NodesDiffer
  <2> QED BY <2>6, <2>7, <2>8
<1> QED BY <1>3, <1>5, <1>6, <1>7, <1>8

-----------------------------------------------------------------------------
\* In every state of every transformation each counter counts what is held
\* below its node, what is held stands in the document, and the queues hold
\* every call once and in an order that calls nothing too late (IInv).
THEOREM Invariance == Spec => []IInv
<1>1. Init => IInv
  BY InitKeeps
<1>2. IInv /\ [Next]_vars => IInv'
  BY NextKeeps
<1> QED BY <1>1, <1>2, PTL DEF Spec

\* The variables have their types: no counter is ever decreased below zero,
\* and every node a step makes or moves is one the sheet has.
THEOREM TypeCorrect == Spec => []TypeOK
<1>1. IInv => TypeOK
  BY InvIs DEF IInv
<1> QED BY <1>1, Invariance, PTL

\* Nothing dangles (transform.h 100-123): whatever the sheet, the answers and
\* their order, no call that is queued, no node that is waited on, no include
\* that awaits an answer and no cursor refers to a node that has been freed.
THEOREM NothingEverDangles == Spec => []NothingDangles
<1>1. ASSUME NEW B, Inv(B)
      PROVE  NothingDangles
  <2>1. WellFormed(sheet) /\ TreeOK(sheet, kids)
    BY <1>1, InvIs
  <2>2. \A n \in Node : Stands(sheet, kids, n) => n \in Live
    BY <2>1, StandsLives DEF Live
  <2>3. \A c \in Queued : Uses(c) \subseteq Live
    BY <1>1, <2>2, UsedStand
  <2>4. ASSUME NEW n \in Node, tcb[n] # <<>>
        PROVE  n \in Live
    <3>1. tcb[n] \in Seq(Call)
      BY <1>1, InvIs
    <3>2. PICK x : x \in ToSet(tcb[n])
      BY <2>4, <3>1, EmptyIs
    <3>3. count[n] > 0
      BY <1>1, <3>2, InvIs, Waits
    <3> QED BY <1>1, <2>2, <3>3, CountedStands
  <2>5. ASSUME NEW e \in Elem, Awaits(e)
        PROVE  Self(e) \in Live
    <3>1. Busy(e) /\ Kin(e) = "include"
      BY <1>1, <2>5, AwaitsIs
    <3>2. Stands(sheet, kids, Self(e))
      BY <1>1, <3>1, StandsOwn
    <3> QED BY <2>2, <3>2, NodesDiffer
  <2>6. responseCur # NULL => Contains(kids[Response], responseCur)
    <3>1. Cursor /\ Response \in Node /\ kids \in [Node -> Seq(Node)]
      BY <1>1, InvIs, NodesDiffer
    <3> QED BY <3>1, Members DEF Cursor
  <2> QED BY <2>3, <2>4, <2>5, <2>6 DEF NothingDangles
<1>2. IInv => NothingDangles
  BY <1>1 DEF IInv
<1> QED BY <1>2, Invariance, PTL

\* XRLT_STATUS_DONE (xrlt.cc 563-565) is told only when nothing is left to
\* call, to wait for or to answer.
THEOREM DoneMeansComplete == Spec => []DoneIsComplete
<1>1. ASSUME NEW B, Inv(B), "DONE" \in cur
      PROVE  /\ main = <<>>
             /\ \A n \in Node : count[n] = 0 /\ tcb[n] = <<>>
             /\ ~ \E e \in Elem : Awaits(e)
  <2>1. main = <<>> /\ Holds = {}
    BY <1>1, InvIs DEF Ended
  <2>2. \A n \in Node : count[n] = 0
    BY <1>1, <2>1, InvIs, TallyZero DEF Counted
  <2>3. \A n \in Node : tcb[n] = <<>>
    <3> SUFFICES ASSUME NEW n \in Node PROVE tcb[n] = <<>>
      OBVIOUS
    <3>1. tcb[n] \in Seq(Call)
      BY <1>1, InvIs
    <3>2. ToSet(tcb[n]) = {}
      <4>1. \A x \in ToSet(tcb[n]) : count[n] > 0
        BY <1>1, InvIs DEF Placed
      <4>2. count[n] = 0
        BY <2>2
      <4> QED BY <4>1, <4>2
    <3> QED BY <3>1, <3>2, EmptyIs
  <2>4. ASSUME NEW e \in Elem, Awaits(e)
        PROVE  FALSE
    <3>1. Busy(e) /\ Kin(e) = "include"
      BY <1>1, <2>4, AwaitsIs
    <3>2. HeldSelf(e)
      BY <3>1 DEF HeldSelf
    <3>3. SelfHold(e) \in Holds
      BY <3>2, HeldAre
    <3> QED BY <2>1, <3>3
  <2> QED BY <2>1, <2>2, <2>3, <2>4
<1>2. IInv => DoneIsComplete
  BY <1>1 DEF IInv, DoneIsComplete
<1> QED BY <1>2, Invariance, PTL

\* In a sheet whose expressions name only variables that are in scope no
\* transform function ever fails: every variable is set before it is read, and
\* no element ends with a counter that is not its own.
THEOREM FailuresAreOutOfScope == Spec => []FailsOnlyOutOfScope
<1>1. IInv => FailsOnlyOutOfScope
  BY InvIs DEF IInv, Ended, FailsOnlyOutOfScope
<1> QED BY <1>1, Invariance, PTL
=============================================================================
