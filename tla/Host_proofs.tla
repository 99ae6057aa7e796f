---------------------------- MODULE Host_proofs ----------------------------
(***************************************************************************)
(* Proofs about the host, for responses of any length and with any mix of  *)
(* elements.                                                               *)
(*                                                                         *)
(* The header block is complete because the response callback is queued    *)
(* behind the first calls of all elements: by the time there is a chunk,   *)
(* every header outside other elements has been counted, so that a count   *)
(* of zero means that all of them are over.  Nothing is held back for ever *)
(* because a chunk that is held has a header that is counted, and nothing  *)
(* is sent twice because an element has one callback or subrequest at a    *)
(* time.                                                                   *)
(***************************************************************************)
EXTENDS Host, NodeQueue_proofs, FiniteSetTheorems

\* An element is at one of four places.
Stage == {"first", "guard", "value", "ready"}

\* Callbacks of the main queue, subrequests, and parts of what is sent.
Callbacks == ({"first", "begin", "end"} \X Elem) \cup { <<"response", 0>> }

Subrequests == {"guard", "value"} \X Elem

Parts == {"headers", "chunk", "last"} \X Seq(Elem)

Typed ==
  /\ sheet \in Sheets
  /\ main \in Seq(Callbacks)
  /\ place \in [Elem -> Stage]
  /\ responseCur \in 1..(Len(sheet) + 1)
  /\ parked \in BOOLEAN
  /\ headerCount \in Nat
  /\ header \in Seq(Elem)
  /\ chunk \in Seq(Elem)
  /\ sr \in Seq(Subrequests)
  /\ cur \subseteq { "WAITING", "DONE", "HEADER", "CHUNK", "SUBREQUEST" }
  /\ running \in BOOLEAN
  /\ serving \in Ctx
  /\ headersSent \in [Ctx -> BOOLEAN]
  /\ headersOut \in Seq(Elem)
  /\ posted \subseteq Subrequests
  /\ out \in Seq(Parts)

Asked == ToSet(sr) \cup posted

Queued(t, i) == <<t, i>> \in ToSet(main)

\* What element i waits for: its callback, or a subrequest, not both.
Awaits(i) ==
  /\ place[i] = "first" <=> Queued("first", i)
  /\ place[i] = "guard" <=> Queued("begin", i) \/ <<"guard", i>> \in Asked
  /\ place[i] = "value" <=> Queued("end", i) \/ <<"value", i>> \in Asked
  /\ ~ (Queued("begin", i) /\ <<"guard", i>> \in Asked)
  /\ ~ (Queued("end", i) /\ <<"value", i>> \in Asked)
  /\ place[i] = "guard" => sheet[i].guard

\* Every element that is not ready waits for one thing, which nobody else does.
OneThingEach ==
  /\ IsInjective(main)
  /\ ToSet(sr) \cap posted = {}
  /\ \A i \in Elem : Awaits(i)

AllBegun == \A i \in Elem : place[i] # "first"

AllReady == \A i \in Elem : place[i] = "ready"

\* The first calls in a queue are in front of the response callback.
FirstsFirst(q) ==
  \A k, l \in 1..Len(q) : q[k][1] = "first" /\ q[l][1] = "response" => k < l

\* The response callback: queued, or parked on an element that is not ready, or
\* over.  It is queued behind all first calls.
Cursor ==
  /\ FirstsFirst(main)
  /\ \/ Queued("response", 0) /\ ~ parked
     \/ /\ ~ Queued("response", 0) /\ parked /\ AllBegun
        /\ responseCur \in Elem /\ place[responseCur] # "ready"
     \/ /\ ~ Queued("response", 0) /\ ~ parked /\ AllBegun
        /\ responseCur = Len(sheet) + 1
  /\ chunk # <<>> => AllBegun

Open == { i \in Elem : sheet[i].kind = "header" /\ place[i] = "value" }

\* Headers that have begun and not ended are counted; those that have ended are
\* on their way into the header block.
HeadersCounted ==
  /\ IsFiniteSet(Open)
  /\ headerCount = Cardinality(Open)
  /\ ~ headersSent[Main] =>
       \A i \in Elem :
         sheet[i].kind = "header" /\ sheet[i].shown /\ place[i] = "ready" =>
           i \in ToSet(header) \cup ToSet(headersOut)
  /\ header # <<>> => "HEADER" \in cur

\* What the status bits tell.
StatusMeant ==
  /\ running => cur = {}
  /\ "DONE" \in cur => main = <<>> /\ AllReady /\ cur = {"DONE"}
  /\ "WAITING" \in cur => main = <<>> /\ cur = {"WAITING"}
  /\ Idle => main = <<>>
  /\ chunk # <<>> /\ "CHUNK" \notin cur => headerCount > 0

Over == Idle /\ AllReady /\ main = <<>>

SentMeant ==
  /\ \A c \in Ctx : headersSent[c] => c = Main
  /\ headersSent[Main] <=> out # <<>>
  /\ HeadersInTime
  /\ OneHeaderBlock
  /\ TextsInOrder
  /\ EndsWhole
  /\ (\E k \in DOMAIN out : out[k][1] = "last") => Over

IInv ==
  /\ Typed
  /\ OneThingEach
  /\ Cursor
  /\ HeadersCounted
  /\ StatusMeant
  /\ SentMeant
-----------------------------------------------------------------------------
(***************************************************************************)
(* Queues, and the texts of a response.                                    *)
(***************************************************************************)
\* The first calls stay in front.
LEMMA FirstsStay ==
  ASSUME NEW S, NEW s \in Seq(S), FirstsFirst(s)
  PROVE  /\ s # <<>> => FirstsFirst(Tail(s))
         /\ \A x \in S : x[1] # "first" => FirstsFirst(Append(s, x))
<1>1. ASSUME s # <<>> PROVE FirstsFirst(Tail(s))
  <2> DEFINE t == Tail(s)
  <2>1. \A k \in 1..Len(t) : t[k] = s[k + 1] /\ k + 1 \in 1..Len(s)
    BY <1>1
  <2>2. Len(t) \in Nat
    BY <1>1
  <2> HIDE DEF t
  <2> SUFFICES ASSUME NEW k \in 1..Len(t), NEW l \in 1..Len(t),
                      t[k][1] = "first", t[l][1] = "response"
               PROVE  k < l
    BY DEF t, FirstsFirst
  <2>3. k + 1 \in 1..Len(s) /\ l + 1 \in 1..Len(s)
    BY <2>1
  <2>4. s[k + 1][1] = "first" /\ s[l + 1][1] = "response"
    BY <2>1
  <2>5. k + 1 < l + 1
    BY <2>3, <2>4 DEF FirstsFirst
  <2> QED BY <2>5
<1>2. ASSUME NEW x \in S, x[1] # "first" PROVE FirstsFirst(Append(s, x))
  <2> DEFINE t == Append(s, x)
  <2>1. \A k \in 1..Len(t) : \/ (k \in 1..Len(s) /\ t[k] = s[k])
                                \/ (k = Len(s) + 1 /\ t[k] = x)
    OBVIOUS
  <2>2. Len(t) \in Nat /\ Len(s) \in Nat
    OBVIOUS
  <2> HIDE DEF t
  <2> SUFFICES ASSUME NEW k \in 1..Len(t), NEW l \in 1..Len(t),
                      t[k][1] = "first", t[l][1] = "response"
               PROVE  k < l
    BY DEF t, FirstsFirst
  <2>3. k \in 1..Len(s) /\ s[k][1] = "first"
    BY <1>2, <2>1
  <2>4. CASE l \in 1..Len(s) /\ t[l] = s[l]
    BY <2>3, <2>4 DEF FirstsFirst
  <2>5. CASE l = Len(s) + 1
    BY <2>2, <2>3, <2>5
  <2> QED BY <2>1, <2>4, <2>5
<1> QED BY <1>1, <1>2

\* Texts is a sequence of elements, and can be cut anywhere.
LEMMA TextsCut ==
  ASSUME sheet \in Seq(Element), NEW a \in 1..(Len(sheet) + 1),
         NEW b \in a..(Len(sheet) + 1)
  PROVE  /\ Texts(a, b - 1) \in Seq(Elem)
         /\ Texts(1, a - 1) \o Texts(a, b - 1) = Texts(1, b - 1)
<1> DEFINE One(i) == IF sheet[i].kind = "text" THEN <<i>> ELSE <<>>
           ss == [k \in 1..((a - 1) - 1 + 1) |-> One(1 + k - 1)]
           tt == [k \in 1..((b - 1) - a + 1) |-> One(a + k - 1)]
           uu == [k \in 1..((b - 1) - 1 + 1) |-> One(1 + k - 1)]
<1>1. /\ Len(sheet) \in Nat /\ Elem = 1..Len(sheet) /\ a \in Nat /\ b \in Nat
      /\ a >= 1 /\ a <= b /\ b <= Len(sheet) + 1
  BY DEF Elem
<1>2. \A i \in Elem : One(i) \in Seq(Elem)
  OBVIOUS
<1>3. /\ \A k \in 1..((b - 1) - a + 1) : a + k - 1 \in Elem
      /\ \A k \in 1..((b - 1) - 1 + 1) : 1 + k - 1 \in Elem /\ 1 + k - 1 = k
      /\ \A k \in 1..((a - 1) - 1 + 1) : 1 + k - 1 \in Elem /\ 1 + k - 1 = k
      /\ (a - 1) - 1 + 1 = a - 1 /\ (b - 1) - a + 1 = b - a
      /\ (b - 1) - 1 + 1 = b - 1
      /\ a - 1 \in Nat /\ b - a \in Nat /\ b - 1 \in Nat
  BY <1>1
<1>4. /\ Texts(1, a - 1) = FlattenSeq(ss)
      /\ Texts(a, b - 1) = FlattenSeq(tt)
      /\ Texts(1, b - 1) = FlattenSeq(uu)
  BY DEF Texts
<1> HIDE DEF One
<1>5. ss \in Seq(Seq(Elem)) /\ tt \in Seq(Seq(Elem)) /\ uu \in Seq(Seq(Elem))
  <2>1. ss \in [1..(a - 1) -> Seq(Elem)]
    BY <1>2, <1>3
  <2>2. tt \in [1..(b - a) -> Seq(Elem)]
    BY <1>2, <1>3
  <2>3. uu \in [1..(b - 1) -> Seq(Elem)]
    BY <1>2, <1>3
  <2> HIDE DEF ss, tt, uu
  <2> QED BY <1>3, <2>1, <2>2, <2>3, SegmentIsSeq
<1>6. Len(ss) = a - 1 /\ Len(tt) = b - a /\ Len(uu) = b - 1
  BY <1>3
<1>7. ss \o tt = uu
  <2>1. \A k \in 1..(a - 1) : ss[k] = uu[k]
    BY <1>1, <1>3
  <2>3. \A k \in 1..(b - a) : uu[(a - 1) + k] = tt[k]
    <3> SUFFICES ASSUME NEW k \in 1..(b - a) PROVE uu[(a - 1) + k] = tt[k]
      OBVIOUS
    <3>1. (a - 1) + k \in 1..(b - 1) /\ 1 + ((a - 1) + k) - 1 = a + k - 1
      BY <1>1
    <3> QED BY <1>3, <3>1
  <2>4. b - 1 = (a - 1) + (b - a)
    BY <1>1
  <2> HIDE DEF ss, tt, uu
  <2>5. /\ Len(uu) = Len(ss) + Len(tt)
        /\ \A k \in 1..Len(ss) : uu[k] = ss[k]
        /\ \A k \in 1..Len(tt) : uu[Len(ss) + k] = tt[k]
    BY <1>6, <2>1, <2>3, <2>4
  <2> QED BY <1>5, <2>5, ConcatIs
<1> HIDE DEF ss, tt, uu
<1>8. FlattenSeq(ss \o tt) = FlattenSeq(ss) \o FlattenSeq(tt)
  BY <1>5, FlattenConcat
<1>9. FlattenSeq(tt) \in Seq(Elem)
  BY <1>5, FlattenType
<1> QED BY <1>4, <1>7, <1>8, <1>9

\* The texts sent are those sent first and those sent then.
LEMMA TextsOfJoined ==
  ASSUME NEW s \in Seq(Parts), NEW t \in Seq(Parts)
  PROVE  /\ TextsOf(s \o t) = TextsOf(s) \o TextsOf(t)
         /\ TextsOf(s) \in Seq(Elem)
<1> DEFINE One(x) == IF x[1] = "chunk" THEN x[2] ELSE <<>>
           ss == [k \in DOMAIN s |-> One(s[k])]
           tt == [k \in DOMAIN t |-> One(t[k])]
           uu == [k \in DOMAIN (s \o t) |-> One((s \o t)[k])]
<1>1. \A x \in Parts : One(x) \in Seq(Elem)
  BY DEF Parts
<1>2. TextsOf(s) = FlattenSeq(ss) /\ TextsOf(t) = FlattenSeq(tt)
      /\ TextsOf(s \o t) = FlattenSeq(uu)
  BY DEF TextsOf
<1> HIDE DEF One
<1>3. s \o t \in Seq(Parts)
  OBVIOUS
<1>4. ss \in Seq(Seq(Elem)) /\ Len(ss) = Len(s)
  <2>1. ss \in [1..Len(s) -> Seq(Elem)]
    BY <1>1
  <2> QED BY <2>1
<1>5. tt \in Seq(Seq(Elem)) /\ Len(tt) = Len(t)
  <2>1. tt \in [1..Len(t) -> Seq(Elem)]
    BY <1>1
  <2> QED BY <2>1
<1>6. uu = ss \o tt
  <2> DEFINE v == s \o t
  <2>1. /\ DOMAIN v = 1..(Len(s) + Len(t)) /\ Len(s) \in Nat /\ Len(t) \in Nat
        /\ \A k \in 1..Len(s) : v[k] = s[k]
        /\ \A k \in 1..Len(t) : v[Len(s) + k] = t[k]
        /\ \A k \in 1..(Len(s) + Len(t)) : v[k] \in Parts
    OBVIOUS
  <2>2. DOMAIN s = 1..Len(s) /\ DOMAIN t = 1..Len(t)
    OBVIOUS
  <2>3. uu = [k \in DOMAIN v |-> One(v[k])]
    OBVIOUS
  <2> HIDE DEF v, uu
  <2>4. uu \in [1..(Len(s) + Len(t)) -> Seq(Elem)]
    BY <1>1, <2>1, <2>3
  <2>5. uu \in Seq(Seq(Elem)) /\ Len(uu) = Len(s) + Len(t)
    <3> DEFINE n == Len(s) + Len(t)
    <3>1. n \in Nat /\ uu \in [1..n -> Seq(Elem)]
      BY <2>1, <2>4
    <3> HIDE DEF n
    <3>2. uu \in Seq(Seq(Elem)) /\ Len(uu) = n
      BY <3>1
    <3> QED BY <3>2 DEF n
  <2>6. \A k \in 1..Len(s) : uu[k] = ss[k]
    <3>1. \A k \in 1..Len(s) : k \in 1..(Len(s) + Len(t))
      BY <2>1
    <3> QED BY <2>1, <2>2, <2>3, <3>1
  <2>7. \A k \in 1..Len(t) : uu[Len(s) + k] = tt[k]
    <3>1. \A k \in 1..Len(t) : Len(s) + k \in 1..(Len(s) + Len(t))
      BY <2>1
    <3> QED BY <2>1, <2>2, <2>3, <3>1
  <2> HIDE DEF ss, tt
  <2>8. /\ Len(uu) = Len(ss) + Len(tt)
        /\ \A k \in 1..Len(ss) : uu[k] = ss[k]
        /\ \A k \in 1..Len(tt) : uu[Len(ss) + k] = tt[k]
    BY <1>4, <1>5, <2>5, <2>6, <2>7
  <2>9. ss \o tt = uu
    BY <1>4, <1>5, <2>5, <2>8, ConcatIs
  <2> QED BY <2>9
<1> HIDE DEF ss, tt, uu
<1>7. FlattenSeq(ss \o tt) = FlattenSeq(ss) \o FlattenSeq(tt)
  BY <1>4, <1>5, FlattenConcat
<1>8. FlattenSeq(ss) \in Seq(Elem)
  BY <1>4, FlattenType
<1> QED BY <1>2, <1>6, <1>7, <1>8

\* The parts that a chunk is sent in.
InParts(c) == [k \in DOMAIN c |-> <<"chunk", <<c[k]>> >>]

\* Those parts are its texts; header blocks and ends have none.
LEMMA TextsOfParts ==
  /\ \A c \in Seq(Elem) : /\ InParts(c) \in Seq(Parts)
                          /\ Len(InParts(c)) = Len(c)
                          /\ TextsOf(InParts(c)) = c
  /\ \A h \in Seq(Elem) : /\ << <<"headers", h>> >> \in Seq(Parts)
                          /\ TextsOf(<< <<"headers", h>> >>) = <<>>
  /\ << <<"last", <<>> >> >> \in Seq(Parts)
  /\ TextsOf(<< <<"last", <<>> >> >>) = <<>>
  /\ TextsOf(<<>>) = <<>>
<1>1. ASSUME NEW c \in Seq(Elem)
      PROVE  /\ InParts(c) \in Seq(Parts)
             /\ Len(InParts(c)) = Len(c)
             /\ TextsOf(InParts(c)) = c
  <2> DEFINE p == InParts(c)
             ss == [k \in DOMAIN p |-> IF p[k][1] = "chunk" THEN p[k][2] ELSE <<>>]
  <2>1. p \in [1..Len(c) -> Parts] /\ \A k \in 1..Len(c) : p[k] = <<"chunk", <<c[k]>> >>
    <3>1. DOMAIN c = 1..Len(c) /\ \A k \in 1..Len(c) : c[k] \in Elem
      OBVIOUS
    <3>2. \A k \in 1..Len(c) : <<c[k]>> \in Seq(Elem)
      BY <3>1
    <3>3. \A k \in 1..Len(c) : <<"chunk", <<c[k]>> >> \in Parts
      BY <3>2 DEF Parts
    <3> HIDE DEF Parts
    <3> QED BY <3>1, <3>3 DEF InParts
  <2>2. p \in Seq(Parts) /\ Len(p) = Len(c) /\ DOMAIN p = 1..Len(c)
    BY <2>1
  <2>3. TextsOf(p) = FlattenSeq(ss)
    BY DEF TextsOf
  <2> HIDE DEF p
  <2>4. \A k \in 1..Len(c) : ss[k] = <<c[k]>>
    BY <2>1, <2>2
  <2>5. ss \in [1..Len(c) -> Seq(Elem)]
    <3>1. DOMAIN ss = 1..Len(c)
      BY <2>2
    <3>2. \A k \in 1..Len(c) : c[k] \in Elem
      OBVIOUS
    <3>3. \A k \in 1..Len(c) : <<c[k]>> \in Seq(Elem)
      BY <3>2
    <3>4. ss = [k \in 1..Len(c) |-> ss[k]]
      BY <3>1
    <3> HIDE DEF ss
    <3> QED BY <2>4, <3>3, <3>4
  <2> HIDE DEF ss
  <2>6. ss \in Seq(Seq(Elem)) /\ Len(ss) = Len(c)
    BY <2>5
  <2>7. FlattenSeq(ss) = c
    BY <2>4, <2>6, FlattenSingles
  <2> QED BY <2>2, <2>3, <2>7 DEF p
<1>2. ASSUME NEW x \in Parts, x[1] # "chunk"
      PROVE  <<x>> \in Seq(Parts) /\ TextsOf(<<x>>) = <<>>
  <2> DEFINE p == <<x>>
             ss == [k \in DOMAIN p |-> IF p[k][1] = "chunk" THEN p[k][2] ELSE <<>>]
  <2>1. DOMAIN p = 1..1 /\ p[1] = x
    OBVIOUS
  <2>2. TextsOf(p) = FlattenSeq(ss)
    BY DEF TextsOf
  <2>3. ss = << <<>> >>
    <3>1. ss = [k \in 1..1 |-> <<>>]
      BY <1>2, <2>1
    <3> HIDE DEF ss
    <3> QED BY <3>1
  <2> HIDE DEF ss
  <2>4. FlattenSeq(<< <<>> >>) = <<>>
    <3>1. <<>> \in Seq(Elem)
      OBVIOUS
    <3> QED BY <3>1, FlattenOne
  <2> QED BY <2>2, <2>3, <2>4
<1>3. ASSUME NEW h \in Seq(Elem)
      PROVE  <<"headers", h>> \in Parts /\ <<"headers", h>>[1] # "chunk"
  BY DEF Parts
<1>4. <<"last", <<>> >> \in Parts /\ <<"last", <<>> >>[1] # "chunk"
  <2>1. <<>> \in Seq(Elem)
    OBVIOUS
  <2> QED BY <2>1 DEF Parts
<1>5. TextsOf(<<>>) = <<>>
  <2>1. TextsOf(<<>>) = FlattenSeq(<<>>)
    BY DEF TextsOf
  <2> QED BY <2>1, FlattenNone
<1> QED BY <1>1, <1>2, <1>3, <1>4, <1>5
-----------------------------------------------------------------------------
(***************************************************************************)
(* The invariant holds at first, and what a step leaves of it.             *)
(***************************************************************************)
\* The elements are numbered; a text waits for nothing before it begins.
LEMMA ElemFacts ==
  ASSUME sheet \in Sheets
  PROVE  /\ sheet \in Seq(Element) /\ Len(sheet) \in Nat /\ Elem = 1..Len(sheet)
         /\ \A i \in Elem : /\ sheet[i].kind \in {"text", "header"}
                            /\ sheet[i].kind = "text" => ~ sheet[i].guard
<1>1. sheet \in Seq(Element)
  BY SheetsAssumption
<1>2. Len(sheet) \in Nat /\ Elem = 1..Len(sheet)
  BY <1>1 DEF Elem
<1>3. \A i \in Elem : sheet[i] \in Element
  BY <1>1, <1>2
<1>4. \A i \in Elem : sheet[i].kind = "text" => ~ sheet[i].guard
  BY SheetsAssumption DEF Elem
<1> QED BY <1>1, <1>2, <1>3, <1>4 DEF Element

\* Nothing has been called or sent at first.
LEMMA InitIInv == Init => IInv
<1> SUFFICES ASSUME Init PROVE IInv
  OBVIOUS
<1>1. /\ sheet \in Sheets /\ sheet \in Seq(Element) /\ Len(sheet) \in Nat
      /\ Elem = 1..Len(sheet)
  BY ElemFacts DEF Init
<1> DEFINE firsts == [i \in Elem |-> <<"first", i>>]
           resp == <<"response", 0>>
<1>2. /\ firsts \in Seq(Callbacks) /\ Len(firsts) = Len(sheet)
      /\ \A i \in 1..Len(sheet) : firsts[i] = <<"first", i>>
  <2>1. firsts \in [1..Len(sheet) -> Callbacks]
    BY <1>1 DEF Callbacks
  <2> QED BY <1>1, <2>1
<1>3. resp \in Callbacks /\ main = Append(firsts, resp)
  <2>1. resp \in Callbacks
    BY DEF Callbacks
  <2>2. main = firsts \o <<resp>>
    BY DEF Init
  <2> HIDE DEF firsts, resp
  <2> QED BY <1>2, <2>1, <2>2
<1>4. IsInjective(firsts) /\ resp \notin ToSet(firsts)
  <2> HIDE DEF firsts
  <2>1. DOMAIN firsts = 1..Len(sheet)
    BY <1>2
  <2> QED BY <1>2, <2>1 DEF IsInjective, ToSet
<1>5. ToSet(firsts) = { <<"first", i>> : i \in Elem }
  <2> HIDE DEF firsts
  <2>1. DOMAIN firsts = 1..Len(sheet)
    BY <1>2
  <2> QED BY <1>1, <1>2, <2>1 DEF ToSet
<1>6. FirstsFirst(firsts)
  <2> HIDE DEF firsts
  <2> QED BY <1>2 DEF FirstsFirst
<1>7. resp[1] # "first"
  OBVIOUS
<1> HIDE DEF firsts
<1>8. /\ main \in Seq(Callbacks) /\ IsInjective(main) /\ FirstsFirst(main)
      /\ ToSet(main) = { <<"first", i>> : i \in Elem } \cup { resp }
  BY <1>2, <1>3, <1>4, <1>5, <1>6, <1>7, AppendsInjective, FirstsStay
<1>9. Typed
  <2>1. place \in [Elem -> Stage]
    BY DEF Init, Stage
  <2>2. responseCur \in 1..(Len(sheet) + 1)
    BY <1>1 DEF Init
  <2>3. serving \in Ctx /\ headersSent \in [Ctx -> BOOLEAN]
    BY DEF Init, Ctx
  <2>4. out \in Seq(Parts) /\ sr \in Seq(Subrequests)
    BY DEF Init
  <2>5. header \in Seq(Elem) /\ chunk \in Seq(Elem) /\ headersOut \in Seq(Elem)
    BY DEF Init
  <2> QED BY <1>1, <1>8, <2>1, <2>2, <2>3, <2>4, <2>5 DEF Typed, Init
<1>10. OneThingEach
  <2>1. ToSet(sr) = {} /\ Asked = {}
    BY DEF Init, ToSet, Asked
  <2>2. \A i \in Elem : Awaits(i)
    BY ZenonT(30), <1>8, <2>1 DEF Init, Awaits, Queued
  <2> QED BY <1>8, <2>1, <2>2 DEF OneThingEach, Init
<1>11. Cursor
  BY <1>8 DEF Cursor, Init, Queued
<1>12. HeadersCounted
  <2>1. Open = {}
    BY DEF Open, Init
  <2> QED BY <2>1, FS_EmptySet DEF HeadersCounted, Init
<1>13. StatusMeant
  BY DEF StatusMeant, Init, Idle
<1>14. SentMeant
  <2>1. out = <<>> /\ DOMAIN out = {}
    BY DEF Init
  <2>2. TextsOf(out) = <<>> /\ chunk = <<>>
    BY <2>1, TextsOfParts DEF Init
  <2>3. Texts(1, responseCur - 1) = <<>>
    <3>1. responseCur = 1 /\ responseCur - 1 = 0
      BY DEF Init
    <3>2. Texts(1, 0) = FlattenSeq(<<>>)
      <4>1. 1..(0 - 1 + 1) = {}
        OBVIOUS
      <4> QED BY <4>1 DEF Texts
    <3> QED BY <3>1, <3>2, FlattenNone
  <2>4. \A c \in Ctx : ~ headersSent[c]
    BY DEF Init
  <2>5. Main \in Ctx
    BY DEF Ctx
  <2>6. <<>> \o <<>> = <<>>
    OBVIOUS
  <2> QED BY <2>1, <2>2, <2>3, <2>4, <2>5, <2>6
          DEF SentMeant, HeadersInTime, OneHeaderBlock, TextsInOrder, EndsWhole
<1> QED BY <1>9, <1>10, <1>11, <1>12, <1>13, <1>14 DEF IInv

\* The callback that is called has left its queue.
LEMMA Called ==
  ASSUME IInv, NEW c, Calls(c)
  PROVE  /\ running /\ cur = {} /\ header = <<>>
         /\ c \in Callbacks /\ c \in ToSet(main)
         /\ Rest \in Seq(Callbacks) /\ IsInjective(Rest) /\ FirstsFirst(Rest)
         /\ ToSet(Rest) = ToSet(main) \ {c}
<1>1. /\ main \in Seq(Callbacks) /\ IsInjective(main) /\ FirstsFirst(main)
      /\ running /\ main # <<>> /\ Head(main) = c
  BY DEF IInv, Typed, OneThingEach, Cursor, Calls
<1>2. cur = {} /\ header = <<>>
  BY <1>1 DEF IInv, StatusMeant, HeadersCounted
<1>3. FirstsFirst(Rest)
  BY <1>1, FirstsStay DEF Rest
<1>4. /\ Rest \in Seq(Callbacks) /\ IsInjective(Rest)
      /\ c \in ToSet(main) /\ ToSet(Rest) = ToSet(main) \ {c}
  BY <1>1, Popped DEF Rest
<1>5. c \in Callbacks
  BY <1>1
<1> QED BY <1>1, <1>2, <1>3, <1>4, <1>5

\* A step that is about one element leaves what the others wait for.
LEMMA OneThing ==
  ASSUME Typed, OneThingEach, NEW i \in Elem, sheet' = sheet,
         IsInjective(main'), ToSet(sr') \cap posted' = {},
         \A j \in Elem \ {i} :
           /\ place'[j] = place[j]
           /\ \A t \in {"first", "begin", "end"} :
                <<t, j>> \in ToSet(main') <=> <<t, j>> \in ToSet(main)
           /\ \A t \in {"guard", "value"} :
                <<t, j>> \in ToSet(sr') \cup posted' <=> <<t, j>> \in Asked,
         Awaits(i)'
  PROVE  OneThingEach'
<1>1. Elem' = Elem
  BY DEF Elem
<1>2. ASSUME NEW j \in Elem \ {i} PROVE Awaits(j)'
  <2>1. Awaits(j)
    BY DEF OneThingEach
  <2> QED BY <2>1 DEF Awaits, Queued, Asked
<1> QED BY <1>1, <1>2 DEF OneThingEach

\* A step of the library sends nothing, and only the response callback adds to
\* the chunk.
LEMMA SentKept ==
  ASSUME IInv, running, UNCHANGED <<sheet, responseCur, chunk, host>>
  PROVE  SentMeant'
<1>1. ~ Over
  BY DEF Over, Idle
<1>2. \A k \in DOMAIN out : out[k][1] # "last"
  BY <1>1 DEF IInv, SentMeant
<1>3. Elem' = Elem /\ Ctx' = Ctx /\ Main' = Main
  BY DEF Elem, Ctx, Main, host
<1>4. /\ HeadersInTime' <=> HeadersInTime
      /\ OneHeaderBlock' <=> OneHeaderBlock
  BY <1>3 DEF HeadersInTime, OneHeaderBlock, host
<1>5. TextsInOrder'
  <2>1. TextsInOrder
    BY DEF IInv, SentMeant
  <2> QED BY <2>1 DEF TextsInOrder, TextsOf, Texts, host
<1>6. EndsWhole'
  BY <1>2 DEF EndsWhole, host
<1> QED BY <1>2, <1>3, <1>4, <1>5, <1>6 DEF IInv, SentMeant, host

(***************************************************************************)
(* A first call or a second call of element i: it comes to another place,  *)
(* and waits for something else if it is not ready.                        *)
(***************************************************************************)
Advances(i) ==
  /\ place' = [place EXCEPT ![i] = place'[i]]
  /\ place'[i] \in Stage \ {"first"}
  /\ place'[i] = "ready" => sheet[i].kind = "text"
  /\ headerCount' = IF place'[i] = "guard" THEN headerCount ELSE Counted(i)
  /\ main' \in Seq(Callbacks) /\ IsInjective(main') /\ FirstsFirst(main')
  /\ sr' \in Seq(Subrequests)
  /\ Awaits(i)'
  /\ \A x \in ToSet(main') \ ToSet(Rest) : x = <<"end", i>>
  /\ ToSet(Rest) \subseteq ToSet(main')
  /\ \A x \in ToSet(sr') \ ToSet(sr) : x \in { <<"guard", i>>, <<"value", i>> }
  /\ ToSet(sr) \subseteq ToSet(sr')
  /\ \/ cur' = {} /\ running' = TRUE
     \/ cur' = {"SUBREQUEST"} /\ running' = FALSE
  /\ UNCHANGED <<sheet, responseCur, parked, header, chunk, host>>

\* What an element does not wait for while it has a first or second call.
LEMMA NotYet ==
  ASSUME IInv, NEW i \in Elem, NEW t \in {"first", "begin"}, Calls(<<t, i>>)
  PROVE  /\ place[i] = IF t = "first" THEN "first" ELSE "guard"
         /\ place[i] = "guard" => sheet[i].kind = "header"
         /\ \A u \in {"first", "begin", "end"} : <<u, i>> \notin ToSet(Rest)
         /\ \A u \in {"guard", "value"} : <<u, i>> \notin Asked
<1>1. Awaits(i)
  BY DEF IInv, OneThingEach
<1>2. Queued(t, i) /\ ToSet(Rest) = ToSet(main) \ { <<t, i>> }
  BY Called DEF Queued
<1>3. place[i] = IF t = "first" THEN "first" ELSE "guard"
  BY <1>1, <1>2 DEF Awaits
<1>4. \A u \in {"first", "begin", "end"} : u # t => ~ Queued(u, i)
  BY <1>1, <1>3 DEF Awaits
<1>5. \A u \in {"guard", "value"} : <<u, i>> \notin Asked
  BY <1>1, <1>2, <1>3 DEF Awaits
<1>6. \A u \in {"first", "begin", "end"} : <<u, i>> \notin ToSet(Rest)
  BY <1>2, <1>4 DEF Queued
<1>7. place[i] = "guard" => sheet[i].kind = "header"
  <2>1. sheet \in Sheets
    BY DEF IInv, Typed
  <2> QED BY <1>1, <2>1, ElemFacts DEF Awaits
<1> QED BY <1>3, <1>5, <1>6, <1>7

\* Such a call keeps the invariant.
LEMMA AdvancesIInv ==
  ASSUME IInv, NEW i \in Elem, NEW t \in {"first", "begin"}, Calls(<<t, i>>),
         Advances(i)
  PROVE  IInv'
<1>1. /\ running /\ cur = {} /\ header = <<>> /\ ToSet(Rest) = ToSet(main) \ { <<t, i>> }
      /\ <<t, i>> \in ToSet(main)
  BY Called
<1>2. /\ sheet' = sheet /\ responseCur' = responseCur /\ parked' = parked
      /\ header' = header /\ chunk' = chunk /\ Elem' = Elem /\ Ctx' = Ctx
      /\ serving' = serving /\ headersSent' = headersSent /\ headersOut' = headersOut
      /\ posted' = posted /\ out' = out /\ Parts' = Parts /\ Callbacks' = Callbacks
      /\ Subrequests' = Subrequests
  BY DEF Advances, host, Elem, Ctx, Main, Parts, Callbacks, Subrequests
<1>3. /\ place \in [Elem -> Stage] /\ place' \in [Elem -> Stage]
      /\ \A j \in Elem \ {i} : place'[j] = place[j]
  BY DEF Advances, IInv, Typed
<1>4. place[i] \in {"first", "guard"} /\ sheet[i].kind \in {"text", "header"}
      /\ (place[i] = "guard" => sheet[i].kind = "header")
  <2>1. sheet \in Sheets
    BY DEF IInv, Typed
  <2> QED BY <2>1, NotYet, ElemFacts
<1>5. headerCount \in Nat /\ headerCount' \in Nat /\ headerCount' >= headerCount
  BY DEF IInv, Typed, Advances, Counted
<1>6. Typed'
  <2>1. main' \in Seq(Callbacks) /\ sr' \in Seq(Subrequests)
    BY DEF Advances
  <2>2. cur' \subseteq { "WAITING", "DONE", "HEADER", "CHUNK", "SUBREQUEST" }
        /\ running' \in BOOLEAN
    BY DEF Advances
  <2> QED BY <1>2, <1>3, <1>5, <2>1, <2>2 DEF IInv, Typed
<1>7. OneThingEach'
  <2>1. ToSet(sr') \cap posted' = {}
    BY <1>2, NotYet DEF Advances, IInv, OneThingEach, Asked
  <2>2. ASSUME NEW j \in Elem \ {i}
        PROVE  /\ place'[j] = place[j]
               /\ \A u \in {"first", "begin", "end"} :
                    <<u, j>> \in ToSet(main') <=> <<u, j>> \in ToSet(main)
               /\ \A u \in {"guard", "value"} :
                    <<u, j>> \in ToSet(sr') \cup posted' <=> <<u, j>> \in Asked
    BY <1>1, <1>2, <1>3 DEF Advances, Asked
  <2> QED BY <1>2, <2>1, <2>2, OneThing DEF IInv, Advances
<1>8. Cursor'
  <2>1. <<"response", 0>> \in ToSet(main') <=> <<"response", 0>> \in ToSet(main)
    BY <1>1 DEF Advances
  <2>2. AllBegun => AllBegun' /\ place[i] = "guard"
    BY <1>2, <1>3, <1>4 DEF AllBegun, Advances
  <2>3. AllBegun => \A j \in Elem : place[j] # "ready" => place'[j] # "ready"
    BY <1>3, <1>4, <2>2 DEF Advances
  <2>4. FirstsFirst(main)' /\ FirstsFirst(main')
    BY DEF Advances, FirstsFirst
  <2> QED BY <1>2, <2>1, <2>2, <2>3, <2>4 DEF IInv, Cursor, Queued
<1>9. HeadersCounted'
  <2>1. IsFiniteSet(Open) /\ headerCount = Cardinality(Open) /\ i \notin Open
    BY <1>4 DEF IInv, HeadersCounted, Open
  <2>2. IsFiniteSet(Open') /\ headerCount' = Cardinality(Open')
    <3>1. CASE place'[i] = "value" /\ sheet[i].kind = "header"
      <4>1. Open' = Open \cup {i}
        BY <1>2, <1>3, <3>1 DEF Open
      <4>2. headerCount' = headerCount + 1
        BY <3>1 DEF Advances, Counted
      <4> QED BY <2>1, <4>1, <4>2, FS_AddElement
    <3>2. CASE ~ (place'[i] = "value" /\ sheet[i].kind = "header")
      <4>1. Open' = Open
        BY <1>2, <1>3, <1>4, <3>2 DEF Open
      <4>2. headerCount' = headerCount
        BY <1>4, <3>2 DEF Advances, Counted, Stage
      <4> QED BY <2>1, <4>1, <4>2
    <3> QED BY <3>1, <3>2
  <2>3. ~ headersSent'[Main] =>
          \A j \in Elem :
            sheet[j].kind = "header" /\ sheet[j].shown /\ place'[j] = "ready" =>
              j \in ToSet(header) \cup ToSet(headersOut)
    BY <1>2, <1>3, <1>4 DEF IInv, HeadersCounted, Advances
  <2>4. header' = <<>>
    BY <1>1, <1>2
  <2>5. Main' = Main
    BY DEF Main
  <2> QED BY <1>2, <2>2, <2>3, <2>4, <2>5 DEF HeadersCounted
<1>10. StatusMeant'
  <2>1. "DONE" \notin cur' /\ "WAITING" \notin cur' /\ "CHUNK" \notin cur'
        /\ (running' => cur' = {}) /\ ~ (~ running' /\ cur' = {})
    BY DEF Advances
  <2>2. chunk # <<>> => headerCount > 0
    BY <1>1 DEF IInv, StatusMeant
  <2> QED BY <1>2, <1>5, <2>1, <2>2 DEF StatusMeant, Idle
<1>11. SentMeant'
  BY <1>1, SentKept DEF Advances
<1> QED BY <1>6, <1>7, <1>8, <1>9, <1>10, <1>11 DEF IInv

\* A begun element waits for its value, or is a text and there.
LEMMA BeginsIInv ==
  ASSUME IInv, NEW i \in Elem, NEW t \in {"first", "begin"}, Calls(<<t, i>>),
         Begins(i),
         UNCHANGED <<sheet, responseCur, parked, header, chunk, host>>
  PROVE  IInv'
<1>1. /\ running /\ cur = {} /\ Rest \in Seq(Callbacks) /\ IsInjective(Rest)
      /\ FirstsFirst(Rest)
  BY Called
<1>2. /\ \A u \in {"first", "begin", "end"} : <<u, i>> \notin ToSet(Rest)
      /\ \A u \in {"guard", "value"} : <<u, i>> \notin Asked
  BY NotYet
<1>3. /\ sr \in Seq(Subrequests) /\ place \in [Elem -> Stage]
      /\ running = TRUE
  BY <1>1 DEF IInv, Typed
<1>4. sheet' = sheet /\ posted' = posted
  BY DEF host
<1>5. CASE sheet[i].late
  <2>1. /\ place' = [place EXCEPT ![i] = "value"] /\ main' = Rest
        /\ sr' = Append(sr, <<"value", i>>)
        /\ cur' = {"SUBREQUEST"} /\ running' = FALSE
    BY <1>5 DEF Begins, Returns
  <2>2. <<"value", i>> \in Subrequests
    BY DEF Subrequests
  <2>3. /\ sr' \in Seq(Subrequests)
        /\ ToSet(sr') = ToSet(sr) \cup { <<"value", i>> }
    <3> DEFINE x == <<"value", i>>
    <3>1. x \in Subrequests
      BY <2>2
    <3> HIDE DEF x
    <3>2. Append(sr, x) \in Seq(Subrequests) /\ ToSet(Append(sr, x)) = ToSet(sr) \cup {x}
      BY <1>3, <3>1, Appended
    <3> QED BY <2>1, <3>2 DEF x
  <2>4. place'[i] = "value" /\ place' = [place EXCEPT ![i] = place'[i]]
    BY <1>3, <2>1
  <2>5. Awaits(i)'
    BY <1>2, <1>4, <2>1, <2>3, <2>4 DEF Awaits, Queued, Asked
  <2>6. Advances(i)
    BY <1>1, <2>1, <2>3, <2>4, <2>5 DEF Advances, Begins, Stage
  <2> QED BY <2>6, AdvancesIInv
<1>6. CASE ~ sheet[i].late /\ sheet[i].kind = "header"
  <2> DEFINE c == <<"end", i>>
  <2>1. /\ place' = [place EXCEPT ![i] = "value"] /\ main' = Append(Rest, c)
        /\ sr' = sr /\ cur' = {} /\ running' = TRUE
    BY <1>1, <1>3, <1>6 DEF Begins, Goes
  <2>2. c \in Callbacks /\ c \notin ToSet(Rest) /\ c[1] # "first"
    BY <1>2 DEF Callbacks
  <2>3. FirstsFirst(Append(Rest, c))
    BY <1>1, <2>2, FirstsStay
  <2>4. /\ main' \in Seq(Callbacks) /\ IsInjective(main') /\ FirstsFirst(main')
        /\ ToSet(main') = ToSet(Rest) \cup {c}
    <3> HIDE DEF c
    <3>1. /\ Append(Rest, c) \in Seq(Callbacks)
          /\ ToSet(Append(Rest, c)) = ToSet(Rest) \cup {c}
      BY <1>1, <2>2, Appended
    <3>2. IsInjective(Append(Rest, c))
      BY <1>1, <2>2, AppendsInjective
    <3> QED BY <2>1, <2>3, <3>1, <3>2
  <2>5. place'[i] = "value" /\ place' = [place EXCEPT ![i] = place'[i]]
    BY <1>3, <2>1
  <2>6. Awaits(i)'
    BY <1>2, <1>4, <2>1, <2>4, <2>5 DEF Awaits, Queued, Asked
  <2>7. Advances(i)
    BY <1>3, <2>1, <2>4, <2>5, <2>6 DEF Advances, Begins, Stage
  <2> QED BY <2>7, AdvancesIInv
<1>7. CASE ~ sheet[i].late /\ sheet[i].kind = "text"
  <2>1. /\ place' = [place EXCEPT ![i] = "ready"] /\ main' = Rest
        /\ sr' = sr /\ cur' = {} /\ running' = TRUE
    BY <1>1, <1>3, <1>7 DEF Begins, Goes
  <2>2. place'[i] = "ready" /\ place' = [place EXCEPT ![i] = place'[i]]
    BY <1>3, <2>1
  <2>3. Awaits(i)'
    BY <1>2, <1>4, <2>1, <2>2 DEF Awaits, Queued, Asked
  <2>4. Advances(i)
    BY <1>1, <1>3, <1>7, <2>1, <2>2, <2>3 DEF Advances, Begins, Stage
  <2> QED BY <2>4, AdvancesIInv
<1> QED BY <1>5, <1>6, <1>7 DEF Begins

\* ElementBegin is a second call, ...
LEMMA ElementBeginIInv ==
  ASSUME IInv, NEW i \in Elem, ElementBegin(i)
  PROVE  IInv'
BY BeginsIInv DEF ElementBegin

\* ... and ElementFirst is a first call, which waits for a subrequest or begins.
LEMMA ElementFirstIInv ==
  ASSUME IInv, NEW i \in Elem, ElementFirst(i)
  PROVE  IInv'
<1>1. Calls(<<"first", i>>)
      /\ UNCHANGED <<sheet, responseCur, parked, header, chunk, host>>
  BY DEF ElementFirst
<1>2. CASE Begins(i)
  BY <1>1, <1>2, BeginsIInv
<1>3. CASE ~ Begins(i)
  <2>1. /\ sheet[i].guard /\ place' = [place EXCEPT ![i] = "guard"] /\ main' = Rest
        /\ sr' = Append(sr, <<"guard", i>>) /\ headerCount' = headerCount
        /\ cur' = {"SUBREQUEST"} /\ running' = FALSE
    BY <1>3 DEF ElementFirst, Returns
  <2>2. /\ Rest \in Seq(Callbacks) /\ IsInjective(Rest) /\ FirstsFirst(Rest)
    BY <1>1, Called
  <2>3. /\ \A u \in {"first", "begin", "end"} : <<u, i>> \notin ToSet(Rest)
        /\ \A u \in {"guard", "value"} : <<u, i>> \notin Asked
    BY <1>1, NotYet
  <2>4. sr \in Seq(Subrequests) /\ place \in [Elem -> Stage]
    BY DEF IInv, Typed
  <2>5. sheet' = sheet /\ posted' = posted
    BY <1>1 DEF host
  <2>6. <<"guard", i>> \in Subrequests
    BY DEF Subrequests
  <2>7. /\ sr' \in Seq(Subrequests)
        /\ ToSet(sr') = ToSet(sr) \cup { <<"guard", i>> }
    <3> DEFINE x == <<"guard", i>>
    <3>1. x \in Subrequests
      BY <2>6
    <3> HIDE DEF x
    <3>2. Append(sr, x) \in Seq(Subrequests) /\ ToSet(Append(sr, x)) = ToSet(sr) \cup {x}
      BY <2>4, <3>1, Appended
    <3> QED BY <2>1, <3>2 DEF x
  <2>8. place'[i] = "guard" /\ place' = [place EXCEPT ![i] = place'[i]]
    BY <2>1, <2>4
  <2>9. Awaits(i)'
    BY <2>1, <2>3, <2>5, <2>7, <2>8 DEF Awaits, Queued, Asked
  <2>10. Advances(i)
    BY <1>1, <2>1, <2>2, <2>7, <2>8, <2>9 DEF Advances, Stage
  <2> QED BY <1>1, <2>10, AdvancesIInv
<1> QED BY <1>2, <1>3

\* A header that ends is counted no more, and whoever waits for it is called.
LEMMA ElementEndIInv ==
  ASSUME IInv, NEW i \in Elem, ElementEnd(i)
  PROVE  IInv'
<1> DEFINE resp == <<"response", 0>>
           woken == parked /\ responseCur = i
<1>1. /\ running /\ cur = {} /\ header = <<>> /\ Rest \in Seq(Callbacks)
      /\ IsInjective(Rest) /\ FirstsFirst(Rest)
      /\ ToSet(Rest) = ToSet(main) \ { <<"end", i>> }
      /\ <<"end", i>> \in ToSet(main)
  BY Called DEF ElementEnd
<1>2. /\ sheet' = sheet /\ responseCur' = responseCur /\ chunk' = chunk
      /\ sr' = sr /\ Elem' = Elem /\ Ctx' = Ctx /\ Main' = Main
      /\ serving' = serving /\ headersSent' = headersSent /\ headersOut' = headersOut
      /\ posted' = posted /\ out' = out /\ Parts' = Parts /\ Callbacks' = Callbacks
      /\ Subrequests' = Subrequests
  BY DEF ElementEnd, host, Elem, Ctx, Main, Parts, Callbacks, Subrequests
<1>3. /\ place \in [Elem -> Stage] /\ place' \in [Elem -> Stage]
      /\ place'[i] = "ready" /\ \A j \in Elem \ {i} : place'[j] = place[j]
  BY DEF ElementEnd, IInv, Typed, Stage
<1>4. Awaits(i)
  BY DEF IInv, OneThingEach
<1>5. place[i] = "value"
  BY <1>1, <1>4 DEF Awaits, Queued
<1>6. /\ \A u \in {"first", "begin", "end"} : <<u, i>> \notin ToSet(Rest)
      /\ \A u \in {"guard", "value"} : <<u, i>> \notin Asked
  BY <1>1, <1>4, <1>5 DEF Awaits, Queued
<1>7. sheet[i].kind \in {"text", "header"}
  <2>1. sheet \in Sheets
    BY DEF IInv, Typed
  <2> QED BY <2>1, ElemFacts
<1>8. /\ main' \in Seq(Callbacks) /\ IsInjective(main') /\ FirstsFirst(main')
      /\ ToSet(main') = ToSet(Rest) \cup (IF woken THEN {resp} ELSE {})
  <2>1. resp \in Callbacks /\ resp[1] # "first"
    BY DEF Callbacks
  <2>2. woken => resp \notin ToSet(Rest)
    BY <1>1 DEF IInv, Cursor, Queued
  <2>3. main' = IF woken THEN Append(Rest, resp) ELSE Rest
    BY DEF ElementEnd
  <2> HIDE DEF resp, woken
  <2>4. FirstsFirst(Append(Rest, resp))
    BY <1>1, <2>1, FirstsStay
  <2>5. /\ Append(Rest, resp) \in Seq(Callbacks)
        /\ ToSet(Append(Rest, resp)) = ToSet(Rest) \cup {resp}
    BY <1>1, <2>1, Appended
  <2>6. woken => IsInjective(Append(Rest, resp))
    BY <1>1, <2>1, <2>2, AppendsInjective
  <2>7. CASE woken
    BY <2>3, <2>4, <2>5, <2>6, <2>7
  <2>8. CASE ~ woken
    BY <1>1, <2>3, <2>8
  <2> QED BY <2>7, <2>8
<1>9. parked' = (parked /\ ~ woken) /\ parked' \in BOOLEAN
  BY DEF ElementEnd
<1>10. /\ i \in Open <=> sheet[i].kind = "header"
       /\ Open' = Open \ {i} /\ IsFiniteSet(Open) /\ headerCount = Cardinality(Open)
  BY <1>2, <1>3, <1>5 DEF Open, IInv, HeadersCounted
<1>11. /\ headerCount' \in Nat
       /\ headerCount' = IF sheet[i].kind = "header" THEN headerCount - 1 ELSE headerCount
       /\ IsFiniteSet(Open') /\ headerCount' = Cardinality(Open')
  <2>1. headerCount' = IF sheet[i].kind = "header" THEN headerCount - 1 ELSE headerCount
    BY <1>7 DEF ElementEnd
  <2>2. IsFiniteSet(Open') /\ headerCount' = Cardinality(Open')
    BY <1>10, <2>1, FS_RemoveElement
  <2> QED BY <2>1, <2>2, FS_CardinalityType
<1>12. \/ /\ cur' = {} /\ running' = TRUE /\ header' = <<>>
          /\ sheet[i].kind = "header" => ~ sheet[i].shown
          /\ chunk = <<>> \/ headerCount' > 0
       \/ /\ cur' # {} /\ cur' \subseteq { "CHUNK", "HEADER" } /\ running' = FALSE
          /\ sheet[i].kind = "header"
          /\ header' = IF sheet[i].shown THEN Append(header, i) ELSE header
          /\ sheet[i].shown => "HEADER" \in cur'
          /\ chunk = <<>> \/ headerCount' > 0 \/ "CHUNK" \in cur'
  <2>1. running = TRUE /\ (chunk = <<>> \/ headerCount > 0)
    BY <1>1 DEF IInv, Typed, StatusMeant
  <2>2. CASE sheet[i].kind = "text"
    BY <1>1, <1>11, <2>1, <2>2 DEF ElementEnd, Goes
  <2>3. CASE sheet[i].kind = "header"
    <3> DEFINE s == Released(headerCount')
                      \cup (IF sheet[i].shown THEN {"HEADER"} ELSE {})
    <3>1. Returns(s) /\ header' = IF sheet[i].shown THEN Append(header, i) ELSE header
      BY <2>3 DEF ElementEnd
    <3>2. /\ s \subseteq { "CHUNK", "HEADER" }
          /\ sheet[i].shown <=> "HEADER" \in s
          /\ chunk = <<>> \/ headerCount' > 0 \/ "CHUNK" \in s
      <4>1. headerCount' \in Nat
        BY <1>11
      <4>2. Released(headerCount') \subseteq {"CHUNK"}
        BY DEF Released
      <4>3. chunk = <<>> \/ headerCount' > 0 \/ "CHUNK" \in Released(headerCount')
        BY <4>1 DEF Released
      <4> QED BY <4>2, <4>3
    <3> HIDE DEF s
    <3>3. CASE s = {}
      BY <1>1, <2>1, <2>3, <3>1, <3>2, <3>3 DEF Returns, Goes
    <3>4. CASE s # {}
      BY <2>3, <3>1, <3>2, <3>4 DEF Returns
    <3> QED BY <3>3, <3>4
  <2> QED BY <1>7, <2>2, <2>3
<1>13. Typed'
  <2>1. header' \in Seq(Elem)
    <3>1. header \in Seq(Elem)
      BY DEF IInv, Typed
    <3>2. Append(header, i) \in Seq(Elem) /\ <<>> \in Seq(Elem)
      BY <3>1
    <3>3. header' \in { <<>>, header, Append(header, i) }
      BY <1>12
    <3> QED BY <3>1, <3>2, <3>3
  <2>2. cur' \subseteq { "WAITING", "DONE", "HEADER", "CHUNK", "SUBREQUEST" }
        /\ running' \in BOOLEAN
    BY <1>12
  <2> QED BY <1>2, <1>3, <1>8, <1>9, <1>11, <2>1, <2>2 DEF IInv, Typed
<1>14. OneThingEach'
  <2>1. ToSet(sr') \cap posted' = {}
    BY <1>2 DEF IInv, OneThingEach
  <2>2. ASSUME NEW j \in Elem \ {i}
        PROVE  /\ place'[j] = place[j]
               /\ \A u \in {"first", "begin", "end"} :
                    <<u, j>> \in ToSet(main') <=> <<u, j>> \in ToSet(main)
               /\ \A u \in {"guard", "value"} :
                    <<u, j>> \in ToSet(sr') \cup posted' <=> <<u, j>> \in Asked
    BY <1>1, <1>2, <1>3, <1>8 DEF Asked
  <2>3. \A u \in {"first", "begin", "end"} : <<u, i>> \notin ToSet(main')
    BY <1>6, <1>8
  <2>4. Awaits(i)'
    BY <1>2, <1>3, <1>6, <2>3 DEF Awaits, Queued, Asked
  <2> QED BY <1>2, <1>8, <2>1, <2>2, <2>4, OneThing DEF IInv
<1>15. Cursor'
  <2>1. resp \in ToSet(main') <=> woken \/ resp \in ToSet(main)
    BY <1>1, <1>8
  <2>2. AllBegun => AllBegun'
    BY <1>2, <1>3 DEF AllBegun
  <2>3. FirstsFirst(main)'
    BY <1>8 DEF FirstsFirst
  <2>4. \A j \in Elem : place[j] # "ready" /\ j # i => place'[j] # "ready"
    BY <1>3
  <2>5. /\ Cursor
        /\ Queued("response", 0) <=> resp \in ToSet(main)
        /\ Queued("response", 0)' <=> resp \in ToSet(main')
    BY DEF IInv, Queued
  <2> QED BY <1>2, <1>9, <2>1, <2>2, <2>3, <2>4, <2>5 DEF Cursor
<1>16. HeadersCounted'
  <2>1. ~ headersSent[Main] =>
          \A j \in Elem :
            sheet[j].kind = "header" /\ sheet[j].shown /\ place'[j] = "ready" =>
              j \in ToSet(header') \cup ToSet(headersOut)
    <3> SUFFICES ASSUME ~ headersSent[Main], NEW j \in Elem,
                        sheet[j].kind = "header", sheet[j].shown, place'[j] = "ready"
                 PROVE  j \in ToSet(header') \cup ToSet(headersOut)
      OBVIOUS
    <3>1. CASE j = i
      <4>1. header' = Append(header, i) /\ header \in Seq(Elem)
        BY <1>12, <3>1 DEF IInv, Typed
      <4> QED BY <3>1, <4>1, Appended
    <3>2. CASE j # i
      <4>1. j \in ToSet(header) \cup ToSet(headersOut) /\ ToSet(header) = {}
        BY <1>1, <1>3, <3>2 DEF IInv, HeadersCounted, ToSet
      <4> QED BY <4>1
    <3> QED BY <3>1, <3>2
  <2>2. header' # <<>> => "HEADER" \in cur'
    BY <1>1, <1>12
  <2> QED BY <1>2, <1>11, <2>1, <2>2 DEF HeadersCounted
<1>17. StatusMeant'
  BY <1>2, <1>12 DEF StatusMeant, Idle
<1>18. SentMeant'
  BY <1>1, SentKept DEF ElementEnd
<1> QED BY <1>13, <1>14, <1>15, <1>16, <1>17, <1>18 DEF IInv

\* Nothing changes that the elements wait for.
LEMMA NobodyMoves ==
  ASSUME OneThingEach, sheet' = sheet, place' = place,
         IsInjective(main'), ToSet(sr') \cap posted' = {}, Asked' = Asked,
         \A i \in Elem : \A t \in {"first", "begin", "end"} :
           <<t, i>> \in ToSet(main') <=> <<t, i>> \in ToSet(main)
  PROVE  OneThingEach'
<1>1. Elem' = Elem
  BY DEF Elem
<1>2. ASSUME NEW i \in Elem PROVE Awaits(i)'
  <2>1. Awaits(i)
    BY DEF OneThingEach
  <2> QED BY <2>1 DEF Awaits, Queued
<1> QED BY <1>1, <1>2 DEF OneThingEach

\* The response goes on to the first element that is not ready.
LEMMA ResponseIInv ==
  ASSUME IInv, Response
  PROVE  IInv'
<1> DEFINE resp == <<"response", 0>>
           busy == { i \in responseCur..Len(sheet) : place[i] # "ready" }
           stop == IF busy = {} THEN Len(sheet) + 1
                   ELSE CHOOSE i \in busy : \A j \in busy : i <= j
           texts == Texts(responseCur, stop - 1)
<1>1. /\ running /\ cur = {} /\ header = <<>> /\ Rest \in Seq(Callbacks)
      /\ IsInjective(Rest) /\ FirstsFirst(Rest)
      /\ ToSet(Rest) = ToSet(main) \ {resp} /\ resp \in ToSet(main)
  BY Called DEF Response
<1>2. /\ sheet \in Sheets /\ sheet \in Seq(Element) /\ Len(sheet) \in Nat
      /\ Elem = 1..Len(sheet) /\ responseCur \in 1..(Len(sheet) + 1)
  BY ElemFacts DEF IInv, Typed
<1>3. /\ sheet' = sheet /\ place' = place /\ headerCount' = headerCount
      /\ header' = header /\ sr' = sr /\ Elem' = Elem /\ Ctx' = Ctx /\ Main' = Main
      /\ serving' = serving /\ headersSent' = headersSent /\ headersOut' = headersOut
      /\ posted' = posted /\ out' = out /\ Parts' = Parts /\ Callbacks' = Callbacks
      /\ Subrequests' = Subrequests
  BY DEF Response, host, Elem, Ctx, Main, Parts, Callbacks, Subrequests
<1>4. /\ responseCur' = stop /\ parked' = (busy # {}) /\ chunk' = chunk \o texts
      /\ main' = Rest /\ Returns(IF texts = <<>> THEN {} ELSE {"CHUNK"})
  BY DEF Response
<1>5. /\ stop \in responseCur..(Len(sheet) + 1)
      /\ IF busy = {} THEN stop = Len(sheet) + 1
                      ELSE stop \in Elem /\ place[stop] # "ready"
  <2>1. CASE busy = {}
    BY <1>2, <2>1
  <2>2. CASE busy # {}
    <3>1. busy \subseteq Nat
      BY <1>2
    <3>2. \E i \in busy : \A j \in busy : i <= j
      BY <2>2, <3>1, LeastNumber
    <3>3. stop \in busy
      BY <2>2, <3>2
    <3> HIDE DEF stop
    <3>4. stop \in responseCur..Len(sheet) /\ place[stop] # "ready"
      BY <3>3
    <3>5. stop \in 1..Len(sheet) /\ stop \in responseCur..(Len(sheet) + 1)
      BY <1>2, <3>4
    <3> QED BY <1>2, <2>2, <3>4, <3>5
  <2> QED BY <2>1, <2>2
<1> HIDE DEF busy, stop
<1>6. stop \in 1..(Len(sheet) + 1)
  BY <1>2, <1>5
<1>7. /\ texts \in Seq(Elem)
      /\ Texts(1, responseCur - 1) \o texts = Texts(1, stop - 1)
  BY <1>2, <1>5, TextsCut
<1> HIDE DEF texts
<1>8. \/ cur' = {} /\ running' = TRUE /\ texts = <<>>
      \/ cur' = {"CHUNK"} /\ running' = FALSE
  <2>1. running = TRUE
    BY <1>1 DEF IInv, Typed
  <2> QED BY <1>1, <1>4, <2>1 DEF Returns, Goes
<1>9. chunk \in Seq(Elem) /\ chunk' \in Seq(Elem)
  BY <1>4, <1>7 DEF IInv, Typed
<1>10. AllBegun
  <2>1. ASSUME NEW i \in Elem, place[i] = "first" PROVE FALSE
    <3>1. Awaits(i)
      BY DEF IInv, OneThingEach
    <3>2. <<"first", i>> \in ToSet(main)
      BY <2>1, <3>1 DEF Awaits, Queued
    <3>3. main \in Seq(Callbacks) /\ FirstsFirst(main)
      BY DEF IInv, Typed, Cursor
    <3>4. PICK k \in 1..Len(main) : main[k] = <<"first", i>>
      BY <3>2, <3>3, ToSetPlace
    <3>5. main # <<>> /\ main[1] = resp /\ 1 \in 1..Len(main)
      BY <3>3 DEF Response, Calls
    <3>6. k < 1
      BY <3>3, <3>4, <3>5 DEF FirstsFirst
    <3> QED BY <3>6
  <2> QED BY <2>1 DEF AllBegun
<1>11. Typed'
  <2>1. cur' \subseteq { "WAITING", "DONE", "HEADER", "CHUNK", "SUBREQUEST" }
        /\ running' \in BOOLEAN
    BY <1>8
  <2>2. responseCur' \in 1..(Len(sheet') + 1) /\ parked' \in BOOLEAN
    BY <1>3, <1>4, <1>6
  <2> QED BY <1>1, <1>3, <1>4, <1>9, <2>1, <2>2 DEF IInv, Typed
<1>12. OneThingEach'
  <2>1. ToSet(sr') \cap posted' = {} /\ Asked' = Asked
    BY <1>3 DEF IInv, OneThingEach, Asked
  <2>2. \A i \in Elem : \A t \in {"first", "begin", "end"} :
          <<t, i>> \in ToSet(main') <=> <<t, i>> \in ToSet(main)
    BY <1>1, <1>4
  <2> QED BY <1>1, <1>3, <1>4, <2>1, <2>2, NobodyMoves DEF IInv
<1>13. Cursor'
  <2>1. AllBegun'
    BY <1>3, <1>10 DEF AllBegun
  <2>2. ~ Queued("response", 0)'
    BY <1>1, <1>4 DEF Queued
  <2>3. FirstsFirst(main)'
    BY <1>1, <1>4 DEF FirstsFirst
  <2> QED BY <1>3, <1>4, <1>5, <2>1, <2>2, <2>3 DEF Cursor
<1>14. HeadersCounted'
  <2>1. Open' = Open
    BY <1>3 DEF Open
  <2> QED BY <1>1, <1>3, <2>1 DEF IInv, HeadersCounted
<1>15. StatusMeant'
  <2>1. chunk # <<>> => headerCount > 0
    BY <1>1 DEF IInv, StatusMeant
  <2>2. texts = <<>> => chunk' = chunk
    BY <1>4, <1>9
  <2> QED BY <1>3, <1>8, <2>1, <2>2 DEF StatusMeant, Idle
<1>16. SentMeant'
  <2>1. \A k \in DOMAIN out : out[k][1] # "last"
    BY <1>1 DEF IInv, SentMeant, Over, Idle
  <2>2. /\ HeadersInTime' <=> HeadersInTime
        /\ OneHeaderBlock' <=> OneHeaderBlock
    BY <1>3 DEF HeadersInTime, OneHeaderBlock
  <2>3. TextsInOrder'
    <3>1. TextsOf(out) \o chunk = Texts(1, responseCur - 1)
      BY DEF IInv, SentMeant, TextsInOrder
    <3>2. TextsOf(out) \in Seq(Elem)
      BY TextsOfJoined DEF IInv, Typed
    <3>3. TextsOf(out) \o (chunk \o texts) = (TextsOf(out) \o chunk) \o texts
      <4> DEFINE a == TextsOf(out)
      <4>1. \A x, y, z \in Seq(Elem) : x \o (y \o z) = (x \o y) \o z
        BY SMTT(30)
      <4> QED BY <1>7, <1>9, <3>2, <4>1
    <3>4. TextsOf(out) \o chunk' = Texts(1, stop - 1)
      BY <1>4, <1>7, <3>1, <3>3
    <3>5. TextsOf(out)' = TextsOf(out)
      BY <1>3 DEF TextsOf
    <3>6. Texts(1, responseCur - 1)' = Texts(1, stop - 1)
      BY <1>3, <1>4 DEF Texts
    <3> QED BY <3>4, <3>5, <3>6 DEF TextsInOrder
  <2>4. EndsWhole'
    BY <1>3, <2>1 DEF EndsWhole
  <2> QED BY <1>3, <2>1, <2>2, <2>3, <2>4 DEF IInv, SentMeant
<1> QED BY <1>11, <1>12, <1>13, <1>14, <1>15, <1>16 DEF IInv

\* The library is DONE or WAITING when it has run out of callbacks.
LEMMA RunsOutIInv ==
  ASSUME IInv, RunsOut
  PROVE  IInv'
<1>1. /\ UNCHANGED <<sheet, main, place, responseCur, parked, headerCount, header,
                     chunk, sr, host>>
      /\ running /\ main = <<>>
  BY DEF RunsOut, library
<1>2. /\ serving' = serving /\ headersSent' = headersSent /\ headersOut' = headersOut
      /\ posted' = posted /\ out' = out
      /\ Elem' = Elem /\ Ctx' = Ctx /\ Main' = Main /\ Parts' = Parts
      /\ Callbacks' = Callbacks /\ Subrequests' = Subrequests
  BY <1>1 DEF host, Elem, Ctx, Main, Parts, Callbacks, Subrequests
<1>3. /\ cur' = IF AllReady THEN {"DONE"} ELSE {"WAITING"}
      /\ running' = FALSE
  BY DEF RunsOut, Returns, AllReady
<1>4. cur = {} /\ header = <<>> /\ (chunk # <<>> => headerCount > 0)
  BY <1>1 DEF IInv, StatusMeant, HeadersCounted
<1>5. Typed'
  <2>1. cur' \subseteq { "WAITING", "DONE", "HEADER", "CHUNK", "SUBREQUEST" }
        /\ running' \in BOOLEAN
    BY <1>3
  <2> QED BY <1>1, <1>2, <2>1 DEF IInv, Typed
<1>6. OneThingEach'
  <2>1. Asked' = Asked
    BY <1>1, <1>2 DEF Asked
  <2> QED BY <1>1, <1>2, <2>1, NobodyMoves DEF IInv, OneThingEach
<1>7. Cursor'
  BY <1>1, <1>2 DEF IInv, Cursor, FirstsFirst, AllBegun, Queued
<1>8. HeadersCounted'
  <2>1. Open' = Open
    BY <1>1, <1>2 DEF Open
  <2> QED BY <1>1, <1>2, <1>4, <2>1 DEF IInv, HeadersCounted
<1>9. StatusMeant'
  <2>1. AllReady' <=> AllReady
    BY <1>1, <1>2 DEF AllReady
  <2> QED BY <1>1, <1>3, <1>4, <2>1 DEF StatusMeant, Idle
<1>10. SentMeant'
  BY <1>1, SentKept
<1> QED BY <1>5, <1>6, <1>7, <1>8, <1>9, <1>10 DEF IInv

\* The element a subrequest was made for waits for its callback from now on.
LEMMA PostSubrequestIInv ==
  ASSUME IInv, NEW c \in Ctx, PostSubrequest(c)
  PROVE  IInv'
<1> DEFINE i == c[2]
           t == IF c[1] = "guard" THEN "begin" ELSE "end"
<1>1. /\ Idle /\ c \in posted /\ posted' = posted \ {c} /\ serving' = c
      /\ main' = << <<t, i>> >> /\ running' = TRUE
      /\ UNCHANGED <<sheet, place, responseCur, parked, headerCount, header, chunk,
                     sr, cur, headersSent, headersOut, out>>
  BY DEF PostSubrequest
<1>2. /\ c = <<c[1], i>> /\ i \in Elem /\ c[1] \in {"guard", "value"}
  BY <1>1 DEF IInv, Typed, Subrequests
<1> HIDE DEF i
<1>3. Elem' = Elem /\ Ctx' = Ctx /\ Main' = Main /\ Parts' = Parts
      /\ Callbacks' = Callbacks /\ Subrequests' = Subrequests
  BY <1>1 DEF Elem, Ctx, Main, Parts, Callbacks, Subrequests
<1>4. main = <<>> /\ ToSet(main) = {} /\ ~ running /\ cur = {}
  <2>1. main = <<>>
    BY <1>1 DEF IInv, StatusMeant
  <2> QED BY <1>1, <2>1 DEF ToSet, Idle
<1>5. /\ main' \in Seq(Callbacks) /\ IsInjective(main')
      /\ ToSet(main') = { <<t, i>> } /\ FirstsFirst(main')
  <2> DEFINE d == <<t, i>>
  <2>1. d \in Callbacks /\ d[1] # "first"
    BY <1>2 DEF Callbacks
  <2> HIDE DEF d
  <2>2. /\ <<d>> \in Seq(Callbacks) /\ IsInjective(<<d>>) /\ ToSet(<<d>>) = {d}
    BY <2>1 DEF IsInjective, ToSet
  <2>3. FirstsFirst(<<d>>)
    BY <2>1 DEF FirstsFirst
  <2> QED BY <1>1, <2>2, <2>3 DEF d
<1>6. Awaits(i)
  BY <1>2 DEF IInv, OneThingEach
<1>7. place[i] = c[1] /\ c \notin ToSet(sr)
  <2>1. c \in Asked /\ c \notin ToSet(sr)
    BY <1>1 DEF Asked, IInv, OneThingEach
  <2> QED BY <1>2, <1>6, <2>1 DEF Awaits
<1>8. Typed'
  <2>1. running' \in BOOLEAN /\ posted' \subseteq Subrequests
    BY <1>1 DEF IInv, Typed
  <2> QED BY <1>1, <1>3, <1>5, <2>1 DEF IInv, Typed
<1>9. OneThingEach'
  <2>1. ToSet(sr') \cap posted' = {}
    BY <1>1 DEF IInv, OneThingEach
  <2>2. ASSUME NEW j \in Elem \ {i}
        PROVE  /\ place'[j] = place[j]
               /\ \A u \in {"first", "begin", "end"} :
                    <<u, j>> \in ToSet(main') <=> <<u, j>> \in ToSet(main)
               /\ \A u \in {"guard", "value"} :
                    <<u, j>> \in ToSet(sr') \cup posted' <=> <<u, j>> \in Asked
    BY <1>1, <1>2, <1>4, <1>5 DEF Asked
  <2>3. ToSet(sr') \cup posted' = Asked \ {c}
    BY <1>1, <1>7 DEF Asked
  <2>4. \A u \in {"guard", "value"} : <<u, i>> \notin Asked \ {c}
    BY <1>2, <1>6, <1>7 DEF Awaits
  <2>5. Awaits(i)'
    BY <1>1, <1>2, <1>3, <1>5, <1>6, <1>7, <2>3, <2>4 DEF Awaits, Queued, Asked
  <2> QED BY <1>1, <1>2, <1>5, <2>1, <2>2, <2>5, OneThing DEF IInv
<1>10. Cursor'
  <2>1. ~ Queued("response", 0) /\ ~ Queued("response", 0)'
    BY <1>4, <1>5 DEF Queued
  <2>2. AllBegun' <=> AllBegun
    BY <1>1, <1>3 DEF AllBegun
  <2>3. FirstsFirst(main)'
    BY <1>5 DEF FirstsFirst
  <2> QED BY <1>1, <1>3, <2>1, <2>2, <2>3 DEF IInv, Cursor
<1>11. HeadersCounted'
  <2>1. Open' = Open
    BY <1>1, <1>3 DEF Open
  <2> QED BY <1>1, <1>3, <2>1 DEF IInv, HeadersCounted
<1>12. StatusMeant'
  BY <1>1, <1>4 DEF IInv, StatusMeant, Idle
<1>13. SentMeant'
  <2>1. ~ Over
    BY <1>2, <1>7 DEF Over, AllReady
  <2>2. \A k \in DOMAIN out : out[k][1] # "last"
    BY <2>1 DEF IInv, SentMeant
  <2>3. /\ HeadersInTime' <=> HeadersInTime
        /\ OneHeaderBlock' <=> OneHeaderBlock
    BY <1>1, <1>3 DEF HeadersInTime, OneHeaderBlock
  <2>4. TextsInOrder'
    <3>1. TextsInOrder
      BY DEF IInv, SentMeant
    <3> QED BY <1>1, <3>1 DEF TextsInOrder, TextsOf, Texts
  <2>5. EndsWhole'
    BY <1>1, <2>2 DEF EndsWhole
  <2> QED BY <1>1, <1>3, <2>2, <2>3, <2>4, <2>5 DEF IInv, SentMeant
<1> QED BY <1>8, <1>9, <1>10, <1>11, <1>12, <1>13 DEF IInv

(***************************************************************************)
(* What the host sends in one go: headers at most once and first, the      *)
(* chunk, and the end last.                                                *)
(***************************************************************************)
LEMMA ProcessIInv ==
  ASSUME IInv, ProcessTransformResult
  PROVE  IInv'
<1> DEFINE h == IF "HEADER" \in cur /\ ~ headersSent[serving]
                  THEN headersOut \o header ELSE headersOut
           go == "CHUNK" \in cur /\ chunk # <<>> /\ ChunksGo
           sends == go \/ "DONE" \in cur
           a == IF sends THEN HeadersFirst(h) ELSE <<>>
           b == IF go THEN InParts(chunk) ELSE <<>>
           c == IF "DONE" \in cur THEN << <<"last", <<>> >> >> ELSE <<>>
<1>1. /\ ~ running /\ cur # {} /\ headersOut' = h
      /\ header' = (IF "HEADER" \in cur THEN <<>> ELSE header)
      /\ posted' = (IF "SUBREQUEST" \in cur THEN posted \cup ToSet(sr) ELSE posted)
      /\ sr' = (IF "SUBREQUEST" \in cur THEN <<>> ELSE sr)
      /\ chunk' = (IF go THEN <<>> ELSE chunk)
      /\ headersSent' = (IF sends THEN [headersSent EXCEPT ![Main] = TRUE]
                                  ELSE headersSent)
      /\ out' = (out \o a) \o b \o c
      /\ cur' = {}
      /\ running' = GoesOn
      /\ sheet' = sheet /\ main' = main /\ place' = place /\ responseCur' = responseCur
      /\ parked' = parked /\ headerCount' = headerCount /\ serving' = serving
  BY DEF ProcessTransformResult, InParts
<1>2. Elem' = Elem /\ Ctx' = Ctx /\ Main' = Main /\ Parts' = Parts
      /\ Callbacks' = Callbacks /\ Subrequests' = Subrequests
  BY <1>1 DEF Elem, Ctx, Main, Parts, Callbacks, Subrequests
<1>3. /\ sheet \in Sheets /\ main \in Seq(Callbacks) /\ place \in [Elem -> Stage]
      /\ header \in Seq(Elem) /\ headersOut \in Seq(Elem) /\ chunk \in Seq(Elem)
      /\ sr \in Seq(Subrequests) /\ posted \subseteq Subrequests
      /\ out \in Seq(Parts) /\ headersSent \in [Ctx -> BOOLEAN] /\ serving \in Ctx
      /\ headerCount \in Nat /\ Main \in Ctx
  BY DEF IInv, Typed, Ctx
<1>4. h \in Seq(Elem)
  BY <1>3
<1>5. ~ headersSent[Main] => ToSet(header) \cup ToSet(headersOut) \subseteq ToSet(h)
  <2> SUFFICES ASSUME ~ headersSent[Main]
               PROVE  ToSet(header) \cup ToSet(headersOut) \subseteq ToSet(h)
    OBVIOUS
  <2>1. ~ headersSent[serving]
    BY <1>3 DEF IInv, SentMeant
  <2>2. CASE "HEADER" \in cur
    BY <1>3, <2>1, <2>2, ConcatElements
  <2>3. CASE "HEADER" \notin cur
    <3>1. header = <<>> /\ ToSet(header) = {}
      BY <2>3 DEF IInv, HeadersCounted, ToSet
    <3> QED BY <2>3, <3>1
  <2> QED BY <2>2, <2>3
<1> HIDE DEF h
<1>6. "DONE" \in cur => /\ main = <<>> /\ AllReady /\ cur = {"DONE"}
                        /\ chunk = <<>> /\ responseCur = Len(sheet) + 1
  <2> SUFFICES ASSUME "DONE" \in cur
               PROVE  /\ main = <<>> /\ AllReady /\ cur = {"DONE"}
                      /\ chunk = <<>> /\ responseCur = Len(sheet) + 1
    OBVIOUS
  <2>1. main = <<>> /\ AllReady /\ cur = {"DONE"}
    BY DEF IInv, StatusMeant
  <2>2. Open = {}
    BY <2>1 DEF Open, AllReady
  <2>3. headerCount = 0
    BY <2>2, FS_EmptySet DEF IInv, HeadersCounted
  <2>4. chunk = <<>>
    BY <2>1, <2>3 DEF IInv, StatusMeant
  <2>5. ToSet(main) = {}
    BY <2>1 DEF ToSet
  <2>6. responseCur = Len(sheet) + 1
    BY <2>1, <2>5 DEF IInv, Cursor, Queued, AllReady
  <2> QED BY <2>1, <2>4, <2>6
<1>7. sends /\ ~ headersSent[Main] =>
        \A i \in Elem :
          sheet[i].kind = "header" /\ sheet[i].shown /\ ~ sheet[i].guard =>
            i \in ToSet(h)
  <2> SUFFICES ASSUME sends, ~ headersSent[Main], NEW i \in Elem,
                      sheet[i].kind = "header", sheet[i].shown, ~ sheet[i].guard
               PROVE  i \in ToSet(h)
    OBVIOUS
  <2>1. place[i] = "ready"
    <3>1. CASE "DONE" \in cur
      BY <1>6, <3>1 DEF AllReady
    <3>2. CASE go
      <4>1. AllBegun
        BY <3>2 DEF IInv, Cursor
      <4>2. ~ headersSent[serving]
        BY <1>3 DEF IInv, SentMeant
      <4>3. headerCount = 0
        BY <3>2, <4>2 DEF ChunksGo
      <4>4. Open = {}
        BY <4>3, FS_EmptySet DEF IInv, HeadersCounted
      <4>5. Awaits(i)
        BY DEF IInv, OneThingEach
      <4>6. place[i] # "first" /\ place[i] # "value" /\ place[i] # "guard"
        BY <4>1, <4>4, <4>5 DEF AllBegun, Open, Awaits
      <4> QED BY <1>3, <4>6 DEF Stage
    <3> QED BY <3>1, <3>2
  <2>2. i \in ToSet(header) \cup ToSet(headersOut)
    BY <2>1 DEF IInv, HeadersCounted
  <2> QED BY <1>5, <2>2
<1>8. /\ a \in Seq(Parts) /\ b \in Seq(Parts) /\ c \in Seq(Parts)
      /\ out' \in Seq(Parts)
  <2>1. a \in Seq(Parts)
    <3>1. << <<"headers", h>> >> \in Seq(Parts)
      BY <1>4, TextsOfParts
    <3>2. <<>> \in Seq(Parts)
      OBVIOUS
    <3> QED BY <3>1, <3>2 DEF HeadersFirst
  <2>2. b \in Seq(Parts)
    <3>1. InParts(chunk) \in Seq(Parts) /\ <<>> \in Seq(Parts)
      BY <1>3, TextsOfParts
    <3> QED BY <3>1
  <2>3. c \in Seq(Parts)
    <3>1. << <<"last", <<>> >> >> \in Seq(Parts) /\ <<>> \in Seq(Parts)
      BY TextsOfParts
    <3> QED BY <3>1
  <2> HIDE DEF a, b, c
  <2> QED BY <1>1, <1>3, <2>1, <2>2, <2>3
<1>9. TextsOf(a) = <<>> /\ TextsOf(b) = (IF go THEN chunk ELSE <<>>) /\ TextsOf(c) = <<>>
  BY <1>3, <1>4, TextsOfParts DEF HeadersFirst
<1>10. out # <<>> <=> headersSent[Main]
  BY DEF IInv, SentMeant
<1>11. /\ a = <<>> \/ (out = <<>> /\ a = << <<"headers", h>> >>)
       /\ b = <<>> \/ (go /\ \A k \in 1..Len(b) : b[k][1] = "chunk")
       /\ sends /\ out = <<>> => a # <<>>
       /\ ~ sends => a = <<>> /\ b = <<>> /\ c = <<>>
       /\ c = <<>> \/ ("DONE" \in cur /\ c = << <<"last", <<>> >> >>)
       /\ "DONE" \in cur => c # <<>> /\ b = <<>>
  <2>1. a = <<>> \/ (out = <<>> /\ a = << <<"headers", h>> >>)
    BY <1>10 DEF HeadersFirst
  <2>2. b = <<>> \/ (go /\ \A k \in 1..Len(b) : b[k][1] = "chunk")
    <3>1. \A k \in 1..Len(InParts(chunk)) : InParts(chunk)[k][1] = "chunk"
      BY <1>3, TextsOfParts DEF InParts
    <3> QED BY <3>1
  <2>3. sends /\ out = <<>> => a # <<>>
    BY <1>10 DEF HeadersFirst
  <2> QED BY <1>6, <2>1, <2>2, <2>3
<1> DEFINE w == out \o a
<1>12. /\ w \in Seq(Parts) /\ out' = w \o b \o c
       /\ \A k \in 1..Len(w) :
            \/ k \in 1..Len(out) /\ w[k] = out[k]
            \/ (out = <<>> /\ k = 1 /\ w[k] = <<"headers", h>>)
       /\ w = <<>> <=> out = <<>> /\ a = <<>>
  <2> HIDE DEF a, b, c
  <2>1. w \in Seq(Parts) /\ out' = w \o b \o c
    BY <1>1, <1>3, <1>8
  <2>2. CASE a = <<>>
    <3>1. w = out
      BY <1>3, <2>2
    <3> HIDE DEF w
    <3> QED BY <2>1, <2>2, <3>1
  <2>3. CASE a # <<>>
    <3>1. out = <<>> /\ a = << <<"headers", h>> >>
      BY <1>11, <2>3
    <3>2. w = << <<"headers", h>> >>
      BY <3>1
    <3> HIDE DEF w
    <3>3. Len(w) = 1 /\ w[1] = <<"headers", h>> /\ w # <<>>
      BY <3>2
    <3> QED BY <2>1, <2>3, <3>1, <3>3
  <2> QED BY <2>2, <2>3
<1> HIDE DEF w
<1>13. /\ \A k \in 1..Len(out') :
            \/ k \in 1..Len(w) /\ out'[k] = w[k]
            \/ (k > Len(w) /\ go /\ out'[k][1] = "chunk")
            \/ (k > Len(w) /\ "DONE" \in cur /\ k = Len(out') /\ out'[k][1] = "last")
       /\ \A k \in 1..Len(w) : k \in 1..Len(out') /\ out'[k] = w[k]
       /\ Len(out') = Len(w) + Len(b) + Len(c)
  <2> DEFINE v == w \o b
  <2> HIDE DEF a, b, c
  <2>1. /\ v \in Seq(Parts) /\ Len(v) = Len(w) + Len(b)
        /\ Len(w) \in Nat /\ Len(b) \in Nat /\ Len(c) \in Nat
        /\ \A k \in 1..Len(w) : v[k] = w[k]
        /\ \A k \in 1..Len(v) :
             k > Len(w) => k - Len(w) \in 1..Len(b) /\ v[k] = b[k - Len(w)]
    BY <1>8, <1>12, ConcatPlaces
  <2>2. out' = v \o c
    BY <1>12
  <2> HIDE DEF v
  <2>3. /\ Len(out') = Len(v) + Len(c)
        /\ \A k \in 1..Len(v) : out'[k] = v[k]
        /\ \A k \in 1..Len(out') :
             k > Len(v) => k - Len(v) \in 1..Len(c) /\ out'[k] = c[k - Len(v)]
    <3>1. /\ Len(v \o c) = Len(v) + Len(c)
          /\ \A k \in 1..Len(v) : (v \o c)[k] = v[k]
          /\ \A k \in 1..Len(v \o c) :
               k > Len(v) => k - Len(v) \in 1..Len(c) /\ (v \o c)[k] = c[k - Len(v)]
      <4>1. v \in Seq(Parts) /\ c \in Seq(Parts)
        BY <1>8, <2>1
      <4> QED BY <4>1, ConcatPlaces
    <3> QED BY <2>2, <3>1
  <2>4. ASSUME NEW k \in 1..Len(out'), k > Len(w), k <= Len(v)
        PROVE  go /\ out'[k][1] = "chunk"
    <3>1. k \in 1..Len(v)
      BY <2>1, <2>3, <2>4
    <3>2. k - Len(w) \in 1..Len(b) /\ out'[k] = b[k - Len(w)]
      BY <2>1, <2>3, <2>4, <3>1
    <3>3. b # <<>>
      BY <3>2
    <3> QED BY <1>11, <3>2, <3>3
  <2>5. ASSUME NEW k \in 1..Len(out'), k > Len(v)
        PROVE  "DONE" \in cur /\ k = Len(out') /\ out'[k][1] = "last"
    <3>1. k - Len(v) \in 1..Len(c) /\ out'[k] = c[k - Len(v)]
      BY <2>3, <2>5
    <3>2. c # <<>>
      BY <3>1
    <3>3. "DONE" \in cur /\ c = << <<"last", <<>> >> >>
      BY <1>11, <3>2
    <3>4. Len(c) = 1 /\ c[1] = <<"last", <<>> >>
      BY <3>3
    <3>5. k - Len(v) = 1
      BY <3>1, <3>4
    <3>6. k = Len(out')
      BY <2>1, <2>3, <3>4, <3>5
    <3> QED BY <3>1, <3>3, <3>4, <3>5, <3>6
  <2>6. ASSUME NEW k \in 1..Len(w) PROVE k \in 1..Len(out') /\ out'[k] = w[k]
    <3>1. k \in 1..Len(v) /\ Len(v) <= Len(out')
      BY <2>1, <2>3
    <3>2. k \in 1..Len(out')
      BY <2>1, <2>3, <3>1
    <3> QED BY <2>1, <2>3, <3>1, <3>2
  <2>7. \A k \in 1..Len(out') :
          k \in 1..Len(w) \/ (k > Len(w) /\ k <= Len(v)) \/ k > Len(v)
    BY <2>1
  <2>8. \A k \in 1..Len(out') : k > Len(v) => k > Len(w)
    BY <2>1
  <2> QED BY <2>1, <2>3, <2>4, <2>5, <2>6, <2>7, <2>8
<1>14. DOMAIN out = 1..Len(out) /\ DOMAIN out' = 1..Len(out') /\ Len(w) \in Nat
  BY <1>3, <1>8, <1>12
<1>15. w = <<>> => out' = <<>> /\ ~ sends
  <2>1. w = <<>> => out = <<>> /\ a = <<>>
    BY <1>12
  <2>2. w = <<>> => ~ sends
    BY <1>11, <2>1
  <2>3. ~ sends => b = <<>> /\ c = <<>>
    BY <1>11
  <2> HIDE DEF a, b, c, sends
  <2> QED BY <1>12, <2>2, <2>3
<1>16. w # <<>> => out' # <<>> /\ Len(w) >= 1 /\ w[1][1] = "headers"
  <2> SUFFICES ASSUME w # <<>>
               PROVE  out' # <<>> /\ Len(w) >= 1 /\ w[1][1] = "headers"
    OBVIOUS
  <2>1. Len(w) >= 1 /\ 1 \in 1..Len(w)
    BY <1>12
  <2>2. 1 \in 1..Len(out')
    BY <1>13, <2>1
  <2>3. w[1][1] = "headers"
    <3>1. CASE 1 \in 1..Len(out) /\ w[1] = out[1]
      BY <1>14, <3>1 DEF IInv, SentMeant, OneHeaderBlock
    <3>2. CASE w[1] = <<"headers", h>>
      BY <3>2
    <3> QED BY <1>12, <2>1, <3>1, <3>2
  <2>4. out' # <<>>
    BY <1>8, <2>2
  <2> QED BY <2>1, <2>3, <2>4
<1>17. headersSent'[Main] <=> out' # <<>>
  <2>1. headersSent'[Main] <=> sends \/ headersSent[Main]
    BY <1>1, <1>3
  <2>2. sends \/ headersSent[Main] => w # <<>>
    BY <1>10, <1>12, <1>15
  <2>3. w # <<>> => sends \/ headersSent[Main]
    BY <1>10, <1>11, <1>12
  <2> QED BY <1>15, <1>16, <2>1, <2>2, <2>3
<1>18. \A k \in DOMAIN out : out[k][1] # "last"
  BY <1>1 DEF IInv, SentMeant, Over, Idle
<1>19. \A k \in 1..Len(out') : out'[k][1] = "headers" <=> k = 1
  <2> SUFFICES ASSUME NEW k \in 1..Len(out') PROVE out'[k][1] = "headers" <=> k = 1
    OBVIOUS
  <2>1. w # <<>> /\ 1 \in 1..Len(w) /\ w[1][1] = "headers"
    <3>1. out' # <<>>
      BY <1>8
    <3> QED BY <1>14, <1>15, <1>16, <3>1
  <2>2. CASE k \in 1..Len(w) /\ out'[k] = w[k]
    <3>1. CASE k \in 1..Len(out) /\ w[k] = out[k]
      BY <1>14, <2>2, <3>1 DEF IInv, SentMeant, OneHeaderBlock
    <3>2. CASE k = 1
      BY <2>1, <2>2, <3>2
    <3> QED BY <1>12, <2>2, <3>1, <3>2
  <2>3. CASE k > Len(w) /\ out'[k][1] \in { "chunk", "last" }
    BY <1>14, <2>1, <2>3
  <2> QED BY <1>13, <2>2, <2>3
<1>20. \A k \in 1..Len(out') : out'[k][1] = "last" => "DONE" \in cur /\ k = Len(out')
  <2> SUFFICES ASSUME NEW k \in 1..Len(out'), out'[k][1] = "last"
               PROVE  "DONE" \in cur /\ k = Len(out')
    OBVIOUS
  <2>1. ~ (k \in 1..Len(w) /\ out'[k] = w[k])
    BY <1>12, <1>14, <1>18
  <2> QED BY <1>13, <2>1
<1>21. ASSUME NEW k \in 1..Len(out'), out'[k][1] = "headers",
              NEW i \in Elem, sheet[i].kind = "header", sheet[i].shown, ~ sheet[i].guard
       PROVE  i \in ToSet(out'[k][2])
  <2>1. k = 1 /\ w # <<>>
    <3>1. out' # <<>>
      BY <1>8
    <3> QED BY <1>15, <1>19, <1>21, <3>1
  <2>2. 1 \in 1..Len(w) /\ out'[1] = w[1]
    <3>1. 1 \in 1..Len(w)
      BY <1>14, <1>16, <2>1
    <3> QED BY <1>13, <3>1
  <2>3. CASE 1 \in 1..Len(out) /\ w[1] = out[1]
    BY <1>14, <1>21, <2>1, <2>2, <2>3 DEF IInv, SentMeant, HeadersInTime
  <2>4. CASE out = <<>> /\ w[1] = <<"headers", h>>
    <3>1. ~ headersSent[Main] /\ sends
      BY <1>10, <1>11, <1>12, <2>1, <2>4
    <3> QED BY <1>7, <1>21, <2>1, <2>2, <2>4, <3>1
  <2> QED BY <1>12, <2>2, <2>3, <2>4
<1>22. TextsOf(out') \o chunk' = Texts(1, responseCur - 1)
  <2>1. /\ TextsOf(out') = TextsOf(w \o b) \o TextsOf(c)
        /\ TextsOf(w \o b) = TextsOf(w) \o TextsOf(b)
        /\ TextsOf(w) = TextsOf(out) \o TextsOf(a)
        /\ TextsOf(out) \in Seq(Elem)
    <3> HIDE DEF a, b, c
    <3>1. w \o b \in Seq(Parts)
      BY <1>8, <1>12
    <3>2. TextsOf(out') = TextsOf(w \o b) \o TextsOf(c)
      BY <1>8, <1>12, <3>1, TextsOfJoined
    <3>3. TextsOf(w \o b) = TextsOf(w) \o TextsOf(b)
      BY <1>8, <1>12, TextsOfJoined
    <3>4. TextsOf(w) = TextsOf(out) \o TextsOf(a) /\ TextsOf(out) \in Seq(Elem)
      BY <1>3, <1>8, TextsOfJoined DEF w
    <3> QED BY <3>2, <3>3, <3>4
  <2>2. TextsOf(out) \o chunk = Texts(1, responseCur - 1)
    BY DEF IInv, SentMeant, TextsInOrder
  <2> DEFINE old == TextsOf(out)
  <2>3. TextsOf(out') = ((old \o <<>>) \o (IF go THEN chunk ELSE <<>>)) \o <<>>
    BY <1>9, <2>1
  <2>4. chunk' = IF go THEN <<>> ELSE chunk
    BY <1>1
  <2>5. old \in Seq(Elem)
    BY <2>1
  <2> HIDE DEF old, go
  <2>6. TextsOf(out') \o chunk' = old \o chunk
    <3>1. \A x \in Seq(Elem) : x \o <<>> = x
      OBVIOUS
    <3>2. CASE go
      <4>1. old \o chunk \in Seq(Elem)
        BY <1>3, <2>5
      <4>2. TextsOf(out') = old \o chunk
        BY <2>3, <2>5, <3>1, <3>2, <4>1
      <4> QED BY <2>4, <3>1, <3>2, <4>1, <4>2
    <3>3. CASE ~ go
      <4>1. TextsOf(out') = old
        BY <2>3, <2>5, <3>1, <3>3
      <4> QED BY <2>4, <3>3, <4>1
    <3> QED BY <3>2, <3>3
  <2> QED BY <2>2, <2>6 DEF old
<1>23. Typed'
  <2>1. headersSent' \in [Ctx -> BOOLEAN]
    BY <1>1, <1>3
  <2>2. header' \in Seq(Elem) /\ chunk' \in Seq(Elem) /\ sr' \in Seq(Subrequests)
    <3>1. <<>> \in Seq(Elem) /\ <<>> \in Seq(Subrequests)
      OBVIOUS
    <3> QED BY <1>1, <1>3, <3>1
  <2>3. posted' \subseteq Subrequests
    <3>1. ToSet(sr) \subseteq Subrequests
      BY <1>3 DEF ToSet
    <3> QED BY <1>1, <1>3, <3>1
  <2>4. running' \in BOOLEAN
    BY <1>1 DEF GoesOn
  <2>5. headersOut' \in Seq(Elem)
    BY <1>1, <1>4
  <2>6. responseCur' \in 1..(Len(sheet') + 1) /\ parked' \in BOOLEAN
    BY <1>1 DEF IInv, Typed
  <2> HIDE DEF a, b, c
  <2> QED BY <1>1, <1>2, <1>3, <1>8, <2>1, <2>2, <2>3, <2>4, <2>5, <2>6 DEF Typed
<1>24. OneThingEach'
  <2>1. ToSet(sr) \cap posted = {}
    BY DEF IInv, OneThingEach
  <2>2. ToSet(<<>>) = {}
    BY DEF ToSet
  <2>3. ToSet(sr') \cap posted' = {} /\ Asked' = Asked
    <3>1. CASE "SUBREQUEST" \in cur
      BY <1>1, <2>2, <3>1 DEF Asked
    <3>2. CASE "SUBREQUEST" \notin cur
      BY <1>1, <2>1, <3>2 DEF Asked
    <3> QED BY <3>1, <3>2
  <2> QED BY <1>1, <2>3, NobodyMoves DEF IInv, OneThingEach
<1>25. Cursor'
  <2>1. chunk' # <<>> => chunk # <<>>
    BY <1>1
  <2> QED BY <1>1, <1>2, <2>1 DEF IInv, Cursor, FirstsFirst, AllBegun, Queued
<1>26. HeadersCounted'
  <2>1. Open' = Open
    BY <1>1, <1>2 DEF Open
  <2>2. header' = <<>>
    BY <1>1 DEF IInv, HeadersCounted
  <2>3. ~ headersSent'[Main] =>
          \A i \in Elem :
            sheet[i].kind = "header" /\ sheet[i].shown /\ place[i] = "ready" =>
              i \in ToSet(h)
    <3>1. ~ headersSent'[Main] => ~ headersSent[Main]
      BY <1>10, <1>12, <1>15, <1>17
    <3> QED BY <1>5, <3>1 DEF IInv, HeadersCounted
  <2> QED BY <1>1, <1>2, <2>1, <2>2, <2>3 DEF IInv, HeadersCounted
<1>27. StatusMeant'
  <2>1. cur' = {} /\ (~ running' => main' = <<>>)
    BY <1>1 DEF GoesOn, IInv, StatusMeant
  <2>2. chunk' # <<>> => headerCount > 0
    <3>1. CASE "CHUNK" \in cur
      <4>1. chunk' # <<>> => ~ ChunksGo
        BY <1>1, <3>1
      <4> QED BY <1>3, <4>1 DEF ChunksGo
    <3>2. CASE "CHUNK" \notin cur
      BY <1>1, <3>2 DEF IInv, StatusMeant
    <3> QED BY <3>1, <3>2
  <2> QED BY <1>1, <2>1, <2>2 DEF StatusMeant, Idle
<1>28. SentMeant'
  <2>1. \A d \in Ctx : headersSent'[d] => d = Main
    BY <1>1, <1>3 DEF IInv, SentMeant
  <2>2. HeadersInTime'
    BY <1>1, <1>2, <1>14, <1>21 DEF HeadersInTime
  <2>3. OneHeaderBlock'
    BY <1>14, <1>19 DEF OneHeaderBlock
  <2>4. TextsInOrder'
    <3>1. (TextsOf(out) \o chunk)' = TextsOf(out') \o chunk'
      BY DEF TextsOf
    <3>2. Texts(1, responseCur - 1)' = Texts(1, responseCur - 1)
      BY <1>1 DEF Texts
    <3> QED BY <1>22, <3>1, <3>2 DEF TextsInOrder
  <2>5. EndsWhole'
    <3>1. "DONE" \in cur => chunk' = <<>> /\ responseCur' = Len(sheet') + 1
      BY <1>1, <1>6
    <3> QED BY ZenonT(30), <1>14, <1>20, <3>1 DEF EndsWhole
  <2>6. (\E k \in DOMAIN out' : out'[k][1] = "last") => Over'
    <3>1. "DONE" \in cur => Over'
      BY <1>1, <1>2, <1>6 DEF Over, Idle, GoesOn, AllReady
    <3> QED BY ZenonT(30), <1>14, <1>20, <3>1
  <2> QED BY <1>2, <1>17, <2>1, <2>2, <2>3, <2>4, <2>5, <2>6 DEF SentMeant
<1> QED BY <1>23, <1>24, <1>25, <1>26, <1>27, <1>28 DEF IInv
-----------------------------------------------------------------------------
(***************************************************************************)
(* What the host promises.                                                 *)
(***************************************************************************)
\* Every step keeps the invariant.
LEMMA NextIInv == IInv /\ [Next]_vars => IInv'
<1> SUFFICES ASSUME IInv, [Next]_vars PROVE IInv'
  OBVIOUS
<1>1. CASE \E i \in Elem : ElementFirst(i)
  BY <1>1, ElementFirstIInv
<1>2. CASE \E i \in Elem : ElementBegin(i)
  BY <1>2, ElementBeginIInv
<1>3. CASE \E i \in Elem : ElementEnd(i)
  BY <1>3, ElementEndIInv
<1>4. CASE Response
  BY <1>4, ResponseIInv
<1>5. CASE RunsOut
  BY <1>5, RunsOutIInv
<1>6. CASE ProcessTransformResult
  BY <1>6, ProcessIInv
<1>7. CASE \E c \in Ctx : PostSubrequest(c)
  BY <1>7, PostSubrequestIInv
<1>8. CASE UNCHANGED vars
  <2>1. UNCHANGED <<sheet, main, place, responseCur, parked, headerCount, header,
                    chunk, sr, cur, running, serving, headersSent, headersOut,
                    posted, out>>
    BY <1>8 DEF vars, library, host
  <2>2. Elem' = Elem /\ Ctx' = Ctx /\ Main' = Main /\ Parts' = Parts
        /\ Callbacks' = Callbacks /\ Subrequests' = Subrequests /\ Asked' = Asked
    BY <2>1 DEF Elem, Ctx, Main, Parts, Callbacks, Subrequests, Asked
  <2>3. Typed'
    BY <2>1, <2>2 DEF IInv, Typed
  <2>4. OneThingEach'
    BY <2>1, <2>2, NobodyMoves DEF IInv, OneThingEach
  <2>5. Cursor'
    BY <2>1, <2>2 DEF IInv, Cursor, FirstsFirst, AllBegun, Queued
  <2>6. HeadersCounted'
    <3>1. Open' = Open
      BY <2>1, <2>2 DEF Open
    <3> QED BY <2>1, <2>2, <3>1 DEF IInv, HeadersCounted
  <2>7. StatusMeant'
    BY <2>1, <2>2 DEF IInv, StatusMeant, Idle, AllReady
  <2>8. SentMeant'
    <3>1. TextsInOrder'
      BY <2>1 DEF IInv, SentMeant, TextsInOrder, TextsOf, Texts
    <3>2. HeadersInTime' /\ OneHeaderBlock' /\ EndsWhole'
      BY <2>1, <2>2 DEF IInv, SentMeant, HeadersInTime, OneHeaderBlock, EndsWhole
    <3>3. Over' <=> Over
      BY <2>1, <2>2 DEF Over, Idle, AllReady
    <3> QED BY <2>1, <2>2, <3>1, <3>2, <3>3 DEF IInv, SentMeant
  <2> QED BY <2>3, <2>4, <2>5, <2>6, <2>7, <2>8 DEF IInv
<1> QED BY <1>1, <1>2, <1>3, <1>4, <1>5, <1>6, <1>7, <1>8 DEF Next, Loop

\* The variables have their types, whatever the response is made of.
THEOREM HostTyped == Spec => []TypeOK
<1>1. IInv => TypeOK
  <2> SUFFICES ASSUME IInv PROVE TypeOK
    OBVIOUS
  <2>1. main \in Seq({ "first", "begin", "end", "response" } \X Nat)
    <3>1. sheet \in Sheets /\ main \in Seq(Callbacks)
      BY DEF IInv, Typed
    <3>2. Callbacks \subseteq { "first", "begin", "end", "response" } \X Nat
      BY <3>1, ElemFacts DEF Callbacks
    <3> QED BY <3>1, <3>2
  <2>2. ToSet(sr) \subseteq Ctx /\ posted \subseteq Ctx
    BY DEF IInv, Typed, Subrequests, Ctx, ToSet
  <2>3. sheet \in Seq(Element)
    BY ElemFacts DEF IInv, Typed
  <2> QED BY <2>1, <2>2, <2>3 DEF IInv, Typed, TypeOK, Stage, Parts
<1> QED BY <1>1, InitIInv, NextIInv, PTL DEF Spec

\* Headers are on time (headers.cc 302-305, 424-427; module.c 507-600): the one
\* header block has every header that is not inside another element.
THEOREM NoHeaderIsLate == Spec => []HeadersInTime
<1>1. IInv => HeadersInTime
  BY DEF IInv, SentMeant
<1> QED BY <1>1, InitIInv, NextIInv, PTL DEF Spec

\* What is held back until then is not lost, doubled or moved (module.c 303-353,
\* 507-600): at every moment the client has the beginning of one whole response.
THEOREM NothingIsLost == Spec => []ResponseIsComplete
<1>1. IInv => ResponseIsComplete
  BY DEF IInv, SentMeant, ResponseIsComplete
<1> QED BY <1>1, InitIInv, NextIInv, PTL DEF Spec
=============================================================================
