------------------------ MODULE TransformFirst_proofs ------------------------
(***************************************************************************)
(* The invariant of a transformation, for every requestsheet: its counters *)
(* count exactly what is not finished below a node, what is not finished   *)
(* stands at its place in the document, and calls stand in the order in    *)
(* which one needs what another makes.  What a step of one element may do  *)
(* without breaking that; and the first calls of all elements.             *)
(***************************************************************************)
EXTENDS Transform, NodeQueue_proofs, FiniteSetTheorems, TLAPS

(***************************************************************************)
(* The places of the nodes.  An element puts its nodes where the sheet     *)
(* says, whatever the order of the calls: Above(s, n) is the node that n   *)
(* hangs on as long as anything is going on below n.                       *)
(***************************************************************************)
Place(s, e) ==
  LET p == s.up[e]
  IN IF p = 0 \/ s.kind[e] = "variable" THEN Var
     ELSE IF s.kind[p] = "response" THEN Response
     ELSE IF s.slot[e] = "value" THEN Arg(p)
     ELSE IF s.kind[p] \in {"copy", "log", "variable"} THEN Self(p) ELSE Ret(p)

Above(s, n) ==
  IF n \in {Doc, Response, Var} THEN Doc
  ELSE IF n[1] = "self" THEN Place(s, n[2])
  ELSE IF n[1] = "arg" THEN Tmp(n[2]) ELSE Self(n[2])

\* A node ranks behind the one it hangs on.
Rank(n) ==
  IF n = Doc THEN 0
  ELSE IF n \in {Response, Var} THEN 1
  ELSE IF n[1] = "self" THEN 5 * n[2]
  ELSE IF n[1] = "tmp" THEN 5 * n[2] + 1
  ELSE IF n[1] = "ret" THEN 5 * n[2] + 2
  ELSE IF n[1] = "arg" THEN 5 * n[2] + 3 ELSE 5 * n[2] + 4

LEMMA ElemNumbers == \A e \in Elem : e \in Nat /\ e > 0
<1>1. IsFiniteSet(Elem) /\ Elem = 1..Cardinality(Elem) /\ Cardinality(Elem) \in Nat
  BY ElemAssumption, FS_CardinalityType
<1> QED BY <1>1

\* No node has two names.
LEMMA NodesDiffer ==
  /\ Doc \in Node /\ Response \in Node /\ Var \in Node /\ NULL \notin Node
  /\ Doc # Response /\ Doc # Var /\ Response # Var
  /\ \A e \in Elem :
       /\ Self(e) \in Node /\ Tmp(e) \in Node /\ Arg(e) \in Node
       /\ Ret(e) \in Node /\ Text(e) \in Node
       /\ Self(e) \notin {Doc, Response, Var} /\ Tmp(e) \notin {Doc, Response, Var}
       /\ Arg(e) \notin {Doc, Response, Var} /\ Ret(e) \notin {Doc, Response, Var}
       /\ Text(e) \notin {Doc, Response, Var}
  /\ \A e, f \in Elem :
       /\ Self(e) = Self(f) => e = f
       /\ Tmp(e) = Tmp(f) => e = f
       /\ Arg(e) = Arg(f) => e = f
       /\ Ret(e) = Ret(f) => e = f
       /\ Text(e) = Text(f) => e = f
       /\ Self(e) # Tmp(f) /\ Self(e) # Arg(f) /\ Self(e) # Ret(f) /\ Self(e) # Text(f)
       /\ Tmp(e) # Arg(f) /\ Tmp(e) # Ret(f) /\ Tmp(e) # Text(f)
       /\ Arg(e) # Ret(f) /\ Arg(e) # Text(f) /\ Ret(e) # Text(f)
  /\ \A n \in Node : n \notin {Doc, Response, Var} =>
       \E e \in Elem : n \in {Self(e), Tmp(e), Arg(e), Ret(e), Text(e)}
BY ElemNumbers DEF Node, Role, Doc, Response, Var, NULL, Self, Tmp, Arg, Ret, Text

LEMMA AboveIs ==
  ASSUME NEW s
  PROVE  /\ Above(s, Doc) = Doc /\ Above(s, Response) = Doc /\ Above(s, Var) = Doc
         /\ \A e \in Elem :
              /\ Above(s, Self(e)) = Place(s, e)
              /\ Above(s, Tmp(e)) = Self(e) /\ Above(s, Ret(e)) = Self(e)
              /\ Above(s, Text(e)) = Self(e) /\ Above(s, Arg(e)) = Tmp(e)
BY NodesDiffer DEF Above, Self, Tmp, Arg, Ret, Text

LEMMA RankIs ==
  /\ Rank(Doc) = 0 /\ Rank(Response) = 1 /\ Rank(Var) = 1
  /\ \A e \in Elem :
       /\ Rank(Self(e)) = 5 * e /\ Rank(Tmp(e)) = 5 * e + 1
       /\ Rank(Ret(e)) = 5 * e + 2 /\ Rank(Arg(e)) = 5 * e + 3
       /\ Rank(Text(e)) = 5 * e + 4
  /\ \A n \in Node : Rank(n) \in Nat /\ Rank(n) <= 5 * Cardinality(Elem) + 4
<1>1. /\ Rank(Doc) = 0 /\ Rank(Response) = 1 /\ Rank(Var) = 1
      /\ \A e \in Elem :
           /\ Rank(Self(e)) = 5 * e /\ Rank(Tmp(e)) = 5 * e + 1
           /\ Rank(Ret(e)) = 5 * e + 2 /\ Rank(Arg(e)) = 5 * e + 3
           /\ Rank(Text(e)) = 5 * e + 4
  BY NodesDiffer DEF Rank, Self, Tmp, Arg, Ret, Text
<1>2. Cardinality(Elem) \in Nat /\ \A e \in Elem : e \in Nat /\ e <= Cardinality(Elem)
  BY ElemAssumption, FS_CardinalityType
<1>3. ASSUME NEW n \in Node
      PROVE  Rank(n) \in Nat /\ Rank(n) <= 5 * Cardinality(Elem) + 4
  <2>1. CASE n \in {Doc, Response, Var}
    BY <1>1, <1>2, <2>1
  <2>2. CASE n \notin {Doc, Response, Var}
    <3>1. PICK e \in Elem : n \in {Self(e), Tmp(e), Arg(e), Ret(e), Text(e)}
      BY <2>2, NodesDiffer
    <3> QED BY <1>1, <1>2, <3>1
  <2> QED BY <2>1, <2>2
<1> QED BY <1>1, <1>3

LEMMA PlaceIs ==
  ASSUME NEW s, WellFormed(s), NEW e \in Elem
  PROVE  /\ Place(s, e) \in Node /\ Place(s, e) # Doc
         /\ Rank(Place(s, e)) < 5 * e
         /\ Place(s, e) \in {Response, Var} \/
            \E p \in Elem : p = s.up[e] /\ Place(s, e) \in {Self(p), Arg(p), Ret(p)}
<1>1. /\ s.up[e] \in Elem \cup {0} /\ s.up[e] < e /\ e \in Nat /\ e > 0
  BY ElemNumbers DEF WellFormed
<1>2. CASE Place(s, e) \in {Response, Var}
  BY <1>1, <1>2, NodesDiffer, RankIs
<1>3. CASE Place(s, e) \notin {Response, Var}
  <2>1. s.up[e] \in Elem /\ Place(s, e) \in {Self(s.up[e]), Arg(s.up[e]), Ret(s.up[e])}
    BY <1>1, <1>3 DEF Place
  <2>2. s.up[e] \in Nat /\ 5 * s.up[e] + 3 < 5 * e
    <3>1. \A a, b \in Nat : a < b => 5 * a + 3 < 5 * b
      OBVIOUS
    <3> QED BY <1>1, <2>1, <3>1, ElemNumbers
  <2>3. Rank(Place(s, e)) <= 5 * s.up[e] + 3
    BY <2>1, <2>2, RankIs
  <2>4. Rank(Place(s, e)) < 5 * e
    BY <1>1, <2>1, <2>2, <2>3, RankIs, NodesDiffer
  <2> QED BY <2>1, <2>4, NodesDiffer
<1> QED BY <1>2, <1>3

\* Every node ranks behind the one it hangs on, so that walking up ends.
LEMMA AboveRanks ==
  ASSUME NEW s, WellFormed(s), NEW n \in Node
  PROVE  Above(s, n) \in Node /\ (n # Doc => Rank(Above(s, n)) < Rank(n))
<1>1. CASE n \in {Doc, Response, Var}
  BY <1>1, AboveIs, RankIs, NodesDiffer
<1>2. CASE n \notin {Doc, Response, Var}
  <2>1. PICK e \in Elem : n \in {Self(e), Tmp(e), Arg(e), Ret(e), Text(e)}
    BY <1>2, NodesDiffer
  <2>2. e \in Nat
    BY ElemNumbers
  <2>3. CASE n = Self(e)
    BY <2>2, <2>3, AboveIs, RankIs, PlaceIs
  <2>4. CASE n \in {Tmp(e), Ret(e), Text(e)}
    <3>1. Above(s, n) = Self(e) /\ Self(e) \in Node /\ Rank(Self(e)) = 5 * e
      BY <2>4, AboveIs, RankIs, NodesDiffer
    <3>2. Rank(n) \in {5 * e + 1, 5 * e + 2, 5 * e + 4}
      BY <2>4, RankIs
    <3> QED BY <2>2, <3>1, <3>2
  <2>5. CASE n = Arg(e)
    <3>1. Above(s, n) = Tmp(e) /\ Tmp(e) \in Node /\ Rank(Tmp(e)) = 5 * e + 1
      BY <2>5, AboveIs, RankIs, NodesDiffer
    <3>2. Rank(n) = 5 * e + 3
      BY <2>5, RankIs
    <3> QED BY <2>2, <3>1, <3>2
  <2> QED BY <2>1, <2>3, <2>4, <2>5
<1> QED BY <1>1, <1>2

\* A walk from every node that has one to the next of a lower rank.
Walk(next, f, m) == IF m \in DOMAIN next THEN <<m>> \o f[next[m]] ELSE <<m>>

\* A function that follows "next" to nodes of a lower rank exists: there is no
\* node of the least rank for which it has no value.
LEMMA WalkExists ==
  ASSUME NEW next, DOMAIN next \subseteq Node,
         \A m \in DOMAIN next : next[m] \in Node /\ Rank(next[m]) < Rank(m)
  PROVE  \E f : f = [m \in Node |-> Walk(next, f, m)]
<1> DEFINE N == 5 * Cardinality(Elem) + 5
           Low(k) == { m \in Node : Rank(m) < k }
           Good(k, g) == g = [m \in Low(k) |-> Walk(next, g, m)]
           Has(k) == \E g : Good(k, g)
           Bad == { k \in 0..N : ~ Has(k) }
<1>0. Cardinality(Elem) \in Nat /\ N \in Nat
  BY ElemAssumption, FS_CardinalityType
<1>1. \A m \in Node : Rank(m) \in Nat /\ Rank(m) < N
  BY <1>0, RankIs
<1>2. Has(0)
  <2>1. Low(0) = {}
    BY <1>1
  <2>2. Good(0, [m \in {} |-> Walk(next, <<>>, m)])
    BY <2>1
  <2> QED BY <2>2
<1>3. ASSUME NEW k \in 0..N, k # 0, Has(k - 1) PROVE Has(k)
  <2>1. PICK g : Good(k - 1, g)
    BY <1>3
  <2> DEFINE h == [m \in Low(k) |-> Walk(next, g, m)]
  <2>2. ASSUME NEW m \in Low(k), m \in DOMAIN next PROVE h[next[m]] = g[next[m]]
    <3>1. next[m] \in Node /\ Rank(next[m]) < Rank(m) /\ Rank(m) < k
      BY <2>2
    <3>2. Rank(m) \in Nat /\ Rank(next[m]) \in Nat /\ k \in Nat
      BY <1>1, <3>1, <2>2, <1>3
    <3>3. next[m] \in Low(k - 1) /\ next[m] \in Low(k)
      BY <3>1, <3>2
    <3>4. g[next[m]] = Walk(next, g, next[m])
      BY <2>1, <3>3
    <3> QED BY <3>3, <3>4
  <2>3. \A m \in Low(k) : Walk(next, h, m) = Walk(next, g, m)
    <3> HIDE DEF h
    <3> QED BY <2>2 DEF Walk
  <2>4. Good(k, h)
    BY <2>3
  <2> QED BY <2>4
<1> HIDE DEF Has
<1>4. Bad = {}
  <2> SUFFICES ASSUME Bad # {} PROVE FALSE
    OBVIOUS
  <2>1. Bad \subseteq Nat
    BY <1>0
  <2>2. PICK k \in Bad : \A m \in Bad : k <= m
    BY <2>1, LeastNumber
  <2>3. k \in 0..N /\ ~ Has(k) /\ k # 0
    BY <2>2, <1>2
  <2>4. k - 1 \in 0..N /\ ~ (k <= k - 1)
    BY <2>3, <1>0
  <2>5. Has(k - 1)
    BY <2>2, <2>4
  <2> QED BY <1>3, <2>3, <2>5
<1>5. Has(N)
  BY <1>0, <1>4
<1>6. Low(N) = Node
  BY <1>1
<1>7. PICK g : Good(N, g)
  BY <1>5 DEF Has
<1> HIDE DEF Low
<1> QED BY <1>6, <1>7

\* The way from a node up to the document.
Aboves(s) == [m \in Node \ {Doc} |-> Above(s, m)]

SPath(s) == CHOOSE f : f = [m \in Node |-> Walk(Aboves(s), f, m)]

\* The nodes on it: the ones that n is a part of.
Up(s, n) == ToSet(SPath(s)[n])

\* The path of a node is the node and the path of what it hangs on.
LEMMA PathStep ==
  ASSUME NEW s, WellFormed(s)
  PROVE  /\ SPath(s)[Doc] = <<Doc>>
         /\ \A n \in Node : n # Doc => SPath(s)[n] = <<n>> \o SPath(s)[Above(s, n)]
<1> DEFINE next == Aboves(s)
           f == SPath(s)
<1>1. DOMAIN next = Node \ {Doc} /\ \A m \in DOMAIN next : next[m] = Above(s, m)
  BY DEF Aboves
<1>2. \A m \in DOMAIN next : next[m] \in Node /\ Rank(next[m]) < Rank(m)
  BY <1>1, AboveRanks
<1> HIDE DEF next
<1>3. \E g : g = [m \in Node |-> Walk(next, g, m)]
  BY <1>1, <1>2, WalkExists
<1>4. f = [m \in Node |-> Walk(next, f, m)]
  BY <1>3 DEF SPath, next
<1> HIDE DEF f
<1>5. \A m \in Node : f[m] = Walk(next, f, m)
  BY <1>4
<1> QED BY <1>1, <1>5, NodesDiffer DEF Walk, f

\* It begins at n, gets nearer to the document with every step and ends there.
GoodPath(s, n, p) ==
  /\ p \in Seq(Node) /\ Len(p) > 0 /\ p[1] = n /\ p[Len(p)] = Doc
  /\ \A i \in 1..(Len(p) - 1) : p[i] # Doc /\ p[i + 1] = Above(s, p[i])

LEMMA PathGood ==
  ASSUME NEW s, WellFormed(s), NEW n \in Node
  PROVE  GoodPath(s, n, SPath(s)[n])
<1> DEFINE Wrong == { Rank(m) : m \in { m \in Node : ~ GoodPath(s, m, SPath(s)[m]) } }
<1> SUFFICES ASSUME ~ GoodPath(s, n, SPath(s)[n]) PROVE FALSE
  OBVIOUS
<1>1. Wrong \subseteq Nat /\ Wrong # {}
  BY RankIs
<1>2. PICK k \in Wrong : \A j \in Wrong : k <= j
  BY <1>1, LeastNumber
<1>3. PICK m \in Node : k = Rank(m) /\ ~ GoodPath(s, m, SPath(s)[m])
  BY <1>2
<1>4. GoodPath(s, Doc, SPath(s)[Doc])
  <2> DEFINE d == <<Doc>>
  <2>1. d \in Seq(Node) /\ Len(d) = 1 /\ d[1] = Doc
    BY NodesDiffer
  <2>2. GoodPath(s, Doc, d)
    <3> HIDE DEF d
    <3> QED BY <2>1 DEF GoodPath
  <2> QED BY <2>2, PathStep
<1>5. m # Doc
  BY <1>3, <1>4
<1> DEFINE a == Above(s, m)
           p == SPath(s)[a]
<1>6. a \in Node /\ Rank(a) < Rank(m) /\ Rank(a) \in Nat /\ Rank(m) \in Nat
  BY <1>5, AboveRanks, RankIs
<1>7. GoodPath(s, a, p)
  <2> SUFFICES ASSUME ~ GoodPath(s, a, p) PROVE FALSE
    OBVIOUS
  <2>1. Rank(a) \in Wrong
    BY <1>6
  <2> QED BY <1>2, <1>3, <1>6, <2>1
<1>8. SPath(s)[m] = <<m>> \o p
  BY <1>5, PathStep
<1> HIDE DEF a, p
<1>9. GoodPath(s, m, <<m>> \o p)
  <2> DEFINE q == <<m>> \o p
  <2>1. p \in Seq(Node) /\ Len(p) \in Nat /\ Len(p) > 0
    BY <1>7 DEF GoodPath
  <2>2. /\ q \in Seq(Node) /\ Len(q) = Len(p) + 1 /\ q[1] = m
        /\ \A i \in 1..Len(p) : q[i + 1] = p[i]
    BY <2>1
  <2>3. q[Len(q)] = Doc
    <3>1. Len(p) \in 1..Len(p) /\ p[Len(p)] = Doc
      BY <1>7, <2>1 DEF GoodPath
    <3> QED BY <3>1, <2>2
  <2> HIDE DEF q
  <2>4. ASSUME NEW i \in 1..(Len(q) - 1)
        PROVE  q[i] # Doc /\ q[i + 1] = Above(s, q[i])
    <3>1. CASE i = 1
      <4>1. q[2] = p[1] /\ p[1] = a
        BY <2>1, <2>2, <1>7 DEF GoodPath
      <4> QED BY <3>1, <4>1, <2>2, <1>5 DEF a
    <3>2. CASE i # 1
      <4>1. i - 1 \in 1..(Len(p) - 1) /\ i \in 1..Len(p) /\ i - 1 \in 1..Len(p)
        BY <3>2, <2>1, <2>2
      <4>2. q[i] = p[i - 1] /\ q[i + 1] = p[i]
        <5>1. q[(i - 1) + 1] = p[i - 1] /\ q[i + 1] = p[i]
          BY <4>1, <2>2
        <5>2. (i - 1) + 1 = i
          BY <4>1
        <5> QED BY <5>1, <5>2
      <4>3. p[i - 1] # Doc /\ p[(i - 1) + 1] = Above(s, p[i - 1])
        BY <4>1, <1>7 DEF GoodPath
      <4>4. (i - 1) + 1 = i
        BY <4>1
      <4> QED BY <4>2, <4>3, <4>4
    <3> QED BY <3>1, <3>2
  <2> QED BY <2>2, <2>3, <2>4, <2>1 DEF GoodPath, q
<1> QED BY <1>3, <1>8, <1>9

LEMMA UpStep ==
  ASSUME NEW s, WellFormed(s)
  PROVE  /\ Up(s, Doc) = {Doc}
         /\ \A n \in Node : n # Doc => Up(s, n) = {n} \cup Up(s, Above(s, n))
<1>1. Up(s, Doc) = {Doc}
  BY PathStep DEF Up, ToSet
<1>2. ASSUME NEW n \in Node, n # Doc PROVE Up(s, n) = {n} \cup Up(s, Above(s, n))
  <2>1. Above(s, n) \in Node
    BY AboveRanks
  <2>2. SPath(s)[Above(s, n)] \in Seq(Node) /\ <<n>> \in Seq(Node)
    BY <2>1, PathGood DEF GoodPath
  <2>3. SPath(s)[n] = <<n>> \o SPath(s)[Above(s, n)]
    BY <1>2, PathStep
  <2> DEFINE p == SPath(s)[Above(s, n)]
             q == SPath(s)[n]
  <2> HIDE DEF p, q
  <2>4. /\ Len(q) = Len(p) + 1 /\ q[1] = n /\ Len(p) \in Nat /\ q \in Seq(Node)
        /\ \A i \in 1..Len(p) : q[i + 1] = p[i]
    BY <2>2, <2>3 DEF p, q
  <2>5. ToSet(q) \subseteq {n} \cup ToSet(p)
    <3> SUFFICES ASSUME NEW i \in 1..Len(q) PROVE q[i] \in {n} \cup ToSet(p)
      BY <2>4 DEF ToSet
    <3>1. CASE i = 1
      BY <3>1, <2>4
    <3>2. CASE i # 1
      <4>1. i - 1 \in 1..Len(p) /\ (i - 1) + 1 = i
        BY <3>2, <2>4
      <4>2. q[(i - 1) + 1] = p[i - 1]
        BY <4>1, <2>4
      <4>3. p \in Seq(Node)
        BY <2>2 DEF p
      <4> QED BY <4>1, <4>2, <4>3 DEF ToSet
    <3> QED BY <3>1, <3>2
  <2>6. {n} \cup ToSet(p) \subseteq ToSet(q)
    <3>1. n \in ToSet(q)
      <4>1. 1 \in 1..Len(q)
        BY <2>4
      <4> QED BY <4>1, <2>4 DEF ToSet
    <3>2. ASSUME NEW i \in 1..Len(p) PROVE p[i] \in ToSet(q)
      <4>1. i + 1 \in 1..Len(q) /\ q[i + 1] = p[i]
        BY <2>4
      <4> QED BY <4>1, <2>4 DEF ToSet
    <3> QED BY <3>1, <3>2, <2>2 DEF ToSet, p
  <2> QED BY <2>5, <2>6 DEF Up, p, q
<1> QED BY <1>1, <1>2

\* What n is a part of, and what that is a part of.
LEMMA UpFacts ==
  ASSUME NEW s, WellFormed(s)
  PROVE  \A n \in Node :
           /\ Up(s, n) \subseteq Node /\ n \in Up(s, n) /\ Doc \in Up(s, n)
           /\ \A m \in Up(s, n) :
                /\ Up(s, m) \subseteq Up(s, n)
                /\ m = n \/ Rank(m) < Rank(n)
                /\ m = n \/ \E k \in Up(s, n) : k # Doc /\ Above(s, k) = m
                /\ \A k \in Up(s, n) : k \in Up(s, m) \/ m \in Up(s, k)
<1> DEFINE Good(n) ==
             /\ Up(s, n) \subseteq Node /\ n \in Up(s, n) /\ Doc \in Up(s, n)
             /\ \A m \in Up(s, n) :
                  /\ Up(s, m) \subseteq Up(s, n)
                  /\ m = n \/ Rank(m) < Rank(n)
                  /\ m = n \/ \E k \in Up(s, n) : k # Doc /\ Above(s, k) = m
                  /\ \A k \in Up(s, n) : k \in Up(s, m) \/ m \in Up(s, k)
           Wrong == { Rank(m) : m \in { m \in Node : ~ Good(m) } }
<1> SUFFICES ASSUME NEW n \in Node, ~ Good(n) PROVE FALSE
  OBVIOUS
<1> HIDE DEF Good
<1>1. Wrong \subseteq Nat /\ Wrong # {}
  BY RankIs
<1>2. PICK r \in Wrong : \A j \in Wrong : r <= j
  BY <1>1, LeastNumber
<1>3. PICK m \in Node : r = Rank(m) /\ ~ Good(m)
  BY <1>2
<1>4. Good(Doc)
  BY UpStep, NodesDiffer DEF Good
<1>5. m # Doc
  BY <1>3, <1>4
<1> DEFINE a == Above(s, m)
<1>6. a \in Node /\ Rank(a) < Rank(m) /\ Rank(a) \in Nat /\ Rank(m) \in Nat
  BY <1>5, AboveRanks, RankIs
<1>7. Good(a)
  <2> SUFFICES ASSUME ~ Good(a) PROVE FALSE
    OBVIOUS
  <2>1. Rank(a) \in Wrong
    BY <1>6
  <2> QED BY <1>2, <1>3, <1>6, <2>1
<1>8. Up(s, m) = {m} \cup Up(s, a)
  BY <1>5, UpStep
<1>9. \A k \in Node : Rank(k) \in Nat
  BY RankIs
<1>10. Good(m)
  <2>1. Up(s, m) \subseteq Node /\ m \in Up(s, m) /\ Doc \in Up(s, m)
    BY <1>7, <1>8 DEF Good
  <2>2. ASSUME NEW k \in Up(s, m)
        PROVE  /\ Up(s, k) \subseteq Up(s, m)
               /\ k = m \/ Rank(k) < Rank(m)
               /\ k = m \/ \E j \in Up(s, m) : j # Doc /\ Above(s, j) = k
               /\ \A j \in Up(s, m) : j \in Up(s, k) \/ k \in Up(s, j)
    <3>1. CASE k = m
      BY <3>1, <2>1
    <3>2. CASE k \in Up(s, a)
      <4>1. /\ Up(s, k) \subseteq Up(s, a) /\ (k = a \/ Rank(k) < Rank(a))
            /\ k = a \/ \E j \in Up(s, a) : j # Doc /\ Above(s, j) = k
            /\ \A j \in Up(s, a) : j \in Up(s, k) \/ k \in Up(s, j)
        BY <3>2, <1>7 DEF Good
      <4>2. k \in Node /\ Rank(k) \in Nat
        BY <3>2, <1>7, <1>9 DEF Good
      <4>3. Rank(k) < Rank(m)
        BY <4>1, <4>2, <1>6
      <4>4. k = m \/ \E j \in Up(s, m) : j # Doc /\ Above(s, j) = k
        BY <4>1, <1>8, <1>5 DEF a
      <4>5. \A j \in Up(s, m) : j \in Up(s, k) \/ k \in Up(s, j)
        BY <4>1, <1>8, <3>2
      <4> QED BY <4>1, <4>3, <4>4, <4>5, <1>8
    <3> QED BY <3>1, <3>2, <1>8
  <2> QED BY <2>1, <2>2 DEF Good
<1> QED BY <1>3, <1>10

\* It meets no node twice, and the nodes come the lower ones first.
LEMMA PathOrder ==
  ASSUME NEW s, WellFormed(s), NEW n \in Node
  PROVE  /\ IsInjective(SPath(s)[n])
         /\ \A i, k \in 1..Len(SPath(s)[n]) :
              i < k => /\ SPath(s)[n][k] \in Up(s, SPath(s)[n][i])
                       /\ Rank(SPath(s)[n][k]) < Rank(SPath(s)[n][i])
<1> DEFINE p == SPath(s)[n]
           L == Len(p)
           Bad == { d \in 0..L : \E i \in 1..L : i + d \in 1..L /\
                      p[i + d] \notin Up(s, p[i]) }
<1>1. GoodPath(s, n, p)
  BY PathGood
<1> HIDE DEF p
<1>2. p \in Seq(Node) /\ L \in Nat /\ \A i \in 1..L : p[i] \in Node
  BY <1>1 DEF GoodPath
<1>3. \A i \in 1..L : p[i] \in Up(s, p[i])
  BY <1>2, UpFacts
<1>4. Bad = {}
  <2> SUFFICES ASSUME Bad # {} PROVE FALSE
    OBVIOUS
  <2>1. Bad \subseteq Nat
    BY <1>2
  <2>2. PICK d \in Bad : \A j \in Bad : d <= j
    BY <2>1, LeastNumber
  <2>3. PICK i \in 1..L : i + d \in 1..L /\ p[i + d] \notin Up(s, p[i])
    BY <2>2
  <2>4. d \in Nat /\ d # 0
    BY <2>2, <2>3, <1>3, <1>2
  <2> DEFINE e == d - 1
             j == i + e
  <2>5. e \in 0..L /\ i + e \in 1..L /\ ~ (d <= e) /\ (i + e) + 1 = i + d /\ i + e \in 1..(L - 1)
    BY <2>3, <2>4, <1>2
  <2>6. p[i + e] \in Up(s, p[i])
    BY <2>2, <2>5
  <2>7. p[i + e] # Doc /\ p[(i + e) + 1] = Above(s, p[i + e])
    BY <2>5, <1>1 DEF GoodPath
  <2>8. Above(s, p[i + e]) \in Up(s, p[i + e])
    <3>1. p[i + e] \in Node /\ Above(s, p[i + e]) \in Node
      BY <2>5, <1>2, AboveRanks
    <3> QED BY <3>1, <2>7, UpStep, UpFacts
  <2>9. p[i] \in Node
    BY <1>2
  <2> QED BY <2>3, <2>5, <2>6, <2>7, <2>8, <2>9, UpFacts
<1>5. ASSUME NEW i \in 1..L, NEW k \in 1..L, i < k
      PROVE  p[k] \in Up(s, p[i]) /\ Rank(p[k]) < Rank(p[i])
  <2> DEFINE j == i + 1
  <2>1. j \in 1..L /\ k - j \in 0..L /\ j + (k - j) = k /\ i \in 1..(L - 1)
    BY <1>5, <1>2
  <2>2. p[j] = Above(s, p[i]) /\ p[i] # Doc
    BY <2>1, <1>1 DEF GoodPath
  <2>3. p[k] \in Up(s, p[j])
    <3> HIDE DEF j
    <3> QED BY <1>4, <2>1
  <2>4. p[i] \in Node /\ p[j] \in Node /\ Rank(p[j]) < Rank(p[i])
    BY <2>1, <2>2, <1>2, AboveRanks
  <2>5. p[k] \in Node /\ (p[k] = p[j] \/ Rank(p[k]) < Rank(p[j]))
    BY <2>3, <2>4, UpFacts
  <2>6. Rank(p[k]) \in Nat /\ Rank(p[j]) \in Nat /\ Rank(p[i]) \in Nat
    BY <2>4, <2>5, RankIs
  <2>7. p[k] \in Up(s, p[i])
    BY <2>2, <2>3, <2>4, UpStep
  <2> QED BY <2>4, <2>5, <2>6, <2>7
<1>6. IsInjective(p)
  <2> SUFFICES ASSUME NEW i \in 1..L, NEW k \in 1..L, p[i] = p[k] PROVE i = k
    BY <1>2 DEF IsInjective
  <2>1. Rank(p[i]) \in Nat
    BY <1>2, RankIs
  <2>2. ~ (i < k) /\ ~ (k < i)
    BY <1>5, <2>1
  <2> QED BY <2>2, <1>2
<1> QED BY <1>5, <1>6 DEF p

(***************************************************************************)
(* The tree of the document.  Every node has one parent, of a lower rank;  *)
(* the nodes of a value or a result are nowhere but at their place.        *)
(***************************************************************************)
Forest(K) ==
  /\ \A m \in Node : IsInjective(K[m])
  /\ \A m, n \in Node : m # n => ToSet(K[m]) \cap ToSet(K[n]) = {}

Ranked(K) == \A m \in Node : \A n \in ToSet(K[m]) : Rank(m) < Rank(n)

Fixed(s, K) ==
  \A m \in Node : \A n \in ToSet(K[m]) :
    /\ n \in {Response, Var} => m = Doc
    /\ \A e \in Elem : n \in {Tmp(e), Arg(e), Ret(e)} => m = Above(s, n)

TreeOK(s, K) ==
  K \in [Node -> Seq(Node)] /\ Forest(K) /\ Ranked(K) /\ Fixed(s, K)

\* n is at its place, and every node it is a part of is.
Hangs(s, K, n) == n = Doc \/ n \in ToSet(K[Above(s, n)])
Stands(s, K, n) == \A m \in Up(s, n) : Hangs(s, K, m)

LEMMA Members ==
  ASSUME NEW K \in [Node -> Seq(Node)], NEW m \in Node
  PROVE  /\ K[m] \in Seq(Node) /\ ToSet(K[m]) \subseteq Node
         /\ \A n : Contains(K[m], n) <=> n \in ToSet(K[m])
         /\ DOMAIN K[m] = 1..Len(K[m])
BY DEF ToSet, Contains

\* A node of the tree has one parent.
LEMMA ParentIs ==
  ASSUME NEW s, NEW K, TreeOK(s, K), NEW p \in Node, NEW n \in ToSet(K[p])
  PROVE  HasParent(K, n) /\ ParentIn(K, n) = p /\ n \in Node /\ n # Doc
<1>1. DOMAIN K = Node /\ K \in [Node -> Seq(Node)]
  BY DEF TreeOK
<1>2. \A q \in Node : Contains(K[q], n) <=> n \in ToSet(K[q])
  BY <1>1, Members
<1>3. \A q \in Node : n \in ToSet(K[q]) => q = p
  BY DEF TreeOK, Forest
<1>4. HasParent(K, n) /\ ParentIn(K, n) = p
  BY <1>1, <1>2, <1>3 DEF HasParent, ParentIn
<1>5. n \in Node /\ Rank(p) < Rank(n) /\ Rank(p) \in Nat
  BY <1>1, Members, RankIs DEF TreeOK, Ranked
<1>6. n # Doc
  BY <1>5, RankIs
<1> QED BY <1>4, <1>5, <1>6

\* The path of a node that stands is the one the sheet says.
LEMMA PathIs ==
  ASSUME NEW s, WellFormed(s), NEW K, TreeOK(s, K),
         NEW n \in Node, Stands(s, K, n)
  PROVE  PathIn(K, n) = SPath(s)[n]
<1> DEFINE D == { m \in Node : m # Doc /\ HasParent(K, m) }
           next == [m \in D |-> ParentIn(K, m)]
           Step(f, m) == IF m # Doc /\ HasParent(K, m) THEN <<m>> \o f[ParentIn(K, m)] ELSE <<m>>
<1>1. DOMAIN K = Node
  BY DEF TreeOK
<1>2. ASSUME NEW m \in D PROVE next[m] \in Node /\ Rank(next[m]) < Rank(m)
  <2>1. PICK p \in Node : Contains(K[p], m)
    BY <1>1 DEF HasParent
  <2>2. m \in ToSet(K[p])
    BY <2>1, Members DEF TreeOK
  <2>3. ParentIn(K, m) = p
    BY <2>2, ParentIs
  <2> QED BY <2>2, <2>3 DEF TreeOK, Ranked
<1>3. \E f : f = [m \in Node |-> Walk(next, f, m)]
  <2>1. DOMAIN next = D
    OBVIOUS
  <2> HIDE DEF next
  <2> QED BY <1>2, <2>1, WalkExists
<1>4. \A f : \A m \in Node : Walk(next, f, m) = Step(f, m)
  BY DEF Walk
<1> HIDE DEF next, Step
<1>5. PICK f : f = [m \in Node |-> Walk(next, f, m)]
  BY <1>3
<1>6. \E g : g = [m \in DOMAIN K |-> Step(g, m)]
  <2>1. f = [m \in Node |-> Step(f, m)]
    BY <1>4, <1>5
  <2> QED BY <2>1, <1>1
<1> DEFINE up == CHOOSE g : g = [m \in DOMAIN K |-> Step(g, m)]
<1>7. PathIn(K, n) = up[n]
  BY DEF PathIn, Step
<1>8. up = [m \in DOMAIN K |-> Step(up, m)]
  BY <1>6
<1> HIDE DEF up
<1>9. \A m \in Node : up[m] = Step(up, m)
  BY <1>8, <1>1
<1> DEFINE Wrong == { Rank(m) : m \in { m \in Up(s, n) : up[m] # SPath(s)[m] } }
<1>10. Up(s, n) \subseteq Node /\ n \in Up(s, n)
  BY UpFacts
<1>11. Wrong = {}
  <2> SUFFICES ASSUME Wrong # {} PROVE FALSE
    OBVIOUS
  <2>1. Wrong \subseteq Nat
    BY <1>10, RankIs
  <2>2. PICK r \in Wrong : \A j \in Wrong : r <= j
    BY <2>1, LeastNumber
  <2>3. PICK m \in Up(s, n) : r = Rank(m) /\ up[m] # SPath(s)[m]
    BY <2>2
  <2>4. m \in Node
    BY <2>3, <1>10
  <2>5. m # Doc
    BY <1>9, <2>3, <2>4, PathStep DEF Step
  <2> DEFINE a == Above(s, m)
  <2>6. a \in Node /\ Rank(a) < Rank(m) /\ Rank(a) \in Nat /\ Rank(m) \in Nat
    BY <2>4, <2>5, AboveRanks, RankIs
  <2>7. a \in Up(s, n)
    <3>1. a \in Up(s, a)
      BY <2>6, UpFacts
    <3>2. a \in Up(s, m)
      BY <3>1, <2>4, <2>5, UpStep
    <3> QED BY <3>2, UpFacts
  <2>8. up[a] = SPath(s)[a]
    <3> SUFFICES ASSUME up[a] # SPath(s)[a] PROVE FALSE
      OBVIOUS
    <3>1. Rank(a) \in Wrong
      BY <2>7
    <3> QED BY <3>1, <2>2, <2>3, <2>6
  <2>9. m \in ToSet(K[a])
    BY <2>5 DEF Stands, Hangs
  <2>10. HasParent(K, m) /\ ParentIn(K, m) = a
    BY <2>6, <2>9, ParentIs
  <2>11. up[m] = <<m>> \o up[a]
    BY <1>9, <2>4, <2>5, <2>10 DEF Step
  <2> QED BY <2>3, <2>4, <2>5, <2>8, <2>11, PathStep
<1> QED BY <1>7, <1>10, <1>11

\* What lies below a node, and the text below it: both are put together from
\* nodes of higher ranks.
StepBelow(K, f, m) == {m} \cup UNION { f[c] : c \in ToSet(K[m]) }

StepText(K, own, f, m) == own[m] \o FlattenSeq([i \in DOMAIN K[m] |-> f[K[m][i]]])

\* Descendants are defined for every tree.
LEMMA BelowExists ==
  ASSUME NEW K \in [Node -> Seq(Node)], Ranked(K)
  PROVE  \E f : f = [m \in Node |-> StepBelow(K, f, m)]
<1> DEFINE N == 5 * Cardinality(Elem) + 5
           High(k) == { m \in Node : Rank(m) + k >= N }
           Good(k, g) == g = [m \in High(k) |-> StepBelow(K, g, m)]
           Has(k) == \E g : Good(k, g)
           Bad == { k \in 0..N : ~ Has(k) }
<1>0. Cardinality(Elem) \in Nat /\ N \in Nat
  BY ElemAssumption, FS_CardinalityType
<1>1. \A m \in Node : Rank(m) \in Nat /\ Rank(m) < N
  BY <1>0, RankIs
<1> HIDE DEF N
<1>2. Has(0)
  <2>1. High(0) = {}
    BY <1>1, <1>0
  <2>2. Good(0, [m \in {} |-> StepBelow(K, <<>>, m)])
    BY <2>1
  <2> QED BY <2>2
<1>3. ASSUME NEW k \in 0..N, k # 0, Has(k - 1) PROVE Has(k)
  <2>1. PICK g : Good(k - 1, g)
    BY <1>3
  <2> DEFINE h == [m \in High(k) |-> StepBelow(K, g, m)]
  <2>2. ASSUME NEW m \in High(k), NEW c \in ToSet(K[m]) PROVE h[c] = g[c]
    <3>1. c \in Node /\ Rank(m) < Rank(c) /\ Rank(m) + k >= N
      BY <2>2, Members DEF Ranked
    <3>2. Rank(m) \in Nat /\ Rank(c) \in Nat /\ k \in Nat
      BY <1>1, <3>1, <2>2, <1>3
    <3>3. c \in High(k - 1) /\ c \in High(k)
      <4>1. \A a, b, j, l \in Nat : a < b /\ a + j >= l => b + (j - 1) >= l /\ b + j >= l
        OBVIOUS
      <4>2. Rank(c) + (k - 1) >= N /\ Rank(c) + k >= N
        BY <3>1, <3>2, <1>0, <4>1
      <4> QED BY <3>1, <4>2
    <3>4. g[c] = StepBelow(K, g, c)
      BY <2>1, <3>3
    <3> QED BY <3>3, <3>4
  <2>3. \A m \in High(k) : StepBelow(K, h, m) = StepBelow(K, g, m)
    <3> HIDE DEF h
    <3> QED BY <2>2 DEF StepBelow
  <2>4. Good(k, h)
    BY <2>3
  <2> QED BY <2>4
<1> HIDE DEF Has
<1>4. Bad = {}
  <2> SUFFICES ASSUME Bad # {} PROVE FALSE
    OBVIOUS
  <2>1. Bad \subseteq Nat
    BY <1>0
  <2>2. PICK k \in Bad : \A m \in Bad : k <= m
    BY <2>1, LeastNumber
  <2>3. k \in 0..N /\ ~ Has(k) /\ k # 0
    BY <2>2, <1>2
  <2>4. k - 1 \in 0..N /\ ~ (k <= k - 1)
    BY <2>3, <1>0
  <2>5. Has(k - 1)
    BY <2>2, <2>4
  <2> QED BY <1>3, <2>3, <2>5
<1>5. Has(N)
  BY <1>0, <1>4
<1>6. High(N) = Node
  BY <1>1, <1>0
<1>7. PICK g : Good(N, g)
  BY <1>5 DEF Has
<1> HIDE DEF High
<1> QED BY <1>6, <1>7

\* And so is the text below a node.
LEMMA TextExists ==
  ASSUME NEW K \in [Node -> Seq(Node)], Ranked(K), NEW S, NEW own \in [Node -> Seq(S)]
  PROVE  \E f \in [Node -> Seq(S)] : f = [m \in Node |-> StepText(K, own, f, m)]
<1> DEFINE N == 5 * Cardinality(Elem) + 5
           High(k) == { m \in Node : Rank(m) + k >= N }
           Good(k, g) == /\ g = [m \in High(k) |-> StepText(K, own, g, m)]
                         /\ \A m \in High(k) : g[m] \in Seq(S)
           Has(k) == \E g : Good(k, g)
           Bad == { k \in 0..N : ~ Has(k) }
<1>0. Cardinality(Elem) \in Nat /\ N \in Nat
  BY ElemAssumption, FS_CardinalityType
<1>1. \A m \in Node : Rank(m) \in Nat /\ Rank(m) < N
  BY <1>0, RankIs
<1> HIDE DEF N
<1>2. Has(0)
  <2>1. High(0) = {}
    BY <1>1, <1>0
  <2>2. Good(0, [m \in {} |-> StepText(K, own, <<>>, m)])
    BY <2>1
  <2> QED BY <2>2
<1>3. ASSUME NEW k \in 0..N, k # 0, Has(k - 1) PROVE Has(k)
  <2>1. PICK g : Good(k - 1, g)
    BY <1>3
  <2> DEFINE h == [m \in High(k) |-> StepText(K, own, g, m)]
  <2>2. ASSUME NEW m \in High(k), NEW i \in DOMAIN K[m]
        PROVE  h[K[m][i]] = g[K[m][i]] /\ g[K[m][i]] \in Seq(S)
    <3> DEFINE c == K[m][i]
    <3>1. c \in ToSet(K[m])
      BY DEF ToSet
    <3>2. c \in Node /\ Rank(m) < Rank(c) /\ Rank(m) + k >= N
      BY <2>2, <3>1, Members DEF Ranked
    <3>3. Rank(m) \in Nat /\ Rank(c) \in Nat /\ k \in Nat
      BY <1>1, <3>2, <2>2, <1>3
    <3> HIDE DEF c
    <3>4. c \in High(k - 1) /\ c \in High(k)
      <4>1. \A a, b, j, l \in Nat : a < b /\ a + j >= l => b + (j - 1) >= l /\ b + j >= l
        OBVIOUS
      <4>2. Rank(c) + (k - 1) >= N /\ Rank(c) + k >= N
        BY <3>2, <3>3, <1>0, <4>1
      <4> QED BY <3>2, <4>2
    <3>5. g[c] = StepText(K, own, g, c) /\ g[c] \in Seq(S)
      BY <2>1, <3>4
    <3>6. h[c] = g[c] /\ g[c] \in Seq(S)
      BY <3>4, <3>5
    <3> QED BY <3>6 DEF c
  <2>3. \A m \in High(k) : StepText(K, own, h, m) = StepText(K, own, g, m)
    <3> HIDE DEF h
    <3>1. ASSUME NEW m \in High(k)
          PROVE  [i \in DOMAIN K[m] |-> h[K[m][i]]] = [i \in DOMAIN K[m] |-> g[K[m][i]]]
      BY <2>2, <3>1
    <3> QED BY <3>1 DEF StepText
  <2>4. \A m \in High(k) : h[m] \in Seq(S)
    <3> TAKE m \in High(k)
    <3> DEFINE ss == [i \in DOMAIN K[m] |-> g[K[m][i]]]
    <3>1. DOMAIN K[m] = 1..Len(K[m]) /\ Len(K[m]) \in Nat
      BY Members
    <3>2. ss \in [1..Len(K[m]) -> Seq(S)]
      BY <2>2, <3>1
    <3>3. ss \in Seq(Seq(S))
      <4> HIDE DEF ss
      <4> QED BY <3>1, <3>2, SegmentIsSeq
    <3>4. FlattenSeq(ss) \in Seq(S)
      <4> HIDE DEF ss
      <4> QED BY <3>3, FlattenType
    <3>5. h[m] = own[m] \o FlattenSeq(ss)
      BY DEF StepText
    <3> HIDE DEF ss, h
    <3> QED BY <3>4, <3>5
  <2>5. Good(k, h)
    BY <2>3, <2>4
  <2> QED BY <2>5
<1> HIDE DEF Has
<1>4. Bad = {}
  <2> SUFFICES ASSUME Bad # {} PROVE FALSE
    OBVIOUS
  <2>1. Bad \subseteq Nat
    BY <1>0
  <2>2. PICK k \in Bad : \A m \in Bad : k <= m
    BY <2>1, LeastNumber
  <2>3. k \in 0..N /\ ~ Has(k) /\ k # 0
    BY <2>2, <1>2
  <2>4. k - 1 \in 0..N /\ ~ (k <= k - 1)
    BY <2>3, <1>0
  <2>5. Has(k - 1)
    BY <2>2, <2>4
  <2> QED BY <1>3, <2>3, <2>5
<1>5. Has(N)
  BY <1>0, <1>4
<1>6. High(N) = Node
  BY <1>1, <1>0
<1>7. PICK g : Good(N, g)
  BY <1>5 DEF Has
<1> HIDE DEF High
<1>8. g = [m \in Node |-> StepText(K, own, g, m)] /\ \A m \in Node : g[m] \in Seq(S)
  BY <1>6, <1>7
<1>9. g \in [Node -> Seq(S)]
  BY <1>8
<1> QED BY <1>8, <1>9

\* The text below a node is made of what the nodes hold.
LEMMA TextType ==
  ASSUME NEW K \in [Node -> Seq(Node)], Ranked(K), NEW S, NEW own \in [Node -> Seq(S)],
         NEW n \in Node
  PROVE  TextBelow(K, own, n) \in Seq(S)
<1> DEFINE text == CHOOSE f : f = [m \in DOMAIN K |-> StepText(K, own, f, m)]
<1>1. DOMAIN K = Node
  OBVIOUS
<1>2. TextBelow(K, own, n) = text[n]
  BY DEF TextBelow, StepText
<1>3. PICK f \in [Node -> Seq(S)] : f = [m \in Node |-> StepText(K, own, f, m)]
  BY TextExists
<1>4. \E g : g = [m \in DOMAIN K |-> StepText(K, own, g, m)]
  BY <1>1, <1>3
<1>5. text = [m \in DOMAIN K |-> StepText(K, own, text, m)]
  BY <1>4
<1> HIDE DEF text
<1>6. \A m \in Node : text[m] = StepText(K, own, text, m)
  BY <1>1, <1>5
<1> DEFINE N == 5 * Cardinality(Elem) + 5
           Wrong == { N - Rank(m) : m \in { m \in Node : text[m] \notin Seq(S) } }
<1>7. N \in Nat /\ \A m \in Node : Rank(m) \in Nat /\ Rank(m) < N
  <2>1. Cardinality(Elem) \in Nat
    BY ElemAssumption, FS_CardinalityType
  <2>2. N \in Nat
    BY <2>1
  <2>3. \A m \in Node : Rank(m) \in Nat /\ Rank(m) < N
    <3>1. \A a, b \in Nat : a <= 5 * b + 4 => a < 5 * b + 5
      OBVIOUS
    <3> QED BY <2>1, <3>1, RankIs
  <2> QED BY <2>2, <2>3
<1> HIDE DEF N
<1>8. Wrong = {}
  <2> SUFFICES ASSUME Wrong # {} PROVE FALSE
    OBVIOUS
  <2>1. Wrong \subseteq Nat
    BY <1>7
  <2>2. PICK r \in Wrong : \A j \in Wrong : r <= j
    BY <2>1, LeastNumber
  <2>3. PICK m \in Node : r = N - Rank(m) /\ text[m] \notin Seq(S)
    BY <2>2
  <2> DEFINE ss == [i \in DOMAIN K[m] |-> text[K[m][i]]]
  <2>4. DOMAIN K[m] = 1..Len(K[m]) /\ Len(K[m]) \in Nat
    BY Members
  <2>5. ASSUME NEW i \in DOMAIN K[m] PROVE text[K[m][i]] \in Seq(S)
    <3> SUFFICES ASSUME text[K[m][i]] \notin Seq(S) PROVE FALSE
      OBVIOUS
    <3> DEFINE c == K[m][i]
    <3>1. c \in Node /\ Rank(m) < Rank(c)
      BY <2>3, Members DEF Ranked, ToSet
    <3>2. N - Rank(c) \in Wrong
      BY <3>1
    <3>3. N - Rank(m) <= N - Rank(c)
      BY <2>2, <2>3, <3>2
    <3> HIDE DEF c
    <3>4. Rank(m) \in Nat /\ Rank(c) \in Nat /\ N \in Nat
      BY <3>1, <2>3, <1>7
    <3> HIDE DEF N
    <3> QED BY <3>1, <3>3, <3>4
  <2>6. ss \in Seq(Seq(S))
    <3>1. ss \in [1..Len(K[m]) -> Seq(S)]
      BY <2>4, <2>5
    <3> HIDE DEF ss
    <3> QED BY <3>1, <2>4, SegmentIsSeq
  <2>7. FlattenSeq(ss) \in Seq(S)
    <3> HIDE DEF ss
    <3> QED BY <2>6, FlattenType
  <2>8. text[m] = own[m] \o FlattenSeq(ss)
    BY <1>6 DEF StepText
  <2> HIDE DEF ss
  <2> QED BY <2>3, <2>7, <2>8
<1>9. text[n] \in Seq(S)
  BY <1>8
<1> QED BY <1>2, <1>9

\* A node that stands is in the document.
LEMMA StandsLives ==
  ASSUME NEW s, WellFormed(s), NEW K, TreeOK(s, K), NEW n \in Node, Stands(s, K, n)
  PROVE  n \in Descendants(K, Doc)
<1> DEFINE below == CHOOSE f : f = [m \in DOMAIN K |-> StepBelow(K, f, m)]
<1>1. DOMAIN K = Node /\ K \in [Node -> Seq(Node)] /\ Ranked(K)
  BY DEF TreeOK
<1>2. Descendants(K, Doc) = below[Doc]
  BY DEF Descendants, StepBelow
<1>3. \E g : g = [m \in DOMAIN K |-> StepBelow(K, g, m)]
  BY <1>1, BelowExists
<1>4. below = [m \in DOMAIN K |-> StepBelow(K, below, m)]
  BY <1>3
<1> HIDE DEF below
<1>5. \A m \in Node : below[m] = {m} \cup UNION { below[c] : c \in ToSet(K[m]) }
  BY <1>1, <1>4 DEF StepBelow
<1> DEFINE N == 5 * Cardinality(Elem) + 5
           Closed(m) == \A x \in below[m] : x \in Node /\ below[x] \subseteq below[m]
           Wrong == { N - Rank(m) : m \in { m \in Node : ~ Closed(m) } }
<1>6. N \in Nat /\ \A m \in Node : Rank(m) \in Nat /\ Rank(m) < N
  <2>1. Cardinality(Elem) \in Nat
    BY ElemAssumption, FS_CardinalityType
  <2>2. N \in Nat
    BY <2>1
  <2>3. \A m \in Node : Rank(m) \in Nat /\ Rank(m) < N
    <3>1. \A a, b \in Nat : a <= 5 * b + 4 => a < 5 * b + 5
      OBVIOUS
    <3> QED BY <2>1, <3>1, RankIs
  <2> QED BY <2>2, <2>3
<1> HIDE DEF N
<1>7. Wrong = {}
  <2> SUFFICES ASSUME Wrong # {} PROVE FALSE
    OBVIOUS
  <2>1. Wrong \subseteq Nat
    BY <1>6
  <2>2. PICK r \in Wrong : \A j \in Wrong : r <= j
    BY <2>1, LeastNumber
  <2>3. PICK m \in Node : r = N - Rank(m) /\ ~ Closed(m)
    BY <2>2
  <2> HIDE DEF Closed
  <2>4. ASSUME NEW c \in ToSet(K[m]) PROVE Closed(c)
    <3> SUFFICES ASSUME ~ Closed(c) PROVE FALSE
      OBVIOUS
    <3>1. c \in Node /\ Rank(m) < Rank(c)
      BY <1>1, <2>3, Members DEF Ranked
    <3>2. N - Rank(c) \in Wrong
      BY <3>1
    <3>3. N - Rank(m) <= N - Rank(c)
      BY <2>2, <2>3, <3>2
    <3>4. Rank(m) \in Nat /\ Rank(c) \in Nat /\ N \in Nat
      BY <3>1, <2>3, <1>6
    <3> HIDE DEF N
    <3> QED BY <3>1, <3>3, <3>4
  <2>5. Closed(m)
    <3>1. ASSUME NEW x \in below[m] PROVE x \in Node /\ below[x] \subseteq below[m]
      <4>1. CASE x = m
        BY <4>1
      <4>2. CASE \E c \in ToSet(K[m]) : x \in below[c]
        <5>1. PICK c \in ToSet(K[m]) : x \in below[c]
          BY <4>2
        <5>2. below[c] \subseteq below[m]
          BY <5>1, <1>5
        <5> QED BY <5>1, <5>2, <2>4 DEF Closed
      <4> QED BY <4>1, <4>2, <1>5
    <3> QED BY <3>1 DEF Closed
  <2> QED BY <2>3, <2>5
<1>8. \A m \in Node : \A x \in below[m] : x \in Node /\ below[x] \subseteq below[m]
  BY <1>7
<1> DEFINE Out == { Rank(m) : m \in { m \in Up(s, n) : m \notin below[Doc] } }
<1>9. Up(s, n) \subseteq Node /\ n \in Up(s, n)
  BY UpFacts
<1>10. Out = {}
  <2> SUFFICES ASSUME Out # {} PROVE FALSE
    OBVIOUS
  <2>1. Out \subseteq Nat
    BY <1>9, RankIs
  <2>2. PICK r \in Out : \A j \in Out : r <= j
    BY <2>1, LeastNumber
  <2>3. PICK m \in Up(s, n) : r = Rank(m) /\ m \notin below[Doc]
    BY <2>2
  <2>4. m \in Node /\ m # Doc
    BY <2>3, <1>5, <1>9, NodesDiffer
  <2> DEFINE a == Above(s, m)
  <2>5. a \in Node /\ Rank(a) < Rank(m) /\ Rank(a) \in Nat /\ Rank(m) \in Nat
    BY <2>4, AboveRanks, RankIs
  <2>6. a \in Up(s, n)
    <3>1. a \in Up(s, a)
      BY <2>5, UpFacts
    <3>2. a \in Up(s, m)
      BY <3>1, <2>4, UpStep
    <3> QED BY <3>2, UpFacts
  <2>7. a \in below[Doc]
    <3> SUFFICES ASSUME a \notin below[Doc] PROVE FALSE
      OBVIOUS
    <3>1. Rank(a) \in Out
      BY <2>6
    <3> QED BY <3>1, <2>2, <2>3, <2>5
  <2>8. m \in ToSet(K[a])
    BY <2>4 DEF Stands, Hangs
  <2>9. m \in below[m] /\ below[m] \subseteq below[a]
    BY <1>5, <2>4, <2>5, <2>8
  <2>10. below[a] \subseteq below[Doc]
    BY <1>8, <2>7, NodesDiffer
  <2> QED BY <2>3, <2>9, <2>10
<1> QED BY <1>2, <1>9, <1>10

-----------------------------------------------------------------------------
(***************************************************************************)
(* What the sheet says of the places: which parts of an element may hold   *)
(* what.                                                                   *)
(***************************************************************************)
LEMMA UpIs ==
  ASSUME NEW s, WellFormed(s)
  PROVE  /\ Up(s, Doc) = {Doc}
         /\ Up(s, Response) = {Response, Doc} /\ Up(s, Var) = {Var, Doc}
         /\ \A e \in Elem :
              /\ Up(s, Self(e)) = {Self(e)} \cup Up(s, Place(s, e))
              /\ Up(s, Tmp(e)) = {Tmp(e)} \cup Up(s, Self(e))
              /\ Up(s, Ret(e)) = {Ret(e)} \cup Up(s, Self(e))
              /\ Up(s, Text(e)) = {Text(e)} \cup Up(s, Self(e))
              /\ Up(s, Arg(e)) = {Arg(e)} \cup Up(s, Tmp(e))
<1>1. Up(s, Doc) = {Doc} /\ \A n \in Node : n # Doc => Up(s, n) = {n} \cup Up(s, Above(s, n))
  BY UpStep
<1>2. Up(s, Response) = {Response, Doc} /\ Up(s, Var) = {Var, Doc}
  BY <1>1, NodesDiffer, AboveIs
<1>3. ASSUME NEW e \in Elem
      PROVE  /\ Self(e) \in Node /\ Tmp(e) \in Node /\ Arg(e) \in Node
             /\ Ret(e) \in Node /\ Text(e) \in Node
             /\ Self(e) # Doc /\ Tmp(e) # Doc /\ Arg(e) # Doc
             /\ Ret(e) # Doc /\ Text(e) # Doc
  BY NodesDiffer
<1> QED BY <1>1, <1>2, <1>3, AboveIs

\* The elements written in a part of an element are those it may hold.
LEMMA PlacedIn ==
  ASSUME NEW s, WellFormed(s), NEW f \in Elem, NEW q \in Elem
  PROVE  /\ Place(s, f) \notin {Tmp(q), Text(q)}
         /\ Place(s, f) = Arg(q) =>
              s.up[f] = q /\ s.slot[f] = "value" /\ s.kind[q] \in {"value-of", "include"}
         /\ Place(s, f) = Ret(q) =>
              s.up[f] = q /\ s.slot[f] # "value" /\ s.kind[q] \in {"if", "include"}
         /\ Place(s, f) = Self(q) =>
              s.up[f] = q /\ s.slot[f] # "value" /\ s.kind[q] \in {"copy", "log", "variable"}
<1> DEFINE p == s.up[f]
<1>1. CASE p = 0 \/ s.kind[f] = "variable"
  BY <1>1, NodesDiffer DEF Place
<1>2. CASE p # 0 /\ s.kind[f] # "variable"
  <2>1. p \in Elem /\ << s.kind[p], s.slot[f] >> \in Parts
    BY <1>2 DEF WellFormed
  <2>2. CASE s.kind[p] = "response"
    BY <1>2, <2>2, NodesDiffer DEF Place
  <2>3. CASE s.kind[p] # "response" /\ s.slot[f] = "value"
    <3>1. Place(s, f) = Arg(p)
      BY <1>2, <2>3 DEF Place
    <3>2. s.kind[p] \in {"value-of", "include"}
      BY <2>1, <2>3 DEF Parts
    <3> QED BY <2>1, <2>3, <3>1, <3>2, NodesDiffer
  <2>4. CASE s.slot[f] # "value" /\ s.kind[p] \in {"copy", "log", "variable"}
    <3>1. Place(s, f) = Self(p)
      BY <1>2, <2>4 DEF Place
    <3> QED BY <2>1, <2>4, <3>1, NodesDiffer
  <2>5. CASE s.slot[f] # "value" /\ s.kind[p] \notin {"response", "copy", "log", "variable"}
    <3>1. Place(s, f) = Ret(p)
      BY <1>2, <2>5 DEF Place
    <3>2. s.kind[p] \in {"if", "include"}
      BY <2>1, <2>5 DEF Parts
    <3> QED BY <2>1, <2>5, <3>1, <3>2, NodesDiffer
  <2> QED BY <2>2, <2>3, <2>4, <2>5
<1> QED BY <1>1, <1>2

\* What hangs on a part of q, if the element d is in q.
LEMMA InParts ==
  ASSUME NEW s, WellFormed(s), NEW d \in Elem, NEW q \in Elem, d # q
  PROVE  /\ Text(q) \notin Up(s, Self(d))
         /\ Tmp(q) \in Up(s, Self(d)) => Arg(q) \in Up(s, Self(d))
         /\ Arg(q) \in Up(s, Self(d)) =>
              /\ s.kind[q] \in {"value-of", "include"}
              /\ \E f \in Elem : s.up[f] = q /\ s.slot[f] = "value"
         /\ Ret(q) \in Up(s, Self(d)) => s.kind[q] \in {"if", "include"}
         /\ Self(q) \in Up(s, Self(d)) =>
              \/ s.kind[q] \in {"copy", "log", "variable"}
              \/ Arg(q) \in Up(s, Self(d))
              \/ Ret(q) \in Up(s, Self(d))
<1> DEFINE U == Up(s, Self(d))
<1>1. ASSUME NEW m \in U, m # Self(d)
      PROVE  \E k \in U : k \in Node /\ k # Doc /\ Above(s, k) = m
  BY <1>1, UpFacts, NodesDiffer
<1>2. ASSUME NEW k \in U, k \in Node, k # Doc
      PROVE  \/ Above(s, k) = Doc
             \/ \E f \in Elem : \/ k = Self(f) /\ Above(s, k) = Place(s, f)
                                \/ k \in {Tmp(f), Ret(f), Text(f)} /\ Above(s, k) = Self(f)
                                \/ k = Arg(f) /\ Above(s, k) = Tmp(f)
  BY <1>2, NodesDiffer, AboveIs
<1> HIDE DEF U
<1>3. ASSUME Text(q) \in U PROVE FALSE
  <2>1. PICK k \in U : k \in Node /\ k # Doc /\ Above(s, k) = Text(q)
    BY <1>1, <1>3, NodesDiffer
  <2> QED BY <1>2, <2>1, PlacedIn, NodesDiffer
<1>4. ASSUME Tmp(q) \in U PROVE Arg(q) \in U
  <2>1. PICK k \in U : k \in Node /\ k # Doc /\ Above(s, k) = Tmp(q)
    BY <1>1, <1>4, NodesDiffer
  <2> QED BY <1>2, <2>1, PlacedIn, NodesDiffer
<1>5. ASSUME Arg(q) \in U
      PROVE  /\ s.kind[q] \in {"value-of", "include"}
             /\ \E f \in Elem : s.up[f] = q /\ s.slot[f] = "value"
  <2>1. PICK k \in U : k \in Node /\ k # Doc /\ Above(s, k) = Arg(q)
    BY <1>1, <1>5, NodesDiffer
  <2>2. PICK f \in Elem : Place(s, f) = Arg(q)
    BY <1>2, <2>1, NodesDiffer
  <2> QED BY <2>2, PlacedIn
<1>6. ASSUME Ret(q) \in U PROVE s.kind[q] \in {"if", "include"}
  <2>1. PICK k \in U : k \in Node /\ k # Doc /\ Above(s, k) = Ret(q)
    BY <1>1, <1>6, NodesDiffer
  <2>2. PICK f \in Elem : Place(s, f) = Ret(q)
    BY <1>2, <2>1, NodesDiffer
  <2> QED BY <2>2, PlacedIn
<1>7. ASSUME Self(q) \in U
      PROVE  s.kind[q] \in {"copy", "log", "variable"} \/ Arg(q) \in U \/ Ret(q) \in U
  <2>1. PICK k \in U : k \in Node /\ k # Doc /\ Above(s, k) = Self(q)
    BY <1>1, <1>7, NodesDiffer
  <2>2. CASE k \in {Tmp(q), Ret(q), Text(q)}
    BY <2>1, <2>2, <1>3, <1>4
  <2>3. CASE \E f \in Elem : Place(s, f) = Self(q)
    BY <2>3, PlacedIn
  <2> QED BY <1>2, <2>1, <2>2, <2>3, NodesDiffer
<1> QED BY <1>3, <1>4, <1>5, <1>6, <1>7 DEF U

\* What a part of q is a part of, so is q.
LEMMA PartOf ==
  ASSUME NEW s, WellFormed(s), NEW n \in Node, NEW q \in Elem
  PROVE  /\ Tmp(q) \in Up(s, n) => Self(q) \in Up(s, n)
         /\ Ret(q) \in Up(s, n) => Self(q) \in Up(s, n)
         /\ Text(q) \in Up(s, n) => Self(q) \in Up(s, n)
         /\ Arg(q) \in Up(s, n) => Tmp(q) \in Up(s, n) /\ Self(q) \in Up(s, n)
<1>1. /\ Self(q) \in Up(s, Tmp(q)) /\ Self(q) \in Up(s, Ret(q))
      /\ Self(q) \in Up(s, Text(q))
      /\ Tmp(q) \in Up(s, Arg(q)) /\ Self(q) \in Up(s, Arg(q))
  BY UpIs, UpFacts, NodesDiffer
<1>2. \A m \in Up(s, n) : Up(s, m) \subseteq Up(s, n)
  BY UpFacts
<1> QED BY <1>1, <1>2

\* The elements of a set, in document order.
LEMMA InOrderIs ==
  ASSUME NEW S, S \subseteq Elem
  PROVE  /\ InOrder(S) \in Seq(Elem) /\ ToSet(InOrder(S)) = S
         /\ \A i, k \in 1..Len(InOrder(S)) : i < k => InOrder(S)[i] < InOrder(S)[k]
<1> DEFINE M == Cardinality(Elem)
           Step(f, k) == IF k = 0 THEN <<>>
                         ELSE IF k \in S THEN Append(f[k - 1], k) ELSE f[k - 1]
<1>1. M \in Nat /\ Elem = 1..M
  BY ElemAssumption, FS_CardinalityType
<1>0. \A j \in Elem : j \in Nat /\ j > 0 /\ j <= M
  BY <1>1
<1> HIDE DEF M
<1> DEFINE Good(k, g) == g = [j \in 0..k |-> Step(g, j)]
           Has(k) == \E g : Good(k, g)
           Bad == { k \in 0..M : ~ Has(k) }
<1>2. Has(0)
  <2>1. Good(0, [j \in 0..0 |-> <<>>])
    OBVIOUS
  <2> QED BY <2>1
<1>3. ASSUME NEW k \in 0..M, k # 0, Has(k - 1) PROVE Has(k)
  <2>1. PICK g : Good(k - 1, g)
    BY <1>3
  <2> DEFINE h == [j \in 0..k |-> Step(g, j)]
  <2>2. k \in Nat
    BY <1>1
  <2>3. \A j \in 0..k : j # 0 => j - 1 \in 0..(k - 1) /\ j - 1 \in 0..k
    BY <2>2
  <2>4. \A j \in 0..(k - 1) : g[j] = Step(g, j)
    BY <2>1
  <2>5. \A j \in 0..(k - 1) : h[j] = g[j]
    <3>1. \A j \in 0..(k - 1) : j \in 0..k
      BY <2>2
    <3> QED BY <3>1, <2>4
  <2>6. \A j \in 0..k : Step(h, j) = Step(g, j)
    <3> HIDE DEF h
    <3> QED BY <2>3, <2>5
  <2>7. Good(k, h)
    <3>1. h = [j \in 0..k |-> Step(h, j)]
      <4> HIDE DEF Step
      <4> QED BY <2>6
    <3> QED BY <3>1
  <2> QED BY <2>7
<1> HIDE DEF Has
<1>4. Bad = {}
  <2> SUFFICES ASSUME Bad # {} PROVE FALSE
    OBVIOUS
  <2>1. Bad \subseteq Nat
    BY <1>1
  <2>2. PICK k \in Bad : \A m \in Bad : k <= m
    BY <2>1, LeastNumber
  <2>3. k \in 0..M /\ ~ Has(k) /\ k # 0
    BY <2>2, <1>2
  <2>4. k - 1 \in 0..M /\ ~ (k <= k - 1)
    BY <2>3, <1>1
  <2>5. Has(k - 1)
    BY <2>2, <2>4
  <2> QED BY <1>3, <2>3, <2>5
<1>5. \E g : g = [j \in 0..M |-> Step(g, j)]
  <2>1. Has(M)
    BY <1>1, <1>4
  <2> QED BY <2>1 DEF Has
<1> DEFINE upTo == CHOOSE g : g = [j \in 0..M |-> Step(g, j)]
<1>6. InOrder(S) = upTo[M]
  BY DEF InOrder, M
<1>7. upTo = [j \in 0..M |-> Step(upTo, j)]
  <2> HIDE DEF Step
  <2> QED BY <1>5
<1> HIDE DEF upTo
<1>8. \A j \in 0..M : upTo[j] = Step(upTo, j)
  BY <1>7
<1> DEFINE Fine(k) == /\ upTo[k] \in Seq(Elem)
                      /\ ToSet(upTo[k]) = { j \in S : j <= k }
                      /\ \A i, j \in 1..Len(upTo[k]) : i < j => upTo[k][i] < upTo[k][j]
           Wrong == { k \in 0..M : ~ Fine(k) }
<1>9. Fine(0)
  <2>1. upTo[0] = <<>>
    BY <1>1, <1>8
  <2>2. { j \in S : j <= 0 } = {}
    BY <1>0
  <2> QED BY <2>1, <2>2 DEF ToSet
<1>10. ASSUME NEW k \in 0..M, k # 0, Fine(k - 1) PROVE Fine(k)
  <2>1. k \in Elem /\ k \in Nat /\ k - 1 \in 0..M
    BY <1>1, <1>10
  <2>2. CASE k \notin S
    <3>1. upTo[k] = upTo[k - 1]
      BY <1>8, <1>10, <2>2
    <3>2. { j \in S : j <= k - 1 } = { j \in S : j <= k }
      <4>1. \A j \in S : j <= k - 1 <=> j <= k
        BY <1>0, <2>1, <2>2
      <4> QED BY <4>1
    <3> QED BY <1>10, <3>1, <3>2
  <2>3. CASE k \in S
    <3> DEFINE s == upTo[k - 1]
               t == Append(s, k)
    <3>1. upTo[k] = t
      BY <1>8, <1>10, <2>3
    <3>2. s \in Seq(Elem) /\ ToSet(s) = { j \in S : j <= k - 1 }
      BY <1>10
    <3>3. \A i, j \in 1..Len(s) : i < j => s[i] < s[j]
      BY <1>10
    <3> HIDE DEF s
    <3>4. t \in Seq(Elem) /\ ToSet(t) = ToSet(s) \cup {k}
      BY <2>1, <3>2, Appended
    <3>5. ToSet(t) = { j \in S : j <= k }
      <4>1. \A j \in S : j <= k <=> j <= k - 1 \/ j = k
        BY <1>0, <2>1
      <4> QED BY <2>1, <2>3, <3>2, <3>4, <4>1
    <3>6. \A i \in 1..Len(s) : s[i] \in Elem /\ s[i] < k
      <4> TAKE i \in 1..Len(s)
      <4>1. s[i] \in ToSet(s) /\ s[i] \in Elem
        BY <3>2 DEF ToSet
      <4>2. s[i] <= k - 1
        BY <3>2, <4>1
      <4>3. s[i] \in Nat
        BY <1>0, <4>1
      <4> QED BY <2>1, <4>1, <4>2, <4>3
    <3>7. ASSUME NEW i \in 1..Len(t), NEW j \in 1..Len(t), i < j PROVE t[i] < t[j]
      <4>1. Len(t) = Len(s) + 1 /\ Len(s) \in Nat /\ i \in 1..Len(s) /\ t[i] = s[i]
        BY <3>2, <3>7
      <4>2. CASE j = Len(t)
        BY <4>1, <4>2, <3>2, <3>6
      <4>3. CASE j # Len(t)
        <5>1. j \in 1..Len(s) /\ t[j] = s[j]
          BY <4>1, <4>3, <3>2
        <5> QED BY <4>1, <5>1, <3>3, <3>7
      <4> QED BY <4>2, <4>3
    <3> HIDE DEF t
    <3> QED BY <3>1, <3>4, <3>5, <3>7
  <2> QED BY <2>2, <2>3
<1> HIDE DEF Fine
<1>11. Wrong = {}
  <2> SUFFICES ASSUME Wrong # {} PROVE FALSE
    OBVIOUS
  <2>1. Wrong \subseteq Nat
    BY <1>1
  <2>2. PICK k \in Wrong : \A m \in Wrong : k <= m
    BY <2>1, LeastNumber
  <2>3. k \in 0..M /\ ~ Fine(k) /\ k # 0
    BY <2>2, <1>9
  <2>4. k - 1 \in 0..M /\ ~ (k <= k - 1)
    BY <2>3, <1>1
  <2>5. Fine(k - 1)
    BY <2>2, <2>4
  <2> QED BY <1>10, <2>3, <2>5
<1>12. Fine(M)
  BY <1>1, <1>11
<1>13. { j \in S : j <= M } = S
  BY <1>0
<1> QED BY <1>6, <1>12, <1>13 DEF Fine

\* An increasing sequence has no element twice.
LEMMA RisingInjective ==
  ASSUME NEW t \in Seq(Elem), \A i, k \in 1..Len(t) : i < k => t[i] < t[k]
  PROVE  IsInjective(t)
<1>1. DOMAIN t = 1..Len(t) /\ Len(t) \in Nat
  OBVIOUS
<1>2. ASSUME NEW i \in 1..Len(t), NEW k \in 1..Len(t), t[i] = t[k] PROVE i = k
  <2>1. t[i] \in Nat /\ t[k] \in Nat
    BY ElemNumbers
  <2>2. i \in Nat /\ k \in Nat
    BY <1>1
  <2>3. ~ (i < k) /\ ~ (k < i)
    BY <1>2, <2>1
  <2> QED BY <2>2, <2>3
<1> QED BY <1>1, <1>2 DEF IsInjective

ChildSet(s, p, slot) == { e \in Elem : s.up[e] = p /\ s.slot[e] = slot }

\* The children of a part are the elements written in it, in order, each once.
LEMMA ChildrenAre ==
  ASSUME NEW s, NEW p, NEW slot
  PROVE  /\ Children(s, p, slot) \in Seq(Elem)
         /\ IsInjective(Children(s, p, slot))
         /\ ToSet(Children(s, p, slot)) = ChildSet(s, p, slot)
         /\ Children(s, p, slot) = <<>> <=> ChildSet(s, p, slot) = {}
         /\ \A i, k \in 1..Len(Children(s, p, slot)) :
              i < k => Children(s, p, slot)[i] < Children(s, p, slot)[k]
<1> DEFINE cs == Children(s, p, slot)
<1>1. cs \in Seq(Elem) /\ ToSet(cs) = ChildSet(s, p, slot)
      /\ \A i, k \in 1..Len(cs) : i < k => cs[i] < cs[k]
  BY InOrderIs DEF Children, ChildSet
<1> HIDE DEF cs
<1>2. IsInjective(cs)
  BY <1>1, RisingInjective
<1>3. cs = <<>> <=> ToSet(cs) = {}
  <2>1. cs # <<>> => cs[1] \in ToSet(cs)
    BY <1>1 DEF ToSet
  <2> QED BY <2>1 DEF ToSet
<1> QED BY <1>1, <1>2, <1>3 DEF cs

First(e) == <<"first", e>>
Again(e) == <<"again", e>>
Set(e) == <<"set", e>>

LEMMA CallsDiffer ==
  /\ \A e \in Elem : First(e) \in Call /\ Again(e) \in Call /\ Set(e) \in Call
  /\ \A e, f : /\ First(e) = First(f) => e = f
               /\ Again(e) = Again(f) => e = f
               /\ Set(e) = Set(f) => e = f
               /\ First(e) # Again(f) /\ First(e) # Set(f) /\ Again(e) # Set(f)
  /\ \A c \in Call : \E e \in Elem : e = c[2] /\ c \in {First(e), Again(e), Set(e)}
  /\ \A e : First(e)[2] = e /\ Again(e)[2] = e /\ Set(e)[2] = e
  /\ \A e : First(e)[1] = "first" /\ Again(e)[1] = "again" /\ Set(e)[1] = "set"
BY DEF Call, First, Again, Set

\* Their first calls, likewise.
LEMMA FirstsAre ==
  ASSUME NEW p, NEW slot
  PROVE  /\ Firsts(p, slot) \in Seq(Call) /\ IsInjective(Firsts(p, slot))
         /\ ToSet(Firsts(p, slot)) = { First(c) : c \in ChildSet(sheet, p, slot) }
         /\ \A v, a \in ChildSet(sheet, p, slot) :
              v < a => InFront(Firsts(p, slot), First(v), First(a))
<1> DEFINE cs == Children(sheet, p, slot)
           fs == [i \in DOMAIN cs |-> <<"first", cs[i]>>]
<1>1. /\ cs \in Seq(Elem) /\ IsInjective(cs) /\ ToSet(cs) = ChildSet(sheet, p, slot)
      /\ \A i, k \in 1..Len(cs) : i < k => cs[i] < cs[k]
  BY ChildrenAre
<1>2. Firsts(p, slot) = fs
  BY DEF Firsts
<1> HIDE DEF cs
<1>3. DOMAIN cs = 1..Len(cs) /\ Len(cs) \in Nat
  BY <1>1
<1>4. fs \in Seq(Call) /\ Len(fs) = Len(cs) /\ DOMAIN fs = 1..Len(cs)
      /\ \A i \in 1..Len(cs) : fs[i] = First(cs[i])
  <2>1. \A i \in DOMAIN cs : cs[i] \in Elem
    BY <1>1
  <2> QED BY <1>3, <2>1 DEF Call, First
<1> HIDE DEF fs
<1>5. IsInjective(fs)
  BY <1>1, <1>3, <1>4, CallsDiffer DEF IsInjective
<1>6. ToSet(fs) = { First(c) : c \in ChildSet(sheet, p, slot) }
  <2>1. ToSet(fs) = { First(c) : c \in ToSet(cs) }
    BY <1>3, <1>4 DEF ToSet
  <2> QED BY <1>1, <2>1
<1>7. ASSUME NEW v \in ChildSet(sheet, p, slot), NEW a \in ChildSet(sheet, p, slot), v < a
      PROVE  InFront(fs, First(v), First(a))
  <2>1. PICK i \in 1..Len(cs) : cs[i] = v
    BY <1>1, <1>3 DEF ToSet
  <2>2. PICK k \in 1..Len(cs) : cs[k] = a
    BY <1>1, <1>3 DEF ToSet
  <2>3. v \in Nat /\ a \in Nat
    BY ElemNumbers DEF ChildSet
  <2>4. i < k
    <3>1. k < i => a < v
      BY <1>1, <2>1, <2>2
    <3>2. i # k
      BY <1>7, <2>1, <2>2, <2>3
    <3> QED BY <1>3, <1>7, <2>3, <3>1, <3>2
  <2> QED BY <1>4, <2>1, <2>2, <2>4 DEF InFront
<1> QED BY <1>2, <1>4, <1>5, <1>6, <1>7
-----------------------------------------------------------------------------
(***************************************************************************)
(* What the operations on the document do to its tree.                     *)
(***************************************************************************)
Detached(K, n) == \A m \in Node : n \notin ToSet(K[m])

\* n may be put under p.
Fits(s, p, n) ==
  /\ n \in Node /\ n \notin {Doc, Response, Var} /\ Rank(p) < Rank(n)
  /\ \A e \in Elem : n \in {Tmp(e), Arg(e), Ret(e)} => p = Above(s, n)

FitsAll(s, K, p, ns) ==
  IsInjective(ns) /\ \A n \in ToSet(ns) : Detached(K, n) /\ Fits(s, p, n)

\* Nodes that are nowhere, put under a node, make a tree again.
LEMMA AttachAll ==
  ASSUME NEW s, NEW K, TreeOK(s, K), NEW p \in Node, NEW ns \in Seq(Node),
         FitsAll(s, K, p, ns)
  PROVE  /\ TreeOK(s, WithChildren(K, p, ns))
         /\ \A m \in Node : ToSet(WithChildren(K, p, ns)[m]) =
              IF m = p THEN ToSet(K[m]) \cup ToSet(ns) ELSE ToSet(K[m])
<1> DEFINE K2 == WithChildren(K, p, ns)
<1>0. IsInjective(ns) /\ \A n \in ToSet(ns) : Detached(K, n) /\ Fits(s, p, n)
  BY DEF FitsAll
<1>1. K \in [Node -> Seq(Node)] /\ \A m \in Node : IsInjective(K[m])
  BY DEF TreeOK, Forest
<1>2. K[p] \in Seq(Node) /\ ToSet(K[p]) \cap ToSet(ns) = {}
  BY <1>0, <1>1 DEF Detached
<1>3. K[p] \o ns \in Seq(Node)
  BY <1>2
<1>4. IsInjective(K[p] \o ns) /\ ToSet(K[p] \o ns) = ToSet(K[p]) \cup ToSet(ns)
  BY <1>0, <1>1, <1>2, ConcatInjective
<1>5. K2 \in [Node -> Seq(Node)] /\ K2[p] = K[p] \o ns
      /\ \A m \in Node : m # p => K2[m] = K[m]
  BY <1>1, <1>3 DEF WithChildren
<1> HIDE DEF K2
<1>6. \A m \in Node : ToSet(K2[m]) = IF m = p THEN ToSet(K[m]) \cup ToSet(ns) ELSE ToSet(K[m])
  BY <1>4, <1>5
<1>7. Forest(K2)
  <2>1. \A m \in Node : IsInjective(K2[m])
    BY <1>1, <1>4, <1>5
  <2>2. ASSUME NEW m \in Node, NEW n \in Node, m # n
        PROVE  ToSet(K2[m]) \cap ToSet(K2[n]) = {}
    <3>1. ToSet(K[m]) \cap ToSet(K[n]) = {}
      BY <2>2 DEF TreeOK, Forest
    <3>2. ToSet(K[m]) \cap ToSet(ns) = {} /\ ToSet(K[n]) \cap ToSet(ns) = {}
      BY <1>0 DEF Detached
    <3> QED BY <1>6, <2>2, <3>1, <3>2
  <2> QED BY <2>1, <2>2 DEF Forest
<1>8. Ranked(K2)
  BY <1>0, <1>6 DEF Ranked, TreeOK, Fits
<1>9. Fixed(s, K2)
  BY <1>0, <1>6 DEF Fixed, TreeOK, Fits
<1> QED BY <1>5, <1>6, <1>7, <1>8, <1>9 DEF TreeOK, K2

LEMMA Attach ==
  ASSUME NEW s, NEW K, TreeOK(s, K), NEW p \in Node, NEW n,
         Detached(K, n), Fits(s, p, n)
  PROVE  /\ TreeOK(s, WithChild(K, p, n))
         /\ \A m \in Node : ToSet(WithChild(K, p, n)[m]) =
              IF m = p THEN ToSet(K[m]) \cup {n} ELSE ToSet(K[m])
<1> DEFINE ns == << n >>
<1>1. n \in Node /\ ns \in Seq(Node) /\ ToSet(ns) = {n} /\ IsInjective(ns)
  BY DEF Fits, ToSet, IsInjective
<1>2. K \in [Node -> Seq(Node)]
  BY DEF TreeOK
<1>3. WithChild(K, p, n) = WithChildren(K, p, ns)
  <2>1. Append(K[p], n) = K[p] \o ns
    BY <1>1, <1>2
  <2> QED BY <2>1, <1>2 DEF WithChild, WithChildren
<1>4. FitsAll(s, K, p, ns)
  BY <1>1 DEF FitsAll
<1> HIDE DEF ns
<1>5a. ns \in Seq(Node) /\ p \in Node
  BY <1>1
<1>5. /\ TreeOK(s, WithChildren(K, p, ns))
      /\ \A m \in Node : ToSet(WithChildren(K, p, ns)[m]) =
           IF m = p THEN ToSet(K[m]) \cup ToSet(ns) ELSE ToSet(K[m])
  BY <1>4, <1>5a, AttachAll
<1> QED BY <1>1, <1>3, <1>5

\* n makes way for ns in one sequence of children.
Swapped(t, n, ns) ==
  FlattenSeq([i \in DOMAIN t |-> IF t[i] = n THEN ns ELSE << t[i] >>])

\* Nodes take the place of one node of a sequence.
LEMMA SubstituteIn ==
  ASSUME NEW t \in Seq(Node), IsInjective(t), NEW n, NEW ns \in Seq(Node),
         IsInjective(ns), ToSet(ns) \cap (ToSet(t) \ {n}) = {}
  PROVE  /\ Swapped(t, n, ns) \in Seq(Node) /\ IsInjective(Swapped(t, n, ns))
         /\ n \notin ToSet(t) => Swapped(t, n, ns) = t
         /\ n \in ToSet(t) => ToSet(Swapped(t, n, ns)) = (ToSet(t) \ {n}) \cup ToSet(ns)
<1> DEFINE ss == [i \in DOMAIN t |-> IF t[i] = n THEN ns ELSE << t[i] >>]
<1>1. DOMAIN t = 1..Len(t) /\ Len(t) \in Nat
  OBVIOUS
<1>2. \A i \in 1..Len(t) : ss[i] = IF t[i] = n THEN ns ELSE << t[i] >>
  BY <1>1
<1>3. ss \in [1..Len(t) -> Seq(Node)] /\ DOMAIN ss = 1..Len(t)
  BY <1>1
<1> HIDE DEF ss
<1>4. ss \in Seq(Seq(Node)) /\ Len(ss) = Len(t)
  <2>1. ss \in Seq(Seq(Node))
    BY <1>1, <1>3, SegmentIsSeq
  <2> QED BY <1>1, <1>3, <2>1
<1>5. \A x : ToSet(<< x >>) = {x} /\ IsInjective(<< x >>)
  BY DEF ToSet, IsInjective
<1>6. \A i \in 1..Len(t) : ToSet(ss[i]) = IF t[i] = n THEN ToSet(ns) ELSE {t[i]}
  BY <1>2, <1>5
<1>7. FlattenSeq(ss) \in Seq(Node)
  BY <1>4, FlattenType
<1>8. \A i, k \in 1..Len(t) : i # k => t[i] # t[k]
  BY <1>1 DEF IsInjective
<1>9. \A i \in 1..Len(t) : t[i] # n => t[i] \notin ToSet(ns)
  BY <1>1 DEF ToSet
<1>10. IsInjective(FlattenSeq(ss))
  <2>1. \A i \in 1..Len(ss) : IsInjective(ss[i])
    <3> TAKE i \in 1..Len(ss)
    <3>1. i \in 1..Len(t)
      BY <1>4
    <3>2. CASE t[i] = n
      BY <1>2, <3>1, <3>2
    <3>3. CASE t[i] # n
      BY <1>2, <1>5, <3>1, <3>3
    <3> QED BY <3>2, <3>3
  <2>2. \A i, k \in 1..Len(ss) : i # k => ToSet(ss[i]) \cap ToSet(ss[k]) = {}
    <3> TAKE i, k \in 1..Len(ss)
    <3> HAVE i # k
    <3>1. i \in 1..Len(t) /\ k \in 1..Len(t) /\ t[i] # t[k]
      BY <1>4, <1>8
    <3>2. CASE t[i] = n
      <4>1. ToSet(ss[i]) = ToSet(ns) /\ ToSet(ss[k]) = {t[k]} /\ t[k] \notin ToSet(ns)
        BY <1>6, <1>9, <3>1, <3>2
      <4> QED BY <4>1
    <3>3. CASE t[i] # n
      <4>1. ToSet(ss[i]) = {t[i]} /\ t[i] \notin ToSet(ns)
        BY <1>6, <1>9, <3>1, <3>3
      <4>2. ToSet(ss[k]) \in {ToSet(ns), {t[k]}}
        BY <1>6, <3>1
      <4> QED BY <3>1, <4>1, <4>2
    <3> QED BY <3>2, <3>3
  <2> QED BY <1>4, <2>1, <2>2, FlattenInjective
<1>11. ASSUME n \notin ToSet(t) PROVE FlattenSeq(ss) = t
  <2>1. \A i \in 1..Len(t) : ss[i] = << t[i] >>
    BY <1>1, <1>2, <1>11 DEF ToSet
  <2> QED BY <1>4, <2>1, FlattenSingles
<1>12. ASSUME n \in ToSet(t) PROVE ToSet(FlattenSeq(ss)) = (ToSet(t) \ {n}) \cup ToSet(ns)
  <2>1. PICK j \in 1..Len(t) : t[j] = n
    BY <1>1, <1>12 DEF ToSet
  <2>2. ASSUME NEW x \in ToSet(FlattenSeq(ss)) PROVE x \in (ToSet(t) \ {n}) \cup ToSet(ns)
    <3>1. PICK i \in 1..Len(ss) : x \in ToSet(ss[i])
      BY <1>4, FlattenElements
    <3>2. t[i] \in ToSet(t)
      BY <1>1, <1>4 DEF ToSet
    <3> QED BY <1>4, <1>6, <3>1, <3>2
  <2>3. ToSet(ns) \subseteq ToSet(FlattenSeq(ss))
    <3>1. ToSet(ss[j]) = ToSet(ns)
      BY <2>1, <1>6
    <3> QED BY <1>4, <2>1, <3>1, FlattenElements
  <2>4. ASSUME NEW x \in ToSet(t) \ {n} PROVE x \in ToSet(FlattenSeq(ss))
    <3>1. PICK i \in 1..Len(t) : t[i] = x
      BY <1>1 DEF ToSet
    <3>2. x \in ToSet(ss[i])
      BY <1>6, <2>4, <3>1
    <3> QED BY <1>4, <3>2, FlattenElements
  <2> QED BY <2>2, <2>3, <2>4
<1> QED BY <1>7, <1>10, <1>11, <1>12 DEF ss, Swapped

\* The node of an element makes way for what it has for a result: its own
\* result, or nodes that are nowhere yet.
\* What may take the place of the node of e: its result, or what is nowhere.
FitsFor(s, K, e, ns) ==
  \/ ns = K[Ret(e)]
  \/ /\ IsInjective(ns)
     /\ \A n \in ToSet(ns) :
          Detached(K, n) /\ \A p \in Node : Rank(p) < 5 * e => Fits(s, p, n)

\* The document then.
MovesUp(s, K, e, ns, K2) ==
  /\ TreeOK(s, K2)
  /\ \A m \in Node : ToSet(K2[m]) =
       IF m = Ret(e) THEN {}
       ELSE IF Self(e) \in ToSet(K[m]) THEN (ToSet(K[m]) \ {Self(e)}) \cup ToSet(ns)
       ELSE ToSet(K[m])

\* When an element is replaced the document stays a tree, and what stood stands
\* unless it was in the element.
LEMMA ReplacedTree ==
  ASSUME NEW s, WellFormed(s), NEW K, TreeOK(s, K), NEW e \in Elem, NEW ns \in Seq(Node),
         FitsFor(s, K, e, ns)
  PROVE  MovesUp(s, K, e, ns, Replaced(K, e, ns))
<1> DEFINE K2 == Replaced(K, e, ns)
           u(t) == Swapped(t, Self(e), ns)
           p == ParentIn(K, Self(e))
<1>1. K \in [Node -> Seq(Node)] /\ DOMAIN K = Node /\ \A m \in Node : IsInjective(K[m])
  BY DEF TreeOK, Forest
<1>2. Self(e) \in Node /\ Ret(e) \in Node /\ Self(e) # Ret(e)
      /\ Rank(Self(e)) = 5 * e /\ Rank(Ret(e)) = 5 * e + 2
  BY NodesDiffer, RankIs
<1>3. Self(e) \notin ToSet(K[Ret(e)])
  <2>1. Rank(Ret(e)) < Rank(Self(e)) => FALSE
    <3>1. e \in Nat
      BY ElemNumbers
    <3>2. ~ (5 * e + 2 < 5 * e)
      BY <3>1
    <3> QED BY <1>2, <3>2
  <2> QED BY <1>2, <2>1 DEF TreeOK, Ranked
<1>4. \A m, n \in Node : m # n => ToSet(K[m]) \cap ToSet(K[n]) = {}
  BY DEF TreeOK, Forest
<1>5. IsInjective(ns) /\ \A m \in Node : m # Ret(e) => ToSet(ns) \cap ToSet(K[m]) = {}
  <2>1. CASE ns = K[Ret(e)]
    BY <1>1, <1>2, <1>4, <2>1
  <2>2. CASE IsInjective(ns) /\ \A n \in ToSet(ns) : Detached(K, n)
    BY <2>2 DEF Detached
  <2> QED BY <2>1, <2>2 DEF FitsFor
<1>6. \A m \in Node : Self(e) \in ToSet(K[m]) => p = m /\ p # Ret(e)
  BY <1>2, <1>3, ParentIs
<1>7. Substituted(K, Self(e), ns) = [K EXCEPT ![p] = u(K[p])]
  BY DEF Substituted, Swapped
<1>8. ASSUME NEW m \in Node, m # Ret(e)
      PROVE  /\ u(K[m]) \in Seq(Node) /\ IsInjective(u(K[m]))
             /\ Self(e) \notin ToSet(K[m]) => u(K[m]) = K[m]
             /\ Self(e) \in ToSet(K[m]) => ToSet(u(K[m])) = (ToSet(K[m]) \ {Self(e)}) \cup ToSet(ns)
  <2>1. K[m] \in Seq(Node) /\ IsInjective(K[m]) /\ ToSet(ns) \cap (ToSet(K[m]) \ {Self(e)}) = {}
    BY <1>1, <1>5, <1>8
  <2> QED BY <1>5, <2>1, SubstituteIn
<1> HIDE DEF p, u
<1>9. ASSUME NEW m \in Node
      PROVE  K2[m] = IF m = Ret(e) THEN <<>> ELSE u(K[m])
  <2>1. CASE m = Ret(e)
    BY <1>1, <1>7, <2>1 DEF Replaced
  <2>2. CASE m # Ret(e)
    <3>1. K2[m] = Substituted(K, Self(e), ns)[m]
      BY <1>1, <1>7, <2>2 DEF Replaced
    <3>2. Substituted(K, Self(e), ns)[m] = IF m = p THEN u(K[m]) ELSE K[m]
      BY <1>1, <1>7
    <3>3. m # p => u(K[m]) = K[m]
      BY <1>6, <1>8, <2>2
    <3> QED BY <2>2, <3>1, <3>2, <3>3
  <2> QED BY <2>1, <2>2
<1>10. DOMAIN K2 = Node
  BY <1>1, <1>7 DEF Replaced
<1>11. K2 \in [Node -> Seq(Node)]
  <2>1. ASSUME NEW m \in Node PROVE K2[m] \in Seq(Node)
    <3>1. CASE m = Ret(e)
      <4>1. K2[m] = <<>>
        BY <1>9, <3>1
      <4> HIDE DEF K2
      <4> QED BY <4>1
    <3>2. CASE m # Ret(e)
      <4>1. K2[m] = u(K[m])
        BY <1>9, <3>2
      <4> QED BY <1>8, <3>2, <4>1
    <3> QED BY <3>1, <3>2
  <2>2. K2 = [m \in Node |-> K2[m]]
    BY <1>1, <1>7 DEF Replaced
  <2> QED BY <2>1, <2>2
<1> HIDE DEF K2
<1>12. ToSet(<<>>) = {} /\ IsInjective(<<>>)
  BY DEF ToSet, IsInjective
<1>13. \A m \in Node : ToSet(K2[m]) =
         IF m = Ret(e) THEN {}
         ELSE IF Self(e) \in ToSet(K[m]) THEN (ToSet(K[m]) \ {Self(e)}) \cup ToSet(ns)
         ELSE ToSet(K[m])
  BY <1>8, <1>9, <1>12
<1>14. \A m \in Node : \A x \in ToSet(K2[m]) :
         \/ m # Ret(e) /\ x \in ToSet(K[m])
         \/ m # Ret(e) /\ Self(e) \in ToSet(K[m]) /\ x \in ToSet(ns)
  BY <1>13
<1>15. Forest(K2)
  <2>1. \A m \in Node : IsInjective(K2[m])
    BY <1>8, <1>9, <1>12
  <2>2. ASSUME NEW m \in Node, NEW n \in Node, m # n, NEW x \in ToSet(K2[m]), x \in ToSet(K2[n])
        PROVE  FALSE
    <3>1. \/ m # Ret(e) /\ x \in ToSet(K[m])
          \/ m # Ret(e) /\ Self(e) \in ToSet(K[m]) /\ x \in ToSet(ns)
      BY <1>14
    <3>2. \/ n # Ret(e) /\ x \in ToSet(K[n])
          \/ n # Ret(e) /\ Self(e) \in ToSet(K[n]) /\ x \in ToSet(ns)
      BY <1>14, <2>2
    <3> QED BY <1>4, <1>5, <2>2, <3>1, <3>2
  <2> QED BY <2>1, <2>2 DEF Forest
<1>16. ASSUME NEW m \in Node, m # Ret(e), Self(e) \in ToSet(K[m]), NEW x \in ToSet(ns)
       PROVE  /\ Rank(m) < Rank(x)
              /\ x \notin {Response, Var}
              /\ \A f \in Elem : x \notin {Tmp(f), Arg(f), Ret(f)} \/ m = Above(s, x)
  <2>1. Rank(m) < 5 * e /\ Rank(m) \in Nat
    BY <1>2, <1>16, RankIs DEF TreeOK, Ranked
  <2>2. CASE ns = K[Ret(e)]
    <3>1. x \in Node /\ Rank(Ret(e)) < Rank(x) /\ Rank(x) \in Nat
      BY <1>1, <1>2, <1>16, <2>2, Members, RankIs DEF TreeOK, Ranked
    <3>2. Rank(m) < Rank(x)
      <4>1. e \in Nat
        BY ElemNumbers
      <4>2. \A a, b, k \in Nat : a < 5 * b /\ 5 * b + 2 < k => a < k
        OBVIOUS
      <4> QED BY <1>2, <2>1, <3>1, <4>1, <4>2
    <3>3. x \notin {Response, Var}
      BY <1>2, <1>16, <2>2, NodesDiffer DEF TreeOK, Fixed
    <3>4. ASSUME NEW f \in Elem, x \in {Tmp(f), Arg(f), Ret(f)} PROVE FALSE
      <4>1. Ret(e) = Above(s, x)
        BY <1>2, <1>16, <2>2, <3>4 DEF TreeOK, Fixed
      <4>2. Above(s, x) \in {Self(f), Tmp(f)}
        BY <3>4, AboveIs
      <4> QED BY <4>1, <4>2, NodesDiffer
    <3> QED BY <3>2, <3>3, <3>4
  <2>3. CASE \A n \in ToSet(ns) : \A q \in Node : Rank(q) < 5 * e => Fits(s, q, n)
    BY <2>1, <2>3, <1>16 DEF Fits
  <2> QED BY <2>2, <2>3 DEF FitsFor
<1>17. Ranked(K2)
  BY <1>14, <1>16 DEF Ranked, TreeOK
<1>18. Fixed(s, K2)
  BY <1>14, <1>16 DEF Fixed, TreeOK
<1>19. MovesUp(s, K, e, ns, K2)
  BY <1>11, <1>13, <1>15, <1>17, <1>18 DEF TreeOK, MovesUp
<1> QED BY <1>19 DEF K2
-----------------------------------------------------------------------------
(***************************************************************************)
(* The counters.  A hold is what keeps a node, and all that it is a part   *)
(* of, from being ready; the counter of a node is the number of the holds  *)
(* below it.                                                               *)
(***************************************************************************)
HoldKind == {"self", "value", "params", "result"}
Hold == HoldKind \X Elem

SelfHold(e) == <<"self", e>>
ValueHold(e) == <<"value", e>>
ParamsHold(e) == <<"params", e>>
ResultHold(e) == <<"result", e>>

\* The node it is put on.
At(s, h) ==
  IF h[1] = "self" THEN Self(h[2])
  ELSE IF h[1] = "params" THEN Tmp(h[2])
  ELSE IF h[1] = "result" THEN Ret(h[2])
  ELSE IF s.kind[h[2]] = "variable" THEN Self(h[2])
  ELSE IF s.kind[h[2]] = "copy-of" THEN Ret(h[2]) ELSE Tmp(h[2])

On(s, H, n) == { h \in H : n \in Up(s, At(s, h)) }

Tally(s, H) == [n \in Node |-> Cardinality(On(s, H, n))]

LEMMA HoldsDiffer ==
  /\ \A e \in Elem : /\ SelfHold(e) \in Hold /\ ValueHold(e) \in Hold
                     /\ ParamsHold(e) \in Hold /\ ResultHold(e) \in Hold
  /\ \A e, f : /\ SelfHold(e) = SelfHold(f) => e = f
               /\ ValueHold(e) = ValueHold(f) => e = f
               /\ ParamsHold(e) = ParamsHold(f) => e = f
               /\ ResultHold(e) = ResultHold(f) => e = f
               /\ SelfHold(e) # ValueHold(f) /\ SelfHold(e) # ParamsHold(f)
               /\ SelfHold(e) # ResultHold(f) /\ ValueHold(e) # ParamsHold(f)
               /\ ValueHold(e) # ResultHold(f) /\ ParamsHold(e) # ResultHold(f)
  /\ \A e : SelfHold(e)[2] = e /\ ValueHold(e)[2] = e
            /\ ParamsHold(e)[2] = e /\ ResultHold(e)[2] = e
  /\ \A h \in Hold : \E e \in Elem : e = h[2] /\
       h \in {SelfHold(e), ValueHold(e), ParamsHold(e), ResultHold(e)}
BY DEF Hold, HoldKind, SelfHold, ValueHold, ParamsHold, ResultHold

\* Where an element holds what it holds.
LEMMA AtIs ==
  ASSUME NEW s
  PROVE  /\ \A e \in Elem :
              /\ At(s, SelfHold(e)) = Self(e) /\ At(s, ParamsHold(e)) = Tmp(e)
              /\ At(s, ResultHold(e)) = Ret(e)
              /\ At(s, ValueHold(e)) = IF s.kind[e] = "variable" THEN Self(e)
                                       ELSE IF s.kind[e] = "copy-of" THEN Ret(e) ELSE Tmp(e)
         /\ \A h \in Hold : At(s, h) \in Node
<1>1. \A e \in Elem :
        /\ At(s, SelfHold(e)) = Self(e) /\ At(s, ParamsHold(e)) = Tmp(e)
        /\ At(s, ResultHold(e)) = Ret(e)
        /\ At(s, ValueHold(e)) = IF s.kind[e] = "variable" THEN Self(e)
                                 ELSE IF s.kind[e] = "copy-of" THEN Ret(e) ELSE Tmp(e)
  BY DEF At, SelfHold, ParamsHold, ResultHold, ValueHold
<1>2. ASSUME NEW h \in Hold PROVE At(s, h) \in Node
  <2>1. PICK e \in Elem : h \in {SelfHold(e), ValueHold(e), ParamsHold(e), ResultHold(e)}
    BY HoldsDiffer
  <2> QED BY <1>1, <2>1, NodesDiffer
<1> QED BY <1>1, <1>2

\* There are finitely many holds, so that they can be counted.
LEMMA HoldsFinite ==
  ASSUME NEW s, NEW H, H \subseteq Hold, NEW n
  PROVE  /\ IsFiniteSet(On(s, H, n)) /\ Cardinality(On(s, H, n)) \in Nat
         /\ On(s, H, n) = {} <=> Cardinality(On(s, H, n)) = 0
<1>1. IsFiniteSet(HoldKind)
  <2>1. HoldKind = {"self"} \cup {"value"} \cup {"params"} \cup {"result"}
    BY DEF HoldKind
  <2> QED BY <2>1, FS_Singleton, FS_Union
<1>2. IsFiniteSet(Hold)
  BY <1>1, ElemAssumption, FS_Product DEF Hold
<1>3. On(s, H, n) \subseteq Hold
  BY DEF On
<1>4. IsFiniteSet(On(s, H, n))
  BY <1>2, <1>3, FS_Subset
<1> QED BY <1>4, FS_CardinalityType, FS_EmptySet

\* A counter is zero when nothing below the node is held.
LEMMA TallyZero ==
  ASSUME NEW s, NEW H, H \subseteq Hold
  PROVE  /\ Tally(s, H) \in [Node -> Nat]
         /\ \A n \in Node : Tally(s, H)[n] = 0 <=> \A h \in H : n \notin Up(s, At(s, h))
         /\ \A n \in Node : \A h \in H : n \in Up(s, At(s, h)) => Tally(s, H)[n] > 0
<1>1. \A n \in Node : Tally(s, H)[n] = Cardinality(On(s, H, n))
                      /\ Cardinality(On(s, H, n)) \in Nat
  BY HoldsFinite DEF Tally
<1>2. Tally(s, H) \in [Node -> Nat]
  BY <1>1 DEF Tally
<1>3. \A n \in Node : Tally(s, H)[n] = 0 <=> On(s, H, n) = {}
  BY <1>1, HoldsFinite
<1>4. \A n : On(s, H, n) = {} <=> \A h \in H : n \notin Up(s, At(s, h))
  BY DEF On
<1> QED BY <1>1, <1>2, <1>3, <1>4

\* What is below one node is below the next one up.
LEMMA TallyUp ==
  ASSUME NEW s, WellFormed(s), NEW H, H \subseteq Hold, NEW m \in Node, NEW n \in Up(s, m)
  PROVE  Tally(s, H)[m] > 0 => Tally(s, H)[n] > 0
<1>1. n \in Node /\ m \in Node
  BY UpFacts
<1> SUFFICES ASSUME Tally(s, H)[m] > 0 PROVE Tally(s, H)[n] > 0
  OBVIOUS
<1>2. PICK h \in H : m \in Up(s, At(s, h))
  <2>1. Tally(s, H)[m] # 0
    BY TallyZero
  <2> QED BY <1>1, <2>1, TallyZero
<1>3. n \in Up(s, At(s, h))
  <2>1. At(s, h) \in Node
    BY AtIs
  <2> QED BY <1>2, <2>1, UpFacts
<1> QED BY <1>1, <1>3, TallyZero

\* An increase at the node of a hold counts the hold on the path of the node.
LEMMA TallyAdd ==
  ASSUME NEW s, WellFormed(s), NEW H, H \subseteq Hold, NEW h \in Hold, h \notin H
  PROVE  /\ H \cup {h} \subseteq Hold
         /\ Increased(Tally(s, H), SPath(s)[At(s, h)]) = Tally(s, H \cup {h})
         /\ \A n \in Node : Tally(s, H \cup {h})[n] =
              IF n \in Up(s, At(s, h)) THEN Tally(s, H)[n] + 1 ELSE Tally(s, H)[n]
<1> DEFINE H2 == H \cup {h}
<1>1. ASSUME NEW n \in Node
      PROVE  Cardinality(On(s, H2, n)) =
               IF n \in Up(s, At(s, h)) THEN Cardinality(On(s, H, n)) + 1
                                        ELSE Cardinality(On(s, H, n))
  <2>1. CASE n \in Up(s, At(s, h))
    <3>1. On(s, H2, n) = On(s, H, n) \cup {h} /\ h \notin On(s, H, n)
      BY <2>1 DEF On
    <3>2. IsFiniteSet(On(s, H, n))
      BY HoldsFinite
    <3> QED BY <2>1, <3>1, <3>2, FS_AddElement
  <2>2. CASE n \notin Up(s, At(s, h))
    <3>1. On(s, H2, n) = On(s, H, n)
      BY <2>2 DEF On
    <3> QED BY <2>2, <3>1
  <2> QED BY <2>1, <2>2
<1> HIDE DEF H2
<1>2. \A n \in Node : Tally(s, H2)[n] =
        IF n \in Up(s, At(s, h)) THEN Tally(s, H)[n] + 1 ELSE Tally(s, H)[n]
  BY <1>1 DEF Tally
<1>3. Increased(Tally(s, H), SPath(s)[At(s, h)]) = Tally(s, H2)
  <2>1. DOMAIN Tally(s, H) = Node /\ Tally(s, H2) = [n \in Node |-> Tally(s, H2)[n]]
    BY DEF Tally
  <2> QED BY <1>2, <2>1 DEF Increased, Up
<1> QED BY <1>2, <1>3 DEF H2

\* A decrease at the node of a hold that is counted does not fail, and wakes
\* the nodes for which it was the last one.
LEMMA TallyDrop ==
  ASSUME NEW s, WellFormed(s), NEW H, H \subseteq Hold, NEW h \in H
  PROVE  /\ H \ {h} \subseteq Hold
         /\ SPath(s)[At(s, h)] \in Seq(Node)
         /\ ~ DecreaseFails(Tally(s, H), SPath(s)[At(s, h)])
         /\ Decreased(Tally(s, H), SPath(s)[At(s, h)]) = Tally(s, H \ {h})
         /\ \A n \in Node : Tally(s, H \ {h})[n] =
              IF n \in Up(s, At(s, h)) THEN Tally(s, H)[n] - 1 ELSE Tally(s, H)[n]
         /\ \A n \in Node : n \in Woken(Tally(s, H), SPath(s)[At(s, h)]) <=>
              Tally(s, H)[n] > 0 /\ Tally(s, H \ {h})[n] = 0
<1> DEFINE H2 == H \ {h}
           path == SPath(s)[At(s, h)]
<1>0. h \in Hold /\ At(s, h) \in Node /\ H2 \subseteq Hold /\ H2 \cup {h} = H /\ h \notin H2
  BY AtIs
<1>1. path \in Seq(Node)
  BY <1>0, PathGood DEF GoodPath
<1>2. ToSet(path) = Up(s, At(s, h)) /\ ToSet(path) \subseteq Node
  BY <1>0, UpFacts DEF Up
<1> HIDE DEF H2, path
<1>3. \A n \in Node : Tally(s, H)[n] =
        IF n \in Up(s, At(s, h)) THEN Tally(s, H2)[n] + 1 ELSE Tally(s, H2)[n]
  BY <1>0, TallyAdd
<1>4. Tally(s, H) \in [Node -> Nat] /\ Tally(s, H2) \in [Node -> Nat]
  BY <1>0, TallyZero
<1>5. \A n \in Node : Tally(s, H2)[n] =
        IF n \in Up(s, At(s, h)) THEN Tally(s, H)[n] - 1 ELSE Tally(s, H)[n]
  BY <1>3, <1>4
<1>6. ~ DecreaseFails(Tally(s, H), path)
  BY <1>2, <1>3, <1>4 DEF DecreaseFails
<1>7. Walked(Tally(s, H), path) = ToSet(path)
      /\ Woken(Tally(s, H), path) = { m \in ToSet(path) : Tally(s, H)[m] = 1 }
  BY <1>1, <1>4, <1>6, WokenOnWalk
<1>8. Decreased(Tally(s, H), path) = Tally(s, H2)
  <2>1. DOMAIN Tally(s, H) = Node /\ Tally(s, H2) = [n \in Node |-> Tally(s, H2)[n]]
    BY DEF Tally
  <2> QED BY <1>2, <1>5, <1>7, <2>1 DEF Decreased
<1>9. \A n \in Node : n \in Woken(Tally(s, H), path) <=>
        Tally(s, H)[n] > 0 /\ Tally(s, H2)[n] = 0
  BY <1>2, <1>3, <1>4, <1>7
<1> QED BY <1>0, <1>1, <1>5, <1>6, <1>8, <1>9 DEF H2, path

\* One hold is below n, and no other, if n counts one.
LEMMA TallyOne ==
  ASSUME NEW s, WellFormed(s), NEW H, H \subseteq Hold, NEW n \in Node,
         NEW h \in H, n \in Up(s, At(s, h))
  PROVE  Tally(s, H)[n] = 1 <=> \A g \in H : g # h => n \notin Up(s, At(s, g))
<1> DEFINE H2 == H \ {h}
<1>1. H2 \subseteq Hold /\ Tally(s, H2)[n] = Tally(s, H)[n] - 1
  BY TallyDrop
<1>2. Tally(s, H2) \in [Node -> Nat] /\ Tally(s, H) \in [Node -> Nat]
      /\ (Tally(s, H2)[n] = 0 <=> \A g \in H2 : n \notin Up(s, At(s, g)))
  <2> HIDE DEF H2
  <2> QED BY <1>1, TallyZero
<1>3. Tally(s, H)[n] = 1 <=> Tally(s, H2)[n] = 0
  BY <1>1, <1>2
<1> QED BY <1>2, <1>3
-----------------------------------------------------------------------------
(***************************************************************************)
(* The queues.  The nodes on the way from n to the document that are ready *)
(* now give up their callbacks, the deeper ones first; a call then leaves  *)
(* the main queue, they join it, and what the call schedules comes last.   *)
(***************************************************************************)
Freed(s, t, c2, n) ==
  FlattenSeq([i \in 1..Len(SPath(s)[n]) |->
                IF c2[SPath(s)[n][i]] = 0 THEN t[SPath(s)[n][i]] ELSE <<>>])

NextTo(t, x, y) == \E i \in 1..(Len(t) - 1) : t[i] = x /\ t[i + 1] = y

\* What a decrease frees: inner nodes before outer ones, each in its order.
LEMMA FreedAre ==
  ASSUME NEW s, WellFormed(s), NEW n \in Node, NEW t \in [Node -> Seq(Call)],
         NEW c2 \in [Node -> Nat],
         \A m \in Node : IsInjective(t[m]),
         \A l, m \in Node : l # m => ToSet(t[l]) \cap ToSet(t[m]) = {}
  PROVE  /\ Freed(s, t, c2, n) \in Seq(Call) /\ IsInjective(Freed(s, t, c2, n))
         /\ \A x : x \in ToSet(Freed(s, t, c2, n)) <=>
                     \E m \in Up(s, n) : c2[m] = 0 /\ x \in ToSet(t[m])
         /\ \A m \in Up(s, n) : \A l \in Up(s, m) :
              m # l /\ c2[m] = 0 /\ c2[l] = 0 =>
                \A x \in ToSet(t[m]), y \in ToSet(t[l]) : InFront(Freed(s, t, c2, n), x, y)
         /\ \A m \in Up(s, n) : \A x, y :
              m # Doc /\ c2[m] = 0 /\ c2[Above(s, m)] = 0
                /\ t[m] = << x >> /\ t[Above(s, m)] = << y >> => NextTo(Freed(s, t, c2, n), x, y)
<1> DEFINE p == SPath(s)[n]
           ss == [i \in 1..Len(p) |-> IF c2[p[i]] = 0 THEN t[p[i]] ELSE <<>>]
           fl == FlattenSeq(ss)
<1>1. p \in Seq(Node) /\ Len(p) \in Nat /\ DOMAIN p = 1..Len(p) /\ p[Len(p)] = Doc
      /\ \A i \in 1..(Len(p) - 1) : p[i] # Doc /\ p[i + 1] = Above(s, p[i])
  BY PathGood DEF GoodPath
<1>2. /\ IsInjective(p)
      /\ \A i, k \in 1..Len(p) : i < k => p[k] \in Up(s, p[i]) /\ Rank(p[k]) < Rank(p[i])
  BY PathOrder
<1>3. \A m : m \in Up(s, n) <=> \E i \in 1..Len(p) : p[i] = m
  BY <1>1 DEF Up, ToSet
<1>4. \A i \in 1..Len(p) : p[i] \in Node
  BY <1>1
<1>5. Freed(s, t, c2, n) = fl
  BY DEF Freed
<1> HIDE DEF p
<1>6. /\ \A i \in 1..Len(p) : ss[i] = IF c2[p[i]] = 0 THEN t[p[i]] ELSE <<>>
      /\ \A i \in 1..Len(p) : ss[i] \in Seq(Call)
      /\ DOMAIN ss = 1..Len(p)
  BY <1>4
<1>7. ss \in Seq(Seq(Call)) /\ Len(ss) = Len(p)
  <2>1. ss \in [1..Len(p) -> Seq(Call)]
    BY <1>4
  <2> HIDE DEF ss
  <2>2. ss \in Seq(Seq(Call))
    BY <1>1, <2>1, SegmentIsSeq
  <2> QED BY <1>1, <1>6, <2>2
<1> HIDE DEF ss
<1>8. fl \in Seq(Call)
  BY <1>7, FlattenType
<1>9. ToSet(<<>>) = {} /\ IsInjective(<<>>)
  BY DEF ToSet, IsInjective
<1>10. IsInjective(fl)
  <2>1. \A i \in 1..Len(ss) : IsInjective(ss[i])
    BY <1>4, <1>6, <1>7, <1>9
  <2>2. ASSUME NEW i \in 1..Len(ss), NEW k \in 1..Len(ss), i # k
        PROVE  ToSet(ss[i]) \cap ToSet(ss[k]) = {}
    <3>1. p[i] \in Node /\ p[k] \in Node /\ p[i] # p[k]
      BY <1>1, <1>2, <1>4, <1>7, <2>2 DEF IsInjective
    <3>2. ToSet(t[p[i]]) \cap ToSet(t[p[k]]) = {}
      BY <3>1
    <3>3. ss[i] \in {t[p[i]], <<>>} /\ ss[k] \in {t[p[k]], <<>>}
      BY <1>6, <1>7
    <3> QED BY <1>9, <3>2, <3>3
  <2> QED BY <1>7, <2>1, <2>2, FlattenInjective
<1>11. ASSUME NEW x PROVE x \in ToSet(fl) <=> \E m \in Up(s, n) : c2[m] = 0 /\ x \in ToSet(t[m])
  <2>1. ASSUME x \in ToSet(fl) PROVE \E m \in Up(s, n) : c2[m] = 0 /\ x \in ToSet(t[m])
    <3>1. PICK i \in 1..Len(ss) : x \in ToSet(ss[i])
      BY <1>7, <2>1, FlattenElements
    <3> QED BY <1>3, <1>6, <1>7, <1>9, <3>1
  <2>2. ASSUME NEW m \in Up(s, n), c2[m] = 0, x \in ToSet(t[m]) PROVE x \in ToSet(fl)
    <3>1. PICK i \in 1..Len(ss) : p[i] = m
      BY <1>3, <1>7
    <3>2. x \in ToSet(ss[i])
      BY <1>6, <1>7, <2>2, <3>1
    <3> QED BY <1>7, <3>2, FlattenElements
  <2> QED BY <2>1, <2>2
<1>12. ASSUME NEW m \in Up(s, n), NEW l \in Up(s, m), m # l, c2[m] = 0, c2[l] = 0,
              NEW x \in ToSet(t[m]), NEW y \in ToSet(t[l])
       PROVE  InFront(fl, x, y)
  <2>0. m \in Node /\ l \in Up(s, n) /\ Rank(l) < Rank(m) /\ l \in Node
    BY <1>12, UpFacts
  <2>1. PICK i \in 1..Len(p) : p[i] = m
    BY <1>3
  <2>2. PICK k \in 1..Len(p) : p[k] = l
    BY <1>3, <2>0
  <2>3. i < k
    <3>1. k < i => Rank(m) < Rank(l)
      BY <1>2, <2>1, <2>2
    <3>2. Rank(m) \in Nat /\ Rank(l) \in Nat
      BY <2>0, RankIs
    <3>3. i # k
      BY <1>12, <2>1, <2>2
    <3> QED BY <1>1, <2>0, <3>1, <3>2, <3>3
  <2>4. x \in ToSet(ss[i]) /\ y \in ToSet(ss[k])
    BY <1>6, <1>12, <2>1, <2>2
  <2> QED BY <1>7, <2>3, <2>4, FlattenOrder
<1>13. ASSUME NEW m \in Up(s, n), NEW x, NEW y, m # Doc, c2[m] = 0, c2[Above(s, m)] = 0,
              t[m] = << x >>, t[Above(s, m)] = << y >>
       PROVE  NextTo(fl, x, y)
  <2>1. PICK i \in 1..Len(p) : p[i] = m
    BY <1>3
  <2>2. i \in 1..(Len(p) - 1) /\ i + 1 \in 1..Len(p)
    <3>1. i # Len(p)
      BY <1>1, <1>13, <2>1 DEF p
    <3>2. Len(p) \in Nat
      BY <1>1
    <3> QED BY <3>1, <3>2
  <2>3. p[i + 1] = Above(s, m)
    BY <1>1, <2>1, <2>2 DEF p
  <2>4. ss[i] = << x >> /\ ss[i + 1] = << y >>
    BY <1>6, <1>13, <2>1, <2>2, <2>3
  <2>5. PICK o : Laid(o, ss, fl)
    BY <1>7, FlattenOffsets
  <2> HIDE DEF fl
  <2>6. /\ o \in [0..Len(ss) -> Nat]
        /\ \A j \in 1..Len(ss) :
             /\ o[j] = o[j-1] + Len(ss[j])
             /\ \A q \in 1..Len(ss[j]) : o[j-1] + q \in 1..Len(fl) /\ fl[o[j-1] + q] = ss[j][q]
    BY <2>5 DEF Laid
  <2>7. o[i] = o[i - 1] + 1 /\ o[i - 1] \in Nat
        /\ o[i - 1] + 1 \in 1..Len(fl) /\ fl[o[i - 1] + 1] = x
    <3>1. i \in 1..Len(ss) /\ Len(ss[i]) = 1 /\ 1 \in 1..Len(ss[i]) /\ ss[i][1] = x
      BY <1>7, <2>4
    <3>2. i - 1 \in 0..Len(ss)
      BY <3>1, <1>1, <1>7
    <3> QED BY <2>6, <3>1, <3>2
  <2>8. o[(i + 1) - 1] + 1 \in 1..Len(fl) /\ fl[o[(i + 1) - 1] + 1] = y
    <3>1. i + 1 \in 1..Len(ss) /\ 1 \in 1..Len(ss[i + 1]) /\ ss[i + 1][1] = y
      BY <1>7, <2>2, <2>4
    <3> QED BY <2>6, <3>1
  <2>9. (i + 1) - 1 = i
    BY <1>1
  <2>10. o[i] + 1 \in 1..Len(fl) /\ fl[o[i] + 1] = y
    BY <2>8, <2>9
  <2> DEFINE k == o[i]
  <2>11. k \in Nat /\ k \in 1..Len(fl) /\ fl[k] = x /\ k + 1 \in 1..Len(fl) /\ fl[k + 1] = y
    BY <2>7, <2>10
  <2> HIDE DEF k
  <2>12. k \in 1..(Len(fl) - 1)
    <3>1. Len(fl) \in Nat
      BY <1>8 DEF fl
    <3> QED BY <2>11, <3>1
  <2> QED BY <2>11, <2>12 DEF NextTo
<1> HIDE DEF fl
<1>14. \A m \in Up(s, n) : \A l \in Up(s, m) :
         m # l /\ c2[m] = 0 /\ c2[l] = 0 =>
           \A x \in ToSet(t[m]), y \in ToSet(t[l]) : InFront(fl, x, y)
  BY <1>12
<1>15. \A m \in Up(s, n) : \A x, y :
         m # Doc /\ c2[m] = 0 /\ c2[Above(s, m)] = 0
           /\ t[m] = << x >> /\ t[Above(s, m)] = << y >> => NextTo(fl, x, y)
  BY <1>13
<1>16. \A x : x \in ToSet(fl) <=> \E m \in Up(s, n) : c2[m] = 0 /\ x \in ToSet(t[m])
  BY <1>11
<1> QED BY <1>5, <1>8, <1>10, <1>14, <1>15, <1>16

\* Neighbours stay neighbours.
LEMMA NextToKept ==
  ASSUME NEW S, NEW a \in Seq(S), NEW b \in Seq(S), NEW x, NEW y
  PROVE  /\ NextTo(a, x, y) => NextTo(a \o b, x, y)
         /\ NextTo(b, x, y) => NextTo(a \o b, x, y)
         /\ a # <<>> /\ x # Head(a) /\ NextTo(a, x, y) => NextTo(Tail(a), x, y)
         /\ a # <<>> /\ x = Head(a) /\ IsInjective(a) /\ NextTo(a, x, y) =>
              Tail(a) # <<>> /\ Head(Tail(a)) = y
         /\ NextTo(a, x, y) => InFront(a, x, y) /\ x \in ToSet(a) /\ y \in ToSet(a)
<1>0. Len(a) \in Nat /\ Len(b) \in Nat /\ Len(a \o b) = Len(a) + Len(b)
  OBVIOUS
<1>1. ASSUME NextTo(a, x, y) PROVE NextTo(a \o b, x, y)
  <2>1. PICK i \in 1..(Len(a) - 1) : a[i] = x /\ a[i + 1] = y
    BY <1>1 DEF NextTo
  <2>2. i \in 1..(Len(a \o b) - 1) /\ (a \o b)[i] = a[i] /\ (a \o b)[i + 1] = a[i + 1]
    BY <1>0, <2>1
  <2> QED BY <2>1, <2>2 DEF NextTo
<1>2. ASSUME NextTo(b, x, y) PROVE NextTo(a \o b, x, y)
  <2>1. PICK i \in 1..(Len(b) - 1) : b[i] = x /\ b[i + 1] = y
    BY <1>2 DEF NextTo
  <2> DEFINE k == Len(a) + i
  <2>2. k \in 1..(Len(a \o b) - 1) /\ (a \o b)[k] = b[i] /\ (a \o b)[k + 1] = b[i + 1]
    BY <1>0, <2>1
  <2> QED BY <2>1, <2>2 DEF NextTo
<1>3. ASSUME a # <<>>, x # Head(a), NextTo(a, x, y) PROVE NextTo(Tail(a), x, y)
  <2>1. PICK i \in 1..(Len(a) - 1) : a[i] = x /\ a[i + 1] = y
    BY <1>3 DEF NextTo
  <2>2. i # 1
    BY <1>3, <2>1
  <2> DEFINE k == i - 1
  <2>3. k \in 1..(Len(Tail(a)) - 1) /\ Tail(a)[k] = a[i] /\ Tail(a)[k + 1] = a[i + 1]
    BY <1>0, <1>3, <2>1, <2>2
  <2> QED BY <2>1, <2>3 DEF NextTo
<1>4. ASSUME a # <<>>, x = Head(a), IsInjective(a), NextTo(a, x, y)
      PROVE  Tail(a) # <<>> /\ Head(Tail(a)) = y
  <2>1. PICK i \in 1..(Len(a) - 1) : a[i] = x /\ a[i + 1] = y
    BY <1>4 DEF NextTo
  <2>2. 1 \in DOMAIN a /\ i \in DOMAIN a /\ a[1] = x
    BY <1>0, <1>4, <2>1
  <2>3. i = 1
    BY <1>4, <2>1, <2>2 DEF IsInjective
  <2>4. Len(Tail(a)) = Len(a) - 1 /\ Tail(a) \in Seq(S) /\ Len(a) - 1 >= 1
    BY <1>0, <1>4, <2>1
  <2>5. Tail(a)[1] = a[1 + 1]
    BY <1>0, <1>4, <2>4
  <2>6. \A u \in Seq(S) : Len(u) >= 1 => u # <<>> /\ Head(u) = u[1]
    OBVIOUS
  <2>7. Tail(a) # <<>> /\ Head(Tail(a)) = Tail(a)[1]
    BY <2>4, <2>6
  <2> QED BY <2>1, <2>3, <2>5, <2>7
<1>5. ASSUME NextTo(a, x, y) PROVE InFront(a, x, y) /\ x \in ToSet(a) /\ y \in ToSet(a)
  <2>1. PICK i \in 1..(Len(a) - 1) : a[i] = x /\ a[i + 1] = y
    BY <1>5 DEF NextTo
  <2>2. i \in 1..Len(a) /\ i + 1 \in 1..Len(a) /\ i < i + 1
    BY <1>0, <2>1
  <2> QED BY <2>1, <2>2 DEF InFront, ToSet
<1> QED BY <1>1, <1>2, <1>3, <1>4, <1>5

\* The queues M, T become M2, T2 when the counters become C2: the call at the
\* head is made, schedules cbs and, if k is a node, leaves c there.
QueueTurn(s, M, T, C2, n, cbs, k, c, M2, T2) ==
  /\ M # <<>>
  /\ M2 = Tail(M) \o (Freed(s, T, C2, n) \o cbs)
  /\ T2 = [m \in Node |-> IF m = k THEN Append(IF C2[m] = 0 THEN <<>> ELSE T[m], c)
                          ELSE IF C2[m] = 0 THEN <<>> ELSE T[m]]
  /\ \A m \in Node : C2[m] = 0 /\ T[m] # <<>> => m \in Up(s, n)

\* What is new may be scheduled.
Fresh(M, T, cbs, k, c) ==
  /\ cbs \in Seq(Call) /\ IsInjective(cbs)
  /\ ToSet(cbs) \cap (InQueues(M, T) \ {Head(M)}) = {}
  /\ \/ k = NULL
     \/ /\ k \in Node /\ c \in Call /\ c \notin ToSet(cbs)
        /\ c \notin InQueues(M, T) \ {Head(M)}

\* Where the calls are then, ...
NewPlaces(M, T, C2, cbs, k, c, M2, T2) ==
  /\ M2 \in Seq(Call) /\ T2 \in [Node -> Seq(Call)] /\ QueuesApart(M2, T2)
  /\ ToSet(Tail(M)) = ToSet(M) \ {Head(M)} /\ Head(M) \in ToSet(M)
  /\ \A x : x \in ToSet(M2) <=> \/ x \in ToSet(M) \ {Head(M)}
                                \/ \E m \in Node : C2[m] = 0 /\ x \in ToSet(T[m])
                                \/ x \in ToSet(cbs)
  /\ \A m \in Node : \A x : x \in ToSet(T2[m]) <=> (C2[m] # 0 /\ x \in ToSet(T[m])) \/ (m = k /\ x = c)

\* ... and in which order.
NewOrder(s, M, T, C2, cbs, M2) ==
  /\ \A x, y : InFront(M, x, y) /\ x # Head(M) => InFront(M2, x, y)
  /\ \A x \in ToSet(M) \ {Head(M)} : \A y \in ToSet(M2) :
       y \notin ToSet(M) \ {Head(M)} => InFront(M2, x, y)
  /\ \A m \in Node : C2[m] = 0 =>
       \A x \in ToSet(T[m]), y \in ToSet(cbs) : InFront(M2, x, y)
  /\ \A x, y : InFront(cbs, x, y) => InFront(M2, x, y)
  /\ \A m \in Node : \A l \in Up(s, m) : m # l /\ C2[m] = 0 /\ C2[l] = 0 =>
       \A x \in ToSet(T[m]), y \in ToSet(T[l]) : InFront(M2, x, y)
  /\ \A x, y : NextTo(M, x, y) /\ x # Head(M) => NextTo(M2, x, y)
  /\ \A x, y : NextTo(cbs, x, y) => NextTo(M2, x, y)
  /\ \A m \in Node : \A x, y :
       m # Doc /\ C2[m] = 0 /\ C2[Above(s, m)] = 0
         /\ T[m] = << x >> /\ T[Above(s, m)] = << y >> => NextTo(M2, x, y)
  /\ \A y : NextTo(M, Head(M), y) => M2 # <<>> /\ Head(M2) = y

\* The same, when nothing waits on a ready node that is not on the path.
LEMMA FreedHere ==
  ASSUME NEW s, WellFormed(s), NEW M \in Seq(Call), NEW T \in [Node -> Seq(Call)],
         QueuesApart(M, T), NEW C2 \in [Node -> Nat], NEW n \in Node,
         \A m \in Node : C2[m] = 0 /\ T[m] # <<>> => m \in Up(s, n)
  PROVE  /\ Freed(s, T, C2, n) \in Seq(Call) /\ IsInjective(Freed(s, T, C2, n))
         /\ \A x : x \in ToSet(Freed(s, T, C2, n)) <=>
                     \E m \in Node : C2[m] = 0 /\ x \in ToSet(T[m])
         /\ \A m \in Node : \A l \in Up(s, m) : m # l /\ C2[m] = 0 /\ C2[l] = 0 =>
              \A x \in ToSet(T[m]), y \in ToSet(T[l]) : InFront(Freed(s, T, C2, n), x, y)
         /\ \A m \in Node : \A x, y :
              m # Doc /\ C2[m] = 0 /\ C2[Above(s, m)] = 0
                /\ T[m] = << x >> /\ T[Above(s, m)] = << y >> => NextTo(Freed(s, T, C2, n), x, y)
<1> DEFINE fl == Freed(s, T, C2, n)
<1>1. /\ \A m \in Node : IsInjective(T[m])
      /\ \A l, m \in Node : l # m => ToSet(T[l]) \cap ToSet(T[m]) = {}
  BY DEF QueuesApart
<1>2. /\ fl \in Seq(Call) /\ IsInjective(fl)
      /\ \A x : x \in ToSet(fl) <=> \E m \in Up(s, n) : C2[m] = 0 /\ x \in ToSet(T[m])
      /\ \A m \in Up(s, n) : \A l \in Up(s, m) : m # l /\ C2[m] = 0 /\ C2[l] = 0 =>
           \A x \in ToSet(T[m]), y \in ToSet(T[l]) : InFront(fl, x, y)
      /\ \A m \in Up(s, n) : \A x, y :
           m # Doc /\ C2[m] = 0 /\ C2[Above(s, m)] = 0
             /\ T[m] = << x >> /\ T[Above(s, m)] = << y >> => NextTo(fl, x, y)
  BY <1>1, FreedAre
<1> HIDE DEF fl
<1>3. \A m \in Node : \A x : C2[m] = 0 /\ x \in ToSet(T[m]) => m \in Up(s, n)
  BY DEF ToSet
<1>4. Up(s, n) \subseteq Node
  BY UpFacts
<1>5. \A x : << x >> # <<>>
  OBVIOUS
<1>6. \A x : x \in ToSet(fl) <=> \E m \in Node : C2[m] = 0 /\ x \in ToSet(T[m])
  BY <1>2, <1>3, <1>4
<1>7. \A m \in Node : \A l \in Up(s, m) : m # l /\ C2[m] = 0 /\ C2[l] = 0 =>
        \A x \in ToSet(T[m]), y \in ToSet(T[l]) : InFront(fl, x, y)
  BY <1>2, <1>3
<1>8. \A m \in Node : \A x, y :
        m # Doc /\ C2[m] = 0 /\ C2[Above(s, m)] = 0
          /\ T[m] = << x >> /\ T[Above(s, m)] = << y >> => NextTo(fl, x, y)
  BY <1>2, <1>5
<1> QED BY <1>2, <1>6, <1>7, <1>8 DEF fl

\* Where the calls are after a turn, and that it keeps their order.
LEMMA QueueTurned ==
  ASSUME NEW s, WellFormed(s), NEW M \in Seq(Call), NEW T \in [Node -> Seq(Call)],
         QueuesApart(M, T), NEW C2 \in [Node -> Nat], NEW n \in Node,
         NEW cbs, NEW k, NEW c, Fresh(M, T, cbs, k, c), NEW M2, NEW T2,
         QueueTurn(s, M, T, C2, n, cbs, k, c, M2, T2)
  PROVE  NewPlaces(M, T, C2, cbs, k, c, M2, T2) /\ NewOrder(s, M, T, C2, cbs, M2)
<1> DEFINE fl == Freed(s, T, C2, n)
           tl == Tail(M)
           new == fl \o cbs
<1>0. M # <<>> /\ M2 = tl \o new
  BY DEF QueueTurn
<1>1. tl \in Seq(Call) /\ IsInjective(tl) /\ Head(M) \in ToSet(M)
      /\ ToSet(tl) = ToSet(M) \ {Head(M)}
  BY <1>0, Popped DEF QueuesApart
<1>2. /\ fl \in Seq(Call) /\ IsInjective(fl)
      /\ \A x : x \in ToSet(fl) <=> \E m \in Node : C2[m] = 0 /\ x \in ToSet(T[m])
      /\ \A m \in Node : \A l \in Up(s, m) : m # l /\ C2[m] = 0 /\ C2[l] = 0 =>
           \A x \in ToSet(T[m]), y \in ToSet(T[l]) : InFront(fl, x, y)
      /\ \A m \in Node : \A x, y :
           m # Doc /\ C2[m] = 0 /\ C2[Above(s, m)] = 0
             /\ T[m] = << x >> /\ T[Above(s, m)] = << y >> => NextTo(fl, x, y)
  BY FreedHere DEF QueueTurn
<1>3. cbs \in Seq(Call) /\ IsInjective(cbs)
      /\ \A x \in ToSet(cbs) : x \notin ToSet(tl) /\ \A m \in Node : x \notin ToSet(T[m])
  <2>1. DOMAIN T = Node
    OBVIOUS
  <2>2. ASSUME NEW x \in ToSet(cbs), NEW m \in Node, x \in ToSet(T[m]) PROVE FALSE
    <3>1. x # Head(M)
      BY <1>1, <2>1, <2>2 DEF QueuesApart
    <3> QED BY <2>1, <2>2, <3>1 DEF Fresh, InQueues
  <2> QED BY <1>1, <2>2 DEF Fresh, InQueues
<1>3a. \A m \in Node : IsInjective(T[m]) /\ ToSet(M) \cap ToSet(T[m]) = {}
  BY DEF QueuesApart
<1>3b. \A l, m \in Node : l # m => ToSet(T[l]) \cap ToSet(T[m]) = {}
  BY DEF QueuesApart
<1> HIDE DEF fl, tl
<1>4. new \in Seq(Call) /\ IsInjective(new) /\ ToSet(new) = ToSet(fl) \cup ToSet(cbs)
  <2>1. ToSet(fl) \cap ToSet(cbs) = {}
    BY <1>2, <1>3
  <2> QED BY <1>2, <1>3, <2>1, ConcatInjective
<1>5. /\ \A x, y : InFront(fl, x, y) => InFront(new, x, y)
      /\ \A x, y : InFront(cbs, x, y) => InFront(new, x, y)
      /\ \A x \in ToSet(fl), y \in ToSet(cbs) : InFront(new, x, y)
      /\ \A x, y : NextTo(fl, x, y) => NextTo(new, x, y)
      /\ \A x, y : NextTo(cbs, x, y) => NextTo(new, x, y)
  BY <1>2, <1>3, InFrontJoined, NextToKept
<1> HIDE DEF new
<1>6. M2 \in Seq(Call) /\ IsInjective(M2) /\ ToSet(M2) = ToSet(tl) \cup ToSet(new)
  <2>1. ToSet(tl) \cap ToSet(new) = {}
    <3>1. ToSet(tl) \cap ToSet(fl) = {}
      BY <1>1, <1>2, <1>3a
    <3> QED BY <1>3, <1>4, <3>1
  <2> QED BY <1>0, <1>1, <1>4, <2>1, ConcatInjective
<1>7. /\ \A x, y : InFront(tl, x, y) => InFront(M2, x, y)
      /\ \A x, y : InFront(new, x, y) => InFront(M2, x, y)
      /\ \A x \in ToSet(tl), y \in ToSet(new) : InFront(M2, x, y)
      /\ \A x, y : NextTo(tl, x, y) => NextTo(M2, x, y)
      /\ \A x, y : NextTo(new, x, y) => NextTo(M2, x, y)
  BY <1>0, <1>1, <1>4, InFrontJoined, NextToKept
<1>8. ASSUME NEW m \in Node
      PROVE  /\ T2[m] \in Seq(Call) /\ IsInjective(T2[m])
             /\ \A x : x \in ToSet(T2[m]) <=> (C2[m] # 0 /\ x \in ToSet(T[m])) \/ (m = k /\ x = c)
  <2> DEFINE old == IF C2[m] = 0 THEN <<>> ELSE T[m]
  <2>1. T2[m] = IF m = k THEN Append(old, c) ELSE old
    BY DEF QueueTurn
  <2>2. old \in Seq(Call) /\ IsInjective(old) /\ \A x : x \in ToSet(old) <=> C2[m] # 0 /\ x \in ToSet(T[m])
    <3>1. <<>> \in Seq(Call) /\ IsInjective(<<>>) /\ ToSet(<<>>) = {}
      BY DEF IsInjective, ToSet
    <3>2. CASE C2[m] = 0
      <4>1. old = <<>>
        BY <3>2
      <4> HIDE DEF old
      <4> QED BY <3>1, <3>2, <4>1
    <3>3. CASE C2[m] # 0
      BY <1>3a, <3>3
    <3> QED BY <3>2, <3>3
  <2> HIDE DEF old
  <2>3. CASE m # k
    BY <2>1, <2>2, <2>3
  <2>4. CASE m = k
    <3>1. c \in Call /\ c \notin ToSet(old)
      <4>1. k # NULL
        BY <2>4, NodesDiffer
      <4>2. c \in Call /\ c \notin InQueues(M, T) \ {Head(M)}
        BY <4>1 DEF Fresh
      <4>3. Head(M) \notin ToSet(T[m])
        BY <1>1, <1>3a
      <4>4. ToSet(T[m]) \subseteq InQueues(M, T)
        BY DEF InQueues
      <4> QED BY <2>2, <4>2, <4>3, <4>4
    <3>2. Append(old, c) \in Seq(Call) /\ IsInjective(Append(old, c))
          /\ ToSet(Append(old, c)) = ToSet(old) \cup {c}
      BY <2>2, <3>1, AppendsInjective, Appended
    <3> QED BY <2>1, <2>2, <2>4, <3>2
  <2> QED BY <2>3, <2>4
<1>9. T2 \in [Node -> Seq(Call)]
  <2>1. T2 = [m \in Node |-> T2[m]]
    BY DEF QueueTurn
  <2> QED BY <1>8, <2>1
<1>10. c \in Call /\ k \in Node => c \notin ToSet(M2) /\ \A m \in Node : c \notin ToSet(T[m])
  <2> SUFFICES ASSUME k \in Node PROVE c \notin ToSet(M2) /\ \A m \in Node : c \notin ToSet(T[m])
    OBVIOUS
  <2>1. c \notin ToSet(cbs) /\ c \notin InQueues(M, T) \ {Head(M)}
    BY NodesDiffer DEF Fresh
  <2>2. \A m \in Node : c \notin ToSet(T[m])
    <3>1. \A m \in Node : ToSet(T[m]) \subseteq InQueues(M, T)
      BY DEF InQueues
    <3> QED BY <1>1, <1>3a, <2>1, <3>1
  <2>3. c \notin ToSet(tl)
    BY <1>1, <2>1 DEF InQueues
  <2> QED BY <1>2, <1>4, <1>6, <2>1, <2>2, <2>3
<1>11. QueuesApart(M2, T2)
  <2>1. DOMAIN T2 = Node
    BY <1>9
  <2>2. ASSUME NEW m \in Node, NEW x \in ToSet(M2), x \in ToSet(T2[m]) PROVE FALSE
    <3>1. CASE C2[m] # 0 /\ x \in ToSet(T[m])
      <4>1. x \notin ToSet(tl)
        BY <1>1, <1>3a, <3>1
      <4>2. x \notin ToSet(fl)
        BY <1>2, <1>3b, <3>1
      <4> QED BY <1>3, <1>4, <1>6, <2>2, <3>1, <4>1, <4>2
    <3>2. CASE m = k /\ x = c
      BY <1>10, <2>2, <3>2, NodesDiffer DEF Fresh
    <3> QED BY <1>8, <2>2, <3>1, <3>2
  <2>3. ASSUME NEW l \in Node, NEW m \in Node, l # m, NEW x \in ToSet(T2[l]), x \in ToSet(T2[m])
        PROVE  FALSE
    <3>1. CASE x \in ToSet(T[l]) /\ x \in ToSet(T[m])
      BY <1>3b, <2>3, <3>1
    <3>2. CASE x = c /\ k \in Node
      <4>1. c \in Call
        BY <3>2, NodesDiffer DEF Fresh
      <4> QED BY <1>8, <1>10, <2>3, <3>2, <4>1
    <3> QED BY <1>8, <2>3, <3>1, <3>2
  <2> QED BY <1>6, <1>8, <2>1, <2>2, <2>3 DEF QueuesApart
<1>12. NewPlaces(M, T, C2, cbs, k, c, M2, T2)
  <2>1. ToSet(Tail(M)) = ToSet(M) \ {Head(M)}
    BY <1>1 DEF tl
  <2>2. \A x : x \in ToSet(M2) <=> \/ x \in ToSet(M) \ {Head(M)}
                                   \/ \E m \in Node : C2[m] = 0 /\ x \in ToSet(T[m])
                                   \/ x \in ToSet(cbs)
    BY <1>1, <1>2, <1>4, <1>6
  <2> QED BY <1>1, <1>6, <1>8, <1>9, <1>11, <2>1, <2>2 DEF NewPlaces
<1>13. \A x, y : InFront(M, x, y) /\ x # Head(M) => InFront(M2, x, y)
  BY <1>0, <1>7, InFrontTail DEF tl
<1>14. \A x, y : NextTo(M, x, y) /\ x # Head(M) => NextTo(M2, x, y)
  BY <1>0, <1>7, NextToKept DEF tl
<1>15. \A y : NextTo(M, Head(M), y) => M2 # <<>> /\ Head(M2) = y
  <2> TAKE y
  <2> HAVE NextTo(M, Head(M), y)
  <2>1. tl # <<>> /\ Head(tl) = y
    BY <1>0, NextToKept DEF tl, QueuesApart
  <2>2. \A a, b \in Seq(Call) : a # <<>> => a \o b # <<>> /\ Head(a \o b) = Head(a)
    OBVIOUS
  <2> QED BY <1>0, <1>1, <1>4, <2>1, <2>2
<1>16. \A x \in ToSet(M) \ {Head(M)} : \A y \in ToSet(M2) :
         y \notin ToSet(M) \ {Head(M)} => InFront(M2, x, y)
  BY <1>1, <1>6, <1>7
<1>17. \A m \in Node : C2[m] = 0 =>
         \A x \in ToSet(T[m]), y \in ToSet(cbs) : InFront(M2, x, y)
  BY <1>2, <1>5, <1>7
<1>18. \A x, y : InFront(cbs, x, y) => InFront(M2, x, y)
  BY <1>5, <1>7
<1>19. \A m \in Node : \A l \in Up(s, m) : m # l /\ C2[m] = 0 /\ C2[l] = 0 =>
         \A x \in ToSet(T[m]), y \in ToSet(T[l]) : InFront(M2, x, y)
  BY <1>2, <1>5, <1>7
<1>20. \A x, y : NextTo(cbs, x, y) => NextTo(M2, x, y)
  BY <1>5, <1>7
<1>21. \A m \in Node : \A x, y :
         m # Doc /\ C2[m] = 0 /\ C2[Above(s, m)] = 0
           /\ T[m] = << x >> /\ T[Above(s, m)] = << y >> => NextTo(M2, x, y)
  BY <1>2, <1>5, <1>7
<1> QED BY <1>12, <1>13, <1>14, <1>15, <1>16, <1>17, <1>18, <1>19, <1>20, <1>21 DEF NewOrder
-----------------------------------------------------------------------------
(***************************************************************************)
(* The invariant.  B is the set of the elements whose first call has been  *)
(* made; it is not a part of the state, and every state has one.           *)
(***************************************************************************)
Kin(e) == sheet.kind[e]

InMain(c) == c \in ToSet(main)

\* The element has a call to come, or waits for its answer.
Busy(e) ==
  Again(e) \in Queued \/ Set(e) \in Queued \/ stage[e] = "READ_RESPONSE"

Loose(n) == \A m \in Node : n \notin ToSet(kids[m])

HasResult(e) == Ret(e) \in ToSet(kids[Self(e)])

\* What is held: the node of an element until the element is over (of a log,
\* until its second call), ...
HeldSelf(e) ==
  IF Kin(e) \in {"response", "text"} THEN FALSE
  ELSE IF Kin(e) = "log" THEN InMain(Again(e)) /\ count[Self(e)] > 0
  ELSE Busy(e)

\* ... a node whose value is the one of a variable, until that is ready, ...
HeldValue(e) == Set(e) \in Queued /\ Source(sheet, e) = "variable"

\* ... the node of the parameters, until their first call, ...
HeldParams(e) ==
  /\ Kin(e) = "include" /\ stage[e] = "PARAMS_BEGIN"
  /\ InMain(Again(e)) /\ count[Tmp(e)] > 0

\* ... and the result of an include, until its node list has been transformed.
HeldResult(e) ==
  Kin(e) = "include" /\ stage[e] \in {"SUCCESS", "FAILURE"} /\ HasResult(e)

Held(h) ==
  IF h[1] = "self" THEN HeldSelf(h[2])
  ELSE IF h[1] = "value" THEN HeldValue(h[2])
  ELSE IF h[1] = "params" THEN HeldParams(h[2]) ELSE HeldResult(h[2])

Holds == { h \in Hold : Held(h) }

\* A counter counts what is held below its node.
Counted == count = Tally(sheet, Holds)

\* The branch of an include, or the content of an if, has not been opened.
Early(e) ==
  \/ stage[e] \in {"PARAMS_BEGIN", "PARAMS_END", "READ_RESPONSE"}
  \/ stage[e] \in {"SUCCESS", "FAILURE"} /\ ~ HasResult(e)

Closed(B, p, slot) ==
  \/ p \notin B
  \/ Kin(p) = "if" /\ slot = "content" /\ stage[p] = "test"
  \/ Kin(p) = "include" /\ slot # "value" /\ Early(p)

\* Nothing has been done for an element before its first call, which is
\* scheduled once, when the part it is written in is opened.
Blank(e) ==
  /\ \A r \in Role : Loose(<<r, e>>)
  /\ Again(e) \notin Queued /\ Set(e) \notin Queued
  /\ stage[e] = "start"

Begun(B) ==
  /\ B \subseteq Elem
  /\ \A e \in Elem : e \notin B => Blank(e)
  /\ \A e \in Elem : First(e) \in Queued => e \notin B /\ InMain(First(e))
  /\ \A e \in Elem : sheet.up[e] # 0 /\ Closed(B, sheet.up[e], sheet.slot[e]) =>
       e \notin B /\ First(e) \notin Queued

\* The document: what is busy stands in it, ...
Standing ==
  /\ Hangs(sheet, kids, Response) /\ Hangs(sheet, kids, Var)
  /\ \A e \in Elem : Busy(e) /\ Kin(e) # "response" => Stands(sheet, kids, Self(e))

\* ... with the nodes it is going to use, ...
Stocked(e) ==
  Busy(e) =>
    /\ Kin(e) \in {"value-of", "if", "include"} => Hangs(sheet, kids, Tmp(e))
    /\ Kin(e) = "copy-of" => Hangs(sheet, kids, Ret(e))
    /\ Kin(e) = "if" /\ stage[e] = "result" => HasResult(e)
    /\ Kin(e) = "include" /\ stage[e] = "END" => HasResult(e)
    /\ Set(e) \in Queued /\ Kin(e) # "variable" /\ Source(sheet, e) = "nodelist" =>
         Hangs(sheet, kids, Arg(e))

Reserve == \A e \in Elem : Stocked(e)

\* ... and the nodes it is going to add are nowhere yet.
Unused(e) ==
  /\ Busy(e) /\ Kin(e) \in {"value-of", "include"} => Loose(Text(e))
  /\ Kin(e) = "copy-of" /\ Set(e) \in Queued => Loose(Text(e))
  /\ Kin(e) = "if" /\ stage[e] = "test" => Loose(Ret(e))
  /\ Kin(e) = "include" /\ Early(e) => Loose(Ret(e))

Spare == \A e \in Elem : Unused(e)

\* Which calls an element may have to come.
Phased(e) ==
  /\ Again(e) \in Queued =>
       /\ Kin(e) # "text"
       /\ Kin(e) = "if" => stage[e] \in {"test", "result"}
       /\ Kin(e) = "response" => stage[e] \in {"second", "third"}
       /\ Kin(e) = "include" =>
            stage[e] \in {"PARAMS_BEGIN", "PARAMS_END", "SUCCESS", "FAILURE", "END"}
  /\ Set(e) \in Queued =>
       /\ Kin(e) \in {"value-of", "copy-of", "if", "include", "variable"}
       /\ \/ Source(sheet, e) = "variable"
          \/ Source(sheet, e) = "nodelist" /\ Kin(e) \in {"value-of", "include"}
       /\ Kin(e) # "variable" <=> Again(e) \in Queued
       /\ Kin(e) = "if" => stage[e] = "test"
       /\ Kin(e) = "include" => stage[e] = "PARAMS_BEGIN"
  /\ stage[e] = "READ_RESPONSE" =>
       Kin(e) = "include" /\ Again(e) \notin Queued /\ Set(e) \notin Queued
  /\ Awaits(e) => stage[e] = "READ_RESPONSE"
  /\ Kin(e) = "include" /\ stage[e] \in {"SUCCESS", "FAILURE"} => InMain(Again(e))
  /\ Kin(e) = "include" /\ stage[e] = "END" /\ InMain(Again(e)) => count[Ret(e)] = 0

Phase == \A e \in Elem : Phased(e)

\* A call waits on a node it has been left on, while that is not ready.
MayWait(c, n) ==
  LET e == c[2]
  IN \/ /\ c[1] = "again"
        /\ \/ Kin(e) = "value-of" /\ n = Tmp(e)
           \/ Kin(e) = "copy-of" /\ n = Ret(e)
           \/ Kin(e) = "if" /\ n = IF stage[e] = "test" THEN Tmp(e) ELSE Ret(e)
           \/ Kin(e) = "log" /\ n = Self(e)
           \/ Kin(e) = "include" /\ stage[e] \in {"PARAMS_BEGIN", "PARAMS_END"} /\ n = Tmp(e)
           \/ Kin(e) = "include" /\ stage[e] = "END" /\ n = Ret(e)
           \/ Kin(e) = "response" /\ n \in ToSet(kids[Response])
     \/ /\ c[1] = "set"
        /\ \/ Source(sheet, e) = "nodelist" /\ n = Arg(e)
           \/ Source(sheet, e) = "variable" /\ n = Self(sheet.ref[e])

Placed == \A n \in Node : \A c \in ToSet(tcb[n]) : count[n] > 0 /\ MayWait(c, n)

\* The first calls of what is written in a part come before the call that
\* takes the part, and while they do the part is held.
Closer(e) ==
  IF sheet.slot[e] = "value" THEN Set(sheet.up[e]) ELSE Again(sheet.up[e])

Awaited(d, p) ==
  /\ InFront(main, First(d), Closer(d))
  /\ HeldSelf(p)
  /\ Kin(p) = "include" => IF sheet.slot[d] = "value" THEN HeldParams(p) ELSE HeldResult(p)

FirstsClosed ==
  \A d, p \in Elem :
    First(d) \in Queued /\ sheet.up[d] = p /\ Kin(p) # "response" => Awaited(d, p)

\* As long as d is busy, the call that takes the part of q it is in is to come.
KeptIn(d, q) ==
  /\ Arg(q) \in Up(sheet, Self(d)) => Set(q) \in Queued
  /\ Ret(q) \in Up(sheet, Self(d)) =>
       /\ Again(q) \in Queued
       /\ Kin(q) = "if" => stage[q] = "result"
       /\ Kin(q) = "include" => ~ Early(q)
  /\ Self(q) \in Up(sheet, Self(d)) /\ Kin(q) = "log" => Again(q) \in Queued

Kept ==
  \A d, q \in Elem : Busy(d) /\ Kin(d) # "response" /\ d # q => KeptIn(d, q)

\* The node whose content a call takes.
Gate(c) ==
  IF c[1] = "set" THEN Arg(c[2])
  ELSE IF Kin(c[2]) = "log" THEN Self(c[2]) ELSE Ret(c[2])

\* A log that has given up its hold is called before what it is in is taken.
Closes(x, g) ==
  x # Again(g) /\ x[1] # "first" /\ Gate(x) \in Up(sheet, Self(g))

LogOrder(g, x) ==
  /\ InMain(Again(g)) /\ count[Self(g)] > 0 /\ InMain(x) => InFront(main, x, Again(g))
  /\ Again(g) \in Queued /\ ~ InMain(Again(g)) => ~ InMain(x)
  /\ InMain(Again(g)) /\ count[Self(g)] = 0 /\ InMain(x) => InFront(main, Again(g), x)

Logs ==
  \A g \in Elem, x \in Call : Kin(g) = "log" /\ Closes(x, g) => LogOrder(g, x)

\* The call that brings a string from a node list is made right before the
\* one that wants it.
Paired(e) ==
  Kin(e) # "variable" /\ Source(sheet, e) = "nodelist" /\ Set(e) \in Queued =>
    /\ InMain(Set(e)) => NextTo(main, Set(e), Again(e))
    /\ ~ InMain(Set(e)) /\ InMain(Again(e)) => Head(main) = Again(e)

Pairs == \A e \in Elem : Paired(e)

\* Variables are set before what is written behind them is called.
Scope(B) ==
  /\ \A v \in B : Kin(v) = "variable" => bound[v] # "no"
  /\ \A v, a \in Elem : sheet.up[v] = sheet.up[a] /\ sheet.slot[v] = sheet.slot[a] /\ v < a =>
       /\ a \in B => v \in B
       /\ First(a) \in Queued => v \in B \/ InFront(main, First(v), First(a))
  /\ \A v \in Elem : sheet.up[v] = 0 => v \in B \/ First(v) \in Queued
  /\ \A v \in Elem : sheet.up[v] = 0 /\ First(v) \in Queued =>
       \A x \in ToSet(main) :
         InFront(main, First(v), x) \/ (x[1] = "first" /\ sheet.up[x[2]] = 0)

Cursor == responseCur # NULL => responseCur \in ToSet(kids[Response])

Ended ==
  /\ "DONE" \in cur => main = <<>> /\ Holds = {} /\ ~ running
  /\ failed => ~ WellScoped(sheet) /\ ~ running /\ "DONE" \notin cur

Shape(B) ==
  /\ TypeOK /\ QueuesApart(main, tcb) /\ TreeOK(sheet, kids)
  /\ Begun(B) /\ Spare /\ Cursor

Order ==
  /\ Counted /\ Standing /\ Reserve /\ Phase /\ Placed
  /\ FirstsClosed /\ Kept /\ Logs /\ Pairs

Inv(B) == Shape(B) /\ Order /\ Scope(B) /\ Ended

IInv == \E B : Inv(B)
-----------------------------------------------------------------------------
(***************************************************************************)
(* What the invariant says of a state.                                     *)
(***************************************************************************)
LEMMA QueuedIs ==
  /\ \A x : x \in Queued <=> x \in ToSet(main) \/ \E m \in Node : x \in ToSet(tcb[m])
  /\ \A x : x \in Queued' <=> x \in ToSet(main') \/ \E m \in Node : x \in ToSet(tcb'[m])
BY DEF Queued

LEMMA HeldAre ==
  /\ Holds \subseteq Hold /\ Holds' \subseteq Hold
  /\ \A h \in Hold : (h \in Holds <=> Held(h)) /\ (h \in Holds' <=> Held(h)')
  /\ \A e \in Elem :
       /\ SelfHold(e) \in Holds <=> HeldSelf(e)
       /\ ValueHold(e) \in Holds <=> HeldValue(e)
       /\ ParamsHold(e) \in Holds <=> HeldParams(e)
       /\ ResultHold(e) \in Holds <=> HeldResult(e)
       /\ SelfHold(e) \in Holds' <=> HeldSelf(e)'
       /\ ValueHold(e) \in Holds' <=> HeldValue(e)'
       /\ ParamsHold(e) \in Holds' <=> HeldParams(e)'
       /\ ResultHold(e) \in Holds' <=> HeldResult(e)'
<1>1. Holds \subseteq Hold /\ Holds' \subseteq Hold
  BY DEF Holds
<1>2. \A h \in Hold : (h \in Holds <=> Held(h)) /\ (h \in Holds' <=> Held(h)')
  BY DEF Holds
<1>3. ASSUME NEW e \in Elem
      PROVE  /\ Held(SelfHold(e)) <=> HeldSelf(e)
             /\ Held(ValueHold(e)) <=> HeldValue(e)
             /\ Held(ParamsHold(e)) <=> HeldParams(e)
             /\ Held(ResultHold(e)) <=> HeldResult(e)
             /\ Held(SelfHold(e))' <=> HeldSelf(e)'
             /\ Held(ValueHold(e))' <=> HeldValue(e)'
             /\ Held(ParamsHold(e))' <=> HeldParams(e)'
             /\ Held(ResultHold(e))' <=> HeldResult(e)'
  BY DEF Held, SelfHold, ValueHold, ParamsHold, ResultHold
<1> QED BY <1>1, <1>2, <1>3, HoldsDiffer

\* Who holds something has something to come.
LEMMA HoldBusy ==
  ASSUME Phase, NEW h \in Holds
  PROVE  /\ h[2] \in Elem /\ Busy(h[2]) /\ Kin(h[2]) \notin {"response", "text"}
         /\ h \in Hold
<1>1. PICK e \in Elem : e = h[2] /\ h \in {SelfHold(e), ValueHold(e), ParamsHold(e), ResultHold(e)}
  BY HeldAre, HoldsDiffer
<1>2. HeldSelf(e) \/ HeldValue(e) \/ HeldParams(e) \/ HeldResult(e)
  BY <1>1, HeldAre
<1>3. Phased(e)
  BY DEF Phase
<1>4. \A x : x \in ToSet(main) => x \in Queued
  BY QueuedIs
<1>5. CASE HeldSelf(e)
  BY <1>1, <1>4, <1>5, HeldAre DEF HeldSelf, Busy, InMain
<1>6. CASE HeldValue(e)
  BY <1>1, <1>3, <1>6, HeldAre DEF HeldValue, Busy, Phased
<1>7. CASE HeldParams(e)
  BY <1>1, <1>4, <1>7, HeldAre DEF HeldParams, Busy, InMain
<1>8. CASE HeldResult(e)
  BY <1>1, <1>3, <1>4, <1>8, HeldAre DEF HeldResult, Busy, InMain, Phased
<1> QED BY <1>2, <1>5, <1>6, <1>7, <1>8

\* What a hold of h[2] is below is one of its own nodes, or h[2] is in it.
LEMMA HoldUp ==
  ASSUME NEW s, WellFormed(s), NEW h \in Hold, NEW n \in Up(s, At(s, h))
  PROVE  /\ n \in Up(s, Self(h[2])) \/ n \in {Tmp(h[2]), Ret(h[2])}
         /\ \A q \in Elem : q # h[2] /\ n \in {Self(q), Tmp(q), Arg(q), Ret(q)} =>
              n \in Up(s, Self(h[2]))
<1>1. PICK e \in Elem : e = h[2] /\ h \in {SelfHold(e), ValueHold(e), ParamsHold(e), ResultHold(e)}
  BY HoldsDiffer
<1>2. At(s, h) \in {Self(e), Tmp(e), Ret(e)}
  BY <1>1, AtIs
<1>3. n \in Up(s, Self(e)) \/ n \in {Tmp(e), Ret(e)}
  BY <1>2, UpIs
<1> QED BY <1>1, <1>3, NodesDiffer

LEMMA SourceIs ==
  ASSUME NEW s, NEW e \in Elem
  PROVE  Source(s, e) =
           IF ChildSet(s, e, IF s.kind[e] = "variable" THEN "content" ELSE "value") # {}
           THEN "nodelist"
           ELSE IF s.ref[e] # 0 THEN "variable" ELSE "constant"
BY ChildrenAre DEF Source

\* A call that is left on a node waits for it.
LEMMA Waits ==
  ASSUME Counted, Placed, NEW n \in Node, NEW x \in ToSet(tcb[n])
  PROVE  count[n] > 0 /\ MayWait(x, n) /\ x \in Queued
BY QueuedIs DEF Placed

\* The parts of the invariant.
LEMMA InvIs ==
  ASSUME NEW B, Inv(B)
  PROVE  /\ WellFormed(sheet) /\ TypeOK /\ QueuesApart(main, tcb) /\ TreeOK(sheet, kids)
         /\ Begun(B) /\ Spare /\ Cursor /\ Counted /\ Standing /\ Reserve /\ Phase /\ Placed
         /\ FirstsClosed /\ Kept /\ Logs /\ Pairs /\ Scope(B) /\ Ended
         /\ main \in Seq(Call) /\ tcb \in [Node -> Seq(Call)] /\ count \in [Node -> Nat]
         /\ kids \in [Node -> Seq(Node)] /\ Holds \subseteq Hold
BY SheetsAssumption, HeldAre DEF Inv, Shape, Order, TypeOK

\* What a sheet says of an element.
LEMMA KindsAre ==
  ASSUME NEW s, WellFormed(s), NEW e \in Elem
  PROVE  /\ s.kind[e] \in Kind /\ s.up[e] \in Elem \cup {0} /\ s.ref[e] \in Elem \cup {0}
         /\ s.slot[e] \in Slot
         /\ s.up[e] # 0 => << s.kind[s.up[e]], s.slot[e] >> \in Parts
         /\ s.ref[e] # 0 => s.kind[s.ref[e]] = "variable"
BY DEF WellFormed

\* No node of an element is above the node of the element.
LEMMA UpOwn ==
  ASSUME NEW s, WellFormed(s), NEW e \in Elem
  PROVE  /\ Tmp(e) \notin Up(s, Self(e)) /\ Arg(e) \notin Up(s, Self(e))
         /\ Ret(e) \notin Up(s, Self(e)) /\ Text(e) \notin Up(s, Self(e))
         /\ Self(e) \notin Up(s, Place(s, e))
         /\ Self(e) \in Up(s, Self(e)) /\ Tmp(e) \in Up(s, Arg(e))
<1>1. /\ Rank(Self(e)) = 5 * e /\ Rank(Tmp(e)) = 5 * e + 1 /\ Rank(Ret(e)) = 5 * e + 2
      /\ Rank(Arg(e)) = 5 * e + 3 /\ Rank(Text(e)) = 5 * e + 4 /\ e \in Nat
  BY RankIs, ElemNumbers
<1>2. \A m \in Up(s, Self(e)) : m = Self(e) \/ Rank(m) < Rank(Self(e))
  BY UpFacts, NodesDiffer
<1>3. Place(s, e) \in Node /\ Rank(Place(s, e)) < 5 * e
  BY PlaceIs
<1>4. \A m \in Up(s, Place(s, e)) : m = Place(s, e) \/ Rank(m) < Rank(Place(s, e))
  BY <1>3, UpFacts
<1>5. \A n \in Node : Rank(n) \in Nat
  BY RankIs
<1> DEFINE R == Rank(Self(e))
<1>6. /\ ~ (Rank(Tmp(e)) < R) /\ ~ (Rank(Ret(e)) < R) /\ ~ (Rank(Arg(e)) < R)
      /\ ~ (Rank(Text(e)) < R)
  BY <1>1
<1>7. Self(e) \notin Up(s, Place(s, e))
  BY <1>1, <1>3, <1>4, <1>5, NodesDiffer
<1>8. Self(e) \in Up(s, Self(e)) /\ Tmp(e) \in Up(s, Arg(e))
  BY UpFacts, UpIs, NodesDiffer
<1> QED BY <1>2, <1>6, <1>7, <1>8, NodesDiffer

\* An element whose first call is to come: its place stands in the document,
\* and what that is in has not been taken.
LEMMA FirstIn ==
  ASSUME NEW B, Inv(B), NEW e \in Elem, First(e) \in Queued
  PROVE  /\ Stands(sheet, kids, Place(sheet, e))
         /\ \A q \in Elem : q # e => KeptIn(e, q)
<1> DEFINE a == Place(sheet, e)
           p == sheet.up[e]
<1>1. WellFormed(sheet) /\ TypeOK /\ TreeOK(sheet, kids)
  BY InvIs
<1>2. Up(sheet, Self(e)) = {Self(e)} \cup Up(sheet, a)
  BY <1>1, UpIs
<1>3. CASE a \in {Response, Var}
  <2>1. Hangs(sheet, kids, Response) /\ Hangs(sheet, kids, Var) /\ Hangs(sheet, kids, Doc)
    BY InvIs DEF Standing, Hangs
  <2>2. Up(sheet, a) \subseteq {Response, Var, Doc}
    BY <1>1, <1>3, UpIs
  <2> QED BY <1>2, <2>1, <2>2, NodesDiffer DEF Stands, KeptIn
<1>4. CASE a \notin {Response, Var}
  <2>1. p \in Elem /\ a \in {Self(p), Arg(p), Ret(p)}
    BY <1>1, <1>4, PlaceIs
  <2>2. /\ a = Arg(p) => sheet.slot[e] = "value" /\ Kin(p) \in {"value-of", "include"}
        /\ a = Ret(p) => sheet.slot[e] # "value" /\ Kin(p) \in {"if", "include"}
        /\ a = Self(p) => sheet.slot[e] # "value" /\ Kin(p) \in {"copy", "log", "variable"}
    BY <1>1, <2>1, PlacedIn DEF Kin
  <2>3. Kin(p) # "response"
    BY <2>1, <2>2
  <2>4. Awaited(e, p)
    BY <2>1, <2>3, InvIs DEF FirstsClosed
  <2>5. main \in Seq(Call) /\ Closer(e) \in ToSet(main)
    <3>1. main \in Seq(Call) /\ InFront(main, First(e), Closer(e))
      BY <2>4, InvIs DEF Awaited
    <3> QED BY <3>1, InFrontMembers
  <2>6. Closer(e) \in Queued
    BY <2>5, QueuedIs
  <2>7. /\ sheet.slot[e] = "value" => Set(p) \in Queued
        /\ sheet.slot[e] # "value" => Again(p) \in Queued
    BY <2>6 DEF Closer
  <2>8. Busy(p)
    BY <2>7 DEF Busy
  <2>9. Stands(sheet, kids, Self(p)) /\ Stocked(p) /\ Phased(p)
    BY <2>1, <2>3, <2>8, InvIs DEF Standing, Reserve, Phase
  <2>10. ~ Closed(B, p, sheet.slot[e])
    BY <2>1, InvIs, KindsAre, ElemNumbers DEF Begun
  <2>11. << Kin(p), sheet.slot[e] >> \in Parts
    BY <1>1, <2>1, KindsAre, ElemNumbers DEF Kin
  <2>12. a = Ret(p) /\ Kin(p) = "if" => stage[p] = "result" /\ HasResult(p)
    BY <2>2, <2>7, <2>8, <2>9, <2>10, <2>11 DEF Closed, Parts, Phased, Stocked
  <2>13. a = Ret(p) /\ Kin(p) = "include" => ~ Early(p) /\ HasResult(p)
    BY <2>2, <2>4, <2>10 DEF Closed, Awaited, HeldResult
  <2>14. a = Arg(p) => Hangs(sheet, kids, Arg(p)) /\ Hangs(sheet, kids, Tmp(p))
    <3> SUFFICES ASSUME a = Arg(p) PROVE Hangs(sheet, kids, Arg(p)) /\ Hangs(sheet, kids, Tmp(p))
      OBVIOUS
    <3>1. e \in ChildSet(sheet, p, "value")
      BY <2>2 DEF ChildSet
    <3>2. Source(sheet, p) = "nodelist"
      BY <2>1, <2>2, <3>1, SourceIs DEF Kin
    <3> QED BY <2>2, <2>7, <2>8, <2>9, <3>2 DEF Stocked
  <2>15. /\ Up(sheet, Arg(p)) = {Arg(p), Tmp(p)} \cup Up(sheet, Self(p))
         /\ Up(sheet, Ret(p)) = {Ret(p)} \cup Up(sheet, Self(p))
    BY <1>1, <2>1, UpIs
  <2>16. Above(sheet, Ret(p)) = Self(p)
    BY <2>1, AboveIs
  <2>17. a = Ret(p) => Hangs(sheet, kids, Ret(p))
    BY <2>2, <2>12, <2>13, <2>16 DEF Hangs, HasResult
  <2>18. Stands(sheet, kids, a)
    BY <2>1, <2>9, <2>14, <2>15, <2>17 DEF Stands
  <2>19. ASSUME NEW q \in Elem, q # e PROVE KeptIn(e, q)
    <3>1. CASE q = p
      <4>1. /\ Tmp(p) \notin Up(sheet, Self(p)) /\ Arg(p) \notin Up(sheet, Self(p))
            /\ Ret(p) \notin Up(sheet, Self(p))
        BY <1>1, <2>1, UpOwn
      <4>2. /\ Arg(p) \in Up(sheet, Self(e)) => a = Arg(p)
            /\ Ret(p) \in Up(sheet, Self(e)) => a = Ret(p)
        BY <1>2, <2>1, <2>15, <2>19, <3>1, <4>1, NodesDiffer
      <4>3. Kin(p) = "log" => sheet.slot[e] # "value"
        BY <2>11 DEF Parts
      <4> QED BY <2>2, <2>7, <2>12, <2>13, <3>1, <4>2, <4>3 DEF KeptIn
    <3>2. CASE q # p
      <4>1. KeptIn(p, q)
        BY <2>1, <2>3, <2>8, <3>2, InvIs DEF Kept
      <4>2. \A n \in {Self(q), Arg(q), Ret(q)} :
              n \in Up(sheet, Self(e)) => n \in Up(sheet, Self(p))
        BY <1>2, <2>1, <2>15, <2>19, <3>2, NodesDiffer
      <4> QED BY <4>1, <4>2 DEF KeptIn
    <3> QED BY <3>1, <3>2
  <2> QED BY <2>18, <2>19
<1> QED BY <1>3, <1>4

\* What the head of the main queue is in front of.
LEMMA HeadFirst ==
  ASSUME NEW B, Inv(B), main # <<>>
  PROVE  /\ Head(main) \in ToSet(main) /\ Head(main) \in Call /\ Head(main) \in Queued
         /\ \A x : ~ InFront(main, x, Head(main)) /\ ~ NextTo(main, x, Head(main))
         /\ \A m \in Node : Head(main) \notin ToSet(tcb[m])
<1>1. main \in Seq(Call) /\ QueuesApart(main, tcb)
  BY InvIs
<1>2. IsInjective(main) /\ \A m \in Node : ToSet(main) \cap ToSet(tcb[m]) = {}
  BY <1>1, InvIs DEF QueuesApart
<1>3. Head(main) \in ToSet(main) /\ Head(main) \in Call
  BY <1>1, <1>2, Popped
<1>4. \A x : ~ InFront(main, x, Head(main))
  BY <1>1, <1>2, InFrontOfHead
<1>5. \A x, y : NextTo(main, x, y) => InFront(main, x, y)
  <2>1. main \o <<>> = main /\ <<>> \in Seq(Call)
    BY <1>1
  <2> QED BY <1>1, <2>1, NextToKept
<1> QED BY <1>2, <1>3, <1>4, <1>5, QueuedIs

\* When a later call of an element is made, those of its parts that have been
\* opened have been begun.
LEMMA NoFirsts ==
  ASSUME NEW B, Inv(B), NEW e \in Elem, main # <<>>, Head(main) \in {Again(e), Set(e)},
         Kin(e) # "response", NEW d \in Elem, sheet.up[d] = e
  PROVE  First(d) \notin Queued
<1> SUFFICES ASSUME First(d) \in Queued PROVE FALSE
  OBVIOUS
<1>1. InFront(main, First(d), Closer(d))
  BY InvIs DEF FirstsClosed, Awaited
<1>2. Closer(d) # Head(main) /\ Closer(d) \in ToSet(main)
  BY <1>1, InvIs, HeadFirst, InFrontMembers
<1>0. WellFormed(sheet) /\ e # 0
  BY InvIs, ElemNumbers
<1>3. << Kin(e), sheet.slot[d] >> \in Parts
  BY <1>0, KindsAre DEF Kin
<1>4. Phased(e) /\ Paired(e) /\ ~ Closed(B, e, sheet.slot[d])
  BY InvIs, ElemNumbers DEF Phase, Pairs, Begun
<1>5. Closer(d) \in Queued /\ Head(main) \in Queued
  BY <1>2, QueuedIs, HeadFirst
<1>6. Set(e) \in Queued
  BY <1>2, <1>5 DEF Closer
<1>7. CASE sheet.slot[d] = "value"
  <2>1. Closer(d) = Set(e) /\ Head(main) = Again(e)
    BY <1>2, <1>7 DEF Closer
  <2>2. d \in ChildSet(sheet, e, "value") /\ Kin(e) # "variable"
    BY <1>3, <1>7 DEF ChildSet, Parts
  <2>3. Source(sheet, e) = "nodelist"
    BY <2>2, SourceIs DEF Kin
  <2>4. NextTo(main, Set(e), Again(e))
    BY <1>2, <1>4, <1>6, <2>1, <2>2, <2>3 DEF Paired, InMain
  <2> QED BY <2>1, <2>4, HeadFirst
<1>8. CASE sheet.slot[d] # "value"
  <2>1. Closer(d) = Again(e) /\ Head(main) = Set(e)
    BY <1>2, <1>8 DEF Closer
  <2>2. Kin(e) \in {"if", "include", "variable"}
    BY <1>3, <1>4, <1>6, <1>8 DEF Phased, Parts
  <2>3. CASE Kin(e) = "variable"
    <3>1. d \in ChildSet(sheet, e, "content")
      BY <1>3, <2>3 DEF ChildSet, Parts
    <3>2. Source(sheet, e) = "nodelist"
      BY <2>3, <3>1, SourceIs DEF Kin
    <3> QED BY <1>4, <1>6, <2>3, <3>2 DEF Phased
  <2>4. CASE Kin(e) \in {"if", "include"}
    BY <1>3, <1>4, <1>6, <1>8, <2>4 DEF Phased, Closed, Early, Parts
  <2> QED BY <2>2, <2>3, <2>4
<1> QED BY <1>7, <1>8

\* A call takes what is in its node when nothing else there is held: then
\* nothing there has a call to come.
LEMMA GateClear ==
  ASSUME NEW B, Inv(B), NEW e \in Elem, main # <<>>, Head(main) \in {Again(e), Set(e)},
         \A h \in Holds : Gate(Head(main)) \in Up(sheet, At(sheet, h)) => h[2] = e,
         NEW d \in Elem, d # e, Kin(d) # "response", Gate(Head(main)) \in Up(sheet, Self(d))
  PROVE  ~ Busy(d)
<1> SUFFICES ASSUME Busy(d) PROVE FALSE
  OBVIOUS
<1>1. Phased(d) /\ WellFormed(sheet) /\ main \in Seq(Call)
  BY InvIs DEF Phase
<1>2. Kin(d) # "text"
  BY <1>1 DEF Busy, Phased
<1>3. CASE Kin(d) # "log"
  <2>1. SelfHold(d) \in Holds
    BY <1>2, <1>3, HeldAre DEF HeldSelf
  <2>2. At(sheet, SelfHold(d)) = Self(d) /\ SelfHold(d)[2] = d
    BY AtIs, HoldsDiffer
  <2> QED BY <2>1, <2>2
<1>4. CASE Kin(d) = "log"
  <2> DEFINE x == Head(main)
  <2>1. Again(d) \in Queued
    BY <1>1, <1>4 DEF Busy, Phased
  <2>2. x \in Call /\ InMain(x)
    BY HeadFirst DEF InMain
  <2>3. Closes(x, d)
    BY CallsDiffer DEF Closes
  <2>4. LogOrder(d, x)
    BY <1>4, <2>2, <2>3, InvIs DEF Logs
  <2>5. ~ InFront(main, Again(d), x)
    BY HeadFirst
  <2>6. InMain(Again(d)) /\ count[Self(d)] # 0 /\ count[Self(d)] \in Nat
    BY <2>1, <2>2, <2>4, <2>5, InvIs, NodesDiffer DEF LogOrder
  <2>7. SelfHold(d) \in Holds
    BY <1>4, <2>6, HeldAre DEF HeldSelf
  <2>8. At(sheet, SelfHold(d)) = Self(d) /\ SelfHold(d)[2] = d
    BY AtIs, HoldsDiffer
  <2> QED BY <2>7, <2>8
<1> QED BY <1>3, <1>4
-----------------------------------------------------------------------------
(***************************************************************************)
(* One call of the loop, as far as other elements can tell: e is the       *)
(* element it is a call of.                                                *)
(***************************************************************************)
\* The counters become those of the holds H: only the holds of e change.
Counts(e, H) ==
  /\ H \subseteq Hold /\ count' = Tally(sheet, H)
  /\ \A h \in Hold : h[2] # e => (h \in H <=> h \in Holds)
  /\ H \subseteq Holds \/ Head(main) = First(e) \/ SelfHold(e) \in Holds

\* The call is made, schedules cbs and leaves c on the node k, if it is one.
Queues(e, cbs, k, c) ==
  /\ main # <<>> /\ Head(main) \in {First(e), Again(e), Set(e)}
  /\ NewPlaces(main, tcb, count', cbs, k, c, main', tcb')
  /\ NewOrder(sheet, main, tcb, count', cbs, main')
  /\ k = NULL \/ (k \in Node /\ c \in {Again(e), Set(e)})
  /\ \A x \in ToSet(cbs) :
       x \in {Again(e), Set(e)} \/ \E d \in Elem : x = First(d) /\ sheet.up[d] = e

\* Nothing is done for another element.
Leaves(e) ==
  /\ sheet' = sheet /\ answer' = answer
  /\ \A f \in Elem : f # e =>
       /\ stage'[f] = stage[f] /\ bound'[f] = bound[f]
       /\ f \in requested' <=> f \in requested

\* The document: nodes are put where they belong, and if e is over, its node
\* makes way for its result.  B2 are the elements begun then.
Alters(e, B, B2, over) ==
  /\ B2 \subseteq Elem /\ TreeOK(sheet, kids')
  /\ \A m, n \in Node :
       n \in ToSet(kids[m]) /\ ~ (over /\ (n = Self(e) \/ m = Ret(e))) => n \in ToSet(kids'[m])
  /\ \A n \in Node :
       Loose(n) /\ n \notin { <<r, e>> : r \in Role } /\ (\A d \in B2 \ B : n # Self(d)) =>
         Loose(n)'

\* Nothing that is in e has a call to come.
Clear(e) ==
  \A d \in Elem : d # e /\ Kin(d) # "response" /\ Self(e) \in Up(sheet, Self(d)) => ~ Busy(d)

\* A node is ready when nothing is held at it or below it.
LEMMA CountsAre ==
  ASSUME NEW B, Inv(B), NEW e \in Elem, NEW H, Counts(e, H)
  PROVE  /\ count' \in [Node -> Nat]
         /\ \A n \in Node : count[n] = 0 <=> \A h \in Holds : n \notin Up(sheet, At(sheet, h))
         /\ \A n \in Node : count'[n] = 0 <=> \A h \in H : n \notin Up(sheet, At(sheet, h))
         /\ \A n \in Node : (count[n] = 0 \/ count[n] > 0) /\ (count'[n] = 0 \/ count'[n] > 0)
         /\ \A m \in Node : \A n \in Up(sheet, m) :
              /\ count[m] > 0 => count[n] > 0
              /\ count'[m] > 0 => count'[n] > 0
<1>1. /\ WellFormed(sheet) /\ Holds \subseteq Hold /\ H \subseteq Hold
      /\ count = Tally(sheet, Holds) /\ count' = Tally(sheet, H)
  BY InvIs DEF Counts, Counted
<1>2. /\ count \in [Node -> Nat] /\ count' \in [Node -> Nat]
      /\ \A n \in Node : count[n] = 0 <=> \A h \in Holds : n \notin Up(sheet, At(sheet, h))
      /\ \A n \in Node : count'[n] = 0 <=> \A h \in H : n \notin Up(sheet, At(sheet, h))
  BY <1>1, TallyZero
<1>3. \A n \in Node : count[n] \in Nat /\ count'[n] \in Nat
  BY <1>2
<1>4. ASSUME NEW m \in Node, NEW n \in Up(sheet, m)
      PROVE  /\ count[m] > 0 => count[n] > 0
             /\ count'[m] > 0 => count'[n] > 0
  BY <1>1, TallyUp
<1> QED BY <1>2, <1>3, <1>4

\* No call holds a node of another element that was not held, but for the
\* parts an element opens.
LEMMA Raised ==
  ASSUME NEW B, Inv(B), NEW e \in Elem, NEW H, Counts(e, H), main # <<>>,
         NEW f \in Elem, f # e
  PROVE  /\ count'[Self(f)] > 0 => count[Self(f)] > 0
         /\ Kin(f) = "include" /\ count'[Tmp(f)] > 0 => count[Tmp(f)] > 0
         /\ Kin(f) = "include" /\ count'[Ret(f)] > 0 => count[Ret(f)] > 0
<1> DEFINE a == Place(sheet, e)
           p == sheet.up[e]
<1>1. WellFormed(sheet) /\ TypeOK
  BY InvIs
<1> SUFFICES ASSUME NEW n \in {Self(f), Tmp(f), Ret(f)}, n # Self(f) => Kin(f) = "include",
                    count'[n] > 0, ~ (count[n] > 0)
             PROVE  FALSE
  OBVIOUS
<1>2. n \in Node /\ count[n] = 0
  BY CountsAre, NodesDiffer
<1>3. PICK h \in H : n \in Up(sheet, At(sheet, h))
  BY <1>2, CountsAre
<1>4. h \notin Holds /\ h \in Hold /\ h[2] = e
  <2>1. h \notin Holds
    BY <1>2, <1>3, CountsAre
  <2> QED BY <2>1 DEF Counts
<1>5. n \in Up(sheet, Self(e))
  BY <1>1, <1>3, <1>4, HoldUp
<1>6. \A g \in Elem : n \in Up(sheet, Self(g)) => SelfHold(g) \notin Holds
  <2>1. \A g \in Elem : At(sheet, SelfHold(g)) = Self(g)
    BY AtIs
  <2>2. \A g \in Holds : n \notin Up(sheet, At(sheet, g))
    BY <1>2, CountsAre
  <2> QED BY <2>1, <2>2
<1>7. Head(main) = First(e) /\ First(e) \in Queued
  <2>1. Head(main) = First(e)
    BY <1>4, <1>5, <1>6 DEF Counts
  <2> QED BY <2>1, HeadFirst
<1>8. n \in Up(sheet, a)
  BY <1>1, <1>5, UpIs, NodesDiffer
<1>9. p \in Elem /\ a \in {Self(p), Arg(p), Ret(p)}
  <2>1. a \notin {Response, Var}
    BY <1>1, <1>8, UpIs, NodesDiffer
  <2> QED BY <1>1, <2>1, PlaceIs
<1>10. /\ a = Arg(p) => sheet.slot[e] = "value" /\ Kin(p) \in {"value-of", "include"}
       /\ a = Ret(p) => sheet.slot[e] # "value" /\ Kin(p) \in {"if", "include"}
       /\ a = Self(p) => Kin(p) \in {"copy", "log", "variable"}
  BY <1>1, <1>9, PlacedIn DEF Kin
<1>11. Awaited(e, p) /\ Kin(p) # "response"
  BY <1>7, <1>9, <1>10, InvIs DEF FirstsClosed
<1>12. SelfHold(p) \in Holds
  BY <1>9, <1>11, HeldAre DEF Awaited
<1>13. n \notin Up(sheet, Self(p))
  BY <1>6, <1>9, <1>12
<1>14. /\ Up(sheet, Arg(p)) = {Arg(p), Tmp(p)} \cup Up(sheet, Self(p))
       /\ Up(sheet, Ret(p)) = {Ret(p)} \cup Up(sheet, Self(p))
  BY <1>1, <1>9, UpIs
<1>15. (n = Tmp(p) /\ a = Arg(p)) \/ (n = Ret(p) /\ a = Ret(p))
  BY <1>8, <1>9, <1>13, <1>14, NodesDiffer
<1>16. f = p /\ Kin(p) = "include"
  BY <1>9, <1>15, NodesDiffer
<1>17. CASE n = Tmp(p) /\ a = Arg(p)
  <2>1. ParamsHold(p) \in Holds /\ At(sheet, ParamsHold(p)) = Tmp(p)
    BY <1>9, <1>10, <1>11, <1>16, <1>17, HeldAre, AtIs DEF Awaited
  <2> QED BY <1>1, <1>2, <1>17, <2>1, CountsAre, UpFacts
<1>18. CASE n = Ret(p) /\ a = Ret(p)
  <2>1. ResultHold(p) \in Holds /\ At(sheet, ResultHold(p)) = Ret(p)
    BY <1>9, <1>10, <1>11, <1>16, <1>18, HeldAre, AtIs DEF Awaited
  <2> QED BY <1>1, <1>2, <1>18, <2>1, CountsAre, UpFacts
<1> QED BY <1>15, <1>17, <1>18

\* Where the calls are after the call.
LEMMA QueuesAre ==
  ASSUME NEW B, Inv(B), NEW e \in Elem, NEW cbs, NEW k, NEW c, Queues(e, cbs, k, c)
  PROVE  /\ main' \in Seq(Call) /\ tcb' \in [Node -> Seq(Call)] /\ QueuesApart(main', tcb')
         /\ \A x : x \in Queued' <=> \/ x \in Queued /\ x # Head(main)
                                     \/ x \in ToSet(cbs)
                                     \/ k # NULL /\ x = c
         /\ \A x : InMain(x)' <=> \/ InMain(x) /\ x # Head(main)
                                  \/ \E m \in Node : count'[m] = 0 /\ x \in ToSet(tcb[m])
                                  \/ x \in ToSet(cbs)
<1>1. NewPlaces(main, tcb, count', cbs, k, c, main', tcb')
  BY DEF Queues
<1>2. /\ main' \in Seq(Call) /\ tcb' \in [Node -> Seq(Call)] /\ QueuesApart(main', tcb')
      /\ \A x : x \in ToSet(main') <=> \/ x \in ToSet(main) \ {Head(main)}
                                       \/ \E m \in Node : count'[m] = 0 /\ x \in ToSet(tcb[m])
                                       \/ x \in ToSet(cbs)
      /\ \A m \in Node : \A x : x \in ToSet(tcb'[m]) <=>
              (count'[m] # 0 /\ x \in ToSet(tcb[m])) \/ (m = k /\ x = c)
  BY <1>1 DEF NewPlaces
<1>3. k = NULL \/ k \in Node
  BY DEF Queues
<1>4. \A m \in Node : Head(main) \notin ToSet(tcb[m])
  BY HeadFirst DEF Queues
<1>5. \A x : x \in Queued' <=> \/ x \in Queued /\ x # Head(main)
                               \/ x \in ToSet(cbs)
                               \/ k # NULL /\ x = c
  <2> SUFFICES ASSUME NEW x
               PROVE  x \in Queued' <=> (x \in Queued /\ x # Head(main)) \/ x \in ToSet(cbs)
                                         \/ (k # NULL /\ x = c)
    OBVIOUS
  <2>1. x \in Queued <=> x \in ToSet(main) \/ \E m \in Node : x \in ToSet(tcb[m])
    BY QueuedIs
  <2>2. x \in Queued' <=> x \in ToSet(main') \/ \E m \in Node : x \in ToSet(tcb'[m])
    BY QueuedIs
  <2>3. ASSUME x \in Queued'
        PROVE  (x \in Queued /\ x # Head(main)) \/ x \in ToSet(cbs) \/ (k # NULL /\ x = c)
    BY <1>2, <1>3, <1>4, <2>1, <2>2, <2>3, NodesDiffer
  <2>4. ASSUME x \in Queued, x # Head(main) PROVE x \in Queued'
    BY <1>2, <2>1, <2>2, <2>4
  <2>5. ASSUME x \in ToSet(cbs) PROVE x \in Queued'
    BY <1>2, <2>2, <2>5
  <2>6. ASSUME k # NULL, x = c PROVE x \in Queued'
    BY <1>2, <1>3, <2>2, <2>6
  <2> QED BY <2>3, <2>4, <2>5, <2>6
<1> QED BY <1>2, <1>5 DEF InMain

\* A call of one element leaves the calls of the others what they are.
LEMMA OthersAre ==
  ASSUME NEW B, Inv(B), NEW e \in Elem, NEW cbs, NEW k, NEW c, Queues(e, cbs, k, c),
         Leaves(e), NEW f \in Elem, f # e
  PROVE  /\ Again(f) \in Queued' <=> Again(f) \in Queued
         /\ Set(f) \in Queued' <=> Set(f) \in Queued
         /\ InMain(Again(f)) => InMain(Again(f))'
         /\ InMain(Set(f)) => InMain(Set(f))'
         /\ Busy(f)' <=> Busy(f)
         /\ Awaits(f)' <=> Awaits(f)
<1>1. /\ k # NULL => c \in {Again(e), Set(e)}
      /\ Head(main) \in {First(e), Again(e), Set(e)}
      /\ \A x \in ToSet(cbs) : x \in {Again(e), Set(e)} \/ \E d \in Elem : x = First(d)
  BY DEF Queues
<1>2. /\ Again(f) # Head(main) /\ Set(f) # Head(main)
      /\ Again(f) \notin ToSet(cbs) /\ Set(f) \notin ToSet(cbs)
      /\ k # NULL => Again(f) # c /\ Set(f) # c
  <2>1. \A x : x \in {First(e), Again(e), Set(e)} => x # Again(f) /\ x # Set(f)
    BY CallsDiffer
  <2>2. \A d : First(d) # Again(f) /\ First(d) # Set(f)
    BY CallsDiffer
  <2> QED BY <1>1, <2>1, <2>2
<1>3. /\ Again(f) \in Queued' <=> Again(f) \in Queued
      /\ Set(f) \in Queued' <=> Set(f) \in Queued
      /\ InMain(Again(f)) => InMain(Again(f))'
      /\ InMain(Set(f)) => InMain(Set(f))'
  BY <1>2, QueuesAre
<1>4. stage'[f] = stage[f]
  BY DEF Leaves
<1>5. Busy(f)' <=> Busy(f)
  BY <1>3, <1>4 DEF Busy
<1>6. Awaits(f)' <=> Awaits(f)
  BY DEF Leaves, Awaits
<1> QED BY <1>3, <1>5, <1>6

\* The nodes of the other elements.
LEMMA NodesKept ==
  ASSUME NEW B, Inv(B), NEW e \in Elem, NEW B2, NEW over, Alters(e, B, B2, over), Leaves(e),
         NEW f \in Elem, f # e
  PROVE  /\ \A n \in {Tmp(f), Arg(f), Ret(f)} :
              /\ Hangs(sheet', kids', n) <=> Hangs(sheet, kids, n)
              /\ Loose(n)' <=> Loose(n)
         /\ Loose(Text(f)) => Loose(Text(f))'
         /\ f \notin B2 \ B /\ Loose(Self(f)) => Loose(Self(f))'
         /\ HasResult(f)' <=> HasResult(f)
         /\ Early(f)' <=> Early(f)
<1>1. TreeOK(sheet, kids) /\ TreeOK(sheet, kids') /\ sheet' = sheet
  BY InvIs DEF Alters, Leaves
<1>2. ASSUME NEW K, TreeOK(sheet, K), NEW n \in {Tmp(f), Arg(f), Ret(f)}
      PROVE  Hangs(sheet, K, n) <=> ~ \A m \in Node : n \notin ToSet(K[m])
  <2>1. n # Doc /\ Above(sheet, n) \in Node
    BY AboveIs, NodesDiffer
  <2>2. \A m \in Node : n \in ToSet(K[m]) => m = Above(sheet, n)
    BY <1>2 DEF TreeOK, Fixed
  <2> QED BY <2>1, <2>2 DEF Hangs
<1>3. \A r \in Role : <<r, e>> \in {Self(e), Tmp(e), Arg(e), Ret(e), Text(e)}
  BY DEF Role, Self, Tmp, Arg, Ret, Text
<1>4. \A n \in {Tmp(f), Arg(f), Ret(f), Text(f), Self(f)} :
        /\ n \in Node /\ n # Self(e) /\ n \notin {<<r, e>> : r \in Role}
        /\ n # Self(f) => \A d \in Elem : n # Self(d)
  BY <1>3, NodesDiffer
<1>5. B2 \subseteq Elem
  BY DEF Alters
<1>6. ASSUME NEW n \in {Tmp(f), Arg(f), Ret(f), Text(f)}
      PROVE  Loose(n) => Loose(n)'
  <2>1. n # Self(f)
    BY NodesDiffer
  <2>2. n \in Node /\ n \notin {<<r, e>> : r \in Role} /\ \A d \in B2 \ B : n # Self(d)
    BY <1>4, <1>5, <2>1
  <2> QED BY <2>2 DEF Alters
<1>7. f \notin B2 \ B /\ Loose(Self(f)) => Loose(Self(f))'
  <2>1. \A d : Self(d) = Self(f) => d = f
    BY DEF Self
  <2> QED BY <1>4, <2>1 DEF Alters
<1>8. ASSUME NEW n \in {Tmp(f), Arg(f), Ret(f)}
      PROVE  /\ Hangs(sheet', kids', n) <=> Hangs(sheet, kids, n)
             /\ Loose(n)' <=> Loose(n)
  <2>1. Hangs(sheet, kids, n) <=> ~ Loose(n)
    BY <1>1, <1>2 DEF Loose
  <2>2. Hangs(sheet', kids', n) <=> ~ Loose(n)'
    BY <1>1, <1>2 DEF Loose
  <2>3. ASSUME Hangs(sheet, kids, n) PROVE Hangs(sheet', kids', n)
    <3>1. n \in Node /\ n # Doc /\ Above(sheet, n) \in Node /\ n \in ToSet(kids[Above(sheet, n)])
      BY <2>3, NodesDiffer, AboveIs DEF Hangs
    <3>2. n # Self(e) /\ Above(sheet, n) # Ret(e)
      <4>1. Above(sheet, n) \in {Self(f), Tmp(f)}
        BY AboveIs
      <4> QED BY <1>4, <4>1, NodesDiffer
    <3> QED BY <1>1, <3>1, <3>2 DEF Alters, Hangs
  <2> QED BY <1>6, <2>1, <2>2, <2>3
<1>9. HasResult(f)' <=> HasResult(f)
  <2>1. Above(sheet, Ret(f)) = Self(f) /\ Ret(f) # Doc
    BY AboveIs, NodesDiffer
  <2>2. Hangs(sheet', kids', Ret(f)) <=> Hangs(sheet, kids, Ret(f))
    BY <1>8
  <2> QED BY <1>1, <2>1, <2>2 DEF HasResult, Hangs
<1>10. Early(f)' <=> Early(f)
  BY <1>9 DEF Early, Leaves
<1> QED BY <1>6, <1>7, <1>8, <1>9, <1>10

\* The holds of the other elements.
LEMMA HoldsKept ==
  ASSUME NEW B, Inv(B), NEW e \in Elem, NEW H, Counts(e, H),
         NEW cbs, NEW k, NEW c, Queues(e, cbs, k, c), Leaves(e),
         NEW B2, NEW over, Alters(e, B, B2, over), NEW f \in Elem, f # e
  PROVE  /\ HeldSelf(f)' <=> HeldSelf(f)
         /\ HeldValue(f)' <=> HeldValue(f)
         /\ HeldParams(f)' <=> HeldParams(f)
         /\ HeldResult(f)' <=> HeldResult(f)
<1>1. /\ Busy(f)' <=> Busy(f)
      /\ Set(f) \in Queued' <=> Set(f) \in Queued
      /\ InMain(Again(f)) => InMain(Again(f))'
      /\ HasResult(f)' <=> HasResult(f)
  BY OthersAre, NodesKept
<1>2. stage'[f] = stage[f] /\ sheet' = sheet
  BY DEF Leaves
<1>3. HeldValue(f)' <=> HeldValue(f)
  BY <1>1, <1>2 DEF HeldValue
<1>4. HeldResult(f)' <=> HeldResult(f)
  BY <1>1, <1>2 DEF HeldResult, Kin
<1>5. main # <<>> /\ \A n \in Node : (count[n] = 0 \/ count[n] > 0) /\ (count'[n] = 0 \/ count'[n] > 0)
  BY CountsAre DEF Queues
<1>6. /\ count'[Self(f)] > 0 => count[Self(f)] > 0
      /\ Kin(f) = "include" /\ count'[Tmp(f)] > 0 => count[Tmp(f)] > 0
  BY <1>5, Raised
<1>7. /\ Again(f) # Head(main) /\ Again(f) \notin ToSet(cbs)
      /\ Again(f)[2] = f /\ Again(f)[1] = "again"
  BY CallsDiffer DEF Queues
<1>8. ASSUME InMain(Again(f))', ~ InMain(Again(f))
      PROVE  \E m \in Node : count'[m] = 0 /\ MayWait(Again(f), m)
  <2>1. PICK m \in Node : count'[m] = 0 /\ Again(f) \in ToSet(tcb[m])
    BY <1>7, <1>8, QueuesAre
  <2> QED BY <2>1, InvIs, Waits
<1>9. \A n \in Node : 0 # count'[n] => ~ (count'[n] = 0)
  OBVIOUS
<1>10. Self(f) \in Node /\ Tmp(f) \in Node
  BY NodesDiffer
<1>11. HeldSelf(f)' <=> HeldSelf(f)
  <2>1. CASE Kin(f) # "log"
    BY <1>1, <1>2, <2>1 DEF HeldSelf, Kin
  <2>2. CASE Kin(f) = "log"
    <3>1. ASSUME HeldSelf(f) PROVE HeldSelf(f)'
      <4>1. SelfHold(f) \in H /\ SelfHold(f) \in Hold
        BY <3>1, HeldAre, HoldsDiffer DEF Counts
      <4>2. Self(f) \in Up(sheet, At(sheet, SelfHold(f)))
        BY InvIs, AtIs, UpFacts, <1>10
      <4>3. count'[Self(f)] > 0
        BY <1>5, <1>10, <4>1, <4>2, CountsAre
      <4> QED BY <1>1, <1>2, <2>2, <3>1, <4>3 DEF HeldSelf, Kin
    <3>2. ASSUME HeldSelf(f)' PROVE HeldSelf(f)
      <4>1. InMain(Again(f))' /\ count'[Self(f)] > 0
        BY <1>2, <2>2, <3>2 DEF HeldSelf, Kin
      <4>2. ASSUME ~ InMain(Again(f)) PROVE FALSE
        <5>1. PICK m \in Node : count'[m] = 0 /\ MayWait(Again(f), m)
          BY <1>8, <4>1, <4>2
        <5>2. m = Self(f)
          BY <1>7, <2>2, <5>1 DEF MayWait
        <5> QED BY <4>1, <5>1, <5>2
      <4> QED BY <1>6, <2>2, <4>1, <4>2 DEF HeldSelf
    <3> QED BY <3>1, <3>2
  <2> QED BY <2>1, <2>2
<1>12. HeldParams(f)' <=> HeldParams(f)
  <2>1. ASSUME HeldParams(f) PROVE HeldParams(f)'
    <3>1. ParamsHold(f) \in H /\ ParamsHold(f) \in Hold
      BY <2>1, HeldAre, HoldsDiffer DEF Counts
    <3>2. Tmp(f) \in Up(sheet, At(sheet, ParamsHold(f)))
      BY InvIs, AtIs, UpFacts, <1>10
    <3>3. count'[Tmp(f)] > 0
      BY <1>5, <1>10, <3>1, <3>2, CountsAre
    <3> QED BY <1>1, <1>2, <2>1, <3>3 DEF HeldParams, Kin
  <2>2. ASSUME HeldParams(f)' PROVE HeldParams(f)
    <3>1. /\ InMain(Again(f))' /\ count'[Tmp(f)] > 0
          /\ Kin(f) = "include" /\ stage[f] = "PARAMS_BEGIN"
      BY <1>2, <2>2 DEF HeldParams, Kin
    <3>2. ASSUME ~ InMain(Again(f)) PROVE FALSE
      <4>1. PICK m \in Node : count'[m] = 0 /\ MayWait(Again(f), m)
        BY <1>8, <3>1, <3>2
      <4>2. m = Tmp(f)
        BY <1>7, <3>1, <4>1 DEF MayWait
      <4> QED BY <3>1, <4>1, <4>2
    <3> QED BY <1>6, <3>1, <3>2 DEF HeldParams
  <2> QED BY <2>1, <2>2
<1> QED BY <1>3, <1>4, <1>11, <1>12

\* What is busy elsewhere goes on standing.
LEMMA OthersStand ==
  ASSUME NEW B, Inv(B), NEW e \in Elem, NEW cbs, NEW k, NEW c, Queues(e, cbs, k, c), Leaves(e),
         NEW B2, NEW over, Alters(e, B, B2, over), over => Clear(e),
         NEW f \in Elem, f # e, Busy(f)', Kin(f) # "response"
  PROVE  Stands(sheet', kids', Self(f))
<1>1. Busy(f) /\ sheet' = sheet /\ WellFormed(sheet)
  BY OthersAre, InvIs DEF Leaves
<1>2. Stands(sheet, kids, Self(f))
  BY <1>1, InvIs DEF Standing
<1>3. over => Self(e) \notin Up(sheet, Self(f))
  BY <1>1 DEF Clear
<1>4. ASSUME NEW n \in Up(sheet, Self(f)) PROVE Hangs(sheet, kids', n)
  <2>1. n \in Node /\ Hangs(sheet, kids, n)
    BY <1>1, <1>2, UpFacts, NodesDiffer DEF Stands
  <2>2. CASE n = Doc
    BY <2>2 DEF Hangs
  <2>3. CASE n # Doc
    <3> DEFINE a == Above(sheet, n)
    <3>1. a \in Node /\ a \in Up(sheet, n)
      BY <1>1, <2>1, <2>3, AboveRanks, UpStep, UpFacts
    <3>2. a \in Up(sheet, Self(f))
      BY <1>1, <3>1, UpFacts, NodesDiffer
    <3>3. over => n # Self(e) /\ a # Ret(e)
      BY <1>1, <1>3, <3>2, PartOf, NodesDiffer
    <3>4. n \in ToSet(kids[a])
      BY <2>1, <2>3 DEF Hangs
    <3>5. n \in ToSet(kids'[a])
      BY <2>1, <3>1, <3>3, <3>4 DEF Alters
    <3> QED BY <3>5 DEF Hangs
  <2> QED BY <2>2, <2>3
<1> QED BY <1>1, <1>4 DEF Stands

\* And so do the nodes it is going to use.
LEMMA OthersStocked ==
  ASSUME NEW B, Inv(B), NEW e \in Elem, NEW cbs, NEW k, NEW c, Queues(e, cbs, k, c), Leaves(e),
         NEW B2, NEW over, Alters(e, B, B2, over), NEW f \in Elem, f # e
  PROVE  Stocked(f)' /\ Unused(f)'
<1>1. Stocked(f) /\ Unused(f) /\ sheet' = sheet /\ stage'[f] = stage[f]
  BY InvIs DEF Reserve, Spare, Leaves
<1>2. /\ Busy(f)' <=> Busy(f)
      /\ Set(f) \in Queued' <=> Set(f) \in Queued
  BY OthersAre
<1>3. /\ Hangs(sheet', kids', Tmp(f)) <=> Hangs(sheet, kids, Tmp(f))
      /\ Hangs(sheet', kids', Arg(f)) <=> Hangs(sheet, kids, Arg(f))
      /\ Hangs(sheet', kids', Ret(f)) <=> Hangs(sheet, kids, Ret(f))
      /\ HasResult(f)' <=> HasResult(f)
      /\ Early(f)' <=> Early(f)
      /\ Loose(Ret(f))' <=> Loose(Ret(f))
      /\ Loose(Text(f)) => Loose(Text(f))'
  BY NodesKept
<1>4. Stocked(f)'
  BY <1>1, <1>2, <1>3 DEF Stocked, Kin
<1>5. Unused(f)'
  BY <1>1, <1>2, <1>3 DEF Unused, Kin
<1> QED BY <1>4, <1>5

\* And its calls are those of its stage.
LEMMA OthersPhased ==
  ASSUME NEW B, Inv(B), NEW e \in Elem, NEW H, Counts(e, H),
         NEW cbs, NEW k, NEW c, Queues(e, cbs, k, c), Leaves(e), NEW f \in Elem, f # e
  PROVE  Phased(f)'
<1>1. Phased(f) /\ sheet' = sheet /\ stage'[f] = stage[f]
  BY InvIs DEF Phase, Leaves
<1>2. /\ Again(f) \in Queued' <=> Again(f) \in Queued
      /\ Set(f) \in Queued' <=> Set(f) \in Queued
      /\ InMain(Again(f)) => InMain(Again(f))'
      /\ Awaits(f)' <=> Awaits(f)
  BY OthersAre
<1>3. ASSUME Kin(f) = "include", stage[f] = "END", InMain(Again(f))' PROVE count'[Ret(f)] = 0
  <2>0. main # <<>> /\ Ret(f) \in Node
    BY NodesDiffer DEF Queues
  <2>1. CASE InMain(Again(f))
    <3>1. count[Ret(f)] = 0
      BY <1>1, <1>3, <2>1 DEF Phased
    <3>2. ~ (count[Ret(f)] > 0)
      BY <3>1
    <3>3. count'[Ret(f)] > 0 => count[Ret(f)] > 0
      BY <1>3, <2>0, Raised
    <3>4. count'[Ret(f)] = 0 \/ count'[Ret(f)] > 0
      BY <2>0, CountsAre
    <3> QED BY <3>2, <3>3, <3>4
  <2>2. CASE ~ InMain(Again(f))
    <3>1. /\ Again(f) # Head(main) /\ Again(f) \notin ToSet(cbs)
          /\ Again(f)[2] = f /\ Again(f)[1] = "again"
      BY CallsDiffer DEF Queues
    <3>2. PICK m \in Node : count'[m] = 0 /\ Again(f) \in ToSet(tcb[m])
      BY <1>3, <2>2, <3>1, QueuesAre
    <3>3. MayWait(Again(f), m)
      BY <3>2, InvIs, Waits
    <3>4. m = Ret(f)
      BY <1>3, <3>1, <3>3 DEF MayWait
    <3> QED BY <3>2, <3>4
  <2> QED BY <2>1, <2>2
<1> QED BY <1>1, <1>2, <1>3 DEF Phased, Kin

\* A call that has been left on a node may go on waiting there.
LEMMA StillPlaced ==
  ASSUME NEW B, Inv(B), NEW e \in Elem, NEW H, Counts(e, H),
         NEW cbs, NEW k, NEW c, Queues(e, cbs, k, c), Leaves(e),
         NEW B2, NEW over, Alters(e, B, B2, over), over => count'[Self(e)] = 0,
         Again(e) \in Queued /\ Again(e) # Head(main) => stage'[e] = stage[e],
         k # NULL => count'[k] > 0 /\ MayWait(c, k)'
  PROVE  Placed'
<1>0. \A m \in Node : \A x : x \in ToSet(tcb'[m]) <=>
        (count'[m] # 0 /\ x \in ToSet(tcb[m])) \/ (m = k /\ x = c)
  BY DEF Queues, NewPlaces
<1>1. sheet' = sheet /\ tcb' \in [Node -> Seq(Call)] /\ tcb \in [Node -> Seq(Call)]
  BY QueuesAre, InvIs DEF Leaves
<1> SUFFICES ASSUME NEW n \in Node, NEW x \in ToSet(tcb'[n])
             PROVE  count'[n] > 0 /\ MayWait(x, n)'
  BY DEF Placed
<1>2. (count'[n] # 0 /\ x \in ToSet(tcb[n])) \/ (n = k /\ x = c)
  BY <1>0
<1>3. CASE n = k /\ x = c
  BY <1>3, NodesDiffer
<1>4. CASE count'[n] # 0 /\ x \in ToSet(tcb[n])
  <2>1. count'[n] > 0
    BY <1>4, CountsAre
  <2>2. count[n] > 0 /\ MayWait(x, n) /\ x \in Queued
    BY <1>4, InvIs, Waits
  <2>3. x \in Call /\ x # Head(main) /\ main # <<>>
    <3>1. main # <<>>
      BY DEF Queues
    <3>2. x \in ToSet(tcb[n]) /\ tcb[n] \in Seq(Call)
      BY <1>1, <1>4
    <3>3. x \in Call
      BY <3>2 DEF ToSet
    <3> QED BY <3>1, <3>2, <3>3, HeadFirst
  <2>4. PICK f \in Elem : f = x[2] /\ x \in {First(f), Again(f), Set(f)}
    BY <2>3, CallsDiffer
  <2>5. x[1] = "again" => x = Again(f)
    BY <2>4, CallsDiffer
  <2>6. x[1] = "again" => stage'[f] = stage[f]
    BY <2>2, <2>3, <2>5 DEF Leaves
  <2>7. n \in ToSet(kids[Response]) => n \in ToSet(kids'[Response])
    <3>1. over => n # Self(e)
      BY <1>4
    <3> QED BY <3>1, NodesDiffer DEF Alters
  <2>8. MayWait(x, n)'
    BY <1>1, <2>2, <2>4, <2>6, <2>7 DEF MayWait, Kin
  <2> QED BY <2>1, <2>8
<1> QED BY <1>2, <1>3, <1>4

\* The first calls of what is written in e that are to come are the ones that
\* this call has scheduled.
LEMMA OwnFirsts ==
  ASSUME NEW B, Inv(B), NEW e \in Elem, NEW cbs, NEW k, NEW c, Queues(e, cbs, k, c),
         Kin(e) # "response", NEW d \in Elem, sheet.up[d] = e, First(d) \in Queued'
  PROVE  First(d) \in ToSet(cbs)
<1>1. main # <<>> /\ Head(main) \in {First(e), Again(e), Set(e)}
      /\ (k # NULL => c \in {Again(e), Set(e)})
  BY DEF Queues
<1>2. \A f : First(d) # Again(f) /\ First(d) # Set(f)
  BY CallsDiffer
<1>3. First(d) \in Queued \/ First(d) \in ToSet(cbs)
  BY <1>1, <1>2, QueuesAre
<1>4. First(d) \notin Queued
  <2>1. CASE Head(main) = First(e)
    <3>1. First(e) \in Queued /\ e # 0
      BY <1>1, <2>1, HeadFirst, ElemNumbers
    <3>2. e \notin B
      BY <3>1, InvIs DEF Begun
    <3> QED BY <3>1, <3>2, InvIs DEF Begun, Closed
  <2>2. CASE Head(main) \in {Again(e), Set(e)}
    BY <1>1, <2>2, NoFirsts
  <2> QED BY <1>1, <2>1, <2>2
<1> QED BY <1>3, <1>4

\* First calls stay in front of the call that takes their part.
LEMMA StillAwaited ==
  ASSUME NEW B, Inv(B), NEW e \in Elem, NEW H, Counts(e, H),
         NEW cbs, NEW k, NEW c, Queues(e, cbs, k, c), Leaves(e),
         NEW B2, NEW over, Alters(e, B, B2, over),
         \A d \in Elem : First(d) \in ToSet(cbs) /\ sheet.up[d] = e /\ Kin(e) # "response" =>
           Awaited(d, e)'
  PROVE  FirstsClosed'
<1>0. sheet' = sheet
  BY DEF Leaves
<1> SUFFICES ASSUME NEW d \in Elem, NEW p \in Elem, First(d) \in Queued', sheet.up[d] = p,
                    Kin(p) # "response"
             PROVE  Awaited(d, p)'
  BY <1>0 DEF FirstsClosed, Kin
<1>1. CASE p = e
  BY <1>1, OwnFirsts
<1>2. CASE p # e
  <2>1. /\ k # NULL => c \in {Again(e), Set(e)}
        /\ \A x \in ToSet(cbs) :
             x \in {Again(e), Set(e)} \/ \E f \in Elem : x = First(f) /\ sheet.up[f] = e
    BY DEF Queues
  <2>2. \A f : First(d) # Again(f) /\ First(d) # Set(f) /\ (First(d) = First(f) => d = f)
    BY CallsDiffer
  <2>3. First(d) \notin ToSet(cbs) /\ (k # NULL => First(d) # c)
    BY <1>2, <2>1, <2>2
  <2>4. First(d) \in Queued /\ First(d) # Head(main)
    BY <2>3, QueuesAre
  <2>5. Awaited(d, p)
    BY <2>4, InvIs DEF FirstsClosed
  <2>6. InFront(main, First(d), Closer(d)) => InFront(main', First(d), Closer(d))
    BY <2>4 DEF Queues, NewOrder
  <2>7. /\ HeldSelf(p)' <=> HeldSelf(p)
        /\ HeldParams(p)' <=> HeldParams(p)
        /\ HeldResult(p)' <=> HeldResult(p)
    BY <1>2, HoldsKept
  <2> QED BY <1>0, <2>5, <2>6, <2>7 DEF Awaited, Closer, Kin
<1> QED BY <1>1, <1>2

\* The call that takes the part of a busy element stays to come.
LEMMA StillKept ==
  ASSUME NEW B, Inv(B), NEW e \in Elem, NEW cbs, NEW k, NEW c, Queues(e, cbs, k, c), Leaves(e),
         NEW B2, NEW over, Alters(e, B, B2, over),
         \A d \in Elem : d # e /\ Busy(d) /\ Kin(d) # "response" => KeptIn(d, e)'
  PROVE  Kept'
<1>0. sheet' = sheet
  BY DEF Leaves
<1> SUFFICES ASSUME NEW d \in Elem, NEW q \in Elem, Busy(d)', Kin(d) # "response", d # q
             PROVE  KeptIn(d, q)'
  BY <1>0 DEF Kept, Kin
<1>1. CASE q = e
  BY <1>1, OthersAre
<1>2. CASE q # e
  <2>1. KeptIn(d, q)
    <3>1. CASE d # e
      <4>1. Busy(d)
        BY <3>1, OthersAre
      <4> QED BY <4>1, InvIs DEF Kept
    <3>2. CASE d = e
      <4>1. main # <<>> /\ Head(main) \in {First(e), Again(e), Set(e)}
        BY DEF Queues
      <4>2. Head(main) \in Queued
        BY <4>1, HeadFirst
      <4>3. CASE Head(main) = First(e)
        BY <1>2, <3>2, <4>2, <4>3, FirstIn
      <4>4. CASE Head(main) \in {Again(e), Set(e)}
        <5>1. Busy(e)
          BY <4>2, <4>4 DEF Busy
        <5> QED BY <3>2, <5>1, InvIs DEF Kept
      <4> QED BY <4>1, <4>3, <4>4
    <3> QED BY <3>1, <3>2
  <2>2. /\ Again(q) \in Queued' <=> Again(q) \in Queued
        /\ Set(q) \in Queued' <=> Set(q) \in Queued
        /\ stage'[q] = stage[q]
        /\ Early(q)' <=> Early(q)
    BY <1>2, OthersAre, NodesKept DEF Leaves
  <2> QED BY <1>0, <2>1, <2>2 DEF KeptIn, Kin
<1> QED BY <1>1, <1>2

\* What closes a part a log is in waits, if it does, for that part.
LEMMA GateWaits ==
  ASSUME NEW B, Inv(B), NEW g \in Elem, Kin(g) = "log", Busy(g), NEW x, Closes(x, g),
         NEW m \in Node, x \in ToSet(tcb[m])
  PROVE  m = Gate(x) /\ m # Self(g)
<1>1. WellFormed(sheet) /\ tcb \in [Node -> Seq(Call)]
  BY InvIs
<1>2. x \in Call /\ MayWait(x, m)
  <2>1. tcb[m] \in Seq(Call)
    BY <1>1
  <2> QED BY <2>1, InvIs, Waits DEF ToSet
<1>3. PICK q \in Elem : q = x[2] /\ x \in {Again(q), Set(q)}
  BY <1>2, CallsDiffer DEF Closes
<1>4. Gate(x) \in Up(sheet, Self(g)) /\ x # Again(g)
  BY DEF Closes
<1>5. CASE x = Set(q)
  <2>1. Gate(x) = Arg(q) /\ x[1] = "set"
    BY <1>3, <1>5, CallsDiffer DEF Gate
  <2>2. q # g
    BY <1>1, <1>4, <2>1, UpOwn
  <2>3. PICK f \in Elem : sheet.up[f] = q /\ sheet.slot[f] = "value"
    BY <1>1, <1>4, <2>1, <2>2, InParts
  <2>4. Kin(q) \in {"value-of", "include"}
    BY <1>1, <1>4, <2>1, <2>2, InParts DEF Kin
  <2>5. Source(sheet, q) = "nodelist"
    BY <2>3, <2>4, SourceIs DEF Kin, ChildSet
  <2>6. m = Arg(q)
    BY <1>2, <1>3, <2>1, <2>5 DEF MayWait
  <2> QED BY <2>1, <2>6, NodesDiffer
<1>6. CASE x = Again(q)
  <2>1. x[1] = "again" /\ q # g
    BY <1>3, <1>4, <1>6, CallsDiffer
  <2>2. CASE Kin(q) = "log"
    <3>1. Gate(x) = Self(q) /\ m = Self(q)
      BY <1>2, <1>3, <2>1, <2>2 DEF Gate, MayWait
    <3> QED BY <2>1, <3>1, NodesDiffer
  <2>3. CASE Kin(q) # "log"
    <3>1. Gate(x) = Ret(q)
      BY <1>3, <2>1, <2>3 DEF Gate
    <3>2. Kin(q) \in {"if", "include"}
      BY <1>1, <1>4, <2>1, <3>1, InParts DEF Kin
    <3>3. KeptIn(g, q)
      BY <2>1, InvIs DEF Kept
    <3>4. /\ Kin(q) = "if" => stage[q] = "result"
          /\ Kin(q) = "include" => stage[q] \notin {"PARAMS_BEGIN", "PARAMS_END"}
      BY <1>4, <3>1, <3>3 DEF KeptIn, Early
    <3>5. m = Ret(q)
      BY <1>2, <1>3, <2>1, <3>2, <3>4 DEF MayWait
    <3> QED BY <3>1, <3>5, NodesDiffer
  <2> QED BY <2>2, <2>3
<1> QED BY <1>3, <1>5, <1>6

\* Logs stay in front of the calls that take what they are in.
LEMMA StillOrdered ==
  ASSUME NEW B, Inv(B), NEW e \in Elem, NEW H, Counts(e, H),
         NEW cbs, NEW k, NEW c, Queues(e, cbs, k, c), Leaves(e),
         \A x \in ToSet(cbs), g \in Elem :
           x[1] # "first" /\ g # e /\ Kin(g) = "log" /\ Busy(g) => Gate(x) \notin Up(sheet, Self(g)),
         \A x \in Call : Kin(e) = "log" /\ Closes(x, e) => LogOrder(e, x)'
  PROVE  Logs'
<1>0. sheet' = sheet /\ WellFormed(sheet)
  BY InvIs DEF Leaves
<1>1. \A x, g : (Closes(x, g)' <=> Closes(x, g)) /\ (Kin(g)' = Kin(g))
  BY <1>0 DEF Closes, Gate, Kin
<1> SUFFICES ASSUME NEW g \in Elem, g # e, NEW x \in Call, Kin(g) = "log", Closes(x, g)
             PROVE  LogOrder(g, x)'
  BY <1>1 DEF Logs
<1>2. /\ Again(g) \in Queued' <=> Again(g) \in Queued
      /\ InMain(Again(g)) => InMain(Again(g))'
  BY OthersAre
<1>3. CASE Again(g) \notin Queued
  <2>1. ~ InMain(Again(g))'
    BY <1>2, <1>3, QueuedIs DEF InMain
  <2> QED BY <1>2, <1>3, <2>1 DEF LogOrder
<1>4. CASE Again(g) \in Queued
  <2>1. Busy(g) /\ LogOrder(g, x)
    BY <1>4, InvIs DEF Busy, Logs
  <2>2. x # Again(g) /\ x[1] # "first" /\ Gate(x) \in Up(sheet, Self(g))
    BY DEF Closes
  <2>3. x \notin ToSet(cbs)
    BY <2>1, <2>2
  <2>4. \A m \in Node : x \in ToSet(tcb[m]) => m = Gate(x) /\ m # Self(g)
    BY <2>1, GateWaits
  <2>5. \A m \in Node : Again(g) \in ToSet(tcb[m]) => m = Self(g)
    <3>1. Again(g)[1] = "again" /\ Again(g)[2] = g
      BY CallsDiffer
    <3>2. \A m \in Node : Again(g) \in ToSet(tcb[m]) => MayWait(Again(g), m)
      BY InvIs, Waits
    <3> QED BY <3>1, <3>2 DEF MayWait
  <2>6. Self(g) \in Node /\ main # <<>>
    BY NodesDiffer DEF Queues
  <2>7. /\ count'[Self(g)] = 0 \/ count'[Self(g)] > 0
        /\ ~ (count'[Self(g)] = 0 /\ count'[Self(g)] > 0)
        /\ count[Self(g)] = 0 \/ count[Self(g)] > 0
    BY <2>6, CountsAre
  <2>8. count'[Gate(x)] = 0 => count'[Self(g)] = 0
    <3>1. count'[Self(g)] > 0 => count'[Gate(x)] > 0
      BY <2>2, <2>6, CountsAre
    <3> QED BY <2>7, <3>1
  <2>9. InMain(x)' => \/ InMain(x) /\ x # Head(main)
                      \/ \E m \in Node : m = Gate(x) /\ count'[m] = 0 /\ x \in ToSet(tcb[m])
    BY <2>3, <2>4, QueuesAre
  <2>10. count'[Self(g)] > 0 => count[Self(g)] > 0
    BY <2>6, Raised
  <2>11. /\ \A a, b : InFront(main, a, b) /\ a # Head(main) => InFront(main', a, b)
         /\ \A a \in ToSet(main) \ {Head(main)} : \A b \in ToSet(main') :
              b \notin ToSet(main) \ {Head(main)} => InFront(main', a, b)
         /\ \A m \in Node : \A l \in Up(sheet, m) : m # l /\ count'[m] = 0 /\ count'[l] = 0 =>
              \A a \in ToSet(tcb[m]), b \in ToSet(tcb[l]) : InFront(main', a, b)
    BY DEF Queues, NewOrder
  <2>12. Again(g) # Head(main)
    <3>1. Again(g) # Again(e) /\ Again(g) # Set(e) /\ Again(g) # First(e)
      BY CallsDiffer
    <3> QED BY <3>1 DEF Queues
  <2>13. \A m \in Node : x \in ToSet(tcb[m]) => x \notin ToSet(main)
    BY InvIs DEF QueuesApart
  <2>14. Again(g) \in ToSet(main) \/ Again(g) \in ToSet(tcb[Self(g)])
    BY <1>4, <2>5, QueuedIs
  <2>15. CASE InMain(Again(g))
    <3>1. InMain(Again(g))'
      BY <1>2, <2>15
    <3>2. ASSUME count'[Self(g)] > 0, InMain(x)' PROVE InFront(main', x, Again(g))
      <4>1. InMain(x) /\ x # Head(main) /\ count[Self(g)] > 0
        BY <2>7, <2>8, <2>9, <2>10, <3>2
      <4> QED BY <2>1, <2>11, <2>15, <4>1 DEF LogOrder
    <3>3. ASSUME count'[Self(g)] = 0, InMain(x)' PROVE InFront(main', Again(g), x)
      <4>1. count[Self(g)] = 0
        <5> SUFFICES ASSUME count[Self(g)] > 0 PROVE FALSE
          BY <2>7
        <5>1. SelfHold(g) \in Holds
          BY <2>15, HeldAre DEF HeldSelf
        <5>2. SelfHold(g) \in H
          BY <5>1, HoldsDiffer DEF Counts
        <5>3. Self(g) \in Up(sheet, At(sheet, SelfHold(g)))
          BY <1>0, <2>6, AtIs, UpFacts
        <5> QED BY <2>6, <3>3, <5>2, <5>3, CountsAre
      <4>2. CASE InMain(x)
        BY <2>1, <2>11, <2>12, <2>15, <4>1, <4>2 DEF LogOrder
      <4>3. CASE ~ InMain(x)
        <5>1. x \in ToSet(main') /\ x \notin ToSet(main)
          BY <3>3, <4>3 DEF InMain
        <5>2. Again(g) \in ToSet(main) \ {Head(main)}
          BY <2>12, <2>15 DEF InMain
        <5> QED BY <2>11, <5>1, <5>2
      <4> QED BY <4>2, <4>3
    <3> QED BY <3>1, <3>2, <3>3 DEF LogOrder
  <2>16. CASE ~ InMain(Again(g))
    <3>1. Again(g) \in ToSet(tcb[Self(g)]) /\ ~ InMain(x)
      BY <1>4, <2>1, <2>14, <2>16 DEF InMain, LogOrder
    <3>2. InMain(x)' => \E m \in Node : m = Gate(x) /\ count'[m] = 0 /\ x \in ToSet(tcb[m])
      BY <2>9, <3>1
    <3>3. InMain(Again(g))' <=> count'[Self(g)] = 0
      <4>1. Again(g) \notin ToSet(cbs)
        <5>1. \A y \in ToSet(cbs) : y \in {Again(e), Set(e)} \/ \E d \in Elem : y = First(d)
          BY DEF Queues
        <5>2. /\ Again(g) # Again(e) /\ Again(g) # Set(e)
              /\ \A d : Again(g) # First(d)
          BY CallsDiffer
        <5> QED BY <5>1, <5>2
      <4>2. InMain(Again(g))' <=> \E m \in Node : count'[m] = 0 /\ Again(g) \in ToSet(tcb[m])
        BY <2>16, <4>1, QueuesAre
      <4> QED BY <2>5, <2>6, <3>1, <4>2
    <3>4. CASE count'[Self(g)] = 0
      <4>1. ASSUME InMain(x)' PROVE InFront(main', Again(g), x)
        <5>1. PICK m \in Node : m = Gate(x) /\ count'[m] = 0 /\ x \in ToSet(tcb[m])
          BY <3>2, <4>1
        <5>2. m \in Up(sheet, Self(g)) /\ m # Self(g)
          BY <2>2, <2>4, <5>1
        <5> QED BY <2>6, <2>11, <3>1, <3>4, <5>1, <5>2
      <4> QED BY <2>7, <3>3, <3>4, <4>1 DEF LogOrder
    <3>5. CASE count'[Self(g)] # 0
      <4>1. ~ InMain(x)'
        BY <2>8, <3>2, <3>5
      <4> QED BY <3>3, <3>5, <4>1 DEF LogOrder
    <3> QED BY <3>4, <3>5
  <2> QED BY <2>15, <2>16
<1> QED BY <1>3, <1>4

LEMMA Single ==
  ASSUME NEW S, NEW t \in Seq(S), IsInjective(t), NEW x \in ToSet(t), \A y \in ToSet(t) : y = x
  PROVE  t = << x >>
<1>1. DOMAIN t = 1..Len(t) /\ Len(t) \in Nat
  OBVIOUS
<1>2. PICK i \in 1..Len(t) : t[i] = x
  BY <1>1 DEF ToSet
<1>3. \A k \in 1..Len(t) : t[k] = x
  BY <1>1 DEF ToSet
<1>4. \A k \in 1..Len(t) : k = 1
  <2> TAKE k \in 1..Len(t)
  <2>1. 1 \in 1..Len(t)
    BY <1>1, <1>2
  <2>2. t[k] = t[1]
    BY <1>3, <2>1
  <2> QED BY <1>1, <2>1, <2>2 DEF IsInjective
<1>5. Len(t) = 1
  <2>1. Len(t) \in 1..Len(t)
    BY <1>1, <1>2
  <2> QED BY <1>4, <2>1
<1>6. t[1] = x
  BY <1>3, <1>5
<1> QED BY <1>1, <1>5, <1>6

\* The call that brings the string of f, and the one that wants it.
LEMMA PairWaits ==
  ASSUME NEW B, Inv(B), NEW f \in Elem, Kin(f) # "variable", Source(sheet, f) = "nodelist",
         Set(f) \in Queued, ~ InMain(Set(f)), ~ InMain(Again(f))
  PROVE  /\ tcb[Arg(f)] = << Set(f) >> /\ tcb[Tmp(f)] = << Again(f) >>
         /\ \A m \in Node : /\ Set(f) \in ToSet(tcb[m]) => m = Arg(f)
                            /\ Again(f) \in ToSet(tcb[m]) => m = Tmp(f)
<1>1. Phased(f) /\ TreeOK(sheet, kids) /\ tcb \in [Node -> Seq(Call)]
  BY InvIs DEF Phase
<1>2. /\ Again(f) \in Queued /\ Kin(f) \in {"value-of", "include"}
      /\ Kin(f) = "include" => stage[f] = "PARAMS_BEGIN"
  BY <1>1 DEF Phased
<1>3. /\ Set(f)[1] = "set" /\ Set(f)[2] = f /\ Again(f)[1] = "again" /\ Again(f)[2] = f
  BY CallsDiffer
<1>4. \A m \in Node : \A x : x \in ToSet(tcb[m]) => MayWait(x, m) /\ x \in Call
  <2> TAKE m \in Node
  <2> TAKE x
  <2>1. x \in ToSet(tcb[m]) => MayWait(x, m)
    BY InvIs, Waits
  <2>2. tcb[m] \in Seq(Call)
    BY <1>1
  <2> QED BY <2>1, <2>2 DEF ToSet
<1>5. \A m \in Node : /\ Set(f) \in ToSet(tcb[m]) => m = Arg(f)
                      /\ Again(f) \in ToSet(tcb[m]) => m = Tmp(f)
  BY <1>2, <1>3, <1>4 DEF MayWait
<1>6. Set(f) \in ToSet(tcb[Arg(f)]) /\ Again(f) \in ToSet(tcb[Tmp(f)])
  BY <1>2, <1>5, QueuedIs DEF InMain
<1>7. Arg(f) \notin ToSet(kids[Response]) /\ Tmp(f) \notin ToSet(kids[Response])
  <2>1. Above(sheet, Arg(f)) # Response /\ Above(sheet, Tmp(f)) # Response /\ Response \in Node
    BY AboveIs, NodesDiffer
  <2> QED BY <1>1, <2>1 DEF TreeOK, Fixed
<1>8. ASSUME NEW x, x \in ToSet(tcb[Arg(f)]) PROVE x = Set(f)
  <2>1. MayWait(x, Arg(f)) /\ x \in Call /\ Arg(f) \in Node
    BY <1>4, <1>8, NodesDiffer
  <2>2. PICK q \in Elem : q = x[2] /\ x \in {First(q), Again(q), Set(q)}
    BY <2>1, CallsDiffer
  <2>3. Arg(f) = Arg(q) /\ x[1] = "set"
    <3>1. /\ Arg(f) # Tmp(q) /\ Arg(f) # Ret(q) /\ Arg(f) # Self(q)
          /\ \A v \in Elem : Arg(f) # Self(v)
      BY NodesDiffer
    <3>2. x[1] = "set" /\ Source(sheet, q) = "variable" => sheet.ref[q] \in Elem
      <4>1. WellFormed(sheet) /\ Source(sheet, q) = "variable" => sheet.ref[q] # 0
        BY SourceIs, InvIs
      <4> QED BY <4>1, InvIs, KindsAre
    <3> QED BY <1>7, <2>1, <2>2, <3>1, <3>2 DEF MayWait
  <2> QED BY <2>2, <2>3, NodesDiffer, CallsDiffer
<1>9. ASSUME NEW x, x \in ToSet(tcb[Tmp(f)]) PROVE x = Again(f)
  <2>1. MayWait(x, Tmp(f)) /\ x \in Call /\ Tmp(f) \in Node
    BY <1>4, <1>9, NodesDiffer
  <2>2. PICK q \in Elem : q = x[2] /\ x \in {First(q), Again(q), Set(q)}
    BY <2>1, CallsDiffer
  <2>3. Tmp(f) = Tmp(q) /\ x[1] = "again"
    <3>1. /\ Tmp(f) # Arg(q) /\ Tmp(f) # Ret(q) /\ Tmp(f) # Self(q)
          /\ \A v \in Elem : Tmp(f) # Self(v)
      BY NodesDiffer
    <3>2. x[1] = "set" /\ Source(sheet, q) = "variable" => sheet.ref[q] \in Elem
      <4>1. WellFormed(sheet) /\ Source(sheet, q) = "variable" => sheet.ref[q] # 0
        BY SourceIs, InvIs
      <4> QED BY <4>1, InvIs, KindsAre
    <3> QED BY <1>7, <2>1, <2>2, <3>1, <3>2 DEF MayWait
  <2> QED BY <2>2, <2>3, NodesDiffer, CallsDiffer
<1>10. IsInjective(tcb[Arg(f)]) /\ IsInjective(tcb[Tmp(f)])
  BY InvIs, NodesDiffer DEF QueuesApart
<1>11. tcb[Arg(f)] \in Seq(Call) /\ tcb[Tmp(f)] \in Seq(Call)
  BY <1>1, NodesDiffer
<1>12. tcb[Arg(f)] = << Set(f) >> /\ tcb[Tmp(f)] = << Again(f) >>
  BY <1>6, <1>8, <1>9, <1>10, <1>11, Single
<1> QED BY <1>5, <1>12

\* The call that brings a string stays next to the one that wants it.
LEMMA StillPaired ==
  ASSUME NEW B, Inv(B), NEW e \in Elem, NEW H, Counts(e, H),
         NEW cbs, NEW k, NEW c, Queues(e, cbs, k, c), Leaves(e), NEW f \in Elem, f # e
  PROVE  Paired(f)'
<1>1. sheet' = sheet /\ WellFormed(sheet) /\ Paired(f)
  BY InvIs DEF Leaves, Pairs
<1>2. /\ Set(f) \in Queued' <=> Set(f) \in Queued
      /\ InMain(Set(f)) => InMain(Set(f))'
      /\ InMain(Again(f)) => InMain(Again(f))'
  BY OthersAre
<1> SUFFICES ASSUME Kin(f) # "variable", Source(sheet, f) = "nodelist", Set(f) \in Queued
             PROVE  /\ InMain(Set(f))' => NextTo(main', Set(f), Again(f))
                    /\ ~ InMain(Set(f))' /\ InMain(Again(f))' => Head(main') = Again(f)
  BY <1>1, <1>2 DEF Paired, Kin
<1>3. /\ Set(f) # Head(main) /\ Again(f) # Head(main)
      /\ Set(f) \notin ToSet(cbs) /\ Again(f) \notin ToSet(cbs)
  <2>1. \A x : x \in {First(e), Again(e), Set(e)} => x # Again(f) /\ x # Set(f)
    BY CallsDiffer
  <2>2. \A d : First(d) # Again(f) /\ First(d) # Set(f)
    BY CallsDiffer
  <2>3. /\ Head(main) \in {First(e), Again(e), Set(e)}
        /\ \A x \in ToSet(cbs) : x \in {Again(e), Set(e)} \/ \E d \in Elem : x = First(d)
    BY DEF Queues
  <2> QED BY <2>1, <2>2, <2>3
<1>4. CASE InMain(Set(f))
  <2>1. NextTo(main, Set(f), Again(f))
    BY <1>1, <1>4 DEF Paired
  <2>2. NextTo(main', Set(f), Again(f))
    BY <1>3, <2>1 DEF Queues, NewOrder
  <2> QED BY <1>2, <1>4, <2>2
<1>5. CASE ~ InMain(Set(f))
  <2>1. ~ InMain(Again(f))
    BY <1>1, <1>3, <1>5 DEF Paired
  <2>2. /\ tcb[Arg(f)] = << Set(f) >> /\ tcb[Tmp(f)] = << Again(f) >>
        /\ \A m \in Node : /\ Set(f) \in ToSet(tcb[m]) => m = Arg(f)
                           /\ Again(f) \in ToSet(tcb[m]) => m = Tmp(f)
    BY <1>5, <2>1, PairWaits
  <2>3. /\ Arg(f) \in Node /\ Tmp(f) \in Node /\ Self(f) \in Node
        /\ Arg(f) # Doc /\ Above(sheet, Arg(f)) = Tmp(f)
    BY NodesDiffer, AboveIs
  <2>4. ToSet(<<Set(f)>>) = {Set(f)} /\ ToSet(<<Again(f)>>) = {Again(f)}
    BY DEF ToSet
  <2>5. InMain(Set(f))' => count'[Arg(f)] = 0
    BY <1>3, <1>5, <2>2, QueuesAre
  <2>6. InMain(Again(f))' => count'[Tmp(f)] = 0
    BY <1>3, <2>1, <2>2, QueuesAre
  <2>7. count'[Arg(f)] = 0 => InMain(Set(f))'
    BY <2>2, <2>3, <2>4, QueuesAre
  <2>8. count'[Tmp(f)] = 0 => count'[Arg(f)] = 0
    <3>1. Tmp(f) \in Up(sheet, Arg(f))
      BY <1>1, UpOwn
    <3>2. count'[Arg(f)] > 0 => count'[Tmp(f)] > 0
      BY <2>3, <3>1, CountsAre
    <3>3. (count'[Arg(f)] = 0 \/ count'[Arg(f)] > 0) /\ ~ (count'[Tmp(f)] = 0 /\ count'[Tmp(f)] > 0)
      BY <2>3, CountsAre
    <3> QED BY <3>2, <3>3
  <2>9. count'[Arg(f)] = 0 => count'[Tmp(f)] = 0
    <3> SUFFICES ASSUME NEW h \in H, Tmp(f) \in Up(sheet, At(sheet, h))
                 PROVE  \E g \in H : Arg(f) \in Up(sheet, At(sheet, g))
      BY <2>3, CountsAre
    <3>1. h \in Hold /\ (h[2] # e => h \in Holds)
      BY DEF Counts
    <3>2. PICK d \in Elem : d = h[2] /\ h \in {SelfHold(d), ValueHold(d), ParamsHold(d), ResultHold(d)}
      BY <3>1, HoldsDiffer
    <3>3. d # f
      <4> SUFFICES ASSUME d = f PROVE FALSE
        OBVIOUS
      <4>1. h \in Holds
        BY <3>1, <3>2
      <4>2. ~ HeldValue(f) /\ ~ HeldParams(f)
        BY <2>1 DEF HeldValue, HeldParams
      <4>3. h \in {SelfHold(f), ResultHold(f)}
        BY <3>2, <4>1, <4>2, HeldAre
      <4>4. At(sheet, h) \in {Self(f), Ret(f)}
        BY <4>3, AtIs
      <4>5. Tmp(f) \notin Up(sheet, Self(f)) /\ Up(sheet, Ret(f)) = {Ret(f)} \cup Up(sheet, Self(f))
        BY <1>1, UpOwn, UpIs
      <4> QED BY <4>4, <4>5, NodesDiffer
    <3>4. Tmp(f) \in Up(sheet, Self(d))
      BY <1>1, <3>1, <3>2, <3>3, HoldUp
    <3>5. Arg(f) \in Up(sheet, Self(d))
      BY <1>1, <3>3, <3>4, InParts
    <3>6. Self(d) \in Up(sheet, At(sheet, h))
      <4>1. At(sheet, h) \in {Self(d), Tmp(d), Ret(d)}
        BY <3>2, AtIs
      <4>2. Self(d) \in Up(sheet, Self(d))
        BY <1>1, UpOwn
      <4> QED BY <1>1, <4>1, <4>2, UpIs
    <3>7. At(sheet, h) \in Node
      BY <3>1, AtIs
    <3>8. Arg(f) \in Up(sheet, At(sheet, h))
      BY <1>1, <3>5, <3>6, <3>7, UpFacts
    <3> QED BY <3>8
  <2>10. count'[Arg(f)] = 0 => NextTo(main', Set(f), Again(f))
    <3>1. \A m \in Node : \A x, y :
            m # Doc /\ count'[m] = 0 /\ count'[Above(sheet, m)] = 0
              /\ tcb[m] = << x >> /\ tcb[Above(sheet, m)] = << y >> => NextTo(main', x, y)
      BY DEF Queues, NewOrder
    <3> QED BY <2>2, <2>3, <2>9, <3>1
  <2> QED BY <2>5, <2>6, <2>7, <2>8, <2>10
<1> QED BY <1>4, <1>5

\* What the call begins: e itself, and the texts of a branch; what it
\* schedules is a part of e, in the order of the sheet.
Opens(e, B, B2, cbs) ==
  /\ B \subseteq B2 /\ e \in B2
  /\ \A d \in B2 \ B : d # e =>
       /\ Kin(d) = "text" /\ sheet.up[d] = e /\ Closed(B, e, sheet.slot[d])
       /\ \A v \in Elem : sheet.up[v] = e /\ sheet.slot[v] = sheet.slot[d] => v \in B2
  /\ \A a \in Elem : First(a) \in ToSet(cbs) =>
       /\ a \notin B2
       /\ \A v \in Elem : sheet.up[v] = e /\ sheet.slot[v] = sheet.slot[a] /\ v < a =>
            InFront(cbs, First(v), First(a))

\* What is closed then was closed before, and nothing in it has been begun.
Opened(e, B, B2, cbs) ==
  \A d \in Elem : sheet.up[d] = e /\ Closed(B2, e, sheet.slot[d])' =>
    Closed(B, e, sheet.slot[d]) /\ (d \in B2 => d \in B) /\ First(d) \notin ToSet(cbs)

\* The call at the head is the first one of an element that is not begun.
LEMMA HeadBegins ==
  ASSUME NEW B, Inv(B), NEW e \in Elem, main # <<>>, Head(main) \in {First(e), Again(e), Set(e)}
  PROVE  /\ e \notin B <=> Head(main) = First(e)
         /\ e \notin B => First(e) \in Queued
<1>1. Head(main) \in Queued
  BY HeadFirst
<1>2. /\ First(e) \in Queued => e \notin B
      /\ e \notin B => Again(e) \notin Queued /\ Set(e) \notin Queued
  BY InvIs DEF Begun, Blank
<1> QED BY <1>1, <1>2

\* The first calls that are to come.
LEMMA FirstsLeft ==
  ASSUME NEW B, Inv(B), NEW e \in Elem, NEW cbs, NEW k, NEW c, Queues(e, cbs, k, c),
         NEW f \in Elem, First(f) \in Queued'
  PROVE  \/ First(f) \in Queued /\ First(f) # Head(main) /\ f # e /\ f \notin B
         \/ First(f) \in ToSet(cbs) /\ sheet.up[f] = e
<1>1. /\ main # <<>> /\ Head(main) \in {First(e), Again(e), Set(e)}
      /\ k # NULL => c \in {Again(e), Set(e)}
      /\ \A x \in ToSet(cbs) :
           x \in {Again(e), Set(e)} \/ \E d \in Elem : x = First(d) /\ sheet.up[d] = e
  BY DEF Queues
<1>2. \A d : First(f) # Again(d) /\ First(f) # Set(d) /\ (First(f) = First(d) => f = d)
  BY CallsDiffer
<1>3. (First(f) \in Queued /\ First(f) # Head(main)) \/ First(f) \in ToSet(cbs)
  BY <1>1, <1>2, QueuesAre
<1>4. CASE First(f) \in ToSet(cbs)
  BY <1>1, <1>2, <1>4
<1>5. CASE First(f) \in Queued /\ First(f) # Head(main)
  <2>1. f \notin B
    BY <1>5, InvIs DEF Begun
  <2>2. f # e
    BY <1>1, <1>5, <2>1, HeadBegins
  <2> QED BY <1>5, <2>1, <2>2
<1> QED BY <1>3, <1>4, <1>5

\* What has not begun has left nothing anywhere.
LEMMA StillBegun ==
  ASSUME NEW B, Inv(B), NEW e \in Elem, NEW cbs, NEW k, NEW c, Queues(e, cbs, k, c), Leaves(e),
         NEW B2, NEW over, Alters(e, B, B2, over), Opens(e, B, B2, cbs), Opened(e, B, B2, cbs)
  PROVE  Begun(B2)'
<1>1. sheet' = sheet /\ B2 \subseteq Elem /\ Begun(B) /\ WellFormed(sheet)
  BY InvIs DEF Leaves, Alters
<1>2. main # <<>> /\ Head(main) \in {First(e), Again(e), Set(e)}
  BY DEF Queues
<1>3. B \subseteq B2 /\ e \in B2
  BY DEF Opens
<1>4. ASSUME NEW f \in Elem, f \notin B2 PROVE Blank(f)'
  <2>1. f # e /\ f \notin B
    BY <1>3, <1>4
  <2>2. Blank(f)
    BY <1>1, <2>1 DEF Begun
  <2>3. Again(f) \notin Queued' /\ Set(f) \notin Queued' /\ stage'[f] = "start"
    BY <2>1, <2>2, OthersAre DEF Blank, Leaves
  <2>4. ASSUME NEW r \in Role PROVE Loose(<<r, f>>)'
    <3>1. Loose(<<r, f>>) /\ <<r, f>> \in Node
      BY <2>2 DEF Blank, Node
    <3>2. <<r, f>> \notin {<<q, e>> : q \in Role}
      BY <2>1
    <3>3. \A d \in B2 \ B : <<r, f>> # Self(d)
      BY <1>4 DEF Self
    <3> QED BY <3>1, <3>2, <3>3 DEF Alters
  <2> QED BY <2>3, <2>4 DEF Blank
<1>5. ASSUME NEW f \in Elem, First(f) \in Queued' PROVE f \notin B2 /\ InMain(First(f))'
  <2>1. CASE First(f) \in Queued /\ First(f) # Head(main) /\ f # e /\ f \notin B
    <3>1. InMain(First(f))'
      BY <1>1, <2>1, QueuesAre DEF Begun
    <3>2. ASSUME f \in B2 PROVE FALSE
      <4>1. sheet.up[f] = e /\ Closed(B, e, sheet.slot[f]) /\ e # 0
        BY <2>1, <3>2, ElemNumbers DEF Opens
      <4> QED BY <1>1, <2>1, <4>1 DEF Begun
    <3> QED BY <3>1, <3>2
  <2>2. CASE First(f) \in ToSet(cbs) /\ sheet.up[f] = e
    BY <2>2, QueuesAre DEF Opens
  <2> QED BY <1>5, <2>1, <2>2, FirstsLeft
<1>6. ASSUME NEW f \in Elem, sheet.up[f] # 0, Closed(B2, sheet.up[f], sheet.slot[f])'
      PROVE  f \notin B2 /\ First(f) \notin Queued'
  <2> DEFINE p == sheet.up[f]
  <2>1. p \in Elem /\ f # p
    <3>1. p \in Elem
      BY <1>1, <1>6, KindsAre
    <3>2. p < f
      BY <1>1 DEF WellFormed
    <3> QED BY <3>1, <3>2, ElemNumbers
  <2>2. CASE p = e
    <3>1. Closed(B, e, sheet.slot[f]) /\ (f \in B2 => f \in B) /\ First(f) \notin ToSet(cbs)
      BY <1>1, <1>6, <2>2 DEF Opened
    <3>2. f \notin B /\ First(f) \notin Queued
      BY <1>1, <1>6, <2>2, <3>1 DEF Begun
    <3> QED BY <3>1, <3>2, FirstsLeft
  <2>3. CASE p # e
    <3>1. (Early(p)' <=> Early(p)) /\ stage'[p] = stage[p]
      BY <2>1, <2>3, NodesKept DEF Leaves
    <3>2. Closed(B, p, sheet.slot[f])
      BY <1>1, <1>3, <1>6, <3>1 DEF Closed, Kin
    <3>3. f \notin B /\ First(f) \notin Queued
      BY <1>1, <1>6, <3>2 DEF Begun
    <3>4. f # e
      BY <1>2, <3>3, HeadBegins
    <3> QED BY <2>3, <3>3, <3>4, FirstsLeft DEF Opens
  <2> QED BY <2>2, <2>3
<1> QED BY <1>1, <1>4, <1>5, <1>6 DEF Begun

\* Variables stay in front of what is written behind them.
LEMMA StillScoped ==
  ASSUME NEW B, Inv(B), NEW e \in Elem, NEW cbs, NEW k, NEW c, Queues(e, cbs, k, c), Leaves(e),
         NEW B2, B2 \subseteq Elem, Opens(e, B, B2, cbs), Kin(e) = "variable" => bound'[e] # "no"
  PROVE  Scope(B2)'
<1>1. sheet' = sheet /\ Scope(B) /\ Begun(B) /\ WellFormed(sheet) /\ B \subseteq B2 /\ e \in B2
  BY InvIs DEF Leaves, Opens
<1>2. main # <<>> /\ Head(main) \in {First(e), Again(e), Set(e)}
  BY DEF Queues
<1>3. /\ \A x, y : InFront(main, x, y) /\ x # Head(main) => InFront(main', x, y)
      /\ \A x \in ToSet(main) \ {Head(main)} : \A y \in ToSet(main') :
           y \notin ToSet(main) \ {Head(main)} => InFront(main', x, y)
      /\ \A x, y : InFront(cbs, x, y) => InFront(main', x, y)
  BY DEF Queues, NewOrder
<1>4. ASSUME NEW v \in B2, Kin(v) = "variable" PROVE bound'[v] # "no"
  <2>1. CASE v = e
    BY <1>4, <2>1
  <2>2. CASE v # e
    <3>1. v \in B
      BY <1>4, <2>2 DEF Opens
    <3> QED BY <1>1, <1>4, <2>2, <3>1 DEF Scope, Leaves
  <2> QED BY <2>1, <2>2
<1>5. ASSUME NEW v \in Elem, NEW a \in Elem, sheet.up[v] = sheet.up[a],
             sheet.slot[v] = sheet.slot[a], v < a
      PROVE  /\ a \in B2 => v \in B2
             /\ First(a) \in Queued' => v \in B2 \/ InFront(main', First(v), First(a))
  <2>1. /\ a \in B => v \in B
        /\ First(a) \in Queued => v \in B \/ InFront(main, First(v), First(a))
    BY <1>1, <1>5 DEF Scope
  <2>2. ASSUME a \in B2 PROVE v \in B2
    <3>1. CASE a \in B
      BY <1>1, <2>1, <3>1
    <3>2. CASE a \notin B /\ a = e
      <4>1. Head(main) = First(a) /\ First(a) \in Queued
        BY <1>2, <3>2, HeadBegins
      <4> QED BY <1>1, <1>2, <2>1, <4>1, HeadFirst
    <3>3. CASE a \notin B /\ a # e
      BY <1>5, <2>2, <3>3 DEF Opens
    <3> QED BY <3>1, <3>2, <3>3
  <2>3. ASSUME First(a) \in Queued' PROVE v \in B2 \/ InFront(main', First(v), First(a))
    <3>1. CASE First(a) \in Queued
      <4>1. CASE v \in B
        BY <1>1, <4>1
      <4>2. CASE InFront(main, First(v), First(a)) /\ First(v) = Head(main)
        <5>1. \A d : First(v) # Again(d) /\ First(v) # Set(d) /\ (First(v) = First(d) => v = d)
          BY CallsDiffer
        <5> QED BY <1>1, <1>2, <4>2, <5>1
      <4>3. CASE InFront(main, First(v), First(a)) /\ First(v) # Head(main)
        BY <1>3, <4>3
      <4> QED BY <2>1, <3>1, <4>1, <4>2, <4>3
    <3>2. CASE First(a) \in ToSet(cbs) /\ sheet.up[a] = e
      BY <1>3, <1>5, <3>2 DEF Opens
    <3> QED BY <2>3, <3>1, <3>2, FirstsLeft
  <2> QED BY <2>2, <2>3
<1>6. ASSUME NEW v \in Elem, sheet.up[v] = 0 PROVE v \in B2 \/ First(v) \in Queued'
  <2>1. v \in B \/ First(v) \in Queued
    BY <1>1, <1>6 DEF Scope
  <2>2. ASSUME First(v) = Head(main) PROVE v = e
    <3>1. \A d : First(v) # Again(d) /\ First(v) # Set(d) /\ (First(v) = First(d) => v = d)
      BY CallsDiffer
    <3> QED BY <1>2, <2>2, <3>1
  <2> QED BY <1>1, <2>1, <2>2, QueuesAre
<1>7. ASSUME NEW v \in Elem, sheet.up[v] = 0, First(v) \in Queued', NEW x \in ToSet(main')
      PROVE  InFront(main', First(v), x) \/ (x[1] = "first" /\ sheet.up[x[2]] = 0)
  <2>1. First(v) \in Queued /\ First(v) # Head(main)
    BY <1>7, FirstsLeft, ElemNumbers
  <2>2. First(v) \in ToSet(main) \ {Head(main)}
    BY <1>1, <2>1 DEF Begun, InMain
  <2>3. CASE x \in ToSet(main) \ {Head(main)}
    BY <1>1, <1>3, <1>7, <2>1, <2>3 DEF Scope
  <2>4. CASE x \notin ToSet(main) \ {Head(main)}
    BY <1>3, <1>7, <2>2, <2>4
  <2> QED BY <2>3, <2>4
<1> QED BY <1>1, <1>4, <1>5, <1>6, <1>7 DEF Scope, Kin

-----------------------------------------------------------------------------
(***************************************************************************)
(* What is left to show of one call: what it says of its own element.      *)
(***************************************************************************)
OwnHolds(e, H) ==
  /\ SelfHold(e) \in H <=> HeldSelf(e)'
  /\ ValueHold(e) \in H <=> HeldValue(e)'
  /\ ParamsHold(e) \in H <=> HeldParams(e)'
  /\ ResultHold(e) \in H <=> HeldResult(e)'

OwnNodes(e) ==
  /\ Busy(e)' /\ Kin(e) # "response" => Stands(sheet, kids', Self(e))
  /\ Stocked(e)' /\ Unused(e)'

OwnCalls(e, k, c) ==
  /\ Phased(e)' /\ Paired(e)'
  /\ Again(e) \in Queued /\ Again(e) # Head(main) => stage'[e] = stage[e]
  /\ k # NULL => count'[k] > 0 /\ MayWait(c, k)'
  /\ Kin(e) = "variable" => bound'[e] # "no"

OwnParts(e, cbs) ==
  /\ \A d \in Elem : First(d) \in ToSet(cbs) /\ sheet.up[d] = e /\ Kin(e) # "response" =>
       Awaited(d, e)'
  /\ \A d \in Elem : d # e /\ Busy(d) /\ Kin(d) # "response" => KeptIn(d, e)'

OwnOrder(e, cbs) ==
  /\ \A x \in ToSet(cbs), g \in Elem :
       x[1] # "first" /\ g # e /\ Kin(g) = "log" /\ Busy(g) => Gate(x) \notin Up(sheet, Self(g))
  /\ \A x \in Call : Kin(e) = "log" /\ Closes(x, e) => LogOrder(e, x)'

\* The variables that no property of the order is about.
OthersOK ==
  /\ stage \in [Elem -> Stage]
  /\ val \in [Elem -> {Unset} \cup Seq(Elem)]
  /\ bound \in [Elem -> {"no", "document", "value"}]
  /\ responseCur \in Node \cup {NULL}
  /\ sent \in Seq(Elem)
  /\ logged \in Seq(Seq(Elem))
  /\ requested \subseteq Elem
  /\ answer \in [Elem -> Answer]
  /\ cur \subseteq Status
  /\ running \in BOOLEAN
  /\ failed \in BOOLEAN

Step(e, B, B2, H, cbs, k, c, over) ==
  /\ Counts(e, H) /\ Queues(e, cbs, k, c) /\ Leaves(e)
  /\ Alters(e, B, B2, over) /\ Opens(e, B, B2, cbs) /\ Opened(e, B, B2, cbs)
  /\ over => Clear(e) /\ count'[Self(e)] = 0

Settles(e, H, cbs, k, c) ==
  OwnHolds(e, H) /\ OwnNodes(e) /\ OwnCalls(e, k, c) /\ OwnParts(e, cbs) /\ OwnOrder(e, cbs)

Quiet == OthersOK' /\ Cursor' /\ ~ failed' /\ "DONE" \notin cur'

\* The counters count what is held after the step.
LEMMA StillCounted ==
  ASSUME NEW B, Inv(B), NEW e \in Elem, NEW H, Counts(e, H),
         NEW cbs, NEW k, NEW c, Queues(e, cbs, k, c), Leaves(e),
         NEW B2, NEW over, Alters(e, B, B2, over), OwnHolds(e, H)
  PROVE  Counted'
<1>1. ASSUME NEW h \in Hold PROVE h \in H <=> h \in Holds'
  <2>1. PICK f \in Elem : f = h[2] /\ h \in {SelfHold(f), ValueHold(f), ParamsHold(f), ResultHold(f)}
    BY HoldsDiffer
  <2>2. CASE f = e
    BY <2>1, <2>2, HeldAre DEF OwnHolds
  <2>3. CASE f # e
    <3>1. h \in H <=> h \in Holds
      BY <2>1, <2>3 DEF Counts
    <3>2. /\ HeldSelf(f)' <=> HeldSelf(f)
          /\ HeldValue(f)' <=> HeldValue(f)
          /\ HeldParams(f)' <=> HeldParams(f)
          /\ HeldResult(f)' <=> HeldResult(f)
      BY <2>3, HoldsKept
    <3> QED BY <2>1, <3>1, <3>2, HeldAre
  <2> QED BY <2>2, <2>3
<1>2. H \subseteq Hold /\ Holds' \subseteq Hold
  BY HeldAre DEF Counts
<1>3. H = Holds'
  BY <1>1, <1>2
<1> QED BY <1>3 DEF Counted, Counts, Leaves

\* A step of one element keeps the invariant, if it does to the queues, the
\* counters and the document what a step may and leaves its own element in order.
LEMMA StepKeeps ==
  ASSUME NEW B, Inv(B), NEW e \in Elem, NEW B2, NEW H, NEW cbs, NEW k, NEW c, NEW over,
         Step(e, B, B2, H, cbs, k, c, over), Settles(e, H, cbs, k, c), Quiet
  PROVE  IInv'
<1>1. /\ Counts(e, H) /\ Queues(e, cbs, k, c) /\ Leaves(e)
      /\ Alters(e, B, B2, over) /\ Opens(e, B, B2, cbs) /\ Opened(e, B, B2, cbs)
      /\ over => Clear(e) /\ count'[Self(e)] = 0
  BY DEF Step
<1>2. OwnHolds(e, H) /\ OwnNodes(e) /\ OwnCalls(e, k, c) /\ OwnParts(e, cbs) /\ OwnOrder(e, cbs)
  BY DEF Settles
<1>3. sheet' = sheet /\ TypeOK
  BY <1>1, InvIs DEF Leaves
<1>4. TreeOK(sheet', kids') /\ B2 \subseteq Elem
  BY <1>1, <1>3 DEF Alters
<1>5. /\ main' \in Seq(Call) /\ tcb' \in [Node -> Seq(Call)] /\ QueuesApart(main', tcb')
      /\ count' \in [Node -> Nat]
  BY <1>1, QueuesAre, CountsAre
<1>6. TypeOK'
  <2>1. kids' \in [Node -> Seq(Node)]
    BY <1>4 DEF TreeOK
  <2> QED BY <1>3, <1>5, <2>1 DEF TypeOK, Quiet, OthersOK
<1>7. Begun(B2)'
  BY <1>1, StillBegun
<1>8. Spare' /\ Reserve'
  <2>1. \A f \in Elem : f # e => Stocked(f)' /\ Unused(f)'
    BY <1>1, OthersStocked
  <2> QED BY <1>2, <2>1 DEF OwnNodes, Spare, Reserve
<1>9. Shape(B2)'
  BY <1>4, <1>5, <1>6, <1>7, <1>8 DEF Shape, Quiet
<1>10. Standing'
  <2>1. ASSUME NEW n \in {Response, Var} PROVE Hangs(sheet', kids', n)
    <3>1. Hangs(sheet, kids, n) /\ n # Doc /\ Above(sheet, n) = Doc /\ n \in Node /\ Doc \in Node
      BY InvIs, AboveIs, NodesDiffer DEF Standing
    <3>2. n # Self(e) /\ Doc # Ret(e)
      BY NodesDiffer
    <3>3. n \in ToSet(kids'[Doc])
      BY <1>1, <3>1, <3>2 DEF Alters, Hangs
    <3> QED BY <1>3, <3>1, <3>3 DEF Hangs
  <2>2. ASSUME NEW f \in Elem, Busy(f)', Kin(f) # "response" PROVE Stands(sheet', kids', Self(f))
    <3>1. CASE f = e
      BY <1>2, <1>3, <2>2, <3>1 DEF OwnNodes
    <3>2. CASE f # e
      BY <1>1, <2>2, <3>2, OthersStand
    <3> QED BY <3>1, <3>2
  <2> QED BY <1>3, <2>1, <2>2 DEF Standing, Kin
<1>11. Phase'
  <2>1. \A f \in Elem : f # e => Phased(f)'
    BY <1>1, OthersPhased
  <2> QED BY <1>2, <2>1 DEF OwnCalls, Phase
<1>12. Placed'
  BY <1>1, <1>2, StillPlaced DEF OwnCalls
<1>13. FirstsClosed'
  BY <1>1, <1>2, StillAwaited DEF OwnParts
<1>14. Kept'
  BY <1>1, <1>2, StillKept DEF OwnParts
<1>15. Logs'
  BY <1>1, <1>2, StillOrdered DEF OwnOrder
<1>16. Pairs'
  <2>1. \A f \in Elem : f # e => Paired(f)'
    BY <1>1, StillPaired
  <2> QED BY <1>2, <2>1 DEF OwnCalls, Pairs
<1>17. Counted'
  BY <1>1, <1>2, StillCounted
<1>18. Order'
  BY <1>8, <1>10, <1>11, <1>12, <1>13, <1>14, <1>15, <1>16, <1>17 DEF Order
<1>19. Scope(B2)'
  BY <1>1, <1>2, <1>4, StillScoped DEF OwnCalls
<1>20. Ended'
  BY DEF Ended, Quiet
<1>21. Inv(B2)'
  BY <1>9, <1>18, <1>19, <1>20 DEF Inv
<1> QED BY <1>21 DEF IInv

-----------------------------------------------------------------------------
(***************************************************************************)
(* The queues, as the transform functions change them.                     *)
(***************************************************************************)
LEMMA JoinsAssociate ==
  ASSUME NEW S
  PROVE  \A a, b, c \in Seq(S) : (a \o b) \o c = a \o (b \o c)
BY SMTT(30)

LEMMA EmptyIs ==
  ASSUME NEW S, NEW t \in Seq(S), ToSet(t) = {}
  PROVE  t = <<>>
<1>1. ASSUME Len(t) > 0 PROVE FALSE
  <2>1. t[1] \in ToSet(t)
    BY <1>1 DEF ToSet
  <2> QED BY <2>1
<1> QED BY <1>1

\* The queues of a node and of the ones above it.
LEMMA FreedStep ==
  ASSUME NEW s, WellFormed(s), NEW n \in Node, n # Doc, NEW T \in [Node -> Seq(Call)], NEW C2
  PROVE  /\ Freed(s, T, C2, n) =
              (IF C2[n] = 0 THEN T[n] ELSE <<>>) \o Freed(s, T, C2, Above(s, n))
         /\ Freed(s, T, C2, Above(s, n)) \in Seq(Call)
<1> DEFINE a == Above(s, n)
           p == SPath(s)[a]
           piece(m) == IF C2[m] = 0 THEN T[m] ELSE <<>>
           ss == << piece(n) >>
           tt == [i \in 1..Len(p) |-> piece(p[i])]
           q == SPath(s)[n]
           uu == [i \in 1..Len(q) |-> piece(q[i])]
<1>1. a \in Node
  BY AboveRanks
<1>2. p \in Seq(Node) /\ q = << n >> \o p
  BY <1>1, PathStep, PathGood DEF GoodPath
<1>3. \A m \in Node : piece(m) \in Seq(Call)
  OBVIOUS
<1> HIDE DEF piece, a, p, q
<1>4. ss \in Seq(Seq(Call)) /\ tt \in Seq(Seq(Call)) /\ Len(ss) = 1 /\ Len(tt) = Len(p)
  <2>1. Len(p) \in Nat /\ \A i \in 1..Len(p) : p[i] \in Node
    BY <1>2
  <2>2. tt \in [1..Len(p) -> Seq(Call)]
    BY <1>3, <2>1
  <2>3. piece(n) \in Seq(Call)
    BY <1>3
  <2>4. ss \in Seq(Seq(Call)) /\ Len(ss) = 1
    BY <2>3
  <2>5. DOMAIN tt = 1..Len(p)
    OBVIOUS
  <2> HIDE DEF tt, ss
  <2>6. tt \in Seq(Seq(Call))
    BY <2>1, <2>2, SegmentIsSeq
  <2> QED BY <2>1, <2>4, <2>5, <2>6
<1>5. /\ Len(q) = Len(p) + 1 /\ Len(p) \in Nat /\ q[1] = n
      /\ \A i \in 1..Len(p) : q[i + 1] = p[i]
  BY <1>2
<1>6. uu = ss \o tt
  <2>1. Len(uu) = Len(p) + 1 /\ uu \in Seq(Seq(Call))
    <3>1. \A i \in 1..Len(q) : q[i] \in Node
      BY <1>2, <1>5
    <3> QED BY <1>3, <1>5, <3>1
  <2>2. \A i \in 1..Len(ss) : uu[i] = ss[i]
    BY <1>4, <1>5
  <2>3. \A i \in 1..Len(tt) : uu[Len(ss) + i] = tt[i]
    <3> TAKE i \in 1..Len(tt)
    <3>1. i + 1 \in 1..Len(q) /\ Len(ss) + i = i + 1
      BY <1>4, <1>5
    <3>2. uu[i + 1] = piece(q[i + 1]) /\ tt[i] = piece(p[i]) /\ q[i + 1] = p[i]
      BY <1>4, <1>5, <3>1
    <3> QED BY <3>1, <3>2
  <2> HIDE DEF uu, ss, tt
  <2>4. Len(uu) = Len(ss) + Len(tt)
    BY <1>4, <1>5, <2>1
  <2>5. ss \o tt = uu
    BY <1>4, <2>1, <2>2, <2>3, <2>4, ConcatIs
  <2> QED BY <2>5
<1>7. FlattenSeq(ss) = piece(n)
  BY <1>3, FlattenOne
<1>8. FlattenSeq(uu) = FlattenSeq(ss) \o FlattenSeq(tt) /\ FlattenSeq(tt) \in Seq(Call)
  <2> HIDE DEF uu, ss, tt
  <2> QED BY <1>4, <1>6, FlattenConcat, FlattenType
<1>9. Freed(s, T, C2, n) = FlattenSeq(uu) /\ Freed(s, T, C2, a) = FlattenSeq(tt)
  BY DEF Freed, uu, tt, q, p, piece
<1> HIDE DEF uu, ss, tt
<1>10. Freed(s, T, C2, n) = piece(n) \o Freed(s, T, C2, a) /\ Freed(s, T, C2, a) \in Seq(Call)
  BY <1>7, <1>8, <1>9
<1> QED BY <1>10 DEF piece, a

\* What a hold frees when it is given up.
LEMMA MovedIs ==
  ASSUME NEW s, WellFormed(s), NEW T \in [Node -> Seq(Call)], NEW H, H \subseteq Hold, NEW h \in H,
         \A n \in Node : Tally(s, H)[n] = 0 => T[n] = <<>>
  PROVE  /\ Moved(Tally(s, H), T, SPath(s)[At(s, h)]) = Freed(s, T, Tally(s, H \ {h}), At(s, h))
         /\ Drained(Tally(s, H), T, SPath(s)[At(s, h)]) =
              [m \in Node |-> IF Tally(s, H \ {h})[m] = 0 THEN <<>> ELSE T[m]]
         /\ \A m \in Node : Tally(s, H \ {h})[m] = 0 /\ T[m] # <<>> => m \in Up(s, At(s, h))
<1> DEFINE path == SPath(s)[At(s, h)]
           C1 == Tally(s, H)
           C2 == Tally(s, H \ {h})
<1>1. At(s, h) \in Node
  BY AtIs
<1>2. /\ path \in Seq(Node) /\ H \ {h} \subseteq Hold
      /\ \A n \in Node : C2[n] = IF n \in Up(s, At(s, h)) THEN C1[n] - 1 ELSE C1[n]
      /\ \A n \in Node : n \in Woken(C1, path) <=> C1[n] > 0 /\ C2[n] = 0
  <2>1. H \ {h} \subseteq Hold /\ path \in Seq(Node)
    BY TallyDrop
  <2>2. \A n \in Node : C2[n] = IF n \in Up(s, At(s, h)) THEN C1[n] - 1 ELSE C1[n]
    BY TallyDrop
  <2>3. \A n \in Node : n \in Woken(C1, path) <=> C1[n] > 0 /\ C2[n] = 0
    BY TallyDrop
  <2> QED BY <2>1, <2>2, <2>3
<1>3. C1 \in [Node -> Nat] /\ C2 \in [Node -> Nat]
  BY <1>2, TallyZero
<1>4. \A n \in Node : C1[n] = 0 => T[n] = <<>>
  OBVIOUS
<1>5. \A n \in Node : C1[n] = 0 => C2[n] = 0
  <2> SUFFICES ASSUME NEW n \in Node, C1[n] = 0 PROVE C2[n] = 0
    OBVIOUS
  <2>1. C2[n] \in Nat
    BY <1>3
  <2> HIDE DEF C1, C2
  <2> QED BY <1>2, <2>1
<1> HIDE DEF C1, C2
<1>6. \A n \in Node : (IF n \in Woken(C1, path) THEN T[n] ELSE <<>>) = IF C2[n] = 0 THEN T[n] ELSE <<>>
  BY <1>2, <1>3, <1>4
<1>7. Moved(C1, T, path) = Freed(s, T, C2, At(s, h))
  <2>1. DOMAIN path = 1..Len(path) /\ \A i \in 1..Len(path) : path[i] \in Node
    BY <1>2
  <2>2. [i \in DOMAIN path |-> IF path[i] \in Woken(C1, path) THEN T[path[i]] ELSE <<>>]
          = [i \in 1..Len(path) |-> IF C2[path[i]] = 0 THEN T[path[i]] ELSE <<>>]
    BY <1>6, <2>1
  <2> QED BY <2>2 DEF Moved, Freed
<1>8. Drained(C1, T, path) = [m \in Node |-> IF C2[m] = 0 THEN <<>> ELSE T[m]]
  <2>1. \A m \in Node : (IF m \in Woken(C1, path) THEN <<>> ELSE T[m]) = IF C2[m] = 0 THEN <<>> ELSE T[m]
    BY <1>2, <1>3, <1>4
  <2>2. DOMAIN T = Node
    OBVIOUS
  <2> QED BY <2>1, <2>2 DEF Drained
<1>9. \A m \in Node : C2[m] = 0 /\ T[m] # <<>> => m \in Up(s, At(s, h))
  BY <1>2, <1>3, <1>4
<1> QED BY <1>7, <1>8, <1>9 DEF C1, C2

\* What has been scheduled for an element: nothing new is in a queue yet.
Scheduled(e, cbs, k, c) ==
  /\ Fresh(main, tcb, cbs, k, c)
  /\ k = NULL \/ c \in {Again(e), Set(e)}
  /\ \A x \in ToSet(cbs) :
       x \in {Again(e), Set(e)} \/ \E d \in Elem : x = First(d) /\ sheet.up[d] = e

\* A turn of the queues is what a step may do to them.
LEMMA QueuesTurned ==
  ASSUME NEW B, Inv(B), NEW e \in Elem, NEW H, Counts(e, H), main # <<>>,
         Head(main) \in {First(e), Again(e), Set(e)},
         NEW cbs, NEW k, NEW c, Scheduled(e, cbs, k, c),
         NEW n \in Node, QueueTurn(sheet, main, tcb, count', n, cbs, k, c, main', tcb')
  PROVE  Queues(e, cbs, k, c)
<1>1. /\ WellFormed(sheet) /\ main \in Seq(Call) /\ tcb \in [Node -> Seq(Call)]
      /\ QueuesApart(main, tcb)
  BY InvIs
<1>2. count' \in [Node -> Nat]
  BY CountsAre
<1>3. Fresh(main, tcb, cbs, k, c)
  BY DEF Scheduled
<1>4. /\ NewPlaces(main, tcb, count', cbs, k, c, main', tcb')
      /\ NewOrder(sheet, main, tcb, count', cbs, main')
  BY <1>1, <1>2, <1>3, QueueTurned
<1>5. k = NULL \/ (k \in Node /\ c \in {Again(e), Set(e)})
  BY DEF Scheduled, Fresh
<1> QED BY <1>4, <1>5 DEF Queues, Scheduled

\* No hold is given up, or none that a call waits for.
LEMMA PlainTurn ==
  ASSUME NEW B, Inv(B), NEW e \in Elem, NEW H, Counts(e, H), main # <<>>,
         Head(main) \in {First(e), Again(e), Set(e)},
         NEW cbs, NEW k, NEW c, Scheduled(e, cbs, k, c),
         \A m \in Node : count'[m] = 0 => tcb[m] = <<>>,
         main' = Tail(main) \o cbs, k = NULL => tcb' = tcb, k # NULL => tcb' = Parked(tcb, k, c)
  PROVE  Queues(e, cbs, k, c)
<1>1. /\ WellFormed(sheet) /\ main \in Seq(Call) /\ tcb \in [Node -> Seq(Call)]
  BY InvIs
<1>2. Doc \in Node /\ NULL \notin Node
  BY NodesDiffer
<1>3. Freed(sheet, tcb, count', Doc) = <<>>
  <2>1. SPath(sheet)[Doc] = <<Doc>>
    BY <1>1, PathStep
  <2>2. Freed(sheet, tcb, count', Doc) = FlattenSeq([i \in 1..1 |-> <<>>])
    <3>1. \A i \in 1..1 :
            (IF count'[<<Doc>>[i]] = 0 THEN tcb[<<Doc>>[i]] ELSE <<>>) = <<>>
      BY <1>2
    <3>2. Len(<<Doc>>) = 1
      OBVIOUS
    <3> QED BY <2>1, <3>1, <3>2 DEF Freed
  <2>3. [i \in 1..1 |-> <<>>] = << <<>> >>
    OBVIOUS
  <2>4. FlattenSeq(<< <<>> >>) = <<>>
    <3>1. <<>> \in Seq(Call)
      OBVIOUS
    <3> QED BY <3>1, FlattenOne
  <2> QED BY <2>2, <2>3, <2>4
<1>4. cbs \in Seq(Call)
  BY DEF Scheduled, Fresh
<1>5. main' = Tail(main) \o (Freed(sheet, tcb, count', Doc) \o cbs)
  BY <1>3, <1>4
<1>6. k = NULL \/ k \in Node
  BY DEF Scheduled, Fresh
<1>7. tcb' = [m \in Node |-> IF m = k THEN Append(IF count'[m] = 0 THEN <<>> ELSE tcb[m], c)
                             ELSE IF count'[m] = 0 THEN <<>> ELSE tcb[m]]
  <2>1. \A m \in Node : (IF count'[m] = 0 THEN <<>> ELSE tcb[m]) = tcb[m]
    OBVIOUS
  <2>2. CASE k = NULL
    <3>1. tcb = [m \in Node |-> tcb[m]]
      BY <1>1
    <3>2. \A m \in Node : m # k
      BY <1>2, <2>2
    <3> QED BY <2>1, <2>2, <3>1, <3>2
  <2>3. CASE k # NULL
    <3>1. tcb' = [m \in Node |-> IF m = k THEN Append(tcb[m], c) ELSE tcb[m]]
      BY <1>1, <1>6, <2>3 DEF Parked
    <3> QED BY <2>1, <3>1
  <2> QED BY <2>2, <2>3
<1>8. QueueTurn(sheet, main, tcb, count', Doc, cbs, k, c, main', tcb')
  BY <1>5, <1>7 DEF QueueTurn
<1> QED BY <1>2, <1>8, QueuesTurned

\* A counter that does not count less frees nothing.
LEMMA NoneFreed ==
  ASSUME NEW B, Inv(B), NEW e \in Elem, NEW H, Counts(e, H), Holds \subseteq H
  PROVE  \A m \in Node : count'[m] = 0 => tcb[m] = <<>>
<1> SUFFICES ASSUME NEW m \in Node, count'[m] = 0 PROVE tcb[m] = <<>>
  OBVIOUS
<1>1. count[m] = 0 /\ ~ (count[m] > 0)
  <2>1. count[m] = 0
    BY CountsAre
  <2> QED BY <2>1
<1>2. tcb[m] \in Seq(Call)
  BY InvIs
<1>3. \A x : x \notin ToSet(tcb[m])
  BY <1>1, InvIs DEF Placed
<1> QED BY <1>2, <1>3, EmptyIs

\* The hold h is given up; at its node a call may be left after that.
LEMMA ReleaseTurn ==
  ASSUME NEW B, Inv(B), NEW e \in Elem, NEW h \in Holds, h[2] = e, main # <<>>,
         Head(main) \in {First(e), Again(e), Set(e)},
         NEW cbs, NEW k, NEW c, Scheduled(e, cbs, k, c),
         NEW path, path = SPath(sheet)[At(sheet, h)],
         count' = Decreased(count, path),
         main' = Joined(Tail(main), Moved(count, tcb, path)) \o cbs,
         k = NULL => tcb' = Drained(count, tcb, path),
         k # NULL => tcb' = Parked(Drained(count, tcb, path), k, c)
  PROVE  Counts(e, Holds \ {h}) /\ Queues(e, cbs, k, c)
<1>1. /\ WellFormed(sheet) /\ main \in Seq(Call) /\ tcb \in [Node -> Seq(Call)]
      /\ Holds \subseteq Hold /\ count = Tally(sheet, Holds) /\ count \in [Node -> Nat]
  BY InvIs DEF Counted
<1>2. Holds \ {h} \subseteq Hold /\ Decreased(Tally(sheet, Holds), path) = Tally(sheet, Holds \ {h})
  BY <1>1, TallyDrop
<1>3. count' = Tally(sheet, Holds \ {h})
  BY <1>1, <1>2
<1>4. Counts(e, Holds \ {h})
  BY <1>2, <1>3 DEF Counts
<1>5. \A m \in Node : count[m] = 0 => tcb[m] = <<>>
  <2> SUFFICES ASSUME NEW m \in Node, count[m] = 0 PROVE tcb[m] = <<>>
    OBVIOUS
  <2>1. ~ (count[m] > 0)
    OBVIOUS
  <2>2. \A x : x \notin ToSet(tcb[m])
    BY <2>1, InvIs DEF Placed
  <2>3. tcb[m] \in Seq(Call)
    BY <1>1
  <2> QED BY <2>2, <2>3, EmptyIs
<1> DEFINE n == At(sheet, h)
<1>6. n \in Node
  BY <1>1, AtIs
<1>7. /\ Moved(count, tcb, path) = Freed(sheet, tcb, count', n)
      /\ Drained(count, tcb, path) = [m \in Node |-> IF count'[m] = 0 THEN <<>> ELSE tcb[m]]
      /\ \A m \in Node : count'[m] = 0 /\ tcb[m] # <<>> => m \in Up(sheet, n)
  <2>1. \A m \in Node : Tally(sheet, Holds)[m] = 0 => tcb[m] = <<>>
    BY <1>1, <1>5
  <2> HIDE DEF n
  <2>3. WellFormed(sheet) /\ tcb \in [Node -> Seq(Call)] /\ Holds \subseteq Hold /\ h \in Holds
    BY <1>1
  <2>4. /\ Moved(Tally(sheet, Holds), tcb, SPath(sheet)[At(sheet, h)])
            = Freed(sheet, tcb, Tally(sheet, Holds \ {h}), At(sheet, h))
        /\ Drained(Tally(sheet, Holds), tcb, SPath(sheet)[At(sheet, h)]) =
             [m \in Node |-> IF Tally(sheet, Holds \ {h})[m] = 0 THEN <<>> ELSE tcb[m]]
        /\ \A m \in Node : Tally(sheet, Holds \ {h})[m] = 0 /\ tcb[m] # <<>> =>
             m \in Up(sheet, At(sheet, h))
    BY <2>1, <2>3, MovedIs
  <2>2. /\ Moved(Tally(sheet, Holds), tcb, path) = Freed(sheet, tcb, Tally(sheet, Holds \ {h}), n)
        /\ Drained(Tally(sheet, Holds), tcb, path) =
             [m \in Node |-> IF Tally(sheet, Holds \ {h})[m] = 0 THEN <<>> ELSE tcb[m]]
        /\ \A m \in Node : Tally(sheet, Holds \ {h})[m] = 0 /\ tcb[m] # <<>> => m \in Up(sheet, n)
    BY <2>4 DEF n
  <2> QED BY <1>1, <1>3, <2>2
<1>8. count' \in [Node -> Nat]
  BY <1>4, CountsAre
<1>9. Freed(sheet, tcb, count', n) \in Seq(Call)
  <2>1. QueuesApart(main, tcb)
    BY InvIs
  <2> HIDE DEF n
  <2> QED BY <1>1, <1>6, <1>7, <1>8, <2>1, FreedHere
<1>10. cbs \in Seq(Call) /\ (k = NULL \/ k \in Node) /\ NULL \notin Node
  BY NodesDiffer DEF Scheduled, Fresh
<1> HIDE DEF n
<1>11. main' = Tail(main) \o (Freed(sheet, tcb, count', n) \o cbs)
  <2>1. Tail(main) \in Seq(Call)
    BY <1>1
  <2>2. main' = (Tail(main) \o Freed(sheet, tcb, count', n)) \o cbs
    BY <1>7 DEF Joined
  <2>3. \A a, b, d \in Seq(Call) : (a \o b) \o d = a \o (b \o d)
    BY JoinsAssociate
  <2> QED BY <1>9, <1>10, <2>1, <2>2, <2>3
<1>12. tcb' = [m \in Node |-> IF m = k THEN Append(IF count'[m] = 0 THEN <<>> ELSE tcb[m], c)
                              ELSE IF count'[m] = 0 THEN <<>> ELSE tcb[m]]
  <2> DEFINE D == [m \in Node |-> IF count'[m] = 0 THEN <<>> ELSE tcb[m]]
  <2>1. CASE k = NULL
    <3>1. \A m \in Node : m # k
      BY <1>10, <2>1
    <3>2. tcb' = D
      BY <1>7, <2>1
    <3> QED BY <3>1, <3>2
  <2>2. CASE k # NULL
    <3>1. tcb' = Parked(D, k, c)
      BY <1>7, <2>2
    <3>2. Parked(D, k, c) = [m \in Node |-> IF m = k THEN Append(D[m], c) ELSE D[m]]
      BY <1>10, <2>2 DEF Parked
    <3> QED BY <3>1, <3>2
  <2> QED BY <2>1, <2>2
<1>13. QueueTurn(sheet, main, tcb, count', n, cbs, k, c, main', tcb')
  BY <1>7, <1>11, <1>12 DEF QueueTurn
<1>14. Queues(e, cbs, k, c)
  BY <1>4, <1>6, <1>13, QueuesTurned
<1> QED BY <1>4, <1>14

\* What a call may schedule.
LEMMA Schedules ==
  ASSUME NEW B, Inv(B), NEW e \in Elem, main # <<>>, NEW cbs, cbs \in Seq(Call), IsInjective(cbs),
         \A x \in ToSet(cbs) :
           /\ x \in {Again(e), Set(e)} \/ \E d \in Elem : x = First(d) /\ sheet.up[d] = e
           /\ x \in Queued => x = Head(main),
         NEW k, NEW c,
         k = NULL \/ /\ k \in Node /\ c \in {Again(e), Set(e)} /\ c \notin ToSet(cbs)
                     /\ c \in Queued => c = Head(main)
  PROVE  Scheduled(e, cbs, k, c)
<1>1. \A x : x \in InQueues(main, tcb) <=> x \in Queued
  <2>1. tcb \in [Node -> Seq(Call)]
    BY InvIs
  <2> QED BY <2>1, QueuedIs DEF InQueues
<1>2. ToSet(cbs) \cap (InQueues(main, tcb) \ {Head(main)}) = {}
  BY <1>1
<1>3. k # NULL => c \in Call /\ c \notin InQueues(main, tcb) \ {Head(main)}
  BY <1>1, CallsDiffer
<1>4. Fresh(main, tcb, cbs, k, c)
  BY <1>2, <1>3 DEF Fresh
<1> QED BY <1>4 DEF Scheduled

LEMMA SchedulesNone ==
  ASSUME NEW B, Inv(B), NEW e \in Elem, main # <<>>, NEW k, NEW c,
         k = NULL \/ /\ k \in Node /\ c \in {Again(e), Set(e)}
                     /\ c \in Queued => c = Head(main)
  PROVE  Scheduled(e, <<>>, k, c) /\ ToSet(<<>>) = {}
<1>1. <<>> \in Seq(Call) /\ ToSet(<<>>) = {} /\ IsInjective(<<>>)
  BY DEF ToSet, IsInjective
<1> QED BY <1>1, Schedules

LEMMA SchedulesOne ==
  ASSUME NEW B, Inv(B), NEW e \in Elem, main # <<>>, NEW x \in {Again(e), Set(e)},
         x \in Queued => x = Head(main), NEW k, NEW c,
         k = NULL \/ /\ k \in Node /\ c \in {Again(e), Set(e)} /\ c # x
                     /\ c \in Queued => c = Head(main)
  PROVE  Scheduled(e, << x >>, k, c) /\ ToSet(<< x >>) = {x}
<1>1. x \in Call
  BY CallsDiffer
<1>2. << x >> \in Seq(Call) /\ ToSet(<< x >>) = {x} /\ IsInjective(<< x >>)
  BY <1>1 DEF ToSet, IsInjective
<1> QED BY <1>2, Schedules

LEMMA PlusOne ==
  ASSUME NEW S, NEW s \in Seq(S), IsInjective(s), NEW x \in S, x \notin ToSet(s)
  PROVE  /\ s \o << x >> \in Seq(S) /\ IsInjective(s \o << x >>)
         /\ ToSet(s \o << x >>) = ToSet(s) \cup {x}
<1>1. s \o << x >> = Append(s, x)
  OBVIOUS
<1>2. Append(s, x) \in Seq(S)
  OBVIOUS
<1>3. IsInjective(Append(s, x)) /\ ToSet(Append(s, x)) = ToSet(s) \cup {x}
  BY AppendsInjective
<1> QED BY <1>1, <1>2, <1>3

\* What is written in a part, and the call that takes the part behind it.
LEMMA ListIs ==
  ASSUME NEW e \in Elem, NEW slot, NEW cbs,
         \/ cbs = Firsts(e, slot) \o << Again(e) >>
         \/ cbs = (Firsts(e, slot) \o << Set(e) >>) \o << Again(e) >>
  PROVE  /\ cbs \in Seq(Call) /\ IsInjective(cbs) /\ Again(e) \in ToSet(cbs)
         /\ \A x : x \in ToSet(cbs) <=>
              \/ \E d \in ChildSet(sheet, e, slot) : x = First(d)
              \/ x = Again(e)
              \/ x = Set(e) /\ Set(e) \in ToSet(cbs)
         /\ \A v, a \in ChildSet(sheet, e, slot) :
              v < a => InFront(cbs, First(v), First(a))
         /\ \A d \in ChildSet(sheet, e, slot) :
              /\ InFront(cbs, First(d), Again(e))
              /\ Set(e) \in ToSet(cbs) => InFront(cbs, First(d), Set(e))
         /\ Set(e) \in ToSet(cbs) => NextTo(cbs, Set(e), Again(e))
         /\ Set(e) \in ToSet(cbs) <=> cbs = (Firsts(e, slot) \o << Set(e) >>) \o << Again(e) >>
<1> DEFINE F == Firsts(e, slot)
           G == F \o << Set(e) >>
           C == ChildSet(sheet, e, slot)
<1>1. /\ F \in Seq(Call) /\ IsInjective(F)
      /\ ToSet(F) = { First(d) : d \in C }
      /\ \A v, a \in C : v < a => InFront(F, First(v), First(a))
  BY FirstsAre
<1>2. /\ <<Set(e)>> \in Seq(Call) /\ ToSet(<<Set(e)>>) = {Set(e)} /\ IsInjective(<<Set(e)>>)
      /\ <<Again(e)>> \in Seq(Call) /\ ToSet(<<Again(e)>>) = {Again(e)} /\ IsInjective(<<Again(e)>>)
  <2>1. Set(e) \in Call /\ Again(e) \in Call
    BY CallsDiffer
  <2> QED BY <2>1 DEF ToSet, IsInjective
<1>3. Set(e) \notin ToSet(F) /\ Again(e) \notin ToSet(F) /\ Set(e) # Again(e)
  <2>1. \A d : First(d) # Set(e) /\ First(d) # Again(e) /\ Set(e) # Again(e)
    BY CallsDiffer
  <2> QED BY <1>1, <2>1
<1>0. Set(e) \in Call /\ Again(e) \in Call
  BY CallsDiffer
<1> HIDE DEF F
<1>4. G \in Seq(Call) /\ IsInjective(G) /\ ToSet(G) = ToSet(F) \cup {Set(e)}
  BY <1>0, <1>1, <1>3, PlusOne
<1>5. \A d \in C : First(d) \in ToSet(F)
  BY <1>1
<1>6. /\ \A v, a \in C : v < a => InFront(G, First(v), First(a))
      /\ \A d \in C : InFront(G, First(d), Set(e))
  <2>1. \A x, y : /\ InFront(F, x, y) => InFront(G, x, y)
                  /\ x \in ToSet(F) /\ y \in ToSet(<<Set(e)>>) => InFront(G, x, y)
    BY <1>1, <1>2, InFrontJoined
  <2> QED BY <1>1, <1>2, <1>5, <2>1
<1>7. Len(G) = Len(F) + 1 /\ G[Len(F) + 1] = Set(e) /\ Len(F) \in Nat
  BY <1>1, <1>2
<1> HIDE DEF G, C
<1>8. CASE cbs = F \o << Again(e) >>
  <2>1. cbs \in Seq(Call) /\ IsInjective(cbs) /\ ToSet(cbs) = ToSet(F) \cup {Again(e)}
    BY <1>0, <1>1, <1>3, <1>8, PlusOne
  <2>2. \A x, y : /\ InFront(F, x, y) => InFront(cbs, x, y)
                  /\ x \in ToSet(F) /\ y \in ToSet(<<Again(e)>>) => InFront(cbs, x, y)
    BY <1>1, <1>2, <1>8, InFrontJoined
  <2>3. Set(e) \notin ToSet(cbs)
    BY <1>3, <2>1
  <2>4. cbs # G \o << Again(e) >>
    <3>1. ToSet(G) \subseteq ToSet(G \o <<Again(e)>>)
      BY <1>2, <1>4, ConcatElements
    <3> QED BY <1>4, <2>3, <3>1
  <2> QED BY <1>1, <1>2, <1>5, <2>1, <2>2, <2>3, <2>4 DEF F, G, C
<1>9. CASE cbs = G \o << Again(e) >>
  <2>1. cbs \in Seq(Call) /\ IsInjective(cbs) /\ ToSet(cbs) = ToSet(G) \cup {Again(e)}
    <3>1. Again(e) \notin ToSet(G)
      BY <1>3, <1>4
    <3> QED BY <1>0, <1>4, <1>9, <3>1, PlusOne
  <2>2. \A x, y : /\ InFront(G, x, y) => InFront(cbs, x, y)
                  /\ x \in ToSet(G) /\ y \in ToSet(<<Again(e)>>) => InFront(cbs, x, y)
    BY <1>2, <1>4, <1>9, InFrontJoined
  <2>3. Set(e) \in ToSet(cbs)
    BY <1>4, <2>1
  <2>4. NextTo(cbs, Set(e), Again(e))
    <3>1. Len(cbs) = Len(F) + 2 /\ cbs[Len(F) + 1] = Set(e) /\ cbs[Len(F) + 2] = Again(e)
      BY <1>2, <1>4, <1>7, <1>9
    <3>2. Len(F) + 1 \in 1..(Len(cbs) - 1) /\ (Len(F) + 1) + 1 = Len(F) + 2
      BY <1>7, <3>1
    <3> QED BY <3>1, <3>2 DEF NextTo
  <2>5. \A v, a \in C : v < a => InFront(cbs, First(v), First(a))
    BY <1>6, <2>2
  <2>6. \A d \in C : InFront(cbs, First(d), Again(e)) /\ InFront(cbs, First(d), Set(e))
    BY <1>2, <1>4, <1>5, <1>6, <2>2
  <2>7. \A x : x \in ToSet(cbs) <=>
              \/ \E d \in C : x = First(d)
              \/ x = Again(e)
              \/ x = Set(e) /\ Set(e) \in ToSet(cbs)
    BY <1>1, <1>4, <2>1, <2>3
  <2> QED BY <1>9, <2>1, <2>3, <2>4, <2>5, <2>6, <2>7 DEF F, G, C
<1> QED BY <1>8, <1>9 DEF F, G

\* A list of calls that an element schedules: every part in order, and what
\* takes the part behind it.
Listed(e, cbs) ==
  /\ cbs \in Seq(Call) /\ IsInjective(cbs)
  /\ \A x \in ToSet(cbs) :
       x \in {Again(e), Set(e)} \/ \E d \in Elem : x = First(d) /\ sheet.up[d] = e
  /\ \A a \in Elem : First(a) \in ToSet(cbs) =>
       /\ \A v \in Elem : sheet.up[v] = e /\ sheet.slot[v] = sheet.slot[a] /\ v < a =>
            InFront(cbs, First(v), First(a))
       /\ InFront(cbs, First(a), Closer(a))
  /\ Set(e) \in ToSet(cbs) => NextTo(cbs, Set(e), Again(e))

\* No other part is opened.
OnlyIn(e, slot, cbs) ==
  \A d \in Elem : First(d) \in ToSet(cbs) => sheet.up[d] = e /\ sheet.slot[d] = slot

\* What the first call of an element schedules, for a part of it.
Lists(e, slot, cbs) ==
  \/ cbs = Firsts(e, slot) \o << Again(e) >> /\ slot # "value"
  \/ cbs = (Firsts(e, slot) \o << Set(e) >>) \o << Again(e) >> /\ slot = "value"

LEMMA ListedIs ==
  ASSUME NEW e \in Elem, NEW slot, NEW cbs, Lists(e, slot, cbs)
  PROVE  /\ Listed(e, cbs) /\ Again(e) \in ToSet(cbs)
         /\ Set(e) \in ToSet(cbs) <=> slot = "value"
         /\ OnlyIn(e, slot, cbs)
<1>0. \/ cbs = Firsts(e, slot) \o << Again(e) >> /\ slot # "value"
      \/ cbs = (Firsts(e, slot) \o << Set(e) >>) \o << Again(e) >> /\ slot = "value"
  BY DEF Lists
<1>1. /\ cbs \in Seq(Call) /\ IsInjective(cbs) /\ Again(e) \in ToSet(cbs)
      /\ \A x : x \in ToSet(cbs) <=>
           \/ \E d \in ChildSet(sheet, e, slot) : x = First(d)
           \/ x = Again(e)
           \/ x = Set(e) /\ Set(e) \in ToSet(cbs)
      /\ \A v, a \in ChildSet(sheet, e, slot) : v < a => InFront(cbs, First(v), First(a))
      /\ \A d \in ChildSet(sheet, e, slot) :
           /\ InFront(cbs, First(d), Again(e))
           /\ Set(e) \in ToSet(cbs) => InFront(cbs, First(d), Set(e))
      /\ Set(e) \in ToSet(cbs) => NextTo(cbs, Set(e), Again(e))
      /\ Set(e) \in ToSet(cbs) <=> cbs = (Firsts(e, slot) \o << Set(e) >>) \o << Again(e) >>
  BY <1>0, ListIs
<1>2. \A d : First(d) # Again(e) /\ First(d) # Set(e) /\ \A f : First(d) = First(f) => d = f
  BY CallsDiffer
<1>3. \A d \in Elem : First(d) \in ToSet(cbs) <=> d \in ChildSet(sheet, e, slot)
  <2> TAKE d \in Elem
  <2>1. First(d) \in ToSet(cbs) <=> \E f \in ChildSet(sheet, e, slot) : First(d) = First(f)
    BY <1>1, <1>2
  <2> QED BY <1>2, <2>1
<1>4. \A d \in Elem : d \in ChildSet(sheet, e, slot) <=> sheet.up[d] = e /\ sheet.slot[d] = slot
  BY DEF ChildSet
<1>5. Set(e) \in ToSet(cbs) <=> slot = "value"
  <2>1. CASE slot # "value"
    <3>1. cbs = Firsts(e, slot) \o << Again(e) >>
      BY <1>0, <2>1
    <3>2. Set(e) \notin ToSet(cbs)
      <4>1. ToSet(cbs) = ToSet(Firsts(e, slot)) \cup {Again(e)}
        <5>1. Firsts(e, slot) \in Seq(Call) /\ IsInjective(Firsts(e, slot)) /\ Again(e) \in Call
          BY FirstsAre, CallsDiffer
        <5>2. Again(e) \notin ToSet(Firsts(e, slot))
          BY <1>2, FirstsAre
        <5> QED BY <3>1, <5>1, <5>2, PlusOne
      <4>2. Set(e) \notin ToSet(Firsts(e, slot)) /\ Set(e) # Again(e)
        BY <1>2, FirstsAre, CallsDiffer
      <4> QED BY <4>1, <4>2
    <3> QED BY <2>1, <3>2
  <2>2. CASE slot = "value"
    BY <1>0, <1>1, <2>2
  <2> QED BY <2>1, <2>2
<1>6. ChildSet(sheet, e, slot) \subseteq Elem
  BY DEF ChildSet
<1>7. \A x \in ToSet(cbs) :
       x \in {Again(e), Set(e)} \/ \E d \in Elem : x = First(d) /\ sheet.up[d] = e
  BY <1>1, <1>4, <1>6
<1>8. \A a \in Elem : First(a) \in ToSet(cbs) =>
       /\ \A v \in Elem : sheet.up[v] = e /\ sheet.slot[v] = sheet.slot[a] /\ v < a =>
            InFront(cbs, First(v), First(a))
       /\ InFront(cbs, First(a), Closer(a))
  <2> SUFFICES ASSUME NEW a \in Elem, First(a) \in ToSet(cbs)
               PROVE  /\ \A v \in Elem : sheet.up[v] = e /\ sheet.slot[v] = sheet.slot[a] /\ v < a =>
                           InFront(cbs, First(v), First(a))
                      /\ InFront(cbs, First(a), Closer(a))
    OBVIOUS
  <2>1. a \in ChildSet(sheet, e, slot) /\ sheet.up[a] = e /\ sheet.slot[a] = slot
    BY <1>3, <1>4
  <2>2. InFront(cbs, First(a), Closer(a))
    BY <1>1, <1>5, <2>1 DEF Closer
  <2> QED BY <1>1, <1>4, <2>1, <2>2
<1> QED BY <1>1, <1>3, <1>4, <1>5, <1>7, <1>8 DEF Listed, OnlyIn

LEMMA ListedValue ==
  ASSUME NEW e \in Elem, NEW cbs, cbs = (Firsts(e, "value") \o << Set(e) >>) \o << Again(e) >>
  PROVE  /\ Listed(e, cbs) /\ Again(e) \in ToSet(cbs) /\ Set(e) \in ToSet(cbs)
         /\ OnlyIn(e, "value", cbs)
<1> DEFINE slot == "value"
<1>1. Lists(e, slot, cbs) /\ slot = "value"
  BY DEF Lists
<1> HIDE DEF slot
<1>2. Listed(e, cbs)
  BY <1>1, ListedIs
<1>3. Again(e) \in ToSet(cbs)
  BY <1>1, ListedIs
<1>4. Set(e) \in ToSet(cbs) <=> slot = "value"
  BY <1>1, ListedIs
<1>5. OnlyIn(e, slot, cbs)
  BY <1>1, ListedIs
<1> QED BY <1>1, <1>2, <1>3, <1>4, <1>5

LEMMA ListedContent ==
  ASSUME NEW e \in Elem, NEW slot, slot # "value", NEW cbs,
         cbs = Firsts(e, slot) \o << Again(e) >>
  PROVE  /\ Listed(e, cbs) /\ Again(e) \in ToSet(cbs) /\ Set(e) \notin ToSet(cbs)
         /\ OnlyIn(e, slot, cbs)
<1>1. Lists(e, slot, cbs) /\ slot # "value"
  BY DEF Lists
<1>2. Listed(e, cbs)
  BY <1>1, ListedIs
<1>3. Again(e) \in ToSet(cbs)
  BY <1>1, ListedIs
<1>4. Set(e) \in ToSet(cbs) <=> slot = "value"
  BY <1>1, ListedIs
<1>5. OnlyIn(e, slot, cbs)
  BY <1>1, ListedIs
<1> QED BY <1>1, <1>2, <1>3, <1>4, <1>5

LEMMA ListedFew ==
  ASSUME NEW e \in Elem
  PROVE  /\ Listed(e, <<>>) /\ ToSet(<<>>) = {}
         /\ Listed(e, << Again(e) >>) /\ ToSet(<< Again(e) >>) = {Again(e)}
<1>1. \A d : First(d) # Again(e) /\ Set(e) # Again(e)
  BY CallsDiffer
<1>2. /\ <<>> \in Seq(Call) /\ ToSet(<<>>) = {} /\ IsInjective(<<>>)
  BY DEF ToSet, IsInjective
<1>3. /\ <<Again(e)>> \in Seq(Call) /\ ToSet(<<Again(e)>>) = {Again(e)} /\ IsInjective(<<Again(e)>>)
  <2>1. Again(e) \in Call
    BY CallsDiffer
  <2> QED BY <2>1 DEF ToSet, IsInjective
<1> QED BY <1>1, <1>2, <1>3 DEF Listed

\* What is listed may be scheduled if its part has not been opened before.
LEMMA ListJoined ==
  ASSUME NEW m \in Seq(Call), NEW e \in Elem, NEW slot
  PROVE  (m \o Firsts(e, slot)) \o << Again(e) >> = m \o (Firsts(e, slot) \o << Again(e) >>)
<1>1. \A a, b, c \in Seq(Call) : (a \o b) \o c = a \o (b \o c)
  BY JoinsAssociate
<1>2. Firsts(e, slot) \in Seq(Call) /\ << Again(e) >> \in Seq(Call)
  BY FirstsAre, CallsDiffer
<1> QED BY <1>1, <1>2

LEMMA ListScheduled ==
  ASSUME NEW B, Inv(B), NEW e \in Elem, main # <<>>, NEW cbs, Listed(e, cbs),
         \A d \in Elem : First(d) \in ToSet(cbs) => Closed(B, e, sheet.slot[d]),
         Again(e) \in ToSet(cbs) /\ Again(e) \in Queued => Again(e) = Head(main),
         Set(e) \in ToSet(cbs) /\ Set(e) \in Queued => Set(e) = Head(main),
         NEW k, NEW c,
         k = NULL \/ /\ k \in Node /\ c \in {Again(e), Set(e)} /\ c \notin ToSet(cbs)
                     /\ c \in Queued => c = Head(main)
  PROVE  Scheduled(e, cbs, k, c)
<1>1. cbs \in Seq(Call) /\ IsInjective(cbs)
  BY DEF Listed
<1>2. ASSUME NEW x \in ToSet(cbs)
      PROVE  /\ x \in {Again(e), Set(e)} \/ \E d \in Elem : x = First(d) /\ sheet.up[d] = e
             /\ x \in Queued => x = Head(main)
  <2>1. x \in {Again(e), Set(e)} \/ \E d \in Elem : x = First(d) /\ sheet.up[d] = e
    BY DEF Listed
  <2>2. CASE x \in {Again(e), Set(e)}
    BY <2>2
  <2>3. CASE \E d \in Elem : x = First(d) /\ sheet.up[d] = e
    <3>1. PICK d \in Elem : x = First(d) /\ sheet.up[d] = e
      BY <2>3
    <3>2. sheet.up[d] # 0
      BY <3>1, ElemNumbers
    <3>3. First(d) \notin Queued
      BY <3>1, <3>2, InvIs DEF Begun
    <3> QED BY <2>1, <3>1, <3>3
  <2> QED BY <2>1, <2>2, <2>3
<1> QED BY <1>1, <1>2, Schedules

-----------------------------------------------------------------------------
(***************************************************************************)
(* The document, when an element puts its nodes into it.                   *)
(***************************************************************************)
Mine(e) == {Self(e), Tmp(e), Arg(e), Ret(e), Text(e)}

LEMMA MineIs ==
  ASSUME NEW e \in Elem
  PROVE  Mine(e) = {<<r, e>> : r \in Role} /\ Mine(e) \subseteq Node
<1>1. Mine(e) = {<<r, e>> : r \in Role}
  BY DEF Mine, Role, Self, Tmp, Arg, Ret, Text
<1>2. Mine(e) \subseteq Node
  BY NodesDiffer DEF Mine
<1> QED BY <1>1, <1>2

Grows(e, K, K2) ==
  /\ TreeOK(sheet, K2)
  /\ \A m \in Node : /\ ToSet(K[m]) \subseteq ToSet(K2[m])
                     /\ ToSet(K2[m]) \subseteq ToSet(K[m]) \cup Mine(e)

LEMMA GrowOne ==
  ASSUME NEW e \in Elem, NEW K, TreeOK(sheet, K), NEW p \in Node, NEW n \in Mine(e),
         Detached(K, n), Rank(p) < Rank(n), n \in {Tmp(e), Arg(e), Ret(e)} => p = Above(sheet, n)
  PROVE  /\ Grows(e, K, WithChild(K, p, n))
         /\ \A m \in Node : ToSet(WithChild(K, p, n)[m]) =
              IF m = p THEN ToSet(K[m]) \cup {n} ELSE ToSet(K[m])
<1>1. Fits(sheet, p, n)
  <2>1. n \in Node /\ n \notin {Doc, Response, Var}
    BY NodesDiffer DEF Mine
  <2>2. \A f \in Elem : n \in {Tmp(f), Arg(f), Ret(f)} => n \in {Tmp(e), Arg(e), Ret(e)}
    BY NodesDiffer DEF Mine
  <2> QED BY <2>1, <2>2 DEF Fits
<1>2. /\ TreeOK(sheet, WithChild(K, p, n))
      /\ \A m \in Node : ToSet(WithChild(K, p, n)[m]) =
           IF m = p THEN ToSet(K[m]) \cup {n} ELSE ToSet(K[m])
  BY <1>1, Attach
<1> QED BY <1>2 DEF Grows

LEMMA GrowsOn ==
  ASSUME NEW e \in Elem, NEW K, NEW K1, NEW K2, Grows(e, K, K1), Grows(e, K1, K2)
  PROVE  Grows(e, K, K2)
BY DEF Grows

\* What stands goes on standing.
LEMMA GrowsStands ==
  ASSUME NEW e \in Elem, NEW K, NEW K2, Grows(e, K, K2), WellFormed(sheet), NEW n \in Node
  PROVE  /\ Hangs(sheet, K, n) => Hangs(sheet, K2, n)
         /\ Stands(sheet, K, n) => Stands(sheet, K2, n)
<1>1. \A m \in Node : Hangs(sheet, K, m) => Hangs(sheet, K2, m)
  <2> TAKE m \in Node
  <2>1. m # Doc => Above(sheet, m) \in Node
    BY AboveRanks
  <2> QED BY <2>1 DEF Hangs, Grows
<1>2. Up(sheet, n) \subseteq Node
  BY UpFacts
<1> QED BY <1>1, <1>2 DEF Stands

LEMMA GrowsAlters ==
  ASSUME NEW B, NEW e \in Elem, Grows(e, kids, kids'), NEW B2, B2 \subseteq Elem
  PROVE  Alters(e, B, B2, FALSE)
<1>1. \A m, n \in Node :
        n \in ToSet(kids[m]) /\ ~ (FALSE /\ (n = Self(e) \/ m = Ret(e))) => n \in ToSet(kids'[m])
  BY DEF Grows
<1>2. \A n \in Node :
        Loose(n) /\ n \notin { <<r, e>> : r \in Role } /\ (\A d \in B2 \ B : n # Self(d)) => Loose(n)'
  BY MineIs DEF Grows, Loose
<1> QED BY <1>1, <1>2 DEF Alters, Grows

\* The nodes of e, with its own put where it belongs.
Rooted(e, K) ==
  /\ Grows(e, kids, K) /\ Stands(sheet, K, Self(e))
  /\ Detached(K, Tmp(e)) /\ Detached(K, Arg(e)) /\ Detached(K, Ret(e)) /\ Detached(K, Text(e))

LEMMA SelfGrows ==
  ASSUME NEW B, Inv(B), NEW e \in Elem, e \notin B, First(e) \in Queued
  PROVE  Rooted(e, WithChild(kids, Place(sheet, e), Self(e)))
<1> DEFINE p == Place(sheet, e)
           K == WithChild(kids, p, Self(e))
<1>1. WellFormed(sheet) /\ TreeOK(sheet, kids) /\ kids \in [Node -> Seq(Node)]
  BY InvIs
<1>2. \A n \in Mine(e) : Detached(kids, n)
  <2>1. Blank(e)
    BY InvIs DEF Begun
  <2> QED BY <2>1, MineIs DEF Blank, Loose, Detached
<1>3. p \in Node /\ Rank(p) < Rank(Self(e))
  BY <1>1, PlaceIs, RankIs
<1>4. Self(e) \in Mine(e) /\ Self(e) \notin {Tmp(e), Arg(e), Ret(e)} /\ Self(e) \in Node
  BY NodesDiffer DEF Mine
<1> HIDE DEF p
<1>5. /\ Grows(e, kids, K)
      /\ \A m \in Node : ToSet(K[m]) = IF m = p THEN ToSet(kids[m]) \cup {Self(e)} ELSE ToSet(kids[m])
  <2>1. Detached(kids, Self(e)) /\ TreeOK(sheet, kids)
    BY <1>1, <1>2, <1>4
  <2>2. Self(e) \in {Tmp(e), Arg(e), Ret(e)} => p = Above(sheet, Self(e))
    BY <1>4
  <2>3. Self(e) \in Mine(e) /\ p \in Node /\ Rank(p) < Rank(Self(e))
    BY <1>3, <1>4
  <2> HIDE DEF K
  <2>4. \A K2 : K2 = WithChild(kids, p, Self(e)) =>
          /\ Grows(e, kids, K2)
          /\ \A m \in Node : ToSet(K2[m]) = IF m = p THEN ToSet(kids[m]) \cup {Self(e)} ELSE ToSet(kids[m])
    BY <2>1, <2>2, <2>3, GrowOne
  <2> QED BY <2>4 DEF K
<1> HIDE DEF K
<1>6. Stands(sheet, K, Self(e))
  <2>1. Stands(sheet, kids, p)
    BY FirstIn DEF p
  <2>2. Stands(sheet, K, p)
    BY <1>1, <1>3, <1>5, <2>1, GrowsStands
  <2>3. Hangs(sheet, K, Self(e))
    <3>1. Above(sheet, Self(e)) = p
      BY AboveIs DEF p
    <3> QED BY <1>3, <1>5, <3>1 DEF Hangs
  <2>4. Up(sheet, Self(e)) = {Self(e)} \cup Up(sheet, p)
    BY <1>1, UpIs DEF p
  <2> QED BY <2>2, <2>3, <2>4 DEF Stands
<1>7. \A n \in {Tmp(e), Arg(e), Ret(e), Text(e)} : Detached(K, n)
  <2>1. \A n \in {Tmp(e), Arg(e), Ret(e), Text(e)} : n # Self(e) /\ n \in Mine(e)
    BY NodesDiffer DEF Mine
  <2> QED BY <1>2, <1>5, <2>1 DEF Detached
<1>8. Rooted(e, K)
  BY <1>5, <1>6, <1>7 DEF Rooted
<1> QED BY <1>8 DEF K, p

\* A node is put under one that stands, where it belongs.
Puts(e, K, p, n, K2) ==
  /\ Grows(e, kids, K2) /\ Stands(sheet, K2, n) /\ Hangs(sheet, K2, n)
  /\ \A m \in Node : ToSet(K2[m]) = IF m = p THEN ToSet(K[m]) \cup {n} ELSE ToSet(K[m])
  /\ \A m \in Node : Stands(sheet, K, m) => Stands(sheet, K2, m)
  /\ \A m \in Node : Hangs(sheet, K, m) => Hangs(sheet, K2, m)
  /\ \A m : m # n /\ Detached(K, m) => Detached(K2, m)
  /\ PathIn(K2, n) = SPath(sheet)[n]

LEMMA NextGrows ==
  ASSUME NEW B, Inv(B), NEW e \in Elem, NEW K, Grows(e, kids, K), NEW p \in Node, NEW n \in Mine(e),
         Detached(K, n), Rank(p) < Rank(n), p = Above(sheet, n), Stands(sheet, K, p),
         NEW K2, K2 = WithChild(K, p, n)
  PROVE  Puts(e, K, p, n, K2)
<1>1. WellFormed(sheet) /\ TreeOK(sheet, K)
  BY InvIs DEF Grows
<1>2. /\ Grows(e, K, K2)
      /\ \A m \in Node : ToSet(K2[m]) = IF m = p THEN ToSet(K[m]) \cup {n} ELSE ToSet(K[m])
  BY <1>1, GrowOne
<1>3. n \in Node /\ n # Doc
  BY NodesDiffer DEF Mine
<1>4. Grows(e, kids, K2) /\ TreeOK(sheet, K2)
  BY <1>2, GrowsOn DEF Grows
<1>5. Hangs(sheet, K2, n)
  BY <1>2 DEF Hangs
<1>6. \A m \in Node : /\ Stands(sheet, K, m) => Stands(sheet, K2, m)
                      /\ Hangs(sheet, K, m) => Hangs(sheet, K2, m)
  BY <1>1, <1>2, GrowsStands
<1>7. Stands(sheet, K2, n)
  <2>1. Up(sheet, n) = {n} \cup Up(sheet, p)
    BY <1>1, <1>3, UpStep
  <2> QED BY <1>5, <1>6, <2>1 DEF Stands
<1>8. \A m : m # n /\ Detached(K, m) => Detached(K2, m)
  BY <1>2 DEF Detached
<1>9. PathIn(K2, n) = SPath(sheet)[n]
  BY <1>1, <1>3, <1>4, <1>7, PathIs
<1> QED BY <1>2, <1>4, <1>5, <1>6, <1>7, <1>8, <1>9 DEF Puts

\* The nodes an element begins with: its own, and the one that it waits on.
LEMMA WaitGrows ==
  ASSUME NEW B, Inv(B), NEW e \in Elem, e \notin B, First(e) \in Queued, NEW n \in {Tmp(e), Ret(e)},
         NEW K, K = WithChild(WithChild(kids, Place(sheet, e), Self(e)), Self(e), n)
  PROVE  /\ Grows(e, kids, K) /\ Stands(sheet, K, Self(e)) /\ Stands(sheet, K, n)
         /\ n \in ToSet(K[Self(e)]) /\ Hangs(sheet, K, n)
         /\ \A m \in {Tmp(e), Arg(e), Ret(e), Text(e)} : m # n => Detached(K, m)
         /\ PathIn(K, Self(e)) = SPath(sheet)[Self(e)]
         /\ PathIn(K, n) = SPath(sheet)[n]
<1> DEFINE K1 == WithChild(kids, Place(sheet, e), Self(e))
<1>0. K = WithChild(K1, Self(e), n)
  OBVIOUS
<1>1. Rooted(e, K1)
  BY SelfGrows
<1>2. Self(e) \in Node /\ n \in Mine(e) /\ Above(sheet, n) = Self(e) /\ n \in Node
  BY AboveIs, NodesDiffer DEF Mine
<1>3. Rank(Self(e)) < Rank(n)
  BY RankIs, ElemNumbers
<1>4. Detached(K1, n)
  BY <1>1 DEF Rooted
<1> HIDE DEF K1
<1>5. /\ Grows(e, kids, K) /\ Stands(sheet, K, n) /\ Hangs(sheet, K, n)
      /\ \A m \in Node : ToSet(K[m]) = IF m = Self(e) THEN ToSet(K1[m]) \cup {n} ELSE ToSet(K1[m])
      /\ \A m \in Node : Stands(sheet, K1, m) => Stands(sheet, K, m)
      /\ \A m : m # n /\ Detached(K1, m) => Detached(K, m)
      /\ PathIn(K, n) = SPath(sheet)[n]
  <2>1. Grows(e, kids, K1) /\ Stands(sheet, K1, Self(e))
    BY <1>1 DEF Rooted
  <2>2. Puts(e, K1, Self(e), n, K)
    BY <1>0, <1>2, <1>3, <1>4, <2>1, NextGrows
  <2> QED BY <2>2 DEF Puts
<1>6. Stands(sheet, K, Self(e))
  BY <1>1, <1>2, <1>5 DEF Rooted
<1>7. PathIn(K, Self(e)) = SPath(sheet)[Self(e)]
  BY <1>2, <1>5, <1>6, PathIs, InvIs DEF Grows
<1>8. \A m \in {Tmp(e), Arg(e), Ret(e), Text(e)} : m # n => Detached(K, m)
  BY <1>1, <1>5 DEF Rooted
<1>9. n \in ToSet(K[Self(e)])
  BY <1>2, <1>5
<1> QED BY <1>5, <1>6, <1>7, <1>8, <1>9

\* With the node below that.
LEMMA ValueGrows ==
  ASSUME NEW B, Inv(B), NEW e \in Elem, e \notin B, First(e) \in Queued,
         NEW n, NEW x, (n = Tmp(e) /\ x = Arg(e)) \/ (n = Ret(e) /\ x = Text(e)),
         NEW K, K = WithChild(WithChild(kids, Place(sheet, e), Self(e)), Self(e), n),
         NEW K2, K2 = WithChild(K, n, x)
  PROVE  /\ Grows(e, kids, K2) /\ Stands(sheet, K2, Self(e))
         /\ n \in ToSet(K2[Self(e)]) /\ Hangs(sheet, K2, n)
         /\ x = Arg(e) => Hangs(sheet, K2, x)
         /\ \A m \in {Tmp(e), Arg(e), Ret(e), Text(e)} : m # n /\ m # x => Detached(K2, m)
<1>1. /\ Grows(e, kids, K) /\ Stands(sheet, K, Self(e)) /\ Stands(sheet, K, n)
      /\ n \in ToSet(K[Self(e)]) /\ Hangs(sheet, K, n)
      /\ \A m \in {Tmp(e), Arg(e), Ret(e), Text(e)} : m # n => Detached(K, m)
  <2>1. n \in {Tmp(e), Ret(e)}
    OBVIOUS
  <2> QED BY <2>1, WaitGrows
<1>2. /\ n \in Node /\ x \in Mine(e) /\ Rank(n) < Rank(x) /\ Self(e) \in Node
      /\ x \in {Tmp(e), Arg(e), Ret(e)} => n = Above(sheet, x)
      /\ x = Arg(e) => n = Above(sheet, x)
  <2>1. Rank(Tmp(e)) < Rank(Arg(e)) /\ Rank(Ret(e)) < Rank(Text(e))
    BY RankIs, ElemNumbers
  <2> QED BY <2>1, AboveIs, NodesDiffer DEF Mine
<1>3. Detached(K, x) /\ TreeOK(sheet, K)
  BY <1>1, NodesDiffer DEF Grows
<1>4. /\ Grows(e, K, K2)
      /\ \A m \in Node : ToSet(K2[m]) = IF m = n THEN ToSet(K[m]) \cup {x} ELSE ToSet(K[m])
  BY <1>2, <1>3, GrowOne
<1>5. Grows(e, kids, K2)
  BY <1>1, <1>4, GrowsOn
<1>6. Stands(sheet, K2, Self(e)) /\ Hangs(sheet, K2, n)
  BY <1>1, <1>2, <1>4, GrowsStands, InvIs
<1>7. n \in ToSet(K2[Self(e)]) /\ (x = Arg(e) => Hangs(sheet, K2, x))
  BY <1>1, <1>2, <1>4 DEF Hangs
<1>8. ASSUME NEW m \in {Tmp(e), Arg(e), Ret(e), Text(e)}, m # n, m # x
      PROVE  Detached(K2, m)
  <2>1. Detached(K, m)
    BY <1>1, <1>8
  <2> QED BY <1>4, <1>8, <2>1 DEF Detached
<1> QED BY <1>5, <1>6, <1>7, <1>8

-----------------------------------------------------------------------------
(***************************************************************************)
(* The first call of an element: it schedules cbs, and may leave the call  *)
(* that brings its value on the node k.                                    *)
(***************************************************************************)
Asks(e, cbs, k) == Set(e) \in ToSet(cbs) \/ k # NULL

\* The queues, ...
Starts(e, cbs, k) ==
  /\ main # <<>> /\ Head(main) = First(e)
  /\ Listed(e, cbs) /\ main' = Tail(main) \o cbs
  /\ k = NULL => tcb' = tcb
  /\ k # NULL => /\ k \in Node /\ count'[k] > 0 /\ MayWait(Set(e), k)'
                 /\ Set(e) \notin ToSet(cbs) /\ tcb' = Parked(tcb, k, Set(e))

\* ... the calls that the kind of the element has, ...
Plans(e, cbs, k) ==
  /\ Again(e) \in ToSet(cbs) => Kin(e) # "text"
  /\ Asks(e, cbs, k) =>
       /\ Kin(e) \in {"value-of", "copy-of", "if", "include", "variable"}
       /\ \/ Source(sheet, e) = "variable"
          \/ Source(sheet, e) = "nodelist" /\ Kin(e) \in {"value-of", "include"}
       /\ Kin(e) # "variable" <=> Again(e) \in ToSet(cbs)
  /\ k # NULL => Source(sheet, e) = "variable"
  /\ \A d \in Elem : First(d) \in ToSet(cbs) =>
       /\ Kin(e) \notin {"if", "text"} /\ Again(e) \in ToSet(cbs)
       /\ Kin(e) = "include" => sheet.slot[d] = "value"

\* ... what is held then, ...
Takes(e, cbs, k, H) ==
  /\ H \subseteq Hold /\ Holds \subseteq H /\ count' = Tally(sheet, H)
  /\ \A h \in H : h \in Holds \/ h[2] = e
  /\ SelfHold(e) \in H <=>
       Kin(e) \notin {"response", "text"} /\ (Again(e) \in ToSet(cbs) \/ Asks(e, cbs, k))
  /\ ValueHold(e) \in H <=> Asks(e, cbs, k) /\ Source(sheet, e) = "variable"
  /\ ParamsHold(e) \in H <=> Kin(e) = "include" /\ Again(e) \in ToSet(cbs)
  /\ ResultHold(e) \notin H

\* ... and the document.
Builds(e, cbs, k) ==
  /\ Grows(e, kids, kids')
  /\ Kin(e) # "response" /\ (Again(e) \in ToSet(cbs) \/ Asks(e, cbs, k)) =>
       /\ Stands(sheet, kids', Self(e))
       /\ Kin(e) \in {"value-of", "if", "include"} => Hangs(sheet, kids', Tmp(e))
       /\ Kin(e) = "copy-of" => Hangs(sheet, kids', Ret(e))
  /\ Set(e) \in ToSet(cbs) /\ Kin(e) # "variable" => Hangs(sheet, kids', Arg(e))
  /\ Kin(e) \in {"value-of", "include"} => Detached(kids', Text(e))
  /\ Kin(e) = "copy-of" /\ Asks(e, cbs, k) => Detached(kids', Text(e))
  /\ Kin(e) \in {"if", "include"} => Detached(kids', Ret(e))

FirstStage(e) ==
  IF Kin(e) = "if" THEN "test"
  ELSE IF Kin(e) = "include" THEN "PARAMS_BEGIN"
  ELSE IF Kin(e) = "response" THEN "second" ELSE "start"

Notes(e) ==
  /\ Leaves(e) /\ stage'[e] = FirstStage(e) /\ requested' = requested
  /\ responseCur' = responseCur
  /\ Kin(e) = "variable" => bound'[e] # "no"

LEMMA UpDiffers ==
  ASSUME NEW s, WellFormed(s), NEW a \in Elem, NEW p \in Elem, s.up[a] = p
  PROVE  a # p /\ p # 0
<1>1. s.up[a] < a
  BY DEF WellFormed
<1>2. p \in Nat /\ a \in Nat /\ p > 0
  BY ElemNumbers
<1> QED BY <1>1, <1>2

\* Nothing that is in an element that is not begun has a call to come.
LEMMA NothingIn ==
  ASSUME NEW B, Inv(B), NEW e \in Elem, e \notin B,
         NEW d \in Elem, d # e, Busy(d), Kin(d) # "response"
  PROVE  \A n \in {Self(e), Tmp(e), Arg(e), Ret(e)} : n \notin Up(sheet, Self(d))
<1>1. WellFormed(sheet) /\ Standing
  BY InvIs
<1>2. Self(d) \in Node /\ Self(e) \in Node /\ Self(e) # Doc
  BY NodesDiffer
<1>3. Self(e) \notin Up(sheet, Self(d))
  <2> SUFFICES ASSUME Self(e) \in Up(sheet, Self(d)) PROVE FALSE
    OBVIOUS
  <2>1. Hangs(sheet, kids, Self(e))
    BY <1>1 DEF Standing, Stands
  <2>2. Above(sheet, Self(e)) \in Node
    BY <1>1, <1>2, AboveRanks
  <2>3. Loose(Self(e))
    <3>1. Blank(e)
      BY InvIs DEF Begun
    <3> QED BY <3>1 DEF Blank, Role, Self
  <2> QED BY <1>2, <2>1, <2>2, <2>3 DEF Hangs, Loose
<1> QED BY <1>1, <1>2, <1>3, PartOf

\* Nothing is known of an element before its first call.
LEMMA HeadBlank ==
  ASSUME NEW B, Inv(B), NEW e \in Elem, main # <<>>, Head(main) = First(e)
  PROVE  /\ e \notin B /\ First(e) \in Queued /\ InMain(First(e)) /\ Blank(e)
         /\ Again(e) \notin Queued /\ Set(e) \notin Queued /\ stage[e] = "start"
         /\ ~ Busy(e) /\ \A h \in Holds : h[2] # e
<1>1. e \notin B /\ First(e) \in Queued
  BY HeadBegins
<1>2. Blank(e) /\ InMain(First(e))
  BY <1>1, InvIs DEF Begun
<1>3. Again(e) \notin Queued /\ Set(e) \notin Queued /\ stage[e] = "start" /\ ~ Busy(e)
  BY <1>2 DEF Blank, Busy
<1>4. \A h \in Holds : h[2] # e
  BY <1>3, InvIs, HoldBusy
<1> QED BY <1>1, <1>2, <1>3, <1>4

\* Where the calls are after it.
LEMMA StartQueues ==
  ASSUME NEW B, Inv(B), NEW e \in Elem, NEW cbs, NEW k, NEW H,
         Starts(e, cbs, k), Plans(e, cbs, k), Takes(e, cbs, k, H)
  PROVE  /\ Counts(e, H) /\ Queues(e, cbs, k, Set(e))
         /\ Again(e) \in Queued' <=> Again(e) \in ToSet(cbs)
         /\ Set(e) \in Queued' <=> Asks(e, cbs, k)
         /\ \A x \in ToSet(cbs) : InMain(x)'
         /\ \A x \in Call : InMain(x)' <=> (InMain(x) /\ x # Head(main)) \/ x \in ToSet(cbs)
         /\ k = NULL => (Set(e) \in Queued' => InMain(Set(e))')
<1>1. main # <<>> /\ Head(main) = First(e)
  BY DEF Starts
<1>2. e \notin B /\ Again(e) \notin Queued /\ Set(e) \notin Queued
  BY <1>1, HeadBlank
<1>3. Counts(e, H)
  BY <1>1 DEF Counts, Takes
<1>4. \A m \in Node : count'[m] = 0 => tcb[m] = <<>>
  BY <1>3, NoneFreed DEF Takes
<1>5. Scheduled(e, cbs, k, Set(e))
  <2>1. k = NULL \/ /\ k \in Node /\ Set(e) \in {Again(e), Set(e)} /\ Set(e) \notin ToSet(cbs)
                    /\ Set(e) \in Queued => Set(e) = Head(main)
    BY <1>2 DEF Starts
  <2>2. \A d \in Elem : First(d) \in ToSet(cbs) => Closed(B, e, sheet.slot[d])
    BY <1>2 DEF Closed
  <2>3. Again(e) \in ToSet(cbs) /\ Again(e) \in Queued => Again(e) = Head(main)
    BY <1>2
  <2>4. Set(e) \in ToSet(cbs) /\ Set(e) \in Queued => Set(e) = Head(main)
    BY <1>2
  <2>5. Listed(e, cbs)
    BY DEF Starts
  <2> QED BY <1>1, <2>1, <2>2, <2>3, <2>4, <2>5, ListScheduled
<1>6. Queues(e, cbs, k, Set(e))
  <2>1. /\ main' = Tail(main) \o cbs
        /\ k = NULL => tcb' = tcb
        /\ k # NULL => tcb' = Parked(tcb, k, Set(e))
    BY DEF Starts
  <2> QED BY <1>1, <1>3, <1>4, <1>5, <2>1, PlainTurn
<1>7. \A x \in Call : InMain(x)' <=> (InMain(x) /\ x # Head(main)) \/ x \in ToSet(cbs)
  <2>1. \A m \in Node : count'[m] = 0 => ToSet(tcb[m]) = {}
    BY <1>4, ListedFew
  <2>2. \A x : InMain(x)' <=> \/ InMain(x) /\ x # Head(main)
                              \/ \E m \in Node : count'[m] = 0 /\ x \in ToSet(tcb[m])
                              \/ x \in ToSet(cbs)
    BY <1>6, QueuesAre
  <2> QED BY <2>1, <2>2
<1>8. \A x :
        x \in Queued' <=>
          \/ x \in Queued /\ x # Head(main)
          \/ x \in ToSet(cbs)
          \/ k # NULL /\ x = Set(e)
  BY <1>6, QueuesAre
<1>9. Again(e) # Set(e) /\ Again(e) \in Call /\ Set(e) \in Call
  BY CallsDiffer
<1>10. Again(e) \in Queued' <=> Again(e) \in ToSet(cbs)
  BY <1>2, <1>8, <1>9
<1>11. Set(e) \in Queued' <=> Asks(e, cbs, k)
  BY <1>2, <1>8, <1>9 DEF Asks
<1>12. \A x \in ToSet(cbs) : InMain(x)'
  <2>1. ToSet(cbs) \subseteq Call
    BY DEF Starts, Listed, ToSet
  <2> QED BY <1>7, <2>1
<1> QED BY <1>3, <1>6, <1>7, <1>10, <1>11, <1>12 DEF Asks

\* The first call of an element keeps the invariant.
LEMMA StartKeeps ==
  ASSUME NEW B, Inv(B), NEW e \in Elem, NEW cbs, NEW k, NEW H,
         Starts(e, cbs, k), Plans(e, cbs, k), Takes(e, cbs, k, H), Builds(e, cbs, k), Notes(e),
         OthersOK', ~ failed', "DONE" \notin cur'
  PROVE  IInv'
<1> DEFINE B2 == B \cup {e}
           A == Again(e) \in ToSet(cbs)
           S == Asks(e, cbs, k)
<1>1. main # <<>> /\ Head(main) = First(e)
  BY DEF Starts
<1>2. /\ e \notin B /\ Again(e) \notin Queued /\ Set(e) \notin Queued /\ stage[e] = "start"
      /\ ~ Busy(e) /\ Blank(e)
  BY <1>1, HeadBlank
<1>3. /\ Counts(e, H) /\ Queues(e, cbs, k, Set(e))
      /\ Again(e) \in Queued' <=> A
      /\ Set(e) \in Queued' <=> S
      /\ \A x \in ToSet(cbs) : InMain(x)'
      /\ \A x \in Call : InMain(x)' <=> (InMain(x) /\ x # Head(main)) \/ x \in ToSet(cbs)
      /\ k = NULL => (Set(e) \in Queued' => InMain(Set(e))')
  BY StartQueues
<1>4. Leaves(e) /\ sheet' = sheet /\ stage'[e] = FirstStage(e) /\ Kin(e)' = Kin(e)
  BY DEF Notes, Leaves, Kin
<1>5. WellFormed(sheet) /\ TreeOK(sheet, kids) /\ Phase /\ Begun(B)
  BY InvIs
<1>6. B \subseteq Elem /\ B2 \subseteq Elem
  BY <1>5 DEF Begun
<1>7. Alters(e, B, B2, FALSE)
  BY <1>6, GrowsAlters DEF Builds
<1>8. \A a \in Elem : First(a) \in ToSet(cbs) =>
        /\ sheet.up[a] = e /\ a # e /\ a \notin B
        /\ \A v \in Elem : sheet.up[v] = e /\ sheet.slot[v] = sheet.slot[a] /\ v < a =>
             InFront(cbs, First(v), First(a))
        /\ InFront(cbs, First(a), Closer(a))
  <2> SUFFICES ASSUME NEW a \in Elem, First(a) \in ToSet(cbs)
               PROVE  /\ sheet.up[a] = e /\ a # e /\ a \notin B
                      /\ \A v \in Elem : sheet.up[v] = e /\ sheet.slot[v] = sheet.slot[a] /\ v < a =>
                           InFront(cbs, First(v), First(a))
                      /\ InFront(cbs, First(a), Closer(a))
    OBVIOUS
  <2>1. Listed(e, cbs)
    BY DEF Starts
  <2>2. sheet.up[a] = e
    <3>1. First(a) \in {Again(e), Set(e)} \/ \E d \in Elem : First(a) = First(d) /\ sheet.up[d] = e
      BY <2>1 DEF Listed
    <3> QED BY <3>1, CallsDiffer
  <2>3. a # e /\ e # 0
    BY <1>5, <2>2, UpDiffers
  <2>4. a \notin B
    <3>1. Closed(B, sheet.up[a], sheet.slot[a]) /\ sheet.up[a] # 0
      BY <1>2, <2>2, <2>3 DEF Closed
    <3> QED BY <1>5, <3>1 DEF Begun
  <2> QED BY <2>1, <2>2, <2>3, <2>4 DEF Listed
<1>9. Opens(e, B, B2, cbs)
  BY <1>8 DEF Opens
<1>10. Opened(e, B, B2, cbs)
  <2> SUFFICES ASSUME NEW d \in Elem, sheet.up[d] = e, Closed(B2, e, sheet.slot[d])'
               PROVE  Closed(B, e, sheet.slot[d]) /\ (d \in B2 => d \in B) /\ First(d) \notin ToSet(cbs)
    BY DEF Opened
  <2>1. Closed(B, e, sheet.slot[d])
    BY <1>2 DEF Closed
  <2>2. d # e
    BY <1>5, UpDiffers
  <2>3. First(d) \notin ToSet(cbs)
    <3>1. \/ Kin(e) = "if"
          \/ Kin(e) = "include" /\ sheet.slot[d] # "value"
      BY <1>4 DEF Closed
    <3> QED BY <3>1 DEF Plans
  <2> QED BY <2>1, <2>2, <2>3
<1>11. Step(e, B, B2, H, cbs, k, Set(e), FALSE)
  BY <1>3, <1>4, <1>7, <1>9, <1>10 DEF Step
<1>12. Busy(e)' <=> A \/ S
  <2>1. stage'[e] # "READ_RESPONSE"
    BY <1>4 DEF FirstStage
  <2> QED BY <1>3, <2>1 DEF Busy
<1>13. SelfHold(e) \in H => count'[Self(e)] > 0
  <2>1. Self(e) \in Node /\ Self(e) \in Up(sheet, Self(e)) /\ At(sheet, SelfHold(e)) = Self(e)
    BY <1>5, AtIs, NodesDiffer, UpFacts
  <2> QED BY <2>1, TallyZero DEF Takes
<1>14. ParamsHold(e) \in H => count'[Tmp(e)] > 0
  <2>1. Tmp(e) \in Node /\ Tmp(e) \in Up(sheet, Tmp(e)) /\ At(sheet, ParamsHold(e)) = Tmp(e)
    BY <1>5, AtIs, NodesDiffer, UpFacts
  <2> QED BY <2>1, TallyZero DEF Takes
<1>15. A => InMain(Again(e))'
  BY <1>3
<1>16. OwnHolds(e, H)
  <2>1. SelfHold(e) \in H <=> HeldSelf(e)'
    <3>1. CASE Kin(e) \in {"response", "text"}
      BY <1>4, <3>1 DEF Takes, HeldSelf
    <3>2. CASE Kin(e) = "log"
      <4>1. ~ S
        BY <3>2 DEF Plans
      <4>2. InMain(Again(e))' <=> A
        <5>1. InMain(Again(e))' => Again(e) \in Queued'
          BY QueuedIs DEF InMain
        <5> QED BY <1>3, <1>15, <5>1
      <4>3. HeldSelf(e)' <=> InMain(Again(e))' /\ count'[Self(e)] > 0
        BY <1>4, <3>2 DEF HeldSelf
      <4> QED BY <1>13, <3>2, <4>1, <4>2, <4>3 DEF Takes
    <3>3. CASE Kin(e) \notin {"response", "text", "log"}
      <4>1. HeldSelf(e)' <=> Busy(e)'
        BY <1>4, <3>3 DEF HeldSelf
      <4> QED BY <1>12, <3>3, <4>1 DEF Takes
    <3> QED BY <3>1, <3>2, <3>3
  <2>2. ValueHold(e) \in H <=> HeldValue(e)'
    BY <1>3, <1>4 DEF Takes, HeldValue
  <2>3. ParamsHold(e) \in H <=> HeldParams(e)'
    <3>1. InMain(Again(e))' <=> A
      <4>1. InMain(Again(e))' => Again(e) \in Queued'
        BY QueuedIs DEF InMain
      <4> QED BY <1>3, <1>15, <4>1
    <3>2. HeldParams(e)' <=> Kin(e) = "include" /\ stage'[e] = "PARAMS_BEGIN" /\ A /\ count'[Tmp(e)] > 0
      BY <1>4, <3>1 DEF HeldParams
    <3>3. Kin(e) = "include" => stage'[e] = "PARAMS_BEGIN"
      BY <1>4 DEF FirstStage
    <3> QED BY <1>14, <3>2, <3>3 DEF Takes
  <2>4. ResultHold(e) \in H <=> HeldResult(e)'
    <3>1. stage'[e] \notin {"SUCCESS", "FAILURE"}
      BY <1>4 DEF FirstStage
    <3> QED BY <3>1 DEF Takes, HeldResult
  <2> QED BY <2>1, <2>2, <2>3, <2>4 DEF OwnHolds
<1>17. OwnNodes(e)
  <2>1. Busy(e)' /\ Kin(e) # "response" => Stands(sheet, kids', Self(e))
    BY <1>12 DEF Builds
  <2>2. Kin(e) = "if" => stage'[e] = "test"
    BY <1>4 DEF FirstStage
  <2>3. Kin(e) = "include" => stage'[e] = "PARAMS_BEGIN"
    BY <1>4 DEF FirstStage
  <2>4. Stocked(e)'
    <3> SUFFICES ASSUME A \/ S
                 PROVE  /\ Kin(e) \in {"value-of", "if", "include"} => Hangs(sheet, kids', Tmp(e))
                        /\ Kin(e) = "copy-of" => Hangs(sheet, kids', Ret(e))
                        /\ S /\ Kin(e) # "variable" /\ Source(sheet, e) = "nodelist" => Hangs(sheet, kids', Arg(e))
      BY <1>3, <1>4, <1>12, <2>2, <2>3 DEF Stocked
    <3>1. S /\ Source(sheet, e) = "nodelist" => Set(e) \in ToSet(cbs)
      BY DEF Asks, Plans
    <3> QED BY <3>1 DEF Builds
  <2>5. Unused(e)'
    <3>1. Detached(kids', Text(e)) => Loose(Text(e))'
      BY DEF Detached, Loose
    <3>2. Detached(kids', Ret(e)) => Loose(Ret(e))'
      BY DEF Detached, Loose
    <3> QED BY <1>3, <1>4, <3>1, <3>2 DEF Unused, Builds
  <2> QED BY <2>1, <2>4, <2>5 DEF OwnNodes
<1>18. OwnCalls(e, k, Set(e))
  <2>1. Phased(e)'
    <3>1. ~ Awaits(e)'
      <4>1. Awaits(e)' <=> Awaits(e)
        BY DEF Awaits, Notes, Leaves
      <4>2. Awaits(e) => stage[e] = "READ_RESPONSE"
        BY <1>5 DEF Phase, Phased
      <4> QED BY <1>2, <4>1, <4>2
    <3>2. stage'[e] \notin {"READ_RESPONSE", "SUCCESS", "FAILURE", "END"}
      BY <1>4 DEF FirstStage
    <3>3. /\ Kin(e) = "if" => stage'[e] = "test"
          /\ Kin(e) = "response" => stage'[e] = "second"
          /\ Kin(e) = "include" => stage'[e] = "PARAMS_BEGIN"
      BY <1>4 DEF FirstStage
    <3> QED BY <1>3, <1>4, <3>1, <3>2, <3>3 DEF Phased, Plans
  <2>2. Paired(e)'
    <3> SUFFICES ASSUME Kin(e) # "variable", Source(sheet, e) = "nodelist", S
                 PROVE  InMain(Set(e))' /\ NextTo(main', Set(e), Again(e))
      BY <1>3, <1>4 DEF Paired
    <3>1. Set(e) \in ToSet(cbs)
      BY DEF Asks, Plans
    <3>2. NextTo(cbs, Set(e), Again(e))
      BY <3>1 DEF Starts, Listed
    <3>3. \A x, y : NextTo(cbs, x, y) => NextTo(main', x, y)
      BY <1>3 DEF Queues, NewOrder
    <3> QED BY <1>3, <3>1, <3>2, <3>3
  <2> QED BY <1>2, <2>1, <2>2 DEF OwnCalls, Starts, Notes
<1>19. \A d \in Elem : d # e /\ Busy(d) /\ Kin(d) # "response" =>
         /\ Self(e) \notin Up(sheet, Self(d)) /\ Tmp(e) \notin Up(sheet, Self(d))
         /\ Arg(e) \notin Up(sheet, Self(d)) /\ Ret(e) \notin Up(sheet, Self(d))
  BY <1>2, NothingIn
<1>20. OwnParts(e, cbs)
  <2>1. ASSUME NEW d \in Elem, First(d) \in ToSet(cbs), sheet.up[d] = e, Kin(e) # "response"
        PROVE  Awaited(d, e)'
    <3>1. Closer(d)' = Closer(d)
      BY <1>4 DEF Closer
    <3>2. InFront(main', First(d), Closer(d))
      <4>1. InFront(cbs, First(d), Closer(d))
        BY <1>8, <2>1
      <4>2. \A x, y : InFront(cbs, x, y) => InFront(main', x, y)
        BY <1>3 DEF Queues, NewOrder
      <4> QED BY <4>1, <4>2
    <3>3. HeldSelf(e)'
      <4>1. SelfHold(e) \in H
        BY <2>1 DEF Plans, Takes
      <4> QED BY <1>16, <4>1 DEF OwnHolds
    <3>4. Kin(e) = "include" => sheet.slot[d] = "value" /\ HeldParams(e)'
      <4>1. Kin(e) = "include" => sheet.slot[d] = "value" /\ ParamsHold(e) \in H
        BY <2>1 DEF Plans, Takes
      <4> QED BY <1>16, <4>1 DEF OwnHolds
    <3> QED BY <1>4, <3>1, <3>2, <3>3, <3>4 DEF Awaited
  <2>2. ASSUME NEW d \in Elem, d # e, Busy(d), Kin(d) # "response"
        PROVE  KeptIn(d, e)'
    BY <1>4, <1>19, <2>2 DEF KeptIn
  <2> QED BY <2>1, <2>2 DEF OwnParts
<1>21. OwnOrder(e, cbs)
  <2>1. \A x \in ToSet(cbs) : x[1] # "first" => x \in {Again(e), Set(e)}
    <3>1. \A x \in ToSet(cbs) : x \in {Again(e), Set(e)} \/ \E d \in Elem : x = First(d)
      BY DEF Starts, Listed
    <3> QED BY <3>1, CallsDiffer
  <2>2. Gate(Again(e)) \in {Self(e), Ret(e)} /\ Gate(Set(e)) = Arg(e)
    BY DEF Gate, Again, Set
  <2>3. ASSUME NEW x \in ToSet(cbs), NEW g \in Elem, x[1] # "first", g # e, Kin(g) = "log", Busy(g)
        PROVE  Gate(x) \notin Up(sheet, Self(g))
    BY <1>19, <2>1, <2>2, <2>3
  <2>4. ASSUME NEW x \in Call, Kin(e) = "log", Closes(x, e)
        PROVE  LogOrder(e, x)'
    <3>1. x # Again(e) /\ x[1] # "first" /\ Gate(x) \in Up(sheet, Self(e))
      BY <2>4 DEF Closes
    <3>2. x # Set(e)
      BY <1>5, <2>2, <3>1, UpOwn
    <3>3. x \notin ToSet(cbs)
      BY <2>1, <3>1, <3>2
    <3>4. InMain(x)' => InMain(x) /\ x # Head(main)
      BY <1>3, <3>3
    <3>5. Again(e) \in Queued' => A /\ InMain(Again(e))'
      BY <1>3, <1>15
    <3>6. InMain(Again(e))' => Again(e) \in Queued'
      BY QueuedIs DEF InMain
    <3>7. A => count'[Self(e)] > 0
      BY <1>13, <2>4 DEF Takes
    <3>8. InMain(Again(e))' /\ InMain(x)' => InFront(main', x, Again(e))
      <4>1. \A y \in ToSet(main) \ {Head(main)} : \A z \in ToSet(main') :
              z \notin ToSet(main) \ {Head(main)} => InFront(main', y, z)
        BY <1>3 DEF Queues, NewOrder
      <4>2. Again(e) \notin ToSet(main)
        BY <1>2, QueuedIs
      <4> QED BY <3>4, <4>1, <4>2 DEF InMain
    <3>9. count'[Self(e)] > 0 => count'[Self(e)] # 0
      OBVIOUS
    <3> QED BY <3>5, <3>6, <3>7, <3>8, <3>9 DEF LogOrder
  <2> QED BY <2>3, <2>4 DEF OwnOrder
<1>22. Settles(e, H, cbs, k, Set(e))
  BY <1>16, <1>17, <1>18, <1>20, <1>21 DEF Settles
<1>23. Quiet
  <2>1. responseCur # NULL => responseCur \in ToSet(kids[Response])
    BY InvIs DEF Cursor
  <2>2. ToSet(kids[Response]) \subseteq ToSet(kids'[Response])
    BY NodesDiffer DEF Builds, Grows
  <2> QED BY <2>1, <2>2 DEF Quiet, Cursor, Notes
<1> QED BY <1>11, <1>22, <1>23, StepKeeps

-----------------------------------------------------------------------------
(***************************************************************************)
(* The first calls of the elements that have a value.                      *)
(***************************************************************************)
LEMMA InsertIs ==
  ASSUME WellFormed(sheet), NEW e \in Elem, Kin(e) \notin {"response", "variable"}
  PROVE  Insert(e) = Place(sheet, e)
<1>1. sheet.up[e] # 0
  BY DEF WellFormed, Kin
<1> QED BY <1>1 DEF Insert, Place, Kin

LEMMA OwnType ==
  ASSUME NEW B, Inv(B)
  PROVE  \A n \in Node : Own(n) \in Seq(Elem)
<1>1. \A e \in Elem : val[e] \in {Unset} \cup Seq(Elem)
  BY InvIs DEF TypeOK
<1>2. \A e \in Elem : String(e) \in Seq(Elem)
  BY <1>1 DEF String
<1> SUFFICES ASSUME NEW n \in Node PROVE Own(n) \in Seq(Elem)
  OBVIOUS
<1>3. CASE n \in {Doc, Response, Var}
  BY <1>3 DEF Own
<1>4. CASE n \notin {Doc, Response, Var}
  <2>1. n[2] \in Elem
    BY <1>4 DEF Node
  <2>2. << n[2] >> \in Seq(Elem) /\ String(n[2]) \in Seq(Elem) /\ << >> \in Seq(Elem)
    BY <1>2, <2>1
  <2>3. Own(n) \in {<< >>, << n[2] >>, String(n[2])}
    BY <1>4 DEF Own
  <2> QED BY <2>2, <2>3
<1> QED BY <1>3, <1>4

\* Texts and values are texts.
LEMMA TextsAre ==
  ASSUME NEW B, Inv(B)
  PROVE  /\ \A n \in Node : TextIn(kids, n) \in Seq(Elem)
         /\ \A v \in Elem : bound[v] # "no" => TextOfVariable(v) \in {Unset} \cup Seq(Elem)
<1>1. [m \in Node |-> Own(m)] \in [Node -> Seq(Elem)]
  BY OwnType
<1>2. kids \in [Node -> Seq(Node)] /\ Ranked(kids)
  BY InvIs DEF TreeOK
<1>3. \A n \in Node : TextBelow(kids, [m \in Node |-> Own(m)], n) \in Seq(Elem)
  BY <1>1, <1>2, TextType
<1>4. \A n \in Node : TextIn(kids, n) \in Seq(Elem)
  BY <1>3 DEF TextIn
<1>5. \A v \in Elem : Self(v) \in Node /\ val[v] \in {Unset} \cup Seq(Elem)
  BY NodesDiffer, InvIs DEF TypeOK
<1> QED BY <1>4, <1>5 DEF TextOfVariable

\* The variables that the calls leave alone, or change by the way.
LEMMA OthersSame ==
  ASSUME NEW B, Inv(B), running, Goes, UNCHANGED <<output, host>>,
         stage' \in [Elem -> Stage],
         val' \in [Elem -> {Unset} \cup Seq(Elem)],
         bound' \in [Elem -> {"no", "document", "value"}]
  PROVE  /\ OthersOK' /\ ~ failed' /\ "DONE" \notin cur'
         /\ sheet' = sheet /\ answer' = answer /\ requested' = requested
         /\ responseCur' = responseCur
<1>1. TypeOK /\ Ended
  BY InvIs
<1>2. /\ sheet' = sheet /\ answer' = answer /\ requested' = requested
      /\ responseCur' = responseCur /\ sent' = sent /\ logged' = logged
      /\ cur' = cur /\ running' = running /\ failed' = failed
  BY DEF Goes, output, host
<1>3. ~ failed' /\ "DONE" \notin cur'
  BY <1>1, <1>2 DEF Ended
<1>4. OthersOK'
  BY <1>1, <1>2 DEF OthersOK, TypeOK
<1> QED BY <1>2, <1>3, <1>4

\* A call changes the value, the stage or the name of its own element.
LEMMA OwnSame ==
  ASSUME NEW B, Inv(B), NEW e \in Elem
  PROVE  /\ \A x \in Stage :
              /\ [stage EXCEPT ![e] = x] \in [Elem -> Stage] /\ [stage EXCEPT ![e] = x][e] = x
              /\ \A f \in Elem : f # e => [stage EXCEPT ![e] = x][f] = stage[f]
         /\ \A x \in {"no", "document", "value"} :
              /\ [bound EXCEPT ![e] = x] \in [Elem -> {"no", "document", "value"}]
              /\ [bound EXCEPT ![e] = x][e] = x
              /\ \A f \in Elem : f # e => [bound EXCEPT ![e] = x][f] = bound[f]
         /\ \A x \in {Unset} \cup Seq(Elem) :
              [val EXCEPT ![e] = x] \in [Elem -> {Unset} \cup Seq(Elem)]
         /\ stage \in [Elem -> Stage] /\ bound \in [Elem -> {"no", "document", "value"}]
         /\ val \in [Elem -> {Unset} \cup Seq(Elem)]
         /\ << e >> \in {Unset} \cup Seq(Elem)
<1>1. TypeOK
  BY InvIs
<1>2. stage \in [Elem -> Stage] /\ bound \in [Elem -> {"no", "document", "value"}]
  BY <1>1 DEF TypeOK
<1>3. val \in [Elem -> {Unset} \cup Seq(Elem)]
  BY <1>1 DEF TypeOK
<1>4. \A x \in {Unset} \cup Seq(Elem) : [val EXCEPT ![e] = x] \in [Elem -> {Unset} \cup Seq(Elem)]
  BY <1>3
<1>5. << e >> \in {Unset} \cup Seq(Elem)
  OBVIOUS
<1> QED BY <1>2, <1>3, <1>4, <1>5

-----------------------------------------------------------------------------
\* What an element holds from its first call on.
Base(e) ==
  IF Kin(e) = "include" THEN Holds \cup {SelfHold(e), ParamsHold(e)}
                        ELSE Holds \cup {SelfHold(e)}

LEMMA BaseIs ==
  ASSUME NEW B, Inv(B), NEW e \in Elem, main # <<>>, Head(main) = First(e)
  PROVE  /\ Base(e) \subseteq Hold /\ Holds \subseteq Base(e) /\ ValueHold(e) \notin Base(e)
         /\ \A h \in Base(e) : h \in Holds \/ h[2] = e
         /\ SelfHold(e) \in Base(e) /\ ResultHold(e) \notin Base(e)
         /\ ParamsHold(e) \in Base(e) <=> Kin(e) = "include"
         /\ Increased(count, SPath(sheet)[Self(e)]) = Tally(sheet, Holds \cup {SelfHold(e)})
         /\ Kin(e) = "include" =>
              Increased(Increased(count, SPath(sheet)[Self(e)]), SPath(sheet)[Tmp(e)]) =
                Tally(sheet, Base(e))
         /\ Increased(Tally(sheet, Base(e)), SPath(sheet)[At(sheet, ValueHold(e))]) =
              Tally(sheet, Base(e) \cup {ValueHold(e)})
<1>1. \A h \in Holds : h[2] # e
  BY HeadBlank
<1>2. WellFormed(sheet) /\ Holds \subseteq Hold /\ count = Tally(sheet, Holds)
  BY InvIs DEF Counted
<1>3. /\ SelfHold(e) \in Hold /\ ValueHold(e) \in Hold /\ ParamsHold(e) \in Hold
      /\ SelfHold(e)[2] = e /\ ValueHold(e)[2] = e /\ ParamsHold(e)[2] = e /\ ResultHold(e)[2] = e
      /\ SelfHold(e) # ValueHold(e) /\ SelfHold(e) # ParamsHold(e) /\ SelfHold(e) # ResultHold(e)
      /\ ValueHold(e) # ParamsHold(e) /\ ParamsHold(e) # ResultHold(e)
  BY HoldsDiffer
<1>4. SelfHold(e) \notin Holds /\ ParamsHold(e) \notin Holds /\ ValueHold(e) \notin Holds
      /\ ResultHold(e) \notin Holds
  BY <1>1, <1>3
<1>5. At(sheet, SelfHold(e)) = Self(e) /\ At(sheet, ParamsHold(e)) = Tmp(e)
  BY AtIs
<1>6. Increased(count, SPath(sheet)[Self(e)]) = Tally(sheet, Holds \cup {SelfHold(e)})
  <2>1. Increased(Tally(sheet, Holds), SPath(sheet)[At(sheet, SelfHold(e))]) =
          Tally(sheet, Holds \cup {SelfHold(e)})
    BY <1>2, <1>3, <1>4, TallyAdd
  <2> QED BY <1>2, <1>5, <2>1
<1>7. /\ Base(e) \subseteq Hold /\ Holds \subseteq Base(e) /\ ValueHold(e) \notin Base(e)
      /\ \A h \in Base(e) : h \in Holds \/ h[2] = e
      /\ SelfHold(e) \in Base(e) /\ ResultHold(e) \notin Base(e)
      /\ ParamsHold(e) \in Base(e) <=> Kin(e) = "include"
  BY <1>2, <1>3, <1>4 DEF Base
<1>8. ASSUME Kin(e) = "include"
      PROVE  Increased(Increased(count, SPath(sheet)[Self(e)]), SPath(sheet)[Tmp(e)]) =
               Tally(sheet, Base(e))
  <2> DEFINE H == Holds \cup {SelfHold(e)}
  <2>1. H \subseteq Hold /\ ParamsHold(e) \notin H
    BY <1>2, <1>3, <1>4
  <2>2. Base(e) = H \cup {ParamsHold(e)}
    BY <1>8 DEF Base
  <2> HIDE DEF H
  <2>3. Increased(Tally(sheet, H), SPath(sheet)[At(sheet, ParamsHold(e))]) =
          Tally(sheet, H \cup {ParamsHold(e)})
    BY <1>2, <1>3, <2>1, TallyAdd
  <2> QED BY <1>5, <1>6, <2>2, <2>3 DEF H
<1>9. Increased(Tally(sheet, Base(e)), SPath(sheet)[At(sheet, ValueHold(e))]) =
        Tally(sheet, Base(e) \cup {ValueHold(e)})
  BY <1>2, <1>3, <1>7, TallyAdd
<1> QED BY <1>6, <1>7, <1>8, <1>9

\* What a first call counts is what the element holds after it.
LEMMA TakesBase ==
  ASSUME NEW B, Inv(B), NEW e \in Elem, main # <<>>, Head(main) = First(e),
         NEW cbs, NEW k, Kin(e) \notin {"response", "text"},
         Again(e) \in ToSet(cbs) \/ Asks(e, cbs, k), Kin(e) = "include" => Again(e) \in ToSet(cbs),
         \/ /\ count' = Tally(sheet, Base(e))
            /\ Source(sheet, e) = "variable" => ~ Asks(e, cbs, k)
         \/ /\ count' = Increased(Tally(sheet, Base(e)), SPath(sheet)[At(sheet, ValueHold(e))])
            /\ Asks(e, cbs, k) /\ Source(sheet, e) = "variable"
  PROVE  \E H : Takes(e, cbs, k, H)
<1>1. /\ Base(e) \subseteq Hold /\ Holds \subseteq Base(e) /\ ValueHold(e) \notin Base(e)
      /\ \A h \in Base(e) : h \in Holds \/ h[2] = e
      /\ SelfHold(e) \in Base(e) /\ ResultHold(e) \notin Base(e)
      /\ ParamsHold(e) \in Base(e) <=> Kin(e) = "include"
      /\ Increased(Tally(sheet, Base(e)), SPath(sheet)[At(sheet, ValueHold(e))]) =
           Tally(sheet, Base(e) \cup {ValueHold(e)})
  BY BaseIs
<1>2. CASE /\ count' = Tally(sheet, Base(e))
           /\ Source(sheet, e) = "variable" => ~ Asks(e, cbs, k)
  <2>1. Takes(e, cbs, k, Base(e))
    BY <1>1, <1>2 DEF Takes
  <2> QED BY <2>1
<1>3. CASE /\ count' = Increased(Tally(sheet, Base(e)), SPath(sheet)[At(sheet, ValueHold(e))])
           /\ Asks(e, cbs, k) /\ Source(sheet, e) = "variable"
  <2> DEFINE H == Base(e) \cup {ValueHold(e)}
  <2>1. /\ ValueHold(e) \in Hold /\ ValueHold(e)[2] = e /\ ValueHold(e) # SelfHold(e)
        /\ ValueHold(e) # ParamsHold(e) /\ ValueHold(e) # ResultHold(e)
    BY HoldsDiffer
  <2>2. /\ H \subseteq Hold /\ Holds \subseteq H /\ count' = Tally(sheet, H)
        /\ \A h \in H : h \in Holds \/ h[2] = e
        /\ SelfHold(e) \in H /\ ValueHold(e) \in H /\ ResultHold(e) \notin H
        /\ ParamsHold(e) \in H <=> Kin(e) = "include"
    BY <1>1, <1>3, <2>1
  <2> HIDE DEF H
  <2>3. Takes(e, cbs, k, H)
    BY <1>3, <2>2 DEF Takes
  <2> QED BY <2>3
<1> QED BY <1>2, <1>3

\* A first call that counts nothing holds nothing.
LEMMA TakesNone ==
  ASSUME NEW B, Inv(B), NEW e \in Elem, main # <<>>, Head(main) = First(e),
         NEW cbs, NEW k, count' = count, ~ Asks(e, cbs, k),
         Kin(e) \in {"response", "text"} \/ Again(e) \notin ToSet(cbs)
  PROVE  Takes(e, cbs, k, Holds) \/ (Kin(e) = "include" /\ Again(e) \in ToSet(cbs))
<1>1. \A h \in Holds : h[2] # e
  BY HeadBlank
<1>2. Holds \subseteq Hold /\ count = Tally(sheet, Holds)
  BY InvIs DEF Counted
<1>3. SelfHold(e) \notin Holds /\ ValueHold(e) \notin Holds /\ ParamsHold(e) \notin Holds
      /\ ResultHold(e) \notin Holds
  BY <1>1, HoldsDiffer
<1> QED BY <1>2, <1>3 DEF Takes

\* What was not ready before the call is not ready after it.
LEMMA StaysBusy ==
  ASSUME NEW B, Inv(B), NEW e \in Elem, NEW cbs, NEW k, NEW H, Takes(e, cbs, k, H),
         NEW n \in Node, count[n] > 0
  PROVE  count'[n] > 0
<1>1. count = Tally(sheet, Holds) /\ Holds \subseteq Hold
  BY InvIs DEF Counted
<1>2. count' = Tally(sheet, H) /\ H \subseteq Hold /\ Holds \subseteq H
  BY DEF Takes
<1>3. \E h \in Holds : n \in Up(sheet, At(sheet, h))
  <2>1. count[n] # 0
    OBVIOUS
  <2> QED BY <1>1, <2>1, TallyZero
<1> QED BY <1>2, <1>3, TallyZero

\* The value is asked for in the first call.
LEMMA ValueStarts ==
  ASSUME NEW B, Inv(B), NEW e \in Elem, running, main # <<>>, Head(main) = First(e),
         Kin(e) \in {"value-of", "copy-of", "if", "include"},
         NEW K, K = WithChild(WithChild(kids, Insert(e), Self(e)), Self(e), Waiting(e)),
         NEW C, C = Tally(sheet, Base(e)),
         AsksValue(e, Waiting(e), K, C, << Again(e) >>),
         Goes, UNCHANGED <<bound, output, host>>,
         stage' \in [Elem -> Stage], stage'[e] = FirstStage(e),
         \A f \in Elem : f # e => stage'[f] = stage[f]
  PROVE  IInv'
<1> DEFINE n == Waiting(e)
<1>1. WellFormed(sheet) /\ main \in Seq(Call)
  BY InvIs
<1>2. e \notin B /\ First(e) \in Queued
  BY HeadBlank
<1>3. /\ n \in {Tmp(e), Ret(e)}
      /\ Kin(e) # "copy-of" => n = Tmp(e)
      /\ Kin(e) = "copy-of" => n = Ret(e)
  BY DEF Waiting, Kin
<1>4. At(sheet, ValueHold(e)) = n
  BY AtIs DEF Waiting, Kin
<1>5. /\ Grows(e, kids, K) /\ Stands(sheet, K, Self(e)) /\ Hangs(sheet, K, n)
      /\ \A m \in {Tmp(e), Arg(e), Ret(e), Text(e)} : m # n => Detached(K, m)
      /\ PathIn(K, n) = SPath(sheet)[n]
  <2>1. K = WithChild(WithChild(kids, Place(sheet, e), Self(e)), Self(e), n)
    BY <1>1, InsertIs
  <2> HIDE DEF n
  <2> QED BY <1>2, <1>3, <2>1, WaitGrows
<1>6. ASSUME val' \in [Elem -> {Unset} \cup Seq(Elem)]
      PROVE  OthersOK' /\ ~ failed' /\ "DONE" \notin cur' /\ Notes(e)
  <2>1. bound' = bound /\ bound' \in [Elem -> {"no", "document", "value"}]
    BY InvIs DEF TypeOK
  <2>2. /\ OthersOK' /\ ~ failed' /\ "DONE" \notin cur'
        /\ sheet' = sheet /\ answer' = answer /\ requested' = requested
        /\ responseCur' = responseCur
    BY <1>6, <2>1, OthersSame
  <2> QED BY <2>1, <2>2 DEF Notes, Leaves
<1>7. Listed(e, << Again(e) >>) /\ ToSet(<< Again(e) >>) = {Again(e)}
  BY ListedFew
<1>8. Set(e) # Again(e) /\ \A d : First(d) # Again(e)
  BY CallsDiffer
<1>9. /\ val \in [Elem -> {Unset} \cup Seq(Elem)]
      /\ \A x \in {Unset} \cup Seq(Elem) : [val EXCEPT ![e] = x] \in [Elem -> {Unset} \cup Seq(Elem)]
      /\ << e >> \in {Unset} \cup Seq(Elem)
  BY OwnSame
<1>10. ASSUME count' = C, tcb' = tcb, main' = Rest \o << Again(e) >>,
              kids' = IF Kin(e) = "copy-of" THEN WithChild(K, n, Text(e)) ELSE K,
              val' \in [Elem -> {Unset} \cup Seq(Elem)]
       PROVE  IInv'
  <2> DEFINE cbs == << Again(e) >>
  <2>1. ~ Asks(e, cbs, NULL)
    BY <1>7, <1>8 DEF Asks
  <2>2. Starts(e, cbs, NULL)
    BY <1>7, <1>10 DEF Starts, Rest
  <2>3. Plans(e, cbs, NULL)
    BY <1>7, <1>8, <2>1 DEF Plans
  <2>4. PICK H : Takes(e, cbs, NULL, H)
    <3>1. Again(e) \in ToSet(cbs)
      BY <1>7
    <3>2. Kin(e) \notin {"response", "text"}
      OBVIOUS
    <3>3. count' = Tally(sheet, Base(e)) /\ ~ Asks(e, cbs, NULL)
      BY <1>10, <2>1
    <3> HIDE DEF cbs
    <3> QED BY <3>1, <3>2, <3>3, TakesBase
  <2>5. Builds(e, cbs, NULL)
    <3>1. CASE Kin(e) # "copy-of"
      <4>1. kids' = K
        BY <1>10, <3>1
      <4>2. Text(e) # n /\ Ret(e) # n
        BY <1>3, <3>1, NodesDiffer
      <4> QED BY <1>3, <1>5, <1>7, <1>8, <2>1, <3>1, <4>1, <4>2 DEF Builds
    <3>2. CASE Kin(e) = "copy-of"
      <4>1. /\ K = WithChild(WithChild(kids, Place(sheet, e), Self(e)), Self(e), Ret(e))
            /\ kids' = WithChild(K, Ret(e), Text(e))
        BY <1>1, <1>3, <1>10, <3>2, InsertIs
      <4>2. Grows(e, kids, kids') /\ Stands(sheet, kids', Self(e)) /\ Hangs(sheet, kids', Ret(e))
        BY <1>2, <4>1, ValueGrows
      <4> QED BY <1>7, <1>8, <2>1, <3>2, <4>1, <4>2 DEF Builds
    <3> QED BY <3>1, <3>2
  <2> HIDE DEF cbs
  <2>6. OthersOK' /\ ~ failed' /\ "DONE" \notin cur' /\ Notes(e)
    BY <1>6, <1>10
  <2> QED BY <2>2, <2>3, <2>4, <2>5, <2>6, StartKeeps
<1>11. ASSUME ConstantValue(e, n, K, C, << Again(e) >>)
       PROVE  IInv'
  <2>1. /\ count' = C /\ tcb' = tcb /\ main' = Rest \o << Again(e) >>
        /\ kids' = IF Kin(e) = "copy-of" THEN WithChild(K, n, Text(e)) ELSE K
        /\ val' = [val EXCEPT ![e] = << e >>]
    BY <1>11 DEF ConstantValue, Kin
  <2> QED BY <1>9, <1>10, <2>1
<1>12. ASSUME NodelistValue(e, n, K, C, << Again(e) >>)
       PROVE  IInv'
  <2> DEFINE cbs == (Firsts(e, "value") \o << Set(e) >>) \o << Again(e) >>
  <2>1. /\ Source(sheet, e) = "nodelist" /\ kids' = WithChild(K, n, Arg(e)) /\ count' = C
        /\ main' = Rest \o Firsts(e, "value") \o << Set(e) >> \o << Again(e) >>
        /\ val' = val /\ tcb' = tcb
    BY <1>12 DEF NodelistValue, Set
  <2>2. Kin(e) \in {"value-of", "include"} /\ n = Tmp(e)
    <3>1. ChildSet(sheet, e, "value") # {}
      BY <2>1, SourceIs DEF Kin
    <3>2. PICK d \in Elem : sheet.up[d] = e /\ sheet.slot[d] = "value"
      BY <3>1 DEF ChildSet
    <3>3. << Kin(e), "value" >> \in Parts
      <4>1. e # 0
        BY <1>1, <3>2, UpDiffers
      <4> QED BY <1>1, <3>2, <4>1, KindsAre DEF Kin
    <3>4. Kin(e) \in {"value-of", "include"}
      BY <3>3 DEF Parts
    <3> QED BY <1>3, <3>4
  <2>3. /\ Listed(e, cbs) /\ Again(e) \in ToSet(cbs) /\ Set(e) \in ToSet(cbs)
        /\ OnlyIn(e, "value", cbs)
    <3>1. cbs = (Firsts(e, "value") \o << Set(e) >>) \o << Again(e) >>
      OBVIOUS
    <3> HIDE DEF cbs
    <3>2. Listed(e, cbs) /\ Again(e) \in ToSet(cbs) /\ Set(e) \in ToSet(cbs)
      BY <3>1, ListedValue
    <3>3. OnlyIn(e, "value", cbs)
      BY <3>1, ListedValue
    <3> QED BY <3>2, <3>3
  <2>4. main' = Tail(main) \o cbs
    <3>1. \A a, b, c \in Seq(Call) : (a \o b) \o c = a \o (b \o c)
      BY JoinsAssociate
    <3>2. /\ Tail(main) \in Seq(Call) /\ Firsts(e, "value") \in Seq(Call)
          /\ << Set(e) >> \in Seq(Call) /\ << Again(e) >> \in Seq(Call)
      BY <1>1, FirstsAre, CallsDiffer
    <3>3. Firsts(e, "value") \o << Set(e) >> \in Seq(Call)
      BY <3>2
    <3>4. (Tail(main) \o Firsts(e, "value")) \o << Set(e) >> = Tail(main) \o (Firsts(e, "value") \o << Set(e) >>)
      BY <3>1, <3>2
    <3>5. (Tail(main) \o (Firsts(e, "value") \o << Set(e) >>)) \o << Again(e) >> =
            Tail(main) \o ((Firsts(e, "value") \o << Set(e) >>) \o << Again(e) >>)
      BY <3>1, <3>2, <3>3
    <3> QED BY <2>1, <3>4, <3>5 DEF Rest
  <2>5. Builds(e, cbs, NULL)
    <3>1. /\ K = WithChild(WithChild(kids, Place(sheet, e), Self(e)), Self(e), Tmp(e))
          /\ kids' = WithChild(K, Tmp(e), Arg(e))
      BY <1>1, <2>1, <2>2, InsertIs
    <3>2. /\ Grows(e, kids, kids') /\ Stands(sheet, kids', Self(e))
          /\ Hangs(sheet, kids', Tmp(e)) /\ Hangs(sheet, kids', Arg(e))
          /\ \A m \in {Tmp(e), Arg(e), Ret(e), Text(e)} : m # Tmp(e) /\ m # Arg(e) => Detached(kids', m)
      BY <1>2, <3>1, ValueGrows
    <3>3. Ret(e) # Tmp(e) /\ Ret(e) # Arg(e) /\ Text(e) # Tmp(e) /\ Text(e) # Arg(e)
      BY NodesDiffer
    <3>4. /\ Grows(e, kids, kids') /\ Stands(sheet, kids', Self(e))
          /\ Hangs(sheet, kids', Tmp(e)) /\ Hangs(sheet, kids', Arg(e))
          /\ Detached(kids', Ret(e)) /\ Detached(kids', Text(e))
      BY <3>2, <3>3
    <3> QED BY <2>2, <3>4 DEF Builds
  <2> HIDE DEF cbs
  <2>6. Asks(e, cbs, NULL)
    BY <2>3 DEF Asks
  <2>7. Starts(e, cbs, NULL)
    BY <2>1, <2>3, <2>4 DEF Starts
  <2>8. Plans(e, cbs, NULL)
    BY <2>1, <2>2, <2>3, <2>6 DEF Plans, OnlyIn
  <2>9. PICK H : Takes(e, cbs, NULL, H)
    <3>1. Kin(e) \notin {"response", "text"}
      OBVIOUS
    <3>2. count' = Tally(sheet, Base(e)) /\ Source(sheet, e) # "variable"
      BY <2>1
    <3> QED BY <2>3, <3>1, <3>2, TakesBase
  <2>10. OthersOK' /\ ~ failed' /\ "DONE" \notin cur' /\ Notes(e)
    BY <1>6, <1>9, <2>1
  <2> QED BY <2>5, <2>7, <2>8, <2>9, <2>10, StartKeeps
<1>13. ASSUME VariableValue(e, n, K, C, << Again(e) >>)
       PROVE  IInv'
  <2> DEFINE v == sheet.ref[e]
             cbs == << Again(e) >>
             k == Self(v)
  <2>1. Source(sheet, e) = "variable" /\ bound[v] # "no" /\ main' = Rest \o << Again(e) >>
    BY <1>13 DEF VariableValue
  <2>2. v \in Elem
    <3>1. v # 0
      BY <2>1, SourceIs
    <3> QED BY <1>1, <3>1, KindsAre
  <2>3. CASE ~ Pending(v)
    <3>1. /\ count' = C /\ tcb' = tcb /\ val' = [val EXCEPT ![e] = TextOfVariable(v)]
          /\ kids' = IF Kin(e) = "copy-of" THEN WithChild(K, n, Text(e)) ELSE K
      BY <1>13, <2>3 DEF VariableValue, Kin
    <3>2. TextOfVariable(v) \in {Unset} \cup Seq(Elem)
      BY <2>1, <2>2, TextsAre
    <3> QED BY <1>9, <1>10, <2>1, <3>1, <3>2
  <2>4. CASE Pending(v)
    <3>1. /\ kids' = K /\ count' = Increased(C, PathIn(K, n))
          /\ tcb' = Parked(tcb, k, Set(e)) /\ val' = val
      BY <1>13, <2>4 DEF VariableValue, Set
    <3>2. k \in Node /\ k # NULL /\ count[k] > 0
      BY <2>2, <2>4, NodesDiffer DEF Pending
    <3>3. Asks(e, cbs, k)
      BY <3>2 DEF Asks
    <3>4. PICK H : Takes(e, cbs, k, H)
      <4>1. Again(e) \in ToSet(cbs)
        BY <1>7
      <4>2. Kin(e) \notin {"response", "text"}
        OBVIOUS
      <4>3. count' = Increased(Tally(sheet, Base(e)), SPath(sheet)[At(sheet, ValueHold(e))])
        BY <1>4, <1>5, <3>1
      <4> HIDE DEF cbs, k
      <4> QED BY <2>1, <3>3, <4>1, <4>2, <4>3, TakesBase
    <3>5. count'[k] > 0
      BY <3>2, <3>4, StaysBusy
    <3>6. sheet' = sheet /\ MayWait(Set(e), k)'
      <4>1. sheet' = sheet
        BY DEF host
      <4>2. Set(e)[1] = "set" /\ Set(e)[2] = e
        BY CallsDiffer
      <4> QED BY <2>1, <4>1, <4>2 DEF MayWait
    <3>7. Starts(e, cbs, k)
      BY <1>7, <1>8, <2>1, <3>1, <3>2, <3>5, <3>6 DEF Starts, Rest
    <3>8. Plans(e, cbs, k)
      BY <1>7, <1>8, <2>1 DEF Plans
    <3>9. Builds(e, cbs, k)
      <4>1. Kin(e) # "copy-of" => Ret(e) # n
        BY <1>3, NodesDiffer
      <4>2. Text(e) # n
        BY <1>3, NodesDiffer
      <4> QED BY <1>3, <1>5, <1>7, <1>8, <3>1, <4>1, <4>2 DEF Builds
    <3> HIDE DEF cbs, k
    <3>10. OthersOK' /\ ~ failed' /\ "DONE" \notin cur' /\ Notes(e)
      BY <1>6, <1>9, <3>1
    <3> QED BY <3>4, <3>7, <3>8, <3>9, <3>10, StartKeeps
  <2> QED BY <2>3, <2>4
<1> QED BY <1>11, <1>12, <1>13 DEF AsksValue

-----------------------------------------------------------------------------
\* The call counts nothing, and the element is over.
LEMMA PlainStarts ==
  ASSUME NEW B, Inv(B), NEW e \in Elem, main # <<>>, Head(main) = First(e),
         Kin(e) \notin {"value-of", "copy-of", "if", "include"},
         NEW cbs, Listed(e, cbs), Set(e) \notin ToSet(cbs), main' = Tail(main) \o cbs,
         Kin(e) = "response" \/ ToSet(cbs) = {},
         \A d \in Elem : First(d) \in ToSet(cbs) => Again(e) \in ToSet(cbs),
         count' = count, tcb' = tcb, Grows(e, kids, kids'),
         Notes(e), OthersOK', ~ failed', "DONE" \notin cur'
  PROVE  IInv'
<1>1. ~ Asks(e, cbs, NULL)
  BY DEF Asks
<1>2. Starts(e, cbs, NULL)
  BY DEF Starts
<1>3. Plans(e, cbs, NULL)
  BY <1>1 DEF Plans
<1>4. Takes(e, cbs, NULL, Holds)
  BY <1>1, TakesNone
<1>5. Builds(e, cbs, NULL)
  BY <1>1 DEF Builds
<1> QED BY <1>2, <1>3, <1>4, <1>5, StartKeeps

\* The call puts the node into the document and counts it.
LEMMA ContentStarts ==
  ASSUME NEW B, Inv(B), NEW e \in Elem, main # <<>>, Head(main) = First(e),
         Kin(e) \in {"copy", "log", "variable"},
         NEW cbs, Listed(e, cbs), Again(e) \in ToSet(cbs), Set(e) \notin ToSet(cbs),
         main' = Tail(main) \o cbs, tcb' = tcb,
         kids' = WithChild(kids, Place(sheet, e), Self(e)),
         count' = Increased(count, PathIn(kids', Self(e))),
         Notes(e), OthersOK', ~ failed', "DONE" \notin cur'
  PROVE  IInv'
<1>0. e \notin B /\ First(e) \in Queued
  BY HeadBlank
<1>1. ~ Asks(e, cbs, NULL)
  BY DEF Asks
<1>2. Starts(e, cbs, NULL)
  BY DEF Starts
<1>3. Plans(e, cbs, NULL)
  BY <1>1 DEF Plans
<1>4. Grows(e, kids, kids') /\ Stands(sheet, kids', Self(e))
  BY <1>0, SelfGrows DEF Rooted
<1>5. PathIn(kids', Self(e)) = SPath(sheet)[Self(e)]
  <2>1. WellFormed(sheet) /\ TreeOK(sheet, kids') /\ Self(e) \in Node
    BY <1>4, InvIs, NodesDiffer DEF Grows
  <2> QED BY <1>4, <2>1, PathIs
<1>6. count' = Tally(sheet, Base(e))
  <2>1. Increased(count, SPath(sheet)[Self(e)]) = Tally(sheet, Holds \cup {SelfHold(e)})
    BY BaseIs
  <2> QED BY <1>5, <2>1 DEF Base
<1>7. PICK H : Takes(e, cbs, NULL, H)
  BY <1>1, <1>6, TakesBase
<1>8. Builds(e, cbs, NULL)
  BY <1>1, <1>4 DEF Builds
<1> QED BY <1>2, <1>3, <1>7, <1>8, StartKeeps

\* A variable waits for the one that it reads.
LEMMA VariableStarts ==
  ASSUME NEW B, Inv(B), NEW e \in Elem, main # <<>>, Head(main) = First(e), Kin(e) = "variable",
         Source(sheet, e) = "variable", Pending(sheet.ref[e]), main' = Tail(main),
         tcb' = Parked(tcb, Self(sheet.ref[e]), Set(e)),
         NEW K, K = WithChild(kids, Place(sheet, e), Self(e)), kids' = K,
         count' = Increased(Increased(count, PathIn(K, Self(e))), PathIn(K, Self(e))),
         Notes(e), OthersOK', ~ failed', "DONE" \notin cur'
  PROVE  IInv'
<1> DEFINE v == sheet.ref[e]
           k == Self(v)
           cbs == <<>>
<1>0. e \notin B /\ First(e) \in Queued /\ WellFormed(sheet) /\ main \in Seq(Call)
  BY HeadBlank, InvIs
<1>1. v \in Elem
  <2>1. v # 0
    BY SourceIs
  <2> QED BY <1>0, <2>1, KindsAre
<1>2. k \in Node /\ k # NULL /\ count[k] > 0
  BY <1>1, NodesDiffer DEF Pending
<1>3. Listed(e, cbs) /\ ToSet(cbs) = {}
  BY ListedFew
<1>4. Asks(e, cbs, k)
  BY <1>2 DEF Asks
<1>5. Grows(e, kids, K) /\ Stands(sheet, K, Self(e))
  BY <1>0, SelfGrows DEF Rooted
<1>6. PathIn(K, Self(e)) = SPath(sheet)[Self(e)]
  <2>1. WellFormed(sheet) /\ TreeOK(sheet, K) /\ Self(e) \in Node
    BY <1>5, InvIs, NodesDiffer DEF Grows
  <2> QED BY <1>5, <2>1, PathIs
<1>7. At(sheet, ValueHold(e)) = Self(e)
  BY AtIs DEF Kin
<1>8. count' = Increased(Tally(sheet, Base(e)), SPath(sheet)[At(sheet, ValueHold(e))])
  <2>1. Increased(count, SPath(sheet)[Self(e)]) = Tally(sheet, Holds \cup {SelfHold(e)})
    BY BaseIs
  <2>2. Base(e) = Holds \cup {SelfHold(e)}
    BY DEF Base
  <2> QED BY <1>6, <1>7, <2>1, <2>2
<1> HIDE DEF cbs, k
<1>9. PICK H : Takes(e, cbs, k, H)
  BY <1>4, <1>8, TakesBase
<1>10. count'[k] > 0
  BY <1>2, <1>9, StaysBusy
<1>11. MayWait(Set(e), k)'
  <2>1. sheet' = sheet
    BY DEF Notes, Leaves
  <2>2. Set(e)[1] = "set" /\ Set(e)[2] = e
    BY CallsDiffer
  <2> QED BY <2>1, <2>2 DEF MayWait, k
<1>12. Starts(e, cbs, k)
  <2>1. main' = Tail(main) \o cbs
    <3>1. Tail(main) \in Seq(Call)
      BY <1>0
    <3> QED BY <3>1 DEF cbs
  <2> QED BY <1>2, <1>3, <1>10, <1>11, <2>1 DEF Starts, k
<1>13. Plans(e, cbs, k)
  BY <1>3, <1>4 DEF Plans
<1>14. Builds(e, cbs, k)
  BY <1>3, <1>5 DEF Builds
<1> QED BY <1>9, <1>12, <1>13, <1>14, StartKeeps

LEMMA BaseCount ==
  ASSUME NEW B, Inv(B), NEW e \in Elem, main # <<>>, Head(main) = First(e),
         Kin(e) \in {"value-of", "copy-of", "if", "include"},
         NEW K, K = WithChild(WithChild(kids, Insert(e), Self(e)), Self(e), Waiting(e))
  PROVE  /\ Kin(e) # "include" => Increased(count, PathIn(K, Self(e))) = Tally(sheet, Base(e))
         /\ Kin(e) = "include" =>
              Increased(Increased(count, PathIn(K, Self(e))), PathIn(K, Tmp(e))) = Tally(sheet, Base(e))
<1>1. e \notin B /\ First(e) \in Queued /\ WellFormed(sheet)
  BY HeadBlank, InvIs
<1>2. Waiting(e) \in {Tmp(e), Ret(e)} /\ (Kin(e) = "include" => Waiting(e) = Tmp(e))
  BY DEF Waiting, Kin
<1>3. PathIn(K, Self(e)) = SPath(sheet)[Self(e)] /\ PathIn(K, Waiting(e)) = SPath(sheet)[Waiting(e)]
  <2>1. K = WithChild(WithChild(kids, Place(sheet, e), Self(e)), Self(e), Waiting(e))
    BY <1>1, InsertIs
  <2> QED BY <1>1, <1>2, <2>1, WaitGrows
<1>4. Increased(count, SPath(sheet)[Self(e)]) = Tally(sheet, Holds \cup {SelfHold(e)})
  BY BaseIs
<1>5. Kin(e) = "include" =>
        Increased(Increased(count, SPath(sheet)[Self(e)]), SPath(sheet)[Tmp(e)]) = Tally(sheet, Base(e))
  BY BaseIs
<1>6. Kin(e) # "include" => Base(e) = Holds \cup {SelfHold(e)}
  BY DEF Base
<1> QED BY <1>2, <1>3, <1>4, <1>5, <1>6

-----------------------------------------------------------------------------
(***************************************************************************)
(* The first calls.                                                        *)
(***************************************************************************)
LEMMA CallsIs ==
  ASSUME NEW B, Inv(B), NEW e \in Elem, NEW t, NEW k, Calls(t, e, k)
  PROVE  /\ running /\ main # <<>> /\ Kin(e) = k /\ Head(main) = << t, e >>
         /\ t = "first" => Head(main) = First(e)
         /\ t = "again" => Head(main) = Again(e)
         /\ t = "set" => Head(main) = Set(e)
         /\ WellFormed(sheet) /\ main \in Seq(Call) /\ Tail(main) \in Seq(Call)
         /\ Tail(main) \o <<>> = Tail(main)
<1>1. running /\ main # <<>> /\ Kin(e) = k /\ Head(main) = << t, e >>
  BY DEF Calls, Kin
<1>2. WellFormed(sheet) /\ main \in Seq(Call)
  BY InvIs
<1> QED BY <1>1, <1>2 DEF First, Again, Set

\* The value, the stage or the name is all that the call changes besides.
LEMMA StartNotes ==
  ASSUME NEW B, Inv(B), NEW e \in Elem, running, main # <<>>, Head(main) = First(e), Goes,
         UNCHANGED <<output, host>>,
         val' \in [Elem -> {Unset} \cup Seq(Elem)],
         \/ stage' = stage /\ Kin(e) \notin {"if", "include", "response"}
         \/ stage' = [stage EXCEPT ![e] = FirstStage(e)],
         \/ bound' = bound /\ Kin(e) # "variable"
         \/ \E x \in {"document", "value"} : bound' = [bound EXCEPT ![e] = x]
  PROVE  Notes(e) /\ OthersOK' /\ ~ failed' /\ "DONE" \notin cur'
<1>1. stage[e] = "start"
  BY HeadBlank
<1>2. FirstStage(e) \in Stage
  BY DEF FirstStage, Stage
<1>3. /\ stage' \in [Elem -> Stage] /\ stage'[e] = FirstStage(e)
      /\ \A f \in Elem : f # e => stage'[f] = stage[f]
  <2>1. CASE stage' = stage /\ Kin(e) \notin {"if", "include", "response"}
    <3>1. stage \in [Elem -> Stage]
      BY OwnSame
    <3> QED BY <1>1, <2>1, <3>1 DEF FirstStage
  <2>2. CASE stage' = [stage EXCEPT ![e] = FirstStage(e)]
    BY <1>2, <2>2, OwnSame
  <2> QED BY <2>1, <2>2
<1>4. /\ bound' \in [Elem -> {"no", "document", "value"}]
      /\ Kin(e) = "variable" => bound'[e] # "no"
      /\ \A f \in Elem : f # e => bound'[f] = bound[f]
  <2>1. CASE bound' = bound /\ Kin(e) # "variable"
    BY <2>1, OwnSame
  <2>2. CASE \E x \in {"document", "value"} : bound' = [bound EXCEPT ![e] = x]
    <3>1. PICK x \in {"document", "value"} : bound' = [bound EXCEPT ![e] = x]
      BY <2>2
    <3>2. x \in {"no", "document", "value"} /\ x # "no"
      OBVIOUS
    <3> QED BY <3>1, <3>2, OwnSame
  <2> QED BY <2>1, <2>2
<1>5. /\ OthersOK' /\ ~ failed' /\ "DONE" \notin cur'
      /\ sheet' = sheet /\ answer' = answer /\ requested' = requested
      /\ responseCur' = responseCur
  BY <1>3, <1>4, OthersSame
<1>6. Notes(e)
  BY <1>3, <1>4, <1>5 DEF Notes, Leaves
<1> QED BY <1>5, <1>6

\* The first call of a text.
LEMMA TextFirstKeeps ==
  ASSUME NEW B, Inv(B), NEW e \in Elem, TextFirst(e)
  PROVE  IInv'
<1>1. Calls("first", e, "text")
  BY DEF TextFirst
<1>2. /\ running /\ main # <<>> /\ Head(main) = First(e) /\ Kin(e) = "text"
      /\ WellFormed(sheet) /\ Tail(main) \o <<>> = Tail(main)
  BY <1>1, CallsIs
<1>3. /\ kids' = WithChild(kids, Insert(e), Self(e)) /\ main' = Tail(main) \o <<>>
      /\ count' = count /\ tcb' = tcb /\ Goes /\ UNCHANGED <<output, host>>
      /\ stage' = stage /\ bound' = bound /\ val' = val
  BY <1>2 DEF TextFirst, Rest, elements
<1>4. Notes(e) /\ OthersOK' /\ ~ failed' /\ "DONE" \notin cur'
  <2>1. val' \in [Elem -> {Unset} \cup Seq(Elem)]
    BY <1>3, OwnSame
  <2> QED BY <1>2, <1>3, <2>1, StartNotes
<1>5. Grows(e, kids, kids')
  <2>1. kids' = WithChild(kids, Place(sheet, e), Self(e)) /\ e \notin B /\ First(e) \in Queued
    BY <1>2, <1>3, InsertIs, HeadBlank
  <2> QED BY <2>1, SelfGrows DEF Rooted
<1>6. Listed(e, <<>>) /\ ToSet(<<>>) = {}
  BY ListedFew
<1> DEFINE cbs == <<>>
<1>7. Set(e) \notin ToSet(cbs) /\ \A d \in Elem : First(d) \in ToSet(cbs) => Again(e) \in ToSet(cbs)
  BY <1>6
<1>8. Listed(e, cbs) /\ ToSet(cbs) = {} /\ main' = Tail(main) \o cbs
  BY <1>3, <1>6
<1> HIDE DEF cbs
<1> QED BY <1>2, <1>3, <1>4, <1>5, <1>7, <1>8, PlainStarts

\* The first call of a copied element.
LEMMA CopyFirstKeeps ==
  ASSUME NEW B, Inv(B), NEW e \in Elem, CopyFirst(e)
  PROVE  IInv'
<1>1. Calls("first", e, "copy")
  BY DEF CopyFirst
<1>2. /\ running /\ main # <<>> /\ Head(main) = First(e) /\ Kin(e) = "copy"
      /\ WellFormed(sheet) /\ Tail(main) \in Seq(Call) /\ Tail(main) \o <<>> = Tail(main)
      /\ e \notin B /\ First(e) \in Queued
  BY <1>1, CallsIs, HeadBlank
<1>3. /\ kids' = WithChild(kids, Place(sheet, e), Self(e))
      /\ tcb' = tcb /\ Goes /\ UNCHANGED <<output, host>>
      /\ stage' = stage /\ bound' = bound /\ val' = val
  BY <1>2, InsertIs DEF CopyFirst, elements
<1>4. Notes(e) /\ OthersOK' /\ ~ failed' /\ "DONE" \notin cur'
  <2>1. val' \in [Elem -> {Unset} \cup Seq(Elem)]
    BY <1>3, OwnSame
  <2> QED BY <1>2, <1>3, <2>1, StartNotes
<1>5. CASE Children(sheet, e, "content") = <<>>
  <2> DEFINE cbs == <<>>
  <2>1. main' = Tail(main) \o cbs /\ count' = count
    BY <1>2, <1>5 DEF CopyFirst, Rest
  <2>2. Listed(e, cbs) /\ ToSet(cbs) = {}
    BY ListedFew
  <2>3. Grows(e, kids, kids')
    BY <1>2, <1>3, SelfGrows DEF Rooted
  <2> HIDE DEF cbs
  <2>4. Set(e) \notin ToSet(cbs) /\ \A d \in Elem : First(d) \in ToSet(cbs) => Again(e) \in ToSet(cbs)
    BY <2>2
  <2> QED BY <1>2, <1>3, <1>4, <2>1, <2>2, <2>3, <2>4, PlainStarts
<1>6. CASE Children(sheet, e, "content") # <<>>
  <2> DEFINE cbs == Firsts(e, "content") \o << Again(e) >>
  <2>1. main' = Rest \o Firsts(e, "content") \o << Again(e) >>
        /\ count' = Increased(count, PathIn(kids', Self(e)))
    BY <1>6 DEF CopyFirst, Again
  <2>2. main' = Tail(main) \o cbs
    BY <1>2, <2>1, ListJoined DEF Rest
  <2>3. cbs = Firsts(e, "content") \o << Again(e) >> /\ "content" # "value"
    OBVIOUS
  <2> HIDE DEF cbs
  <2>4. Listed(e, cbs) /\ Again(e) \in ToSet(cbs) /\ Set(e) \notin ToSet(cbs)
    BY <2>3, ListedContent
  <2> QED BY <1>2, <1>3, <1>4, <2>1, <2>2, <2>4, ContentStarts
<1> QED BY <1>5, <1>6

\* The first call of a log.
LEMMA LogFirstKeeps ==
  ASSUME NEW B, Inv(B), NEW e \in Elem, LogFirst(e)
  PROVE  IInv'
<1>1. Calls("first", e, "log")
  BY DEF LogFirst
<1>2. /\ running /\ main # <<>> /\ Head(main) = First(e) /\ Kin(e) = "log"
      /\ WellFormed(sheet) /\ Tail(main) \in Seq(Call) /\ Tail(main) \o <<>> = Tail(main)
  BY <1>1, CallsIs
<1>3. /\ tcb' = tcb /\ Goes /\ UNCHANGED <<output, host>>
      /\ stage' = stage /\ bound' = bound /\ val' = val
  BY DEF LogFirst, elements
<1>4. Notes(e) /\ OthersOK' /\ ~ failed' /\ "DONE" \notin cur'
  <2>1. val' \in [Elem -> {Unset} \cup Seq(Elem)]
    BY <1>3, OwnSame
  <2> QED BY <1>2, <1>3, <2>1, StartNotes
<1>5. CASE Children(sheet, e, "content") = <<>>
  <2> DEFINE cbs == <<>>
  <2>1. main' = Tail(main) \o cbs /\ count' = count /\ kids' = kids
    BY <1>2, <1>5 DEF LogFirst, Rest
  <2>2. Listed(e, cbs) /\ ToSet(cbs) = {}
    BY ListedFew
  <2>3. Grows(e, kids, kids')
    BY <2>1, InvIs DEF Grows
  <2> HIDE DEF cbs
  <2>4. Set(e) \notin ToSet(cbs) /\ \A d \in Elem : First(d) \in ToSet(cbs) => Again(e) \in ToSet(cbs)
    BY <2>2
  <2> QED BY <1>2, <1>3, <1>4, <2>1, <2>2, <2>3, <2>4, PlainStarts
<1>6. CASE Children(sheet, e, "content") # <<>>
  <2> DEFINE cbs == Firsts(e, "content") \o << Again(e) >>
  <2>1. /\ main' = Rest \o Firsts(e, "content") \o << Again(e) >>
        /\ count' = Increased(count, PathIn(kids', Self(e)))
        /\ kids' = WithChild(kids, Insert(e), Self(e))
    BY <1>6 DEF LogFirst, Again
  <2>2. main' = Tail(main) \o cbs
    BY <1>2, <2>1, ListJoined DEF Rest
  <2>3. cbs = Firsts(e, "content") \o << Again(e) >> /\ "content" # "value"
    OBVIOUS
  <2> HIDE DEF cbs
  <2>4. Listed(e, cbs) /\ Again(e) \in ToSet(cbs) /\ Set(e) \notin ToSet(cbs)
    BY <2>3, ListedContent
  <2>5. kids' = WithChild(kids, Place(sheet, e), Self(e))
    BY <1>2, <2>1, InsertIs
  <2> QED BY <1>2, <1>3, <1>4, <2>1, <2>2, <2>4, <2>5, ContentStarts
<1> QED BY <1>5, <1>6

\* The first call of a response.
LEMMA ResponseFirstKeeps ==
  ASSUME NEW B, Inv(B), NEW e \in Elem, ResponseFirst(e)
  PROVE  IInv'
<1>1. Calls("first", e, "response")
  BY DEF ResponseFirst
<1>2. /\ running /\ main # <<>> /\ Head(main) = First(e) /\ Kin(e) = "response"
      /\ WellFormed(sheet) /\ Tail(main) \in Seq(Call)
  BY <1>1, CallsIs
<1>3. /\ Goes /\ UNCHANGED <<output, host>> /\ kids' = kids /\ count' = count /\ tcb' = tcb
      /\ stage' = [stage EXCEPT ![e] = "second"] /\ bound' = bound /\ val' = val
      /\ main' = Rest \o Firsts(e, "content") \o << Again(e) >>
  BY DEF ResponseFirst, document, Again
<1>4. Notes(e) /\ OthersOK' /\ ~ failed' /\ "DONE" \notin cur'
  <2>1. val' \in [Elem -> {Unset} \cup Seq(Elem)]
    BY <1>3, OwnSame
  <2>2. stage' = [stage EXCEPT ![e] = FirstStage(e)]
    BY <1>2, <1>3 DEF FirstStage
  <2>3. Kin(e) # "variable"
    BY <1>2
  <2> QED BY <1>2, <1>3, <2>1, <2>2, <2>3, StartNotes
<1> DEFINE cbs == Firsts(e, "content") \o << Again(e) >>
<1>5. main' = Tail(main) \o cbs
  BY <1>2, <1>3, ListJoined DEF Rest
<1>6. cbs = Firsts(e, "content") \o << Again(e) >> /\ "content" # "value"
  OBVIOUS
<1> HIDE DEF cbs
<1>7. Listed(e, cbs) /\ Again(e) \in ToSet(cbs) /\ Set(e) \notin ToSet(cbs)
  BY <1>6, ListedContent
<1>8. Grows(e, kids, kids')
  BY <1>3, InvIs DEF Grows
<1>9. Kin(e) \notin {"value-of", "copy-of", "if", "include"}
  BY <1>2
<1>10. \A d \in Elem : First(d) \in ToSet(cbs) => Again(e) \in ToSet(cbs)
  BY <1>7
<1> QED BY <1>2, <1>3, <1>4, <1>5, <1>7, <1>8, <1>9, <1>10, PlainStarts

\* The first call of a variable.
LEMMA VariableFirstKeeps ==
  ASSUME NEW B, Inv(B), NEW e \in Elem, VariableFirst(e)
  PROVE  IInv'
<1> DEFINE K == WithChild(kids, Place(sheet, e), Self(e))
           v == sheet.ref[e]
           Noted == Notes(e) /\ OthersOK' /\ ~ failed' /\ "DONE" \notin cur'
<1>1. Calls("first", e, "variable")
  BY DEF VariableFirst
<1>2. /\ running /\ main # <<>> /\ Head(main) = First(e) /\ Kin(e) = "variable"
      /\ WellFormed(sheet) /\ Tail(main) \in Seq(Call) /\ Tail(main) \o <<>> = Tail(main)
      /\ Place(sheet, e) = Var
  BY <1>1, CallsIs DEF Place, Kin
<1>3. Goes /\ UNCHANGED <<output, host>> /\ stage' = stage
  BY DEF VariableFirst
<1>4. ASSUME NEW x \in {"document", "value"}, bound' = [bound EXCEPT ![e] = x],
             val' \in [Elem -> {Unset} \cup Seq(Elem)]
      PROVE  Notes(e) /\ OthersOK' /\ ~ failed' /\ "DONE" \notin cur'
  <2>1. Kin(e) \notin {"if", "include", "response"}
    BY <1>2
  <2> QED BY <1>2, <1>3, <1>4, <2>1, StartNotes
<1>5. /\ val \in [Elem -> {Unset} \cup Seq(Elem)]
      /\ \A x \in {Unset} \cup Seq(Elem) : [val EXCEPT ![e] = x] \in [Elem -> {Unset} \cup Seq(Elem)]
      /\ << e >> \in {Unset} \cup Seq(Elem)
  BY OwnSame
<1>6. CASE Source(sheet, e) = "constant"
  <2> DEFINE cbs == <<>>
  <2>1. /\ main' = Tail(main) \o cbs /\ count' = count /\ kids' = kids /\ tcb' = tcb
        /\ bound' = [bound EXCEPT ![e] = "value"] /\ val' = [val EXCEPT ![e] = << e >>]
    BY <1>2, <1>6 DEF VariableFirst, Rest
  <2>2. Listed(e, cbs) /\ ToSet(cbs) = {}
    BY ListedFew
  <2>3. Grows(e, kids, kids')
    BY <2>1, InvIs DEF Grows
  <2> HIDE DEF cbs
  <2>4. Set(e) \notin ToSet(cbs) /\ \A d \in Elem : First(d) \in ToSet(cbs) => Again(e) \in ToSet(cbs)
    BY <2>2
  <2>5. Notes(e) /\ OthersOK' /\ ~ failed' /\ "DONE" \notin cur'
    BY <1>4, <1>5, <2>1
  <2> QED BY <1>2, <2>1, <2>2, <2>3, <2>4, <2>5, PlainStarts
<1>7. CASE Source(sheet, e) = "nodelist"
  <2> DEFINE cbs == Firsts(e, "content") \o << Again(e) >>
  <2>1. /\ main' = Rest \o Firsts(e, "content") \o << Again(e) >>
        /\ count' = Increased(count, PathIn(kids', Self(e)))
        /\ kids' = WithChild(kids, Place(sheet, e), Self(e)) /\ tcb' = tcb
        /\ bound' = [bound EXCEPT ![e] = "document"] /\ val' = val
    BY <1>2, <1>7 DEF VariableFirst, Again
  <2>2. main' = Tail(main) \o cbs
    BY <1>2, <2>1, ListJoined DEF Rest
  <2>3. cbs = Firsts(e, "content") \o << Again(e) >> /\ "content" # "value"
    OBVIOUS
  <2> HIDE DEF cbs
  <2>4. Listed(e, cbs) /\ Again(e) \in ToSet(cbs) /\ Set(e) \notin ToSet(cbs)
    BY <2>3, ListedContent
  <2>5. Notes(e) /\ OthersOK' /\ ~ failed' /\ "DONE" \notin cur'
    BY <1>4, <1>5, <2>1
  <2> QED BY <1>2, <2>1, <2>2, <2>4, <2>5, ContentStarts
<1>8. CASE Source(sheet, e) = "variable"
  <2>1. v \in Elem /\ bound[v] # "no"
    <3>1. v # 0
      BY <1>8, SourceIs
    <3>2. bound[v] # "no"
      BY <1>8 DEF VariableFirst
    <3> QED BY <1>2, <3>1, <3>2, KindsAre
  <2>2. CASE Pending(v)
    <3>1. /\ kids' = K /\ bound' = [bound EXCEPT ![e] = "document"]
          /\ count' = Increased(Increased(count, PathIn(K, Self(e))), PathIn(K, Self(e)))
          /\ tcb' = Parked(tcb, Self(sheet.ref[e]), Set(e)) /\ main' = Tail(main) /\ val' = val
      BY <1>2, <1>8, <2>2 DEF VariableFirst, Set, Rest
    <3>2. Notes(e) /\ OthersOK' /\ ~ failed' /\ "DONE" \notin cur'
      BY <1>4, <1>5, <3>1
    <3>3. K = WithChild(kids, Place(sheet, e), Self(e)) /\ Pending(sheet.ref[e])
      BY <2>2
    <3> HIDE DEF K, v
    <3> QED BY <1>2, <1>8, <3>1, <3>2, <3>3, VariableStarts
  <2>3. CASE ~ Pending(v)
    <3> DEFINE cbs == << Again(e) >>
    <3>1. /\ main' = Tail(main) \o cbs /\ count' = Increased(count, PathIn(kids', Self(e)))
          /\ kids' = WithChild(kids, Place(sheet, e), Self(e)) /\ tcb' = tcb
          /\ bound' = [bound EXCEPT ![e] = "value"] /\ val' = [val EXCEPT ![e] = TextOfVariable(v)]
      BY <1>2, <1>8, <2>3 DEF VariableFirst, Again, Rest
    <3>2. Listed(e, cbs) /\ ToSet(cbs) = {Again(e)}
      BY ListedFew
    <3>3. Again(e) \in ToSet(cbs) /\ Set(e) \notin ToSet(cbs)
      BY <3>2, CallsDiffer
    <3>4. TextOfVariable(v) \in {Unset} \cup Seq(Elem)
      BY <2>1, TextsAre
    <3> HIDE DEF cbs
    <3>5. Notes(e) /\ OthersOK' /\ ~ failed' /\ "DONE" \notin cur'
      BY <1>4, <1>5, <3>1, <3>4
    <3> QED BY <1>2, <3>1, <3>2, <3>3, <3>5, ContentStarts
  <2> QED BY <2>2, <2>3
<1>9. Source(sheet, e) \in {"constant", "nodelist", "variable"}
  BY SourceIs
<1> QED BY <1>6, <1>7, <1>8, <1>9

\* The first call of an element with a value.
LEMMA ValueFirstKeeps ==
  ASSUME NEW B, Inv(B), NEW e \in Elem,
         ValueOfFirst(e) \/ CopyOfFirst(e) \/ IfFirst(e) \/ IncludeFirst(e)
  PROVE  IInv'
<1> DEFINE K == WithChild(WithChild(kids, Insert(e), Self(e)), Self(e), Waiting(e))
           C == IF Kin(e) = "include"
                THEN Increased(Increased(count, PathIn(K, Self(e))), PathIn(K, Tmp(e)))
                ELSE Increased(count, PathIn(K, Self(e)))
<1>1. \E k \in {"value-of", "copy-of", "if", "include"} : Calls("first", e, k)
  BY DEF ValueOfFirst, CopyOfFirst, IfFirst, IncludeFirst
<1>2. /\ running /\ main # <<>> /\ Head(main) = First(e)
      /\ Kin(e) \in {"value-of", "copy-of", "if", "include"}
  BY <1>1, CallsIs
<1>3. ASSUME NEW k \in Kind, NEW t, Calls(t, e, k)
      PROVE  Kin(e) = k
  BY <1>3 DEF Calls, Kin
<1>4. AsksValue(e, Waiting(e), K, C, << Again(e) >>)
  <2>1. CASE ValueOfFirst(e)
    <3>1. Kin(e) = "value-of" /\ Waiting(e) = Tmp(e)
      BY <1>3, <2>1 DEF ValueOfFirst, Waiting, Kin, Kind
    <3> QED BY <2>1, <3>1 DEF ValueOfFirst, Again
  <2>2. CASE CopyOfFirst(e)
    <3>1. Kin(e) = "copy-of" /\ Waiting(e) = Ret(e)
      BY <1>3, <2>2 DEF CopyOfFirst, Waiting, Kin, Kind
    <3> QED BY <2>2, <3>1 DEF CopyOfFirst, Again
  <2>3. CASE IfFirst(e)
    <3>1. Kin(e) = "if" /\ Waiting(e) = Tmp(e)
      BY <1>3, <2>3 DEF IfFirst, Waiting, Kin, Kind
    <3> QED BY <2>3, <3>1 DEF IfFirst, Again
  <2>4. CASE IncludeFirst(e)
    <3>1. Kin(e) = "include" /\ Waiting(e) = Tmp(e)
      BY <1>3, <2>4 DEF IncludeFirst, Waiting, Kin, Kind
    <3> QED BY <2>4, <3>1 DEF IncludeFirst, Again
  <2> QED BY <2>1, <2>2, <2>3, <2>4
<1>5. C = Tally(sheet, Base(e))
  <2>1. /\ Kin(e) # "include" => Increased(count, PathIn(K, Self(e))) = Tally(sheet, Base(e))
        /\ Kin(e) = "include" =>
             Increased(Increased(count, PathIn(K, Self(e))), PathIn(K, Tmp(e))) = Tally(sheet, Base(e))
    <3>1. K = WithChild(WithChild(kids, Insert(e), Self(e)), Self(e), Waiting(e))
      OBVIOUS
    <3> HIDE DEF K
    <3> QED BY <1>2, <3>1, BaseCount
  <2> QED BY <2>1
<1>6. Goes /\ UNCHANGED <<bound, output, host>>
  BY DEF ValueOfFirst, CopyOfFirst, IfFirst, IncludeFirst
<1>7. /\ stage' \in [Elem -> Stage] /\ stage'[e] = FirstStage(e)
      /\ \A f \in Elem : f # e => stage'[f] = stage[f]
  <2>1. stage[e] = "start" /\ stage \in [Elem -> Stage]
    BY <1>2, HeadBlank, OwnSame
  <2>2. \/ stage' = stage /\ Kin(e) \in {"value-of", "copy-of"}
        \/ stage' = [stage EXCEPT ![e] = "test"] /\ Kin(e) = "if"
        \/ stage' = [stage EXCEPT ![e] = "PARAMS_BEGIN"] /\ Kin(e) = "include"
    BY <1>3 DEF ValueOfFirst, CopyOfFirst, IfFirst, IncludeFirst, Kind
  <2>3. \/ stage' = stage /\ FirstStage(e) = stage[e]
        \/ stage' = [stage EXCEPT ![e] = FirstStage(e)] /\ FirstStage(e) \in Stage
    BY <2>1, <2>2 DEF FirstStage, Stage
  <2> QED BY <2>1, <2>3, OwnSame
<1>8. K = WithChild(WithChild(kids, Insert(e), Self(e)), Self(e), Waiting(e))
  OBVIOUS
<1> HIDE DEF K, C
<1> QED BY <1>2, <1>4, <1>5, <1>6, <1>7, <1>8, ValueStarts
=============================================================================
