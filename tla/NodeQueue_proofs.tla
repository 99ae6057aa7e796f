-------------------------- MODULE NodeQueue_proofs --------------------------
(***************************************************************************)
(* Facts about the operators of NodeQueue that the state machines built on *)
(* them share, and about sequences: what FlattenSeq makes of a sequence of *)
(* sequences, and what joining and cutting does to sequences without       *)
(* repetitions.                                                            *)
(***************************************************************************)
EXTENDS NodeQueue, TLAPS, WellFoundedInduction

\* A set of natural numbers that is not empty has a least element.
LEMMA LeastNumber ==
  ASSUME NEW B, B \subseteq Nat, B # {}
  PROVE  \E k \in B : \A m \in B : k <= m
<1> DEFINE R == { p \in Nat \X Nat : p[1] < p[2] }
<1>1. IsWellFoundedOn(R, Nat)
  BY NatLessThanWellFounded DEF OpToRel
<1>2. PICK k \in B : \A m \in B : ~ (<<m, k>> \in R)
  BY <1>1, WFMin
<1>3. ASSUME NEW m \in B PROVE k <= m
  <2>1. m \in Nat /\ k \in Nat
    OBVIOUS
  <2>2. <<m, k>> \in Nat \X Nat /\ ~ (<<m, k>> \in R)
    BY <1>2, <2>1
  <2>3. ~ (m < k)
    BY <2>2
  <2> QED BY <2>1, <2>3
<1> QED BY <1>3

\* The function FlattenSeq recurses with exists, for every sequence of
\* sequences: a shortest prefix without it would extend the one before.
LEMMA FlattenExists ==
  ASSUME NEW S, NEW ss \in Seq(Seq(S))
  PROVE  \E f : f = [i \in 1..Len(ss) |->
                       IF i = 1 THEN ss[i] ELSE f[i-1] \o ss[i]]
<1> DEFINE N == Len(ss)
           Good(k, g) == g = [i \in 1..k |->
                                IF i = 1 THEN ss[i] ELSE g[i-1] \o ss[i]]
           Has(k) == \E g : Good(k, g)
           Bad == { k \in 0..N : ~ Has(k) }
<1>1. N \in Nat
  OBVIOUS
<1>2. Has(0)
  <2>1. Good(0, [i \in 1..0 |-> ss])
    OBVIOUS
  <2> QED BY <2>1
<1>3. ASSUME NEW k \in 1..N, Has(k - 1) PROVE Has(k)
  <2>1. PICK g : Good(k - 1, g)
    BY <1>3
  <2> DEFINE h == [i \in 1..k |->
                     IF i = 1 THEN ss[i] ELSE g[i-1] \o ss[i]]
  <2>2. ASSUME NEW i \in 1..(k - 1) PROVE h[i] = g[i]
    <3>1. i \in 1..k
      BY <2>2
    <3>2. h[i] = IF i = 1 THEN ss[i] ELSE g[i-1] \o ss[i]
      BY <3>1
    <3>3. g[i] = IF i = 1 THEN ss[i] ELSE g[i-1] \o ss[i]
      BY <2>1
    <3> HIDE DEF h
    <3> QED BY <3>2, <3>3
  <2>3. ASSUME NEW i \in 1..k, i # 1 PROVE h[i - 1] = g[i - 1]
    <3>1. i - 1 \in 1..(k - 1)
      BY <2>3
    <3> HIDE DEF h
    <3> QED BY <2>2, <3>1
  <2>4. Good(k, h)
    BY <2>3
  <2> QED BY <2>4
<1> HIDE DEF Has
<1>4. Bad = {}
  <2> SUFFICES ASSUME Bad # {} PROVE FALSE
    OBVIOUS
  <2>1. Bad \subseteq Nat
    BY <1>1
  <2>2. PICK k \in Bad : \A m \in Bad : k <= m
    BY <2>1, LeastNumber
  <2>3. k \in 0..N /\ ~ Has(k) /\ k # 0
    BY <1>2
  <2>4. k \in 1..N /\ k - 1 \in 0..N
    BY <1>1, <2>3
  <2>5. Has(k - 1)
    BY <1>1, <2>2, <2>4
  <2> QED BY <1>3, <2>3, <2>4, <2>5
<1>5. Has(N)
  BY <1>1, <1>4
<1> QED BY <1>5 DEF Has

\* FlattenSeq is built one sequence at a time, from nothing.
LEMMA FlattenSteps ==
  ASSUME NEW S, NEW ss \in Seq(Seq(S))
  PROVE  \E f \in [0..Len(ss) -> Seq(S)] :
           /\ f[0] = <<>>
           /\ \A i \in 1..Len(ss) : f[i] = f[i-1] \o ss[i]
           /\ f[Len(ss)] = FlattenSeq(ss)
<1> DEFINE N == Len(ss)
           Rec(g) == g = [i \in 1..N |->
                            IF i = 1 THEN ss[i] ELSE g[i-1] \o ss[i]]
           g == CHOOSE g : Rec(g)
           f == [i \in 0..N |-> IF i = 0 THEN <<>> ELSE g[i]]
           Bad == { i \in 1..N : g[i] \notin Seq(S) }
<1>1. N \in Nat
  OBVIOUS
<1>2. Rec(g)
  BY ZenonT(30), FlattenExists
<1> HIDE DEF g
<1>3. Bad = {}
  <2> SUFFICES ASSUME Bad # {} PROVE FALSE
    OBVIOUS
  <2>0. Bad \subseteq Nat
    BY <1>1
  <2>1. PICK k \in Bad : \A m \in Bad : k <= m
    BY <2>0, LeastNumber
  <2>2. k \in 1..N /\ g[k] \notin Seq(S) /\ ss[k] \in Seq(S)
    OBVIOUS
  <2>3. k # 1
    BY <1>2, <2>2
  <2>4. k - 1 \in 1..N /\ g[k - 1] \in Seq(S)
    BY <1>1, <2>1, <2>2, <2>3
  <2>5. g[k] = g[k - 1] \o ss[k]
    BY <1>2, <2>2, <2>3
  <2> QED BY <2>2, <2>4, <2>5
<1>4. f \in [0..N -> Seq(S)] /\ f[0] = <<>>
  BY <1>1, <1>3
<1>5. ASSUME NEW i \in 1..N PROVE f[i] = f[i-1] \o ss[i]
  <2>1. ss[i] \in Seq(S) /\ i \in 0..N /\ i - 1 \in 0..N
    BY <1>1
  <2>2. CASE i = 1
    BY <1>2, <2>1, <2>2
  <2>3. CASE i # 1
    <3>1. g[i] = g[i-1] \o ss[i]
      BY <1>2, <2>3
    <3>2. f[i] = g[i] /\ f[i-1] = g[i-1]
      BY <1>1, <2>1, <2>3
    <3> HIDE DEF f
    <3> QED BY <3>1, <3>2
  <2> QED BY <2>2, <2>3
<1>6. f[N] = FlattenSeq(ss)
  <2>1. CASE N = 0
    BY <2>1, <1>4 DEF FlattenSeq
  <2>2. CASE N # 0
    BY <1>1, <2>2 DEF FlattenSeq, g
  <2> QED BY <2>1, <2>2
<1> QED BY <1>4, <1>5, <1>6

\* flat holds the sequences ss one behind the other: o[i] elements are in front
\* of the sequence i + 1.
Laid(o, ss, flat) ==
  /\ o \in [0..Len(ss) -> Nat]
  /\ \A i, k \in 0..Len(ss) : i <= k => o[i] <= o[k]
  /\ o[Len(ss)] = Len(flat)
  /\ \A i \in 1..Len(ss) :
       /\ o[i] = o[i-1] + Len(ss[i])
       /\ \A q \in 1..Len(ss[i]) :
            o[i-1] + q \in 1..Len(flat) /\ flat[o[i-1] + q] = ss[i][q]
  /\ \A p \in 1..Len(flat) :
       \E i \in 1..Len(ss) : \E q \in 1..Len(ss[i]) : p = o[i-1] + q

\* Where FlattenSeq puts the sequences it is given.
LEMMA FlattenOffsets ==
  ASSUME NEW S, NEW ss \in Seq(Seq(S))
  PROVE  \E o : Laid(o, ss, FlattenSeq(ss))
<1> DEFINE N == Len(ss)
<1>1. N \in Nat /\ \A i \in 1..N : ss[i] \in Seq(S) /\ Len(ss[i]) \in Nat
  OBVIOUS
<1>2. PICK f \in [0..N -> Seq(S)] :
        /\ f[0] = <<>>
        /\ \A i \in 1..N : f[i] = f[i-1] \o ss[i]
        /\ f[N] = FlattenSeq(ss)
  BY FlattenSteps
<1>3. PICK off \in [0..N -> Nat] : \A i \in 0..N : off[i] = Len(f[i])
  <2> DEFINE g == [i \in 0..N |-> Len(f[i])]
  <2>1. g \in [0..N -> Nat]
    BY <1>2
  <2> QED BY <2>1
<1> DEFINE Good(k) ==
             /\ \A i \in 0..k : off[i] <= off[k]
             /\ \A i \in 1..k : \A q \in 1..Len(ss[i]) :
                  f[k][off[i-1] + q] = ss[i][q]
             /\ \A p \in 1..off[k] :
                  \E i \in 1..k : \E q \in 1..Len(ss[i]) : p = off[i-1] + q
           Bad == { k \in 0..N : ~ Good(k) }
<1>4. ASSUME NEW i \in 1..N
      PROVE  /\ i \in 0..N /\ i - 1 \in 0..N
             /\ off[i] = off[i-1] + Len(ss[i])
             /\ \A p \in 1..off[i-1] : f[i][p] = f[i-1][p]
             /\ \A q \in 1..Len(ss[i]) : f[i][off[i-1] + q] = ss[i][q]
  <2>1. i \in 0..N /\ i - 1 \in 0..N
    BY <1>1
  <2>2. f[i-1] \in Seq(S) /\ ss[i] \in Seq(S) /\ f[i] = f[i-1] \o ss[i]
    BY <1>1, <1>2, <2>1
  <2>3. off[i] = Len(f[i]) /\ off[i-1] = Len(f[i-1])
    BY <1>3, <2>1
  <2> QED BY SMTT(30), <2>1, <2>2, <2>3
<1>5. Good(0)
  <2>1. off[0] = 0
    BY <1>1, <1>2, <1>3
  <2> QED BY <2>1
<1>6. ASSUME NEW k \in 1..N, Good(k - 1) PROVE Good(k)
  <2>1. /\ k \in 0..N /\ k - 1 \in 0..N
        /\ off[k] = off[k-1] + Len(ss[k]) /\ Len(ss[k]) \in Nat
    BY <1>1, <1>4
  <2>2. off[k] \in Nat /\ off[k-1] \in Nat /\ off[k-1] <= off[k]
    BY SMTT(30), <1>3, <2>1
  <2>3. ASSUME NEW i \in 0..k PROVE off[i] <= off[k]
    <3>1. i \in 0..(k-1) \/ i = k
      BY <1>1
    <3>2. i \in 0..N /\ off[i] \in Nat
      BY <1>1, <1>3
    <3> QED BY <1>6, <2>2, <3>1, <3>2
  <2>4. ASSUME NEW i \in 1..k, NEW q \in 1..Len(ss[i])
        PROVE  f[k][off[i-1] + q] = ss[i][q]
    <3>1. CASE i = k
      BY <1>4, <3>1
    <3>2. CASE i # k
      <4>1. i \in 1..(k-1) /\ i \in 1..N /\ i \in 0..(k-1)
        BY <1>1, <3>2
      <4>2. off[i] <= off[k-1] /\ f[k-1][off[i-1] + q] = ss[i][q]
        BY <1>6, <4>1
      <4>3. off[i] = off[i-1] + Len(ss[i]) /\ off[i-1] \in Nat /\ Len(ss[i]) \in Nat
        BY <1>1, <1>3, <1>4, <4>1
      <4>4. off[i-1] + q \in 1..off[k-1]
        <5> DEFINE len == Len(ss[i])
                   low == off[i-1]
                   high == off[k-1]
        <5>1. low \in Nat /\ len \in Nat /\ high \in Nat /\ low + len <= high
          BY <2>2, <4>2, <4>3
        <5>2. q \in 1..len
          OBVIOUS
        <5> HIDE DEF len, low, high
        <5>3. low + q \in 1..high
          BY <5>1, <5>2
        <5> QED BY <5>3 DEF low, high
      <4> QED BY <1>4, <4>2, <4>4
    <3> QED BY <3>1, <3>2
  <2>5. ASSUME NEW p \in 1..off[k]
        PROVE  \E i \in 1..k : \E q \in 1..Len(ss[i]) : p = off[i-1] + q
    <3>1. CASE p \in 1..off[k-1]
      <4>1. PICK i \in 1..(k-1) : \E q \in 1..Len(ss[i]) : p = off[i-1] + q
        BY <1>6, <3>1
      <4>2. i \in 1..k
        BY <1>1
      <4> QED BY <4>1, <4>2
    <3>2. CASE p \notin 1..off[k-1]
      <4>1. p - off[k-1] \in 1..Len(ss[k]) /\ p = off[k-1] + (p - off[k-1])
        BY <2>1, <2>2, <3>2
      <4> QED BY <4>1
    <3> QED BY <3>1, <3>2
  <2> QED BY <2>3, <2>4, <2>5
<1> HIDE DEF Good
<1>7. Bad = {}
  <2> SUFFICES ASSUME Bad # {} PROVE FALSE
    OBVIOUS
  <2>0. Bad \subseteq Nat
    BY <1>1
  <2>1. PICK k \in Bad : \A m \in Bad : k <= m
    BY <2>0, LeastNumber
  <2>2. k \in 1..N /\ k - 1 \in 0..N /\ ~ Good(k)
    BY <1>1, <1>5
  <2>3. Good(k - 1)
    BY <1>1, <2>1, <2>2
  <2> QED BY <1>6, <2>2, <2>3
<1>8. \A k \in 0..N : Good(k)
  BY <1>7
<1>9. \A i, k \in 0..N : i <= k => off[i] <= off[k]
  BY <1>1, <1>8 DEF Good
<1>10. Good(N) /\ f[N] = FlattenSeq(ss) /\ off[N] = Len(FlattenSeq(ss))
  BY <1>1, <1>2, <1>3, <1>8
<1>11. ASSUME NEW i \in 1..N, NEW q \in 1..Len(ss[i])
       PROVE  /\ off[i-1] + q \in 1..Len(FlattenSeq(ss))
              /\ FlattenSeq(ss)[off[i-1] + q] = ss[i][q]
  <2>1. off[i] = off[i-1] + Len(ss[i]) /\ off[i] <= off[N]
    BY <1>1, <1>4, <1>9
  <2>2. off[i-1] \in Nat /\ off[N] \in Nat /\ Len(ss[i]) \in Nat
    BY <1>1, <1>3, <1>4
  <2>3. off[i-1] + q \in 1..off[N]
    <3> DEFINE len == Len(ss[i])
               low == off[i-1]
               all == off[N]
    <3>1. low \in Nat /\ len \in Nat /\ all \in Nat /\ low + len <= all
      BY <2>1, <2>2
    <3>2. q \in 1..len
      OBVIOUS
    <3> HIDE DEF len, low, all
    <3>3. low + q \in 1..all
      BY <3>1, <3>2
    <3> QED BY <3>3 DEF low, all
  <2> QED BY <1>10, <2>3, <1>11 DEF Good
<1>12. ASSUME NEW p \in 1..Len(FlattenSeq(ss))
       PROVE  \E i \in 1..N : \E q \in 1..Len(ss[i]) : p = off[i-1] + q
  BY <1>10, <1>12 DEF Good
<1>13. \A i \in 1..N : off[i] = off[i-1] + Len(ss[i])
  BY <1>4
<1>14. Laid(off, ss, FlattenSeq(ss))
  BY <1>3, <1>9, <1>10, <1>11, <1>12, <1>13 DEF Laid
<1> QED BY <1>14

\* FlattenSeq returns a sequence of what its sequences are made of.
LEMMA FlattenType ==
  ASSUME NEW S, NEW ss \in Seq(Seq(S))
  PROVE  FlattenSeq(ss) \in Seq(S)
<1>1. PICK f \in [0..Len(ss) -> Seq(S)] : f[Len(ss)] = FlattenSeq(ss)
  BY FlattenSteps
<1>2. Len(ss) \in 0..Len(ss)
  OBVIOUS
<1> QED BY <1>1, <1>2

\* The elements of a sequence are found somewhere in it.
LEMMA ToSetPlace ==
  ASSUME NEW S, NEW s \in Seq(S), NEW x \in ToSet(s)
  PROVE  \E i \in 1..Len(s) : s[i] = x
<1>1. DOMAIN s = 1..Len(s)
  OBVIOUS
<1> QED BY <1>1 DEF ToSet

\* What is flattened in two parts is flattened as a whole.
LEMMA FlattenConcat ==
  ASSUME NEW S, NEW ss \in Seq(Seq(S)), NEW tt \in Seq(Seq(S))
  PROVE  FlattenSeq(ss \o tt) = FlattenSeq(ss) \o FlattenSeq(tt)
<1>0. \A a, b, c \in Seq(S) : (a \o b) \o c = a \o (b \o c)
  BY SMTT(30)
<1> DEFINE uu == ss \o tt
           m == Len(ss)
           n == Len(tt)
<1>1. /\ uu \in Seq(Seq(S)) /\ m \in Nat /\ n \in Nat /\ Len(uu) = m + n
      /\ \A i \in 1..m : uu[i] = ss[i]
      /\ \A i \in 1..n : uu[m + i] = tt[i]
  OBVIOUS
<1>2. PICK f \in [0..m -> Seq(S)] :
        /\ f[0] = <<>>
        /\ \A i \in 1..m : f[i] = f[i-1] \o ss[i]
        /\ f[m] = FlattenSeq(ss)
  BY FlattenSteps
<1>3. PICK g \in [0..n -> Seq(S)] :
        /\ g[0] = <<>>
        /\ \A i \in 1..n : g[i] = g[i-1] \o tt[i]
        /\ g[n] = FlattenSeq(tt)
  BY FlattenSteps
<1> HIDE DEF uu
<1>4. PICK h \in [0..Len(uu) -> Seq(S)] :
        /\ h[0] = <<>>
        /\ \A i \in 1..Len(uu) : h[i] = h[i-1] \o uu[i]
        /\ h[Len(uu)] = FlattenSeq(uu)
  BY <1>1, FlattenSteps
<1> HIDE DEF m, n
<1>5. \A i \in 0..m : h[i] = f[i]
  <2> DEFINE Bad == { i \in 0..m : h[i] # f[i] }
  <2> SUFFICES ASSUME Bad # {} PROVE FALSE
    OBVIOUS
  <2>1. Bad \subseteq Nat
    BY <1>1
  <2>2. PICK i \in Bad : \A j \in Bad : i <= j
    BY <2>1, LeastNumber
  <2>3. i \in 0..m /\ h[i] # f[i] /\ i # 0
    BY <1>2, <1>4
  <2>4. i \in 1..m /\ i \in 1..Len(uu) /\ i - 1 \in 0..m /\ i - 1 < i
    BY <1>1, <2>3
  <2>5. h[i-1] = f[i-1]
    BY <2>2, <2>4
  <2>6. h[i] = h[i-1] \o uu[i] /\ f[i] = f[i-1] \o ss[i] /\ uu[i] = ss[i]
    BY <1>1, <1>2, <1>4, <2>4
  <2> QED BY <2>3, <2>5, <2>6
<1>6. \A i \in 0..n : h[m + i] = f[m] \o g[i]
  <2> DEFINE Bad == { i \in 0..n : h[m + i] # f[m] \o g[i] }
  <2> SUFFICES ASSUME Bad # {} PROVE FALSE
    OBVIOUS
  <2>1. Bad \subseteq Nat
    BY <1>1
  <2>2. PICK i \in Bad : \A j \in Bad : i <= j
    BY <2>1, LeastNumber
  <2>3. i \in 0..n /\ h[m + i] # f[m] \o g[i]
    OBVIOUS
  <2>4. f[m] \in Seq(S) /\ m \in 0..m
    BY <1>1, <1>2
  <2>5. i # 0
    <3>1. m + 0 = m /\ f[m] \o <<>> = f[m]
      BY <1>1, <2>4
    <3>2. h[m] = f[m]
      BY <1>5, <2>4
    <3> QED BY <1>3, <2>3, <3>1, <3>2
  <2>6. /\ i \in 1..n /\ i - 1 \in 0..n /\ i - 1 < i
        /\ m + i \in 1..Len(uu) /\ (m + i) - 1 = m + (i - 1)
    BY <1>1, <2>3, <2>5
  <2>7. h[m + (i - 1)] = f[m] \o g[i-1]
    <3>1. \A j \in 0..n : j < i => h[m + j] = f[m] \o g[j]
      <4> SUFFICES ASSUME NEW j \in 0..n, j < i, j \in Bad PROVE FALSE
        OBVIOUS
      <4>1. i <= j
        BY <2>2
      <4> QED BY <1>1, <2>3, <4>1
    <3> HIDE DEF Bad
    <3> QED BY <2>6, <3>1
  <2>8. /\ h[m + i] = h[m + (i - 1)] \o uu[m + i]
        /\ g[i] = g[i-1] \o tt[i] /\ uu[m + i] = tt[i]
    BY <1>1, <1>3, <1>4, <2>6
  <2>9. g[i-1] \in Seq(S) /\ tt[i] \in Seq(S)
    <3>1. g[i-1] \in Seq(S)
      BY <1>3, <2>6
    <3>2. tt[i] \in Seq(S)
      BY <2>6 DEF n
    <3> QED BY <3>1, <3>2
  <2>10. (f[m] \o g[i-1]) \o tt[i] = f[m] \o (g[i-1] \o tt[i])
    BY <1>0, <2>4, <2>9
  <2> QED BY SMTT(30), <2>3, <2>7, <2>8, <2>10
<1>7. n \in 0..n /\ m \in 0..m
  BY <1>1
<1> QED BY <1>1, <1>2, <1>3, <1>4, <1>6, <1>7 DEF uu

\* One sequence for each element is the sequence of the elements.
LEMMA FlattenSingles ==
  ASSUME NEW S, NEW s \in Seq(S), NEW ss \in Seq(Seq(S)), Len(ss) = Len(s),
         \A i \in 1..Len(s) : ss[i] = <<s[i]>>
  PROVE  FlattenSeq(ss) = s
<1>1. PICK f \in [0..Len(ss) -> Seq(S)] :
        /\ f[0] = <<>>
        /\ \A i \in 1..Len(ss) : f[i] = f[i-1] \o ss[i]
        /\ f[Len(ss)] = FlattenSeq(ss)
  BY FlattenSteps
<1> DEFINE Good(i) == Len(f[i]) = i /\ \A k \in 1..i : f[i][k] = s[k]
           Bad == { i \in 0..Len(s) : ~ Good(i) }
<1>2. ASSUME NEW i \in 1..Len(s), Good(i - 1) PROVE Good(i)
  <2>1. f[i] = f[i-1] \o <<s[i]>> /\ f[i-1] \in Seq(S) /\ s[i] \in S
    <3>1. i \in 1..Len(ss) /\ i - 1 \in 0..Len(ss)
      OBVIOUS
    <3>2. f[i] = f[i-1] \o ss[i] /\ f[i-1] \in Seq(S)
      BY <1>1, <3>1
    <3>3. ss[i] = <<s[i]>> /\ s[i] \in S
      OBVIOUS
    <3> QED BY <3>2, <3>3
  <2>2. Len(f[i-1]) = i - 1
    BY <1>2
  <2>3. Len(f[i]) = i /\ f[i][i] = s[i]
    BY <2>1, <2>2
  <2>4. ASSUME NEW k \in 1..i, k # i PROVE f[i][k] = s[k]
    <3>1. k \in 1..(i - 1)
      BY <2>4
    <3>2. f[i-1][k] = s[k]
      BY <1>2, <3>1
    <3>3. f[i][k] = f[i-1][k]
      BY <2>1, <2>2, <3>1
    <3> QED BY <3>2, <3>3
  <2> QED BY <2>3, <2>4
<1>3. Good(0)
  BY <1>1
<1> HIDE DEF Good
<1>4. Bad = {}
  <2> SUFFICES ASSUME Bad # {} PROVE FALSE
    OBVIOUS
  <2>1. Bad \subseteq Nat
    OBVIOUS
  <2>2. PICK i \in Bad : \A j \in Bad : i <= j
    BY <2>1, LeastNumber
  <2>3. i \in 0..Len(s) /\ ~ Good(i) /\ i # 0
    BY <1>3
  <2>4. i \in 1..Len(s) /\ i - 1 \in 0..Len(s) /\ ~ (i <= i - 1)
    BY <2>3
  <2>5. Good(i - 1)
    BY <2>2, <2>4, SMTT(30)
  <2> QED BY <1>2, <2>3, <2>4, <2>5
<1>5. Good(Len(s))
  BY <1>4
<1>6. FlattenSeq(ss) \in Seq(S) /\ f[Len(s)] = FlattenSeq(ss)
  BY <1>1, FlattenType
<1> QED BY SMTT(30), <1>5, <1>6 DEF Good

\* The elements of a flattened sequence are those of its sequences.
LEMMA FlattenElements ==
  ASSUME NEW S, NEW ss \in Seq(Seq(S))
  PROVE  /\ \A x \in ToSet(FlattenSeq(ss)) :
              \E i \in 1..Len(ss) : x \in ToSet(ss[i])
         /\ \A i \in 1..Len(ss) : ToSet(ss[i]) \subseteq ToSet(FlattenSeq(ss))
<1>1. PICK o : Laid(o, ss, FlattenSeq(ss))
  BY FlattenOffsets
<1>2. FlattenSeq(ss) \in Seq(S)
  BY FlattenType
<1>3. ASSUME NEW x \in ToSet(FlattenSeq(ss))
      PROVE  \E i \in 1..Len(ss) : x \in ToSet(ss[i])
  <2>1. PICK p \in 1..Len(FlattenSeq(ss)) : FlattenSeq(ss)[p] = x
    BY <1>2, ToSetPlace
  <2>2. PICK i \in 1..Len(ss) : \E q \in 1..Len(ss[i]) : p = o[i-1] + q
    BY <1>1 DEF Laid
  <2>3. PICK q \in 1..Len(ss[i]) : p = o[i-1] + q
    BY <2>2
  <2>4. ss[i][q] = x
    BY <1>1, <2>1, <2>3 DEF Laid
  <2> QED BY <2>4 DEF ToSet
<1>4. ASSUME NEW i \in 1..Len(ss), NEW x \in ToSet(ss[i])
      PROVE  x \in ToSet(FlattenSeq(ss))
  <2>0. ss[i] \in Seq(S)
    OBVIOUS
  <2>1. PICK q \in 1..Len(ss[i]) : ss[i][q] = x
    BY <2>0, ToSetPlace
  <2>2. FlattenSeq(ss)[o[i-1] + q] = x /\ o[i-1] + q \in 1..Len(FlattenSeq(ss))
    BY <1>1, <2>1 DEF Laid
  <2> QED BY <1>2, <2>2 DEF ToSet
<1> QED BY <1>3, <1>4

\* The sequence s has an x in front of a y.
InFront(s, x, y) ==
  \E p, r \in 1..Len(s) : p < r /\ s[p] = x /\ s[r] = y

\* Of two sequences the one in front is in front in the flattened sequence too.
LEMMA FlattenOrder ==
  ASSUME NEW S, NEW ss \in Seq(Seq(S)),
         NEW i \in 1..Len(ss), NEW k \in 1..Len(ss), i < k,
         NEW x \in ToSet(ss[i]), NEW y \in ToSet(ss[k])
  PROVE  InFront(FlattenSeq(ss), x, y)
<1>1. PICK o : Laid(o, ss, FlattenSeq(ss))
  BY FlattenOffsets
<1>0. ss[i] \in Seq(S) /\ ss[k] \in Seq(S)
  OBVIOUS
<1>2. PICK q \in 1..Len(ss[i]) : ss[i][q] = x
  BY <1>0, ToSetPlace
<1>3. PICK t \in 1..Len(ss[k]) : ss[k][t] = y
  BY <1>0, ToSetPlace
<1>4. /\ o[i-1] + q \in 1..Len(FlattenSeq(ss))
      /\ FlattenSeq(ss)[o[i-1] + q] = x
  BY <1>1, <1>2 DEF Laid
<1>5. /\ o[k-1] + t \in 1..Len(FlattenSeq(ss))
      /\ FlattenSeq(ss)[o[k-1] + t] = y
  BY <1>1, <1>3 DEF Laid
<1>6. o[i-1] + q < o[k-1] + t
  <2>1. i - 1 \in 0..Len(ss) /\ i \in 0..Len(ss) /\ k - 1 \in 0..Len(ss)
        /\ i <= k - 1
    OBVIOUS
  <2>2. /\ o[i-1] \in Nat /\ o[k-1] \in Nat
        /\ o[i] = o[i-1] + Len(ss[i]) /\ o[i] <= o[k-1]
    BY <1>1, <2>1 DEF Laid
  <2>3. Len(ss[i]) \in Nat /\ q \in Nat /\ t \in Nat /\ q <= Len(ss[i]) /\ t > 0
    OBVIOUS
  <2> QED BY SMTT(30), <2>2, <2>3
<1> QED BY <1>4, <1>5, <1>6 DEF InFront

\* Sequences without repetitions, and with nothing in common, are one sequence
\* without repetitions when they are flattened.
LEMMA FlattenInjective ==
  ASSUME NEW S, NEW ss \in Seq(Seq(S)),
         \A i \in 1..Len(ss) : IsInjective(ss[i]),
         \A i, k \in 1..Len(ss) :
           i # k => ToSet(ss[i]) \cap ToSet(ss[k]) = {}
  PROVE  IsInjective(FlattenSeq(ss))
<1>1. PICK o : Laid(o, ss, FlattenSeq(ss))
  BY FlattenOffsets
<1>2. FlattenSeq(ss) \in Seq(S)
  BY FlattenType
<1> SUFFICES ASSUME NEW p \in 1..Len(FlattenSeq(ss)),
                    NEW r \in 1..Len(FlattenSeq(ss)),
                    FlattenSeq(ss)[p] = FlattenSeq(ss)[r]
             PROVE  p = r
  BY <1>2 DEF IsInjective
<1>3. PICK i \in 1..Len(ss) : \E q \in 1..Len(ss[i]) : p = o[i-1] + q
  BY <1>1 DEF Laid
<1>4. PICK q \in 1..Len(ss[i]) : p = o[i-1] + q
  BY <1>3
<1>5. PICK k \in 1..Len(ss) : \E t \in 1..Len(ss[k]) : r = o[k-1] + t
  BY <1>1 DEF Laid
<1>6. PICK t \in 1..Len(ss[k]) : r = o[k-1] + t
  BY <1>5
<1>7. ss[i][q] = ss[k][t]
  <2>1. FlattenSeq(ss)[o[i-1] + q] = ss[i][q]
    BY <1>1 DEF Laid
  <2>2. FlattenSeq(ss)[o[k-1] + t] = ss[k][t]
    BY <1>1 DEF Laid
  <2> QED BY <1>4, <1>6, <2>1, <2>2
<1>8. ss[i] \in Seq(S) /\ ss[k] \in Seq(S)
  OBVIOUS
<1>9. ss[i][q] \in ToSet(ss[i]) /\ ss[k][t] \in ToSet(ss[k])
  BY SMTT(30), <1>8 DEF ToSet
<1>10. i = k
  BY <1>7, <1>9
<1>11. q = t
  BY <1>7, <1>8, <1>10 DEF IsInjective
<1> QED BY <1>4, <1>6, <1>10, <1>11

\* A function on an initial segment of the numbers is a sequence.
LEMMA SegmentIsSeq ==
  ASSUME NEW T, NEW m \in Nat, NEW s \in [1..m -> T]
  PROVE  s \in Seq(T)
OBVIOUS

\* The sequence s holds u in one piece, behind its first a elements.
PieceAt(s, a, u) ==
  \A q \in 1..Len(u) : a + q \in 1..Len(s) /\ s[a + q] = u[q]

\* Sequences without repetitions that have nothing in common can be joined.
LEMMA ConcatInjective ==
  ASSUME NEW S, NEW s \in Seq(S), NEW t \in Seq(S),
         IsInjective(s), IsInjective(t), ToSet(s) \cap ToSet(t) = {}
  PROVE  IsInjective(s \o t) /\ ToSet(s \o t) = ToSet(s) \cup ToSet(t)
<1>1. \A i \in 1..Len(s \o t) :
        \/ i \in 1..Len(s) /\ (s \o t)[i] = s[i]
        \/ i - Len(s) \in 1..Len(t) /\ (s \o t)[i] = t[i - Len(s)]
  OBVIOUS
<1>2. s \o t \in Seq(S)
  OBVIOUS
<1>3. ASSUME NEW i \in 1..Len(s), NEW k \in 1..Len(t) PROVE s[i] # t[k]
  BY DEF ToSet
<1>4. IsInjective(s \o t)
  <2> SUFFICES ASSUME NEW i \in 1..Len(s \o t), NEW k \in 1..Len(s \o t),
                      (s \o t)[i] = (s \o t)[k]
               PROVE  i = k
    BY <1>2 DEF IsInjective
  <2>1. CASE i \in 1..Len(s) /\ k \in 1..Len(s)
    BY <1>1, <2>1 DEF IsInjective
  <2>2. CASE i \notin 1..Len(s) /\ k \notin 1..Len(s)
    BY <1>1, <2>2 DEF IsInjective
  <2>3. CASE i \in 1..Len(s) /\ k \notin 1..Len(s)
    BY <1>1, <1>3, <2>3
  <2>4. CASE i \notin 1..Len(s) /\ k \in 1..Len(s)
    BY <1>1, <1>3, <2>4
  <2> QED BY <2>1, <2>2, <2>3, <2>4
<1>5. ToSet(s \o t) = ToSet(s) \cup ToSet(t)
  <2>1. ASSUME NEW x \in ToSet(s \o t) PROVE x \in ToSet(s) \cup ToSet(t)
    <3>1. PICK i \in 1..Len(s \o t) : (s \o t)[i] = x
      BY <1>2 DEF ToSet
    <3> QED BY <1>1, <3>1 DEF ToSet
  <2>2. ASSUME NEW x \in ToSet(s) PROVE x \in ToSet(s \o t)
    <3>1. PICK i \in 1..Len(s) : s[i] = x
      BY DEF ToSet
    <3>2. (s \o t)[i] = x /\ i \in 1..Len(s \o t)
      BY <3>1
    <3> QED BY <1>2, <3>2 DEF ToSet
  <2>3. ASSUME NEW x \in ToSet(t) PROVE x \in ToSet(s \o t)
    <3>1. PICK i \in 1..Len(t) : t[i] = x
      BY DEF ToSet
    <3>2. (s \o t)[Len(s) + i] = x /\ Len(s) + i \in 1..Len(s \o t)
      BY <3>1
    <3> QED BY <1>2, <3>2 DEF ToSet
  <2> QED BY <2>1, <2>2, <2>3
<1> QED BY <1>4, <1>5

\* What is not in a queue yet can be appended to it.
LEMMA AppendsInjective ==
  ASSUME NEW S, NEW s \in Seq(S), NEW c \in S,
         IsInjective(s), c \notin ToSet(s)
  PROVE  IsInjective(Append(s, c)) /\ ToSet(Append(s, c)) = ToSet(s) \cup {c}
<1> DEFINE t == <<c>>
<1>1. t \in Seq(S) /\ IsInjective(t) /\ ToSet(t) = {c}
  BY DEF IsInjective, ToSet
<1>2. Append(s, c) = s \o t
  OBVIOUS
<1> HIDE DEF t
<1>3. ToSet(s) \cap ToSet(t) = {}
  BY <1>1
<1>4. IsInjective(s \o t) /\ ToSet(s \o t) = ToSet(s) \cup ToSet(t)
  BY <1>1, <1>3, ConcatInjective
<1> QED BY <1>1, <1>2, <1>4

\* A queue keeps what it holds when its oldest callback leaves it.
LEMMA TailInjective ==
  ASSUME NEW S, NEW s \in Seq(S), s # <<>>, IsInjective(s)
  PROVE  IsInjective(Tail(s)) /\ ToSet(Tail(s)) \subseteq ToSet(s)
<1>1. \A i \in 1..Len(Tail(s)) : Tail(s)[i] = s[i + 1] /\ i + 1 \in 1..Len(s)
  OBVIOUS
<1>2. Tail(s) \in Seq(S)
  OBVIOUS
<1> QED BY <1>1, <1>2 DEF IsInjective, ToSet

\* A sequence is a prefix of what it is continued to.
LEMMA ConcatPrefix ==
  ASSUME NEW S, NEW s \in Seq(S), NEW t \in Seq(S)
  PROVE  IsPrefix(s, s \o t)
<1>1. Len(s) <= Len(s \o t)
  OBVIOUS
<1>2. SubSeq(s, 1, Len(s)) = SubSeq(s \o t, 1, Len(s))
  OBVIOUS
<1> QED BY <1>1, <1>2 DEF IsPrefix

\* A piece of t begins some suffix of s \o t.
LEMMA PieceOfSuffix ==
  ASSUME NEW S, NEW s \in Seq(S), NEW t \in Seq(S), NEW u \in Seq(S), u # <<>>,
         NEW a \in Nat, PieceAt(t, a, u)
  PROVE  \E v \in Suffixes(s \o t) : IsPrefix(u, v)
<1> DEFINE w == s \o t
           l == Len(s) + a + 1
           v == SubSeq(w, l, Len(w))
<1>1. w \in Seq(S) /\ Len(w) = Len(s) + Len(t)
  OBVIOUS
<1>2. Len(s) \in Nat /\ Len(t) \in Nat /\ Len(u) \in Nat /\ Len(u) >= 1
  OBVIOUS
<1>3. 1 \in 1..Len(u) /\ Len(u) \in 1..Len(u)
  BY <1>2
<1>4. a + Len(u) <= Len(t) /\ a + 1 <= Len(t)
  BY <1>2, <1>3 DEF PieceAt
<1>5. \A q \in 1..Len(u) : w[Len(s) + (a + q)] = u[q]
  <2> SUFFICES ASSUME NEW q \in 1..Len(u) PROVE w[Len(s) + (a + q)] = u[q]
    OBVIOUS
  <2> DEFINE r == a + q
  <2>1. r \in 1..Len(t) /\ t[r] = u[q]
    BY DEF PieceAt
  <2> HIDE DEF r
  <2>2. w[Len(s) + r] = t[r]
    BY <2>1
  <2> QED BY <2>1, <2>2 DEF r
<1> HIDE DEF w
<1>6. l \in 1..Len(w)
  BY <1>1, <1>2, <1>4
<1>7. v \in Suffixes(w)
  BY <1>6 DEF Suffixes
<1>8. v \in Seq(S) /\ Len(v) = Len(t) - a
  BY <1>1, <1>2, <1>4, <1>6
<1>9. \A q \in 1..Len(u) : v[q] = u[q]
  <2> SUFFICES ASSUME NEW q \in 1..Len(u) PROVE v[q] = u[q]
    OBVIOUS
  <2>1. v[q] = w[l + q - 1]
    BY <1>1, <1>2, <1>4, <1>6
  <2>2. l + q - 1 = Len(s) + (a + q)
    BY <1>2
  <2> QED BY <1>5, <2>1, <2>2
<1> HIDE DEF v
<1>10. Len(u) <= Len(v)
  BY <1>2, <1>4, <1>8
<1>11. SubSeq(u, 1, Len(u)) = SubSeq(v, 1, Len(u))
  BY <1>2, <1>8, <1>9, <1>10
<1> QED BY <1>7, <1>10, <1>11 DEF IsPrefix, w

\* What a sequence holds from its element i on.
LEMMA RestOfSeq ==
  ASSUME NEW S, NEW s \in Seq(S), NEW i \in 1..Len(s),
         NEW x \in DOMAIN SubSeq(s, i, Len(s))
  PROVE  /\ x \in Nat /\ x >= 1 /\ i + x - 1 \in 1..Len(s)
         /\ SubSeq(s, i, Len(s))[x] = s[i + x - 1]
<1>1. Len(s) \in Nat /\ i \in Nat /\ i >= 1 /\ i <= Len(s)
  OBVIOUS
<1>2. DOMAIN SubSeq(s, i, Len(s)) = 1..(Len(s) - i + 1)
  BY <1>1
<1> QED BY <1>1, <1>2, SMTT(30)

\* What a queue without repetitions is when its oldest callback has left it.
LEMMA Popped ==
  ASSUME NEW S, NEW s \in Seq(S), s # <<>>, IsInjective(s)
  PROVE  /\ Tail(s) \in Seq(S) /\ IsInjective(Tail(s))
         /\ Head(s) \in ToSet(s)
         /\ ToSet(Tail(s)) = ToSet(s) \ {Head(s)}
<1>1. /\ Tail(s) \in Seq(S) /\ Len(s) \in Nat /\ Len(s) >= 1 /\ Head(s) = s[1]
      /\ Len(Tail(s)) = Len(s) - 1
      /\ \A i \in 1..Len(Tail(s)) : Tail(s)[i] = s[i + 1] /\ i + 1 \in 1..Len(s)
  OBVIOUS
<1>2. DOMAIN s = 1..Len(s) /\ DOMAIN Tail(s) = 1..Len(Tail(s))
  BY <1>1
<1>3. IsInjective(Tail(s))
  BY TailInjective
<1>4. Head(s) \in ToSet(s)
  BY <1>1, <1>2 DEF ToSet
<1>5. ASSUME NEW x \in ToSet(Tail(s)) PROVE x \in ToSet(s) \ {Head(s)}
  <2>1. PICK i \in 1..Len(Tail(s)) : Tail(s)[i] = x
    BY <1>1, ToSetPlace
  <2>2. i + 1 \in 1..Len(s) /\ s[i + 1] = x /\ i + 1 # 1
    BY <1>1, <2>1
  <2>3. x # s[1]
    BY <1>1, <1>2, <2>2 DEF IsInjective
  <2> QED BY <1>1, <1>2, <2>2, <2>3 DEF ToSet
<1>6. ASSUME NEW x \in ToSet(s) \ {Head(s)} PROVE x \in ToSet(Tail(s))
  <2>1. PICK i \in 1..Len(s) : s[i] = x
    BY ToSetPlace
  <2>2. i # 1 /\ i - 1 \in 1..Len(Tail(s)) /\ (i - 1) + 1 = i
    BY <1>1, <2>1
  <2>3. Tail(s)[i - 1] = x
    BY <1>1, <2>1, <2>2
  <2> QED BY <1>2, <2>2, <2>3 DEF ToSet
<1> QED BY <1>1, <1>3, <1>4, <1>5, <1>6

\* What is in a sequence that something is appended to.
LEMMA Appended ==
  ASSUME NEW S, NEW s \in Seq(S), NEW x \in S
  PROVE  Append(s, x) \in Seq(S) /\ ToSet(Append(s, x)) = ToSet(s) \cup {x}
<1> DEFINE t == Append(s, x)
<1>1. /\ t \in Seq(S) /\ Len(t) = Len(s) + 1 /\ t[Len(s) + 1] = x
      /\ Len(s) \in Nat /\ \A i \in 1..Len(s) : t[i] = s[i]
  OBVIOUS
<1>2. DOMAIN s = 1..Len(s) /\ DOMAIN t = 1..Len(t)
  OBVIOUS
<1> HIDE DEF t
<1>3. ASSUME NEW y \in ToSet(t) PROVE y \in ToSet(s) \cup {x}
  <2>1. PICK i \in 1..Len(t) : t[i] = y
    BY <1>1, ToSetPlace
  <2>2. i \in 1..Len(s) \/ i = Len(s) + 1
    BY <1>1
  <2> QED BY <1>1, <1>2, <2>1, <2>2 DEF ToSet
<1>4. ASSUME NEW y \in ToSet(s) PROVE y \in ToSet(t)
  <2>1. PICK i \in 1..Len(s) : s[i] = y
    BY ToSetPlace
  <2>2. i \in 1..Len(t) /\ t[i] = y
    BY <1>1, <2>1
  <2> QED BY <1>2, <2>2 DEF ToSet
<1>5. x \in ToSet(t)
  <2>1. Len(s) + 1 \in 1..Len(t)
    BY <1>1
  <2> QED BY <1>1, <1>2, <2>1 DEF ToSet
<1> QED BY <1>1, <1>3, <1>4, <1>5 DEF t

\* What is in two sequences that are joined.
LEMMA ConcatElements ==
  ASSUME NEW S, NEW s \in Seq(S), NEW t \in Seq(S)
  PROVE  ToSet(s) \cup ToSet(t) \subseteq ToSet(s \o t)
<1> DEFINE u == s \o t
<1>1. /\ DOMAIN u = 1..Len(u) /\ Len(u) = Len(s) + Len(t)
      /\ Len(s) \in Nat /\ Len(t) \in Nat
      /\ \A i \in 1..Len(s) : u[i] = s[i]
      /\ \A i \in 1..Len(t) : u[Len(s) + i] = t[i]
  OBVIOUS
<1> HIDE DEF u
<1>2. ASSUME NEW x \in ToSet(s) PROVE x \in ToSet(u)
  <2>1. PICK i \in 1..Len(s) : s[i] = x
    BY ToSetPlace
  <2>2. i \in 1..Len(u) /\ u[i] = x
    BY <1>1, <2>1
  <2> QED BY <1>1, <2>2 DEF ToSet
<1>3. ASSUME NEW x \in ToSet(t) PROVE x \in ToSet(u)
  <2>1. PICK i \in 1..Len(t) : t[i] = x
    BY ToSetPlace
  <2>2. Len(s) + i \in 1..Len(u) /\ u[Len(s) + i] = x
    BY <1>1, <2>1
  <2> QED BY <1>1, <2>2 DEF ToSet
<1> QED BY <1>2, <1>3 DEF u

\* A sequence of one sequence is that one when it is flattened.
LEMMA FlattenOne ==
  ASSUME NEW S, NEW a \in Seq(S)
  PROVE  FlattenSeq(<<a>>) = a
<1>1. <<a>> \in Seq(Seq(S)) /\ Len(<<a>>) = 1 /\ <<a>>[1] = a
  OBVIOUS
<1>2. PICK f \in [0..1 -> Seq(S)] :
        /\ f[0] = <<>>
        /\ \A i \in 1..1 : f[i] = f[i-1] \o <<a>>[i]
        /\ f[1] = FlattenSeq(<<a>>)
  <2> DEFINE ss == <<a>>
  <2>1. ss \in Seq(Seq(S)) /\ Len(ss) = 1
    BY <1>1
  <2> HIDE DEF ss
  <2>2. \E f \in [0..Len(ss) -> Seq(S)] :
           /\ f[0] = <<>>
           /\ \A i \in 1..Len(ss) : f[i] = f[i-1] \o ss[i]
           /\ f[Len(ss)] = FlattenSeq(ss)
    BY <2>1, FlattenSteps
  <2> QED BY <2>1, <2>2 DEF ss
<1>3. f[1] = <<>> \o a
  <2>1. 1 \in 1..1 /\ 1 - 1 = 0
    OBVIOUS
  <2> QED BY <1>1, <1>2, <2>1
<1>4. <<>> \o a = a
  OBVIOUS
<1> QED BY <1>2, <1>3, <1>4

\* Nothing is left of nothing.
LEMMA FlattenNone == FlattenSeq(<<>>) = <<>>
BY DEF FlattenSeq

\* A sequence that begins with s and goes on with t is s \o t.
LEMMA ConcatIs ==
  ASSUME NEW S, NEW s \in Seq(S), NEW t \in Seq(S), NEW u \in Seq(S),
         Len(u) = Len(s) + Len(t),
         \A i \in 1..Len(s) : u[i] = s[i],
         \A i \in 1..Len(t) : u[Len(s) + i] = t[i]
  PROVE  s \o t = u
<1> DEFINE v == s \o t
<1>1. /\ v \in Seq(S) /\ Len(v) = Len(s) + Len(t)
      /\ \A i \in 1..Len(s) : v[i] = s[i]
      /\ \A i \in 1..Len(t) : v[Len(s) + i] = t[i]
  OBVIOUS
<1> HIDE DEF v
<1>2. ASSUME NEW i \in 1..Len(u) PROVE v[i] = u[i]
  <2>1. CASE i \in 1..Len(s)
    BY <1>1, <2>1
  <2>2. CASE i \notin 1..Len(s)
    <3>1. i - Len(s) \in 1..Len(t) /\ Len(s) + (i - Len(s)) = i
      BY <2>2
    <3> QED BY <1>1, <3>1
  <2> QED BY <2>1, <2>2
<1>3. v = u
  BY <1>1, <1>2
<1> QED BY <1>3 DEF v

\* Where the elements of s \o t are from.
LEMMA ConcatPlaces ==
  ASSUME NEW S, NEW s \in Seq(S), NEW t \in Seq(S)
  PROVE  /\ s \o t \in Seq(S) /\ Len(s \o t) = Len(s) + Len(t)
         /\ \A k \in 1..Len(s) : (s \o t)[k] = s[k]
         /\ \A k \in 1..Len(s \o t) :
              k > Len(s) => k - Len(s) \in 1..Len(t) /\ (s \o t)[k] = t[k - Len(s)]
OBVIOUS
-----------------------------------------------------------------------------
(***************************************************************************)
(* The order of a queue without repetitions, as callbacks leave and join   *)
(* it.                                                                     *)
(***************************************************************************)
LEMMA InFrontMembers ==
  ASSUME NEW s, NEW x, NEW y, InFront(s, x, y), DOMAIN s = 1..Len(s)
  PROVE  x \in ToSet(s) /\ y \in ToSet(s)
BY DEF InFront, ToSet

\* Nothing is in front of the oldest.
LEMMA InFrontOfHead ==
  ASSUME NEW S, NEW s \in Seq(S), s # <<>>, IsInjective(s), NEW x
  PROVE  ~ InFront(s, x, Head(s))
<1> SUFFICES ASSUME InFront(s, x, Head(s)) PROVE FALSE
  OBVIOUS
<1>1. PICK p, r \in 1..Len(s) : p < r /\ s[r] = s[1]
  BY DEF InFront
<1>2. Len(s) \in Nat /\ Len(s) >= 1 /\ DOMAIN s = 1..Len(s)
  OBVIOUS
<1>3. 1 \in DOMAIN s /\ r \in DOMAIN s
  BY <1>2
<1>4. r = 1
  BY <1>1, <1>3 DEF IsInjective
<1> QED BY <1>1, <1>4

LEMMA InFrontTail ==
  ASSUME NEW S, NEW s \in Seq(S), s # <<>>, NEW x, NEW y,
         InFront(s, x, y), x # Head(s)
  PROVE  InFront(Tail(s), x, y)
<1>1. PICK p, r \in 1..Len(s) : p < r /\ s[p] = x /\ s[r] = y
  BY DEF InFront
<1>2. /\ Len(s) \in Nat /\ Head(s) = s[1] /\ Len(Tail(s)) = Len(s) - 1
      /\ \A i \in 1..(Len(s) - 1) : Tail(s)[i] = s[i + 1]
  OBVIOUS
<1>3. p # 1
  BY <1>1, <1>2
<1>4. p - 1 \in 1..(Len(s) - 1) /\ r - 1 \in 1..(Len(s) - 1)
  BY <1>1, <1>2, <1>3
<1>5. /\ p - 1 \in 1..Len(Tail(s)) /\ r - 1 \in 1..Len(Tail(s)) /\ p - 1 < r - 1
      /\ Tail(s)[p - 1] = x /\ Tail(s)[r - 1] = y
  BY <1>1, <1>2, <1>4
<1> QED BY <1>5 DEF InFront

\* What is joined to a queue comes behind all of it, in its own order.
LEMMA InFrontJoined ==
  ASSUME NEW S, NEW s \in Seq(S), NEW t \in Seq(S), NEW x, NEW y
  PROVE  /\ InFront(s, x, y) => InFront(s \o t, x, y)
         /\ InFront(t, x, y) => InFront(s \o t, x, y)
         /\ x \in ToSet(s) /\ y \in ToSet(t) => InFront(s \o t, x, y)
<1> DEFINE u == s \o t
<1>1. /\ Len(u) = Len(s) + Len(t) /\ Len(s) \in Nat /\ Len(t) \in Nat
      /\ \A i \in 1..Len(s) : u[i] = s[i]
      /\ \A i \in 1..Len(t) : u[Len(s) + i] = t[i]
  OBVIOUS
<1> HIDE DEF u
<1>2. ASSUME InFront(s, x, y) PROVE InFront(u, x, y)
  <2>1. PICK p, r \in 1..Len(s) : p < r /\ s[p] = x /\ s[r] = y
    BY <1>2 DEF InFront
  <2>2. p \in 1..Len(u) /\ r \in 1..Len(u) /\ u[p] = x /\ u[r] = y
    BY <1>1, <2>1
  <2> QED BY <2>1, <2>2 DEF InFront
<1>3. ASSUME InFront(t, x, y) PROVE InFront(u, x, y)
  <2>1. PICK p, r \in 1..Len(t) : p < r /\ t[p] = x /\ t[r] = y
    BY <1>3 DEF InFront
  <2>2. /\ Len(s) + p \in 1..Len(u) /\ Len(s) + r \in 1..Len(u)
        /\ u[Len(s) + p] = x /\ u[Len(s) + r] = y /\ Len(s) + p < Len(s) + r
    BY SMTT(30), <1>1, <2>1
  <2> QED BY <2>2 DEF InFront
<1>4. ASSUME x \in ToSet(s), y \in ToSet(t) PROVE InFront(u, x, y)
  <2>1. PICK p \in 1..Len(s) : s[p] = x
    BY <1>4, ToSetPlace
  <2>2. PICK r \in 1..Len(t) : t[r] = y
    BY <1>4, ToSetPlace
  <2>3. /\ p \in 1..Len(u) /\ Len(s) + r \in 1..Len(u)
        /\ u[p] = x /\ u[Len(s) + r] = y /\ p < Len(s) + r
    BY <1>1, <2>1, <2>2
  <2> QED BY <2>3 DEF InFront
<1> QED BY <1>2, <1>3, <1>4 DEF u

LEMMA InFrontAppended ==
  ASSUME NEW S, NEW s \in Seq(S), NEW c \in S, NEW x, NEW y
  PROVE  /\ InFront(s, x, y) => InFront(Append(s, c), x, y)
         /\ x \in ToSet(s) => InFront(Append(s, c), x, c)
<1> DEFINE t == <<c>>
<1>1. t \in Seq(S) /\ c \in ToSet(t)
  BY DEF ToSet
<1>2. Append(s, c) = s \o t
  OBVIOUS
<1> HIDE DEF t
<1> QED BY <1>1, <1>2, InFrontJoined
-----------------------------------------------------------------------------
(***************************************************************************)
(* Queues.                                                                 *)
(***************************************************************************)
\* A decrease that meets no zero walks the whole way up to the document.
LEMMA WholeWalk ==
  ASSUME NEW Node, NEW path \in Seq(Node), NEW c \in [Node -> Nat],
         ~ DecreaseFails(c, path)
  PROVE  Walked(c, path) = ToSet(path)
<1>1. \A k \in DOMAIN path : path[k] \in Node /\ c[path[k]] > 0
  BY DEF DecreaseFails, ToSet
<1>2. \A i \in DOMAIN path : \A k \in 1..i : k \in DOMAIN path
  OBVIOUS
<1> QED
  BY <1>1, <1>2 DEF Walked, ToSet

\* The queues a decrease moves: one for every node of the walk, empty unless
\* the node is woken.
Pieces(count, tcb, path) ==
  [i \in 1..Len(path) |->
     IF path[i] \in Woken(count, path) THEN tcb[path[i]] ELSE <<>>]

\* What a decrease moves are these queues, one behind the other.
LEMMA MovedFlattens ==
  ASSUME NEW Node, NEW path \in Seq(Node), NEW count, NEW tcb
  PROVE  Moved(count, tcb, path) = FlattenSeq(Pieces(count, tcb, path))
<1>1. DOMAIN path = 1..Len(path)
  OBVIOUS
<1> QED BY <1>1 DEF Moved, Pieces

LEMMA PiecesLen ==
  ASSUME NEW Node, NEW path \in Seq(Node), NEW count, NEW tcb
  PROVE  Len(Pieces(count, tcb, path)) = Len(path)
BY DEF Pieces

LEMMA PiecesType ==
  ASSUME NEW C, NEW Node, NEW path \in Seq(Node), NEW count,
         NEW tcb \in [Node -> Seq(C)]
  PROVE  Pieces(count, tcb, path) \in Seq(Seq(C))
<1>1. Pieces(count, tcb, path) \in [1..Len(path) -> Seq(C)]
  <2>1. \A i \in 1..Len(path) : tcb[path[i]] \in Seq(C) /\ <<>> \in Seq(C)
    OBVIOUS
  <2> QED BY <2>1 DEF Pieces
<1>2. Len(path) \in Nat
  OBVIOUS
<1> QED BY <1>1, <1>2, SegmentIsSeq

\* What a decrease appends to the main queue are callbacks.
LEMMA MovedType ==
  ASSUME NEW C, NEW Node, NEW path \in Seq(Node),
         NEW count \in [Node -> Nat], NEW tcb \in [Node -> Seq(C)]
  PROVE  Moved(count, tcb, path) \in Seq(C)
BY MovedFlattens, PiecesType, FlattenType

\* A callback is moved from a node of the walk that is woken.
LEMMA MovedFrom ==
  ASSUME NEW C, NEW Node, NEW path \in Seq(Node),
         NEW count \in [Node -> Nat], NEW tcb \in [Node -> Seq(C)],
         NEW c \in ToSet(Moved(count, tcb, path))
  PROVE  \E i \in 1..Len(path) :
           path[i] \in Woken(count, path) /\ c \in ToSet(tcb[path[i]])
<1> DEFINE ss == Pieces(count, tcb, path)
<1>1. ss \in Seq(Seq(C)) /\ Len(ss) = Len(path)
  BY PiecesType, PiecesLen
<1>2. c \in ToSet(FlattenSeq(ss))
  BY MovedFlattens
<1>3. PICK i \in 1..Len(path) : c \in ToSet(ss[i])
  <2> HIDE DEF ss
  <2> QED BY <1>1, <1>2, FlattenElements
<1>4. ss[i] = IF path[i] \in Woken(count, path) THEN tcb[path[i]] ELSE <<>>
  BY DEF Pieces
<1>5. ToSet(<<>>) = {}
  BY DEF ToSet
<1> HIDE DEF ss
<1> QED BY <1>3, <1>4, <1>5

\* The whole queue of a node that is woken is in what is moved, in one piece.
LEMMA MovedWhole ==
  ASSUME NEW C, NEW Node, NEW path \in Seq(Node),
         NEW count \in [Node -> Nat], NEW tcb \in [Node -> Seq(C)],
         NEW i \in 1..Len(path), path[i] \in Woken(count, path)
  PROVE  \E a \in Nat : PieceAt(Moved(count, tcb, path), a, tcb[path[i]])
<1> DEFINE ss == Pieces(count, tcb, path)
           M == Moved(count, tcb, path)
<1>1. ss \in Seq(Seq(C)) /\ Len(ss) = Len(path)
  BY PiecesType, PiecesLen
<1>2. M = FlattenSeq(ss)
  BY MovedFlattens
<1>3. ss[i] = tcb[path[i]]
  BY DEF Pieces
<1> HIDE DEF ss, M
<1>4. PICK o : Laid(o, ss, M)
  BY <1>1, <1>2, FlattenOffsets
<1>5. i - 1 \in 0..Len(ss)
  BY <1>1
<1>6. o[i-1] \in Nat
  BY <1>4, <1>5 DEF Laid
<1>7. PieceAt(M, o[i-1], ss[i])
  BY <1>1, <1>4 DEF Laid, PieceAt
<1> QED BY <1>3, <1>6, <1>7 DEF M

\* What waits on a lower node is moved in front of what waits on a higher one.
LEMMA MovedOrder ==
  ASSUME NEW C, NEW Node, NEW path \in Seq(Node),
         NEW count \in [Node -> Nat], NEW tcb \in [Node -> Seq(C)],
         NEW i \in 1..Len(path), NEW k \in 1..Len(path), i < k,
         path[i] \in Woken(count, path), path[k] \in Woken(count, path),
         NEW c \in ToSet(tcb[path[i]]), NEW d \in ToSet(tcb[path[k]])
  PROVE  InFront(Moved(count, tcb, path), c, d)
<1> DEFINE ss == Pieces(count, tcb, path)
<1>1. ss \in Seq(Seq(C)) /\ Len(ss) = Len(path)
  BY PiecesType, PiecesLen
<1>2. Moved(count, tcb, path) = FlattenSeq(ss)
  BY MovedFlattens
<1>3. c \in ToSet(ss[i]) /\ d \in ToSet(ss[k])
  BY DEF Pieces
<1> HIDE DEF ss
<1>4. i \in 1..Len(ss) /\ k \in 1..Len(ss)
  BY <1>1
<1>5. InFront(FlattenSeq(ss), c, d)
  BY <1>1, <1>3, <1>4, FlattenOrder
<1> QED BY <1>2, <1>5

\* If the walk meets no node twice and the queues of the nodes have nothing in
\* common, nothing is moved twice.
LEMMA MovedInjective ==
  ASSUME NEW C, NEW Node, NEW path \in Seq(Node), IsInjective(path),
         NEW count \in [Node -> Nat], NEW tcb \in [Node -> Seq(C)],
         \A n \in Node : IsInjective(tcb[n]),
         \A m, n \in Node : m # n => ToSet(tcb[m]) \cap ToSet(tcb[n]) = {}
  PROVE  IsInjective(Moved(count, tcb, path))
<1> DEFINE ss == Pieces(count, tcb, path)
<1>1. ss \in Seq(Seq(C)) /\ Len(ss) = Len(path)
  BY PiecesType, PiecesLen
<1>2. Moved(count, tcb, path) = FlattenSeq(ss)
  BY MovedFlattens
<1>3. ASSUME NEW i \in 1..Len(path)
      PROVE  path[i] \in Node /\ ss[i] \in {tcb[path[i]], <<>>}
  BY DEF Pieces
<1> HIDE DEF ss
<1>4. IsInjective(<<>>) /\ ToSet(<<>>) = {}
  BY DEF IsInjective, ToSet
<1>5. ASSUME NEW i \in 1..Len(ss) PROVE IsInjective(ss[i])
  BY <1>1, <1>3, <1>4
<1>6. ASSUME NEW i \in 1..Len(ss), NEW k \in 1..Len(ss), i # k
      PROVE  ToSet(ss[i]) \cap ToSet(ss[k]) = {}
  <2>1. i \in DOMAIN path /\ k \in DOMAIN path
    BY <1>1
  <2>2. path[i] # path[k]
    BY <1>6, <2>1 DEF IsInjective
  <2>3. ToSet(tcb[path[i]]) \cap ToSet(tcb[path[k]]) = {}
    BY <1>1, <1>3, <2>2
  <2>4. ss[i] \in {tcb[path[i]], <<>>} /\ ss[k] \in {tcb[path[k]], <<>>}
    BY <1>1, <1>3
  <2>5. CASE ss[i] = <<>> \/ ss[k] = <<>>
    BY <1>4, <2>5
  <2>6. CASE ss[i] = tcb[path[i]] /\ ss[k] = tcb[path[k]]
    BY <2>3, <2>6
  <2> QED BY <2>4, <2>5, <2>6
<1> QED BY <1>1, <1>2, <1>5, <1>6, FlattenInjective
-----------------------------------------------------------------------------
\* A callback is in one queue at most, and there once: main is the main queue,
\* tcb are those of the nodes.
QueuesApart(main, tcb) ==
  /\ IsInjective(main)
  /\ \A n \in DOMAIN tcb : IsInjective(tcb[n])
  /\ \A n \in DOMAIN tcb : ToSet(main) \cap ToSet(tcb[n]) = {}
  /\ \A m, n \in DOMAIN tcb : m # n => ToSet(tcb[m]) \cap ToSet(tcb[n]) = {}

\* The callbacks that are queued somewhere.
InQueues(main, tcb) == ToSet(main) \cup UNION { ToSet(tcb[n]) : n \in DOMAIN tcb }

\* The callback that is run is queued no more.
LEMMA RunApart ==
  ASSUME NEW C, NEW Node, NEW tcb \in [Node -> Seq(C)], NEW main \in Seq(C),
         main # <<>>, QueuesApart(main, tcb)
  PROVE  /\ Tail(main) \in Seq(C)
         /\ QueuesApart(Tail(main), tcb)
         /\ InQueues(Tail(main), tcb) = InQueues(main, tcb) \ {Head(main)}
<1>1. /\ Tail(main) \in Seq(C) /\ IsInjective(Tail(main))
      /\ Head(main) \in ToSet(main)
      /\ ToSet(Tail(main)) = ToSet(main) \ {Head(main)}
  BY Popped DEF QueuesApart
<1>2. \A n \in DOMAIN tcb : Head(main) \notin ToSet(tcb[n])
  BY <1>1 DEF QueuesApart
<1> QED BY <1>1, <1>2 DEF QueuesApart, InQueues

\* A callback that is not queued may be scheduled.
LEMMA ScheduleApart ==
  ASSUME NEW C, NEW Node, NEW tcb \in [Node -> Seq(C)], NEW main \in Seq(C),
         NEW c \in C, c \notin InQueues(main, tcb), QueuesApart(main, tcb)
  PROVE  /\ Append(main, c) \in Seq(C)
         /\ QueuesApart(Append(main, c), tcb)
         /\ InQueues(Append(main, c), tcb) = InQueues(main, tcb) \cup {c}
<1>1. c \notin ToSet(main) /\ \A n \in DOMAIN tcb : c \notin ToSet(tcb[n])
  BY DEF InQueues
<1>2. /\ Append(main, c) \in Seq(C) /\ IsInjective(Append(main, c))
      /\ ToSet(Append(main, c)) = ToSet(main) \cup {c}
  BY <1>1, AppendsInjective DEF QueuesApart
<1> QED BY <1>1, <1>2 DEF QueuesApart, InQueues

\* And it may be left on a node.
LEMMA ParkApart ==
  ASSUME NEW C, NEW Node, NEW tcb \in [Node -> Seq(C)], NEW main \in Seq(C),
         NEW c \in C, NEW n \in Node,
         c \notin InQueues(main, tcb), QueuesApart(main, tcb)
  PROVE  /\ Parked(tcb, n, c) \in [Node -> Seq(C)]
         /\ QueuesApart(main, Parked(tcb, n, c))
         /\ InQueues(main, Parked(tcb, n, c)) = InQueues(main, tcb) \cup {c}
<1> DEFINE new == Parked(tcb, n, c)
<1>1. c \notin ToSet(main) /\ \A m \in Node : c \notin ToSet(tcb[m])
  BY DEF InQueues
<1>2. /\ \A m \in Node : tcb[m] \in Seq(C) /\ IsInjective(tcb[m])
      /\ DOMAIN tcb = Node
  BY DEF QueuesApart
<1>3. /\ new \in [Node -> Seq(C)] /\ DOMAIN new = Node
      /\ \A m \in Node : new[m] = IF m = n THEN Append(tcb[m], c) ELSE tcb[m]
  BY DEF Parked
<1> HIDE DEF new
<1>4. IsInjective(Append(tcb[n], c)) /\ ToSet(Append(tcb[n], c)) = ToSet(tcb[n]) \cup {c}
  BY <1>1, <1>2, AppendsInjective
<1>5. ASSUME NEW m \in Node
      PROVE  /\ IsInjective(new[m])
             /\ ToSet(new[m]) = IF m = n THEN ToSet(tcb[m]) \cup {c} ELSE ToSet(tcb[m])
  BY <1>2, <1>3, <1>4
<1>6. ASSUME NEW m \in Node PROVE ToSet(main) \cap ToSet(new[m]) = {}
  BY <1>1, <1>2, <1>5 DEF QueuesApart
<1>7. ASSUME NEW m \in Node, NEW k \in Node, m # k
      PROVE  ToSet(new[m]) \cap ToSet(new[k]) = {}
  <2>1. ToSet(tcb[m]) \cap ToSet(tcb[k]) = {}
    BY <1>2, <1>7 DEF QueuesApart
  <2>2. c \notin ToSet(tcb[m]) /\ c \notin ToSet(tcb[k])
    BY <1>1
  <2>3. CASE m = n
    BY <1>5, <1>7, <2>1, <2>2, <2>3
  <2>4. CASE m # n
    BY <1>5, <1>7, <2>1, <2>2, <2>4
  <2> QED BY <2>3, <2>4
<1>8. QueuesApart(main, new)
  BY <1>3, <1>5, <1>6, <1>7 DEF QueuesApart
<1>9. InQueues(main, new) = InQueues(main, tcb) \cup {c}
  <2>1. ASSUME NEW x \in InQueues(main, new) PROVE x \in InQueues(main, tcb) \cup {c}
    <3>1. CASE x \in ToSet(main)
      BY <3>1 DEF InQueues
    <3>2. ASSUME NEW m \in Node, x \in ToSet(new[m])
          PROVE  x \in InQueues(main, tcb) \cup {c}
      BY <1>2, <1>5, <3>2 DEF InQueues
    <3> QED BY <1>3, <2>1, <3>1, <3>2 DEF InQueues
  <2>2. ASSUME NEW x \in InQueues(main, tcb) PROVE x \in InQueues(main, new)
    <3>1. CASE x \in ToSet(main)
      BY <3>1 DEF InQueues
    <3>2. ASSUME NEW m \in Node, x \in ToSet(tcb[m])
          PROVE  x \in InQueues(main, new)
      <4>1. x \in ToSet(new[m])
        BY <1>5, <3>2
      <4> QED BY <1>3, <4>1 DEF InQueues
    <3> QED BY <1>2, <2>2, <3>1, <3>2 DEF InQueues
  <2>3. c \in InQueues(main, new)
    <3>1. c \in ToSet(new[n])
      BY <1>5
    <3> QED BY <1>3, <3>1 DEF InQueues
  <2> QED BY <2>1, <2>2, <2>3
<1> QED BY <1>3, <1>8, <1>9 DEF new

\* What one decrease moves is disjoint from what it leaves, and it moves it
\* behind what the main queue holds.  Nothing else is queued then.
LEMMA DecreaseApart ==
  ASSUME NEW C, NEW Node, NEW path \in Seq(Node), IsInjective(path),
         NEW count \in [Node -> Nat], NEW tcb \in [Node -> Seq(C)],
         NEW main \in Seq(C), QueuesApart(main, tcb)
  PROVE  /\ Decreased(count, path) \in [Node -> Nat]
         /\ Drained(count, tcb, path) \in [Node -> Seq(C)]
         /\ Joined(main, Moved(count, tcb, path)) \in Seq(C)
         /\ QueuesApart(Joined(main, Moved(count, tcb, path)), Drained(count, tcb, path))
         /\ InQueues(Joined(main, Moved(count, tcb, path)), Drained(count, tcb, path))
              \subseteq InQueues(main, tcb)
<1> DEFINE W == Woken(count, path)
           M == Moved(count, tcb, path)
           new == Drained(count, tcb, path)
<1>1. \A m \in Walked(count, path) : m \in Node /\ count[m] > 0
  <2> SUFFICES ASSUME NEW i \in DOMAIN path, \A k \in 1..i : count[path[k]] > 0
               PROVE  path[i] \in Node /\ count[path[i]] > 0
    BY DEF Walked
  <2>1. i \in 1..i
    OBVIOUS
  <2> QED BY <2>1
<1>2. Decreased(count, path) \in [Node -> Nat]
  BY <1>1 DEF Decreased
<1>3. /\ new \in [Node -> Seq(C)] /\ DOMAIN new = Node /\ DOMAIN tcb = Node
      /\ \A n \in Node : new[n] = IF n \in W THEN <<>> ELSE tcb[n]
  BY DEF Drained
<1>4. /\ IsInjective(main)
      /\ \A n \in Node : IsInjective(tcb[n])
      /\ \A n \in Node : ToSet(main) \cap ToSet(tcb[n]) = {}
      /\ \A m, n \in Node : m # n => ToSet(tcb[m]) \cap ToSet(tcb[n]) = {}
  BY <1>3 DEF QueuesApart
<1>5. M \in Seq(C) /\ IsInjective(M)
  BY <1>4, MovedType, MovedInjective
<1>6. ASSUME NEW c \in ToSet(M)
      PROVE  \E m \in Node : m \in W /\ c \in ToSet(tcb[m])
  <2>1. PICK i \in 1..Len(path) : path[i] \in W /\ c \in ToSet(tcb[path[i]])
    BY MovedFrom
  <2>2. path[i] \in Node
    OBVIOUS
  <2> QED BY <2>1, <2>2
<1> HIDE DEF W, M, new
<1>7. ToSet(main) \cap ToSet(M) = {}
  BY <1>4, <1>6
<1>8. /\ main \o M \in Seq(C) /\ IsInjective(main \o M)
      /\ ToSet(main \o M) = ToSet(main) \cup ToSet(M)
  BY <1>4, <1>5, <1>7, ConcatInjective
<1>9. IsInjective(<<>>) /\ ToSet(<<>>) = {}
  BY DEF IsInjective, ToSet
<1>10. \A n \in Node : IsInjective(new[n]) /\ ToSet(new[n]) \subseteq ToSet(tcb[n])
  BY <1>3, <1>4, <1>9
<1>11. ASSUME NEW n \in Node PROVE ToSet(main \o M) \cap ToSet(new[n]) = {}
  <2>1. CASE n \in W
    BY <1>3, <1>9, <2>1
  <2>2. CASE n \notin W
    <3>1. new[n] = tcb[n]
      BY <1>3, <2>2
    <3>2. ToSet(M) \cap ToSet(tcb[n]) = {}
      BY ZenonT(30), <1>4, <1>6, <2>2
    <3> QED BY <1>4, <1>8, <3>1, <3>2
  <2> QED BY <2>1, <2>2
<1>12. ASSUME NEW m \in Node, NEW n \in Node, m # n
       PROVE  ToSet(new[m]) \cap ToSet(new[n]) = {}
  BY <1>4, <1>10, <1>12
<1>13. QueuesApart(main \o M, new)
  BY <1>3, <1>8, <1>10, <1>11, <1>12 DEF QueuesApart
<1>14. InQueues(main \o M, new) \subseteq InQueues(main, tcb)
  <2>1. \A c \in ToSet(M) : c \in InQueues(main, tcb)
    BY <1>3, <1>6 DEF InQueues
  <2> QED BY <1>3, <1>8, <1>10, <2>1 DEF InQueues
<1> QED BY <1>2, <1>3, <1>8, <1>13, <1>14 DEF Joined, M, new

(***************************************************************************)
(* A decrease that meets no zero: every node of the walk has one reason    *)
(* less, and what waits on those that have none left joins the main queue, *)
(* behind what is there and the lower nodes first.  Nothing is lost.       *)
(***************************************************************************)

\* The callbacks that wait on the nodes a decrease brings to zero.
WokenCalls(count, tcb, path) ==
  UNION { ToSet(tcb[m]) : m \in { m \in ToSet(path) : count[m] = 1 } }

LEMMA WokenOnWalk ==
  ASSUME NEW Node, NEW path \in Seq(Node), NEW count \in [Node -> Nat],
         ~ DecreaseFails(count, path)
  PROVE  /\ Walked(count, path) = ToSet(path)
         /\ Woken(count, path) = { m \in ToSet(path) : count[m] = 1 }
         /\ \A m \in ToSet(path) : m \in Node
<1>1. \A m \in ToSet(path) : m \in Node
  BY DEF ToSet
<1>2. Walked(count, path) = ToSet(path)
  BY WholeWalk
<1> QED BY <1>1, <1>2 DEF Woken

LEMMA MovedCalls ==
  ASSUME NEW C, NEW Node, NEW path \in Seq(Node), NEW count \in [Node -> Nat],
         NEW tcb \in [Node -> Seq(C)],
         ~ DecreaseFails(count, path)
  PROVE  ToSet(Moved(count, tcb, path)) = WokenCalls(count, tcb, path)
<1> DEFINE M == Moved(count, tcb, path)
           W == { m \in ToSet(path) : count[m] = 1 }
<1>1. M \in Seq(C)
  BY MovedType
<1>2. Woken(count, path) = W /\ \A m \in ToSet(path) : m \in Node
  BY WokenOnWalk
<1>3. ASSUME NEW c \in ToSet(M) PROVE c \in WokenCalls(count, tcb, path)
  <2>1. PICK i \in 1..Len(path) : path[i] \in W /\ c \in ToSet(tcb[path[i]])
    BY <1>2, MovedFrom
  <2> QED BY <2>1 DEF WokenCalls
<1>4. ASSUME NEW m \in W, NEW c \in ToSet(tcb[m]) PROVE c \in ToSet(M)
  <2>1. PICK i \in 1..Len(path) : path[i] = m
    BY ToSetPlace
  <2>2. path[i] \in Woken(count, path)
    BY <1>2, <2>1
  <2>3. PICK a \in Nat : PieceAt(M, a, tcb[path[i]])
    BY <2>2, MovedWhole
  <2>4. tcb[m] \in Seq(C)
    BY <1>2
  <2>5. PICK r \in 1..Len(tcb[m]) : tcb[m][r] = c
    BY <2>4, ToSetPlace
  <2>6. a + r \in 1..Len(M) /\ M[a + r] = c
    BY <2>1, <2>3, <2>5 DEF PieceAt
  <2>7. DOMAIN M = 1..Len(M)
    BY <1>1
  <2> HIDE DEF M
  <2> QED BY <2>6, <2>7 DEF ToSet
<1> QED BY <1>3, <1>4 DEF WokenCalls

LEMMA JoinedCalls ==
  ASSUME NEW C, NEW Node, NEW path \in Seq(Node), NEW count \in [Node -> Nat],
         NEW tcb \in [Node -> Seq(C)], NEW main \in Seq(C),
         ~ DecreaseFails(count, path)
  PROVE  \A c : c \in ToSet(Joined(main, Moved(count, tcb, path))) <=>
                  c \in ToSet(main) \/ c \in WokenCalls(count, tcb, path)
<1> DEFINE M == Moved(count, tcb, path)
           q == main \o M
<1>1. M \in Seq(C) /\ Joined(main, M) = q
  BY MovedType DEF Joined
<1>2. ToSet(M) = WokenCalls(count, tcb, path)
  BY MovedCalls
<1> HIDE DEF M
<1>3. ToSet(main) \cup ToSet(M) \subseteq ToSet(q)
  BY <1>1, ConcatElements
<1>4. ASSUME NEW x \in ToSet(q) PROVE x \in ToSet(main) \cup ToSet(M)
  <2>1. q \in Seq(C)
    BY <1>1
  <2>2. PICK r \in 1..Len(q) : q[r] = x
    BY <2>1, ToSetPlace
  <2>3. \/ r \in 1..Len(main) /\ q[r] = main[r]
        \/ r - Len(main) \in 1..Len(M) /\ q[r] = M[r - Len(main)]
    BY <1>1, <2>2
  <2>4. DOMAIN main = 1..Len(main) /\ DOMAIN M = 1..Len(M)
    BY <1>1
  <2> QED BY <2>2, <2>3, <2>4 DEF ToSet
<1>5. ToSet(q) = ToSet(main) \cup ToSet(M)
  BY <1>3, <1>4
<1> QED BY <1>1, <1>2, <1>5 DEF M

LEMMA JoinedKeeps ==
  ASSUME NEW C, NEW Node, NEW path \in Seq(Node), NEW count \in [Node -> Nat],
         NEW tcb \in [Node -> Seq(C)], NEW main \in Seq(C),
         ~ DecreaseFails(count, path)
  PROVE  \A c : c \in InQueues(Joined(main, Moved(count, tcb, path)), Drained(count, tcb, path))
                  <=> c \in InQueues(main, tcb)
<1> DEFINE new == Drained(count, tcb, path)
           q == Joined(main, Moved(count, tcb, path))
           W == Woken(count, path)
<1>1. DOMAIN new = Node /\ DOMAIN tcb = Node
  BY DEF Drained
<1>2. \A n \in Node : new[n] = IF n \in W THEN <<>> ELSE tcb[n]
  BY DEF Drained
<1>3. ToSet(<<>>) = {}
  BY DEF ToSet
<1>4. ToSet(q) = ToSet(main) \cup UNION { ToSet(tcb[m]) : m \in W }
  <2>1. ToSet(q) = ToSet(main) \cup WokenCalls(count, tcb, path)
    BY JoinedCalls
  <2>2. W = { m \in ToSet(path) : count[m] = 1 }
    BY WokenOnWalk
  <2> QED BY <2>1, <2>2 DEF WokenCalls
<1>5. W \subseteq Node
  <2>1. W = { m \in ToSet(path) : count[m] = 1 } /\ \A m \in ToSet(path) : m \in Node
    BY WokenOnWalk
  <2> QED BY <2>1
<1> HIDE DEF W, new, q
<1>6. ASSUME NEW c \in InQueues(q, new) PROVE c \in InQueues(main, tcb)
  <2>1. CASE c \in ToSet(q)
    BY <1>1, <1>4, <1>5, <2>1 DEF InQueues
  <2>2. ASSUME NEW n \in Node, c \in ToSet(new[n]) PROVE c \in InQueues(main, tcb)
    BY <1>1, <1>2, <1>3, <2>2 DEF InQueues
  <2> QED BY <1>1, <1>6, <2>1, <2>2 DEF InQueues
<1>7. ASSUME NEW c \in InQueues(main, tcb) PROVE c \in InQueues(q, new)
  <2>1. CASE c \in ToSet(main)
    BY <1>4, <2>1 DEF InQueues
  <2>2. ASSUME NEW n \in Node, c \in ToSet(tcb[n]) PROVE c \in InQueues(q, new)
    <3>1. CASE n \in W
      BY <1>4, <2>2, <3>1 DEF InQueues
    <3>2. CASE n \notin W
      <4>1. c \in ToSet(new[n])
        BY <1>2, <2>2, <3>2
      <4> QED BY <1>1, <4>1 DEF InQueues
    <3> QED BY <3>1, <3>2
  <2> QED BY <1>1, <1>7, <2>1, <2>2 DEF InQueues
<1> QED BY <1>6, <1>7 DEF new, q

LEMMA JoinedOrder ==
  ASSUME NEW C, NEW Node, NEW path \in Seq(Node), NEW count \in [Node -> Nat],
         NEW tcb \in [Node -> Seq(C)], NEW main \in Seq(C),
         ~ DecreaseFails(count, path)
  PROVE  LET q == Joined(main, Moved(count, tcb, path))
         IN /\ \A x, y : InFront(main, x, y) => InFront(q, x, y)
            /\ \A x \in ToSet(main), y \in WokenCalls(count, tcb, path) : InFront(q, x, y)
            /\ \A i, k \in 1..Len(path) :
                 i < k /\ count[path[i]] = 1 /\ count[path[k]] = 1 =>
                   \A x \in ToSet(tcb[path[i]]), y \in ToSet(tcb[path[k]]) : InFront(q, x, y)
<1> DEFINE M == Moved(count, tcb, path)
<1>1. M \in Seq(C) /\ Joined(main, M) = main \o M
  BY MovedType DEF Joined
<1>2. ToSet(M) = WokenCalls(count, tcb, path)
  BY MovedCalls
<1>3. Woken(count, path) = { m \in ToSet(path) : count[m] = 1 }
  BY WokenOnWalk
<1>4. \A i \in 1..Len(path) : path[i] \in ToSet(path)
  BY DEF ToSet
<1>5. ASSUME NEW i \in 1..Len(path), NEW k \in 1..Len(path), i < k,
             count[path[i]] = 1, count[path[k]] = 1,
             NEW x \in ToSet(tcb[path[i]]), NEW y \in ToSet(tcb[path[k]])
      PROVE  InFront(M, x, y)
  <2>1. path[i] \in Woken(count, path) /\ path[k] \in Woken(count, path)
    BY <1>3, <1>4, <1>5
  <2> QED BY <1>5, <2>1, MovedOrder
<1> HIDE DEF M
<1>6. \A x, y : InFront(main, x, y) => InFront(main \o M, x, y)
  BY <1>1, InFrontJoined
<1>7. \A x \in ToSet(main), y \in ToSet(M) : InFront(main \o M, x, y)
  BY <1>1, InFrontJoined
<1>8. \A x, y : InFront(M, x, y) => InFront(main \o M, x, y)
  BY <1>1, InFrontJoined
<1> QED BY <1>1, <1>2, <1>5, <1>6, <1>7, <1>8 DEF M
=============================================================================
