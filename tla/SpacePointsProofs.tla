-------------------------- MODULE SpacePointsProofs ---------------------------
(***************************************************************************)
(* Proofs about SpacePoints, for every geometry, every limit and every     *)
(* event: types and limits (SpacePointTypes), no combination lost and no   *)
(* hit twice in a space point (CombinationsUsed), points fit for the       *)
(* tracking (PointsFit), the earliest hit kept (EarliestKept), all choices *)
(* of one hit per layer made (ChoicesAllMade).  The inductive invariant    *)
(* SpaceInv joins what is found to the chamber it is found in, and what a  *)
(* stage has done to what the next relies on.                              *)
(***************************************************************************)
EXTENDS SpacePoints, Recursion, SequenceTheorems

HitType == [layer : Layers, center : Int, time : Int]

\* s is hits of the chamber, no two of them in one layer.
OnePerLayer(chamber, s) ==
  /\ s \in Seq(DOMAIN chamber)
  /\ \A i, j \in DOMAIN s : chamber[s[i]].layer = chamber[s[j]].layer => i = j

LayersOf(chamber, s) == {chamber[i].layer : i \in ToSet(s)}

\* A point whose hits are chosen: every choice is in the layers of the hits.
Reduced(chamber, p) ==
  /\ OnePerLayer(chamber, p.hits)
  /\ \A n \in DOMAIN p.choices :
       /\ OnePerLayer(chamber, p.choices[n])
       /\ LayersOf(chamber, p.hits) \subseteq LayersOf(chamber, p.choices[n])

\* The stages with points of the chamber ich, and how many chambers are done.
Working == {"combos", "limit", "choose", "select", "copy"}
Done == IF stage = "done" THEN ich ELSE ich - 1

\* Test points, combinations and points are of the chamber's hits.
WorkInv ==
  /\ stage = "combos" =>
       /\ \A t \in DOMAIN tests : /\ tests[t].first \in DOMAIN Hits
                                  /\ tests[t].second \in DOMAIN Hits
                                  /\ tests[t].first # tests[t].second
       /\ combos \in Seq((DOMAIN tests) \X (DOMAIN tests))
  /\ stage \in Working => \A n \in DOMAIN points : points[n].hits \in Seq(DOMAIN Hits)

\* What the stages leave to each other and to the tracking.
FitInv ==
  /\ stage \in {"choose", "select", "copy"} => Len(points) <= MaxKept
  /\ stage \in {"select", "copy"} => \A n \in DOMAIN points : Reduced(Hits, points[n])
  /\ stage = "copy" => \A n \in DOMAIN points : Len(points[n].hits) >= MinHit
  /\ Len(total) <= MaxKept * Done
  /\ \A n \in DOMAIN total : /\ total[n].chamber \in DOMAIN event
                             /\ Reduced(event[total[n].chamber], total[n].point)
                             /\ Len(total[n].point.hits) >= MinHit

SpaceInv == event \in Events /\ TypeOK /\ WorkInv /\ FitInv /\ CombosUsed

-----------------------------------------------------------------------------
(* The operators.                                                          *)

\* A sequence of elements of W is one of W's.
LEMMA SeqOfElements ==
  ASSUME NEW V, NEW s \in Seq(V), NEW W, ToSet(s) \subseteq W
  PROVE  s \in Seq(W)
<1>1. Len(s) \in Nat /\ s \in [1 .. Len(s) -> V] /\ DOMAIN s = 1 .. Len(s)
  OBVIOUS
<1>2. \A i \in 1 .. Len(s) : s[i] \in W
  BY <1>1 DEF ToSet
<1>3. s \in [1 .. Len(s) -> W]
  BY <1>1, <1>2
<1>4. QED
  BY <1>1, <1>3

\* The elements of a sequence of V are in V.
LEMMA ElementsOf ==
  ASSUME NEW V, NEW s \in Seq(V)
  PROVE  ToSet(s) \subseteq V /\ \A i \in DOMAIN s : s[i] \in ToSet(s) /\ s[i] \in V
BY DEF ToSet

\* The numbers and the geometry are of their types.
LEMMA ConstantTypes ==
  /\ Criterion \in Nat /\ MinHit \in Nat /\ MinCombos \in Nat /\ MaxPairs \in Nat
  /\ MaxCombos \in Nat /\ MaxPoints \in Nat /\ MaxKept \in Nat /\ MaxChoices \in Nat
  /\ Unit \in Nat /\ Unit > 0 /\ MaxPoints > 0
  /\ Len(Directions) \in Nat /\ Layers = 1 .. Len(Directions) /\ XLayers \in Layers \X Layers
  /\ \A l \in Layers : Directions[l][1] \in Int /\ Directions[l][2] \in Int
BY SpacePointAssumption DEF Layers

\* The chamber's hits.
LEMMA HitsAre ==
  ASSUME event \in Events, ich \in DOMAIN event
  PROVE  /\ Hits \in Seq(HitType) /\ DOMAIN Hits = 1 .. Len(Hits) /\ Len(Hits) \in Nat
         /\ DOMAIN Hits \subseteq Nat
         /\ \A i \in DOMAIN Hits : /\ Hits[i].layer \in Layers
                                   /\ Hits[i].center \in Int
                                   /\ Hits[i].time \in Int
<1>1. event \in Seq(Seq(HitType))
  BY SpacePointAssumption DEF HitType
<1>2. Hits \in Seq(HitType)
  BY <1>1 DEF Hits
<1>3. DOMAIN Hits = 1 .. Len(Hits) /\ Len(Hits) \in Nat /\ \A i \in DOMAIN Hits : Hits[i] \in HitType
  BY <1>2
<1>4. QED
  BY <1>2, <1>3 DEF HitType

\* First takes at most n elements.
LEMMA FirstIs ==
  ASSUME NEW V, NEW s \in Seq(V), NEW n \in Nat
  PROVE  /\ First(n, s) \in Seq(V)
         /\ Len(First(n, s)) <= n
         /\ DOMAIN First(n, s) \subseteq DOMAIN s
<1>1. Len(s) \in Nat
  OBVIOUS
<1>2. Fewer(n, Len(s)) \in 0 .. Len(s) /\ Fewer(n, Len(s)) <= n
  BY <1>1 DEF Fewer
<1> HIDE DEF Fewer
<1>3. /\ SubSeq(s, 1, Fewer(n, Len(s))) \in Seq(V)
      /\ Len(SubSeq(s, 1, Fewer(n, Len(s)))) = Fewer(n, Len(s))
  <2> DEFINE m == Fewer(n, Len(s))
  <2>1. m \in 0 .. Len(s)
    BY <1>2
  <2> HIDE DEF m
  <2>2. /\ SubSeq(s, 1, m) \in Seq(V) /\ Len(SubSeq(s, 1, m)) = m
    BY <1>1, <2>1
  <2>3. QED
    BY <2>2 DEF m
<1>4. DOMAIN First(n, s) = 1 .. Fewer(n, Len(s)) /\ DOMAIN s = 1 .. Len(s)
  BY <1>3 DEF First
<1>5. QED
  BY <1>1, <1>2, <1>3, <1>4 DEF First

\* The pairs are of different numbers and in T.
LEMMA PairsAre ==
  ASSUME NEW n \in Nat, NEW T
  PROVE  PairsUpTo(n, T) \in Seq({p \in (1 .. n) \X (1 .. n) : p \in T /\ p[1] # p[2]})
<1> DEFINE U == {p \in (1 .. n) \X (1 .. n) : p[1] # p[2]}
           V == {p \in (1 .. n) \X (1 .. n) : p \in T /\ p[1] # p[2]}
           Row(i) == [j \in 1 .. n - i |-> <<i, i + j>>]
<1>1. ASSUME NEW i \in 1 .. n  PROVE Those(Row(i), T) \in Seq(V)
  <2>1. ASSUME NEW j \in 1 .. n - i  PROVE <<i, i + j>> \in U
    <3>1. i + j \in 1 .. n /\ i # i + j
      OBVIOUS
    <3>2. QED
      BY <3>1
  <2>2. n - i \in Nat /\ Row(i) \in [1 .. n - i -> U]
    BY <2>1
  <2>3. Row(i) \in Seq(U)
    BY <2>2
  <2> HIDE DEF Row, U
  <2>4. Those(Row(i), T) \in Seq(U) /\ ToSet(Those(Row(i), T)) = ToSet(Row(i)) \intersect T
    BY <2>3, ThoseProperties
  <2>5. ToSet(Those(Row(i), T)) \subseteq U
    BY <2>4, ElementsOf
  <2>6. ToSet(Those(Row(i), T)) \subseteq V
    BY <2>4, <2>5 DEF U
  <2> HIDE DEF V
  <2>7. QED
    BY <2>4, <2>6, SeqOfElements
<1> HIDE DEF V
<1>2. [i \in 1 .. n |-> Those(Row(i), T)] \in [1 .. n -> Seq(V)]
  BY <1>1
<1>3. [i \in 1 .. n |-> Those(Row(i), T)] \in Seq(Seq(V))
  BY <1>2, SMTT(30)
<1>4. PairsUpTo(n, T) = FlattenSeq([i \in 1 .. n |-> Those(Row(i), T)])
  BY DEF PairsUpTo
<1> HIDE DEF Row
<1>5. PairsUpTo(n, T) \in Seq(V)
  BY <1>3, <1>4, FlattenIs
<1>6. QED
  BY <1>5 DEF V

\* Distances are natural numbers.
LEMMA DistanceIs ==
  ASSUME NEW p, NEW q, p.x \in Int, p.y \in Int, q.x \in Int, q.y \in Int
  PROVE  Distance(p, q) \in Int
BY DEF Distance, Square

\* A test point is of the two hits.
LEMMA TestPointIs ==
  ASSUME event \in Events, ich \in DOMAIN event, NEW i \in DOMAIN Hits, NEW j \in DOMAIN Hits,
         Determinate(Hits[i], Hits[j]) # 0
  PROVE  TestPoint(i, j) \in TestPointType /\ TestPoint(i, j).first = i /\ TestPoint(i, j).second = j
<1> DEFINE a == Hits[i]
           b == Hits[j]
           det == Determinate(a, b)
           over(n) == IF det > 0 THEN n \div det ELSE (-n) \div (-det)
           x == a.center * Directions[b.layer][2] - b.center * Directions[a.layer][2]
           y == b.center * Directions[a.layer][1] - a.center * Directions[b.layer][1]
<1>1. a.layer \in Layers /\ b.layer \in Layers /\ a.center \in Int /\ b.center \in Int
  BY HitsAre
<1>2. i \in Nat /\ j \in Nat
  BY HitsAre
<1>3. /\ Directions[a.layer][1] \in Int /\ Directions[a.layer][2] \in Int
      /\ Directions[b.layer][1] \in Int /\ Directions[b.layer][2] \in Int
  BY <1>1, ConstantTypes
<1>4. det \in Int /\ det # 0 /\ x \in Int /\ y \in Int
  BY <1>1, <1>3 DEF Determinate
<1>5. TestPoint(i, j) = [first |-> i, second |-> j, x |-> over(x), y |-> over(y)]
  BY DEF TestPoint
<1> HIDE DEF det, x, y
<1>6. ASSUME NEW n \in Int  PROVE over(n) \in Int
  <2>1. CASE det > 0
    BY <1>4, <2>1
  <2>2. CASE ~(det > 0)
    <3>1. -det > 0 /\ -det \in Int /\ -n \in Int
      BY <1>4, <2>2
    <3>2. (-n) \div (-det) \in Int
      BY <3>1
    <3>3. QED
      BY <2>2, <3>2
  <2>3. QED
    BY <2>1, <2>2
<1> HIDE DEF over
<1>7. QED
  BY <1>2, <1>4, <1>5, <1>6 DEF TestPointType

\* There are no more test points than MaxPairs, each of two hits.
LEMMA TestPointsAre ==
  ASSUME event \in Events, ich \in DOMAIN event
  PROVE  /\ TestPoints \in Seq(TestPointType) /\ Len(TestPoints) <= MaxPairs
         /\ \A t \in DOMAIN TestPoints : /\ TestPoints[t].first \in DOMAIN Hits
                                         /\ TestPoints[t].second \in DOMAIN Hits
                                         /\ TestPoints[t].first # TestPoints[t].second
<1> DEFINE T == {p \in (DOMAIN Hits) \X (DOMAIN Hits) : Determinate(Hits[p[1]], Hits[p[2]]) # 0}
           crossing == PairsUpTo(Len(Hits), T)
           V == {p \in (1 .. Len(Hits)) \X (1 .. Len(Hits)) : p \in T /\ p[1] # p[2]}
           some == First(MaxPairs, crossing)
<1>1. Len(Hits) \in Nat /\ DOMAIN Hits = 1 .. Len(Hits)
  BY HitsAre
<1>2. crossing \in Seq(V)
  <2> HIDE DEF T
  <2>1. QED
    BY <1>1, PairsAre
<1>3. /\ some \in Seq(V) /\ Len(some) <= MaxPairs /\ DOMAIN some \subseteq DOMAIN crossing
  <2> HIDE DEF crossing, V
  <2>1. QED
    BY <1>2, ConstantTypes, FirstIs
<1>4. TestPoints = [n \in DOMAIN some |-> TestPoint(crossing[n][1], crossing[n][2])]
  BY DEF TestPoints
<1>5. \A n \in DOMAIN crossing : crossing[n] \in V
  <2> HIDE DEF crossing, V
  <2>1. QED
    BY <1>2
<1>6. ASSUME NEW n \in DOMAIN some
      PROVE  LET t == TestPoint(crossing[n][1], crossing[n][2])
             IN  t \in TestPointType /\ t.first \in DOMAIN Hits /\ t.second \in DOMAIN Hits
                 /\ t.first # t.second
  <2> DEFINE p == crossing[n]
  <2>1. p \in V
    BY <1>3, <1>5
  <2> HIDE DEF p
  <2>2. /\ p[1] \in DOMAIN Hits /\ p[2] \in DOMAIN Hits /\ p[1] # p[2]
        /\ Determinate(Hits[p[1]], Hits[p[2]]) # 0
    BY <1>1, <2>1
  <2>3. /\ TestPoint(p[1], p[2]) \in TestPointType
        /\ TestPoint(p[1], p[2]).first = p[1] /\ TestPoint(p[1], p[2]).second = p[2]
    BY <2>2, TestPointIs
  <2>4. QED
    BY <2>2, <2>3 DEF p
<1> HIDE DEF crossing, V
<1>7. Len(some) \in Nat /\ DOMAIN some = 1 .. Len(some)
  BY <1>3
<1> HIDE DEF some
<1>8. TestPoints \in [1 .. Len(some) -> TestPointType]
  BY <1>4, <1>6, <1>7
<1>9. TestPoints \in Seq(TestPointType) /\ Len(TestPoints) = Len(some)
  BY <1>7, <1>8
<1>10. QED
  BY <1>3, <1>4, <1>6, <1>9

\* There are no more combinations than MaxCombos, of the test points.
LEMMA CombosAre ==
  ASSUME NEW V, NEW s \in Seq(V)
  PROVE  Combos(s) \in Seq((DOMAIN s) \X (DOMAIN s)) /\ Len(Combos(s)) <= MaxCombos
<1> DEFINE T == {p \in (DOMAIN s) \X (DOMAIN s) : Distance(s[p[1]], s[p[2]]) <= Criterion}
           U == {p \in (1 .. Len(s)) \X (1 .. Len(s)) : p \in T /\ p[1] # p[2]}
           W == (DOMAIN s) \X (DOMAIN s)
<1>1. Len(s) \in Nat /\ DOMAIN s = 1 .. Len(s)
  OBVIOUS
<1>2. PairsUpTo(Len(s), T) \in Seq(U)
  <2> HIDE DEF T
  <2>1. QED
    BY <1>1, PairsAre
<1>3. U \subseteq W
  BY <1>1
<1>4. Combos(s) = First(MaxCombos, PairsUpTo(Len(s), T))
  BY DEF Combos
<1> HIDE DEF U, T, W
<1>5. PairsUpTo(Len(s), T) \in Seq(W)
  BY <1>2, <1>3, ElementsOf, SeqOfElements
<1>6. Combos(s) \in Seq(W) /\ Len(Combos(s)) <= MaxCombos
  BY <1>4, <1>5, ConstantTypes, FirstIs
<1>7. QED
  BY <1>6 DEF W

-----------------------------------------------------------------------------
(* Combinations and points.                                                *)

\* Add has the hit and all others, and has none twice that was not.
LEMMA AddIs ==
  ASSUME NEW V, NEW s \in Seq(V), NEW h \in V
  PROVE  /\ Add(s, h) \in Seq(V)
         /\ \A x : x \in ToSet(Add(s, h)) <=> x \in ToSet(s) \/ x = h
         /\ IsInjective(s) => IsInjective(Add(s, h))
<1>1. CASE h \in ToSet(s)
  BY <1>1 DEF Add
<1>2. CASE h \notin ToSet(s)
  <2> DEFINE t == Append(s, h)
             n == Len(s)
  <2>1. /\ n \in Nat /\ DOMAIN s = 1 .. n /\ t \in Seq(V) /\ DOMAIN t = 1 .. n + 1
        /\ t[n + 1] = h /\ \A i \in 1 .. n : t[i] = s[i]
    OBVIOUS
  <2>2. Add(s, h) = t
    BY <1>2 DEF Add
  <2> HIDE DEF t, n
  <2>3. \A i \in 1 .. n + 1 : i = n + 1 \/ i \in 1 .. n
    BY <2>1
  <2>4. ToSet(t) = ToSet(s) \union {h}
    <3>1. \A x \in ToSet(t) : x \in ToSet(s) \/ x = h
      BY <2>1, <2>3 DEF ToSet
    <3>2. \A x \in ToSet(s) : x \in ToSet(t)
      <4>1. \A i \in 1 .. n : i \in 1 .. n + 1
        BY <2>1
      <4>2. QED
        BY <2>1, <4>1 DEF ToSet
    <3>3. h \in ToSet(t)
      <4>1. n + 1 \in 1 .. n + 1
        BY <2>1
      <4>2. QED
        BY <2>1, <4>1 DEF ToSet
    <3>4. QED
      BY <3>1, <3>2, <3>3
  <2>5. ASSUME IsInjective(s)  PROVE IsInjective(t)
    <3>1. \A i \in 1 .. n : s[i] # h
      BY <1>2, <2>1 DEF ToSet
    <3>2. ASSUME NEW i \in 1 .. n + 1, NEW j \in 1 .. n + 1, t[i] = t[j]  PROVE i = j
      <4>1. i = n + 1 \/ i \in 1 .. n
        BY <2>3
      <4>2. j = n + 1 \/ j \in 1 .. n
        BY <2>3
      <4>3. QED
        BY <2>1, <2>5, <3>1, <3>2, <4>1, <4>2 DEF IsInjective
    <3>3. QED
      BY <2>1, <3>2 DEF IsInjective
  <2>6. QED
    BY <2>1, <2>2, <2>4, <2>5
<1>3. QED
  BY <1>1, <1>2

\* Two hits added.
LEMMA AddTwo ==
  ASSUME NEW V, NEW s \in Seq(V), IsInjective(s), NEW h \in V, NEW k \in V
  PROVE  /\ Add(Add(s, h), k) \in Seq(V)
         /\ \A x : x \in ToSet(Add(Add(s, h), k)) <=> x \in ToSet(s) \/ x = h \/ x = k
         /\ IsInjective(Add(Add(s, h), k))
<1>1. PICK t : /\ t = Add(s, h) /\ t \in Seq(V) /\ IsInjective(t)
               /\ \A x : x \in ToSet(t) <=> x \in ToSet(s) \/ x = h
  BY AddIs
<1>2. Add(t, k) \in Seq(V) /\ IsInjective(Add(t, k))
  BY <1>1, AddIs
<1>3. ASSUME NEW x  PROVE x \in ToSet(Add(t, k)) <=> x \in ToSet(t) \/ x = k
  <2>1. t \in Seq(V)
    BY <1>1
  <2> HIDE <1>1
  <2>2. QED
    BY <2>1, AddIs
<1>4. QED
  BY <1>1, <1>2, <1>3

\* A combination's place and hits.
ComboType(c) ==
  /\ c.x \in Int /\ c.y \in Int
  /\ \A n \in 1 .. 4 : c.hits[n] \in DOMAIN Hits
  /\ c.hits \in Seq(DOMAIN Hits) /\ Len(c.hits) = 4
  /\ c.hits[1] # c.hits[2]

\* A combination is of two test points, each of two hits.
LEMMA ComboIs ==
  ASSUME SpaceInv, stage = "combos", NEW k \in DOMAIN combos
  PROVE  ComboType(Combo(k))
<1> DEFINE p == tests[combos[k][1]]
           q == tests[combos[k][2]]
<1>1. combos[k][1] \in DOMAIN tests /\ combos[k][2] \in DOMAIN tests
  BY DEF SpaceInv, WorkInv
<1>2. p \in TestPointType /\ q \in TestPointType
  BY <1>1 DEF SpaceInv, TypeOK
<1>3. /\ p.first \in DOMAIN Hits /\ p.second \in DOMAIN Hits /\ p.first # p.second
      /\ q.first \in DOMAIN Hits /\ q.second \in DOMAIN Hits
  BY <1>1 DEF SpaceInv, WorkInv
<1>4. Combo(k) = [x |-> p.x + q.x, y |-> p.y + q.y,
                  hits |-> <<p.first, p.second, q.first, q.second>>]
  BY DEF Combo
<1> HIDE DEF p, q
<1>5. p.x + q.x \in Int /\ p.y + q.y \in Int
  BY <1>2 DEF TestPointType
<1> DEFINE h == <<p.first, p.second, q.first, q.second>>
<1>6. /\ h \in Seq(DOMAIN Hits) /\ Len(h) = 4
      /\ h[1] = p.first /\ h[2] = p.second /\ h[3] = q.first /\ h[4] = q.second
  BY <1>3
<1> HIDE DEF h
<1>7. \A n \in 1 .. 4 : h[n] \in DOMAIN Hits
  <2>1. \A n \in 1 .. 4 : n = 1 \/ n = 2 \/ n = 3 \/ n = 4
    OBVIOUS
  <2>2. QED
    BY <1>3, <1>6, <2>1
<1>8. QED
  BY <1>3, <1>4, <1>5, <1>6, <1>7 DEF ComboType, h

\* The four hits of a combination.
LEMMA ComboHits ==
  ASSUME NEW c, ComboType(c)
  PROVE  ToSet(c.hits) = {c.hits[1], c.hits[2], c.hits[3], c.hits[4]}
<1>1. DOMAIN c.hits = 1 .. 4
  BY DEF ComboType
<1>2. \A n : n \in 1 .. 4 <=> n = 1 \/ n = 2 \/ n = 3 \/ n = 4
  OBVIOUS
<1>3. QED
  BY <1>1, <1>2 DEF ToSet

\* A new point has the combination's hits, each once.
LEMMA NewPointIs ==
  ASSUME event \in Events, ich \in DOMAIN event, NEW c, ComboType(c)
  PROVE  LET p == NewPoint(c)
         IN  /\ p \in PointType /\ p.hits \in Seq(DOMAIN Hits) /\ IsInjective(p.hits)
             /\ ToSet(c.hits) \subseteq ToSet(p.hits)
<1> DEFINE V == DOMAIN Hits
           two == SubSeq(c.hits, 1, 2)
           h3 == c.hits[3]
           h4 == c.hits[4]
           four == Add(Add(two, h3), h4)
<1>1. V \subseteq Nat
  BY HitsAre
<1>2. two \in Seq(V) /\ Len(two) = 2 /\ two[1] = c.hits[1] /\ two[2] = c.hits[2]
  BY DEF ComboType
<1>3. c.hits[1] # c.hits[2] /\ h3 \in V /\ h4 \in V /\ c.x \in Int /\ c.y \in Int
  BY DEF ComboType
<1>4. NewPoint(c) = [x |-> c.x, y |-> c.y, combos |-> 1, hits |-> four, choices |-> <<>>]
  BY DEF NewPoint
<1> HIDE DEF V, two
<1>5. DOMAIN two = 1 .. 2 /\ \A i \in 1 .. 2 : i = 1 \/ i = 2
  BY <1>2
<1>6. IsInjective(two)
  BY <1>2, <1>3, <1>5 DEF IsInjective
<1>7. ToSet(two) = {c.hits[1], c.hits[2]}
  <2>1. 1 \in 1 .. 2 /\ 2 \in 1 .. 2
    OBVIOUS
  <2>2. QED
    BY <1>2, <1>5, <2>1 DEF ToSet
<1>8. ToSet(c.hits) = {c.hits[1], c.hits[2], h3, h4}
  BY ComboHits
<1> HIDE DEF h3, h4
<1>9. /\ four \in Seq(V) /\ IsInjective(four)
      /\ \A x : x \in ToSet(four) <=> x \in ToSet(two) \/ x = h3 \/ x = h4
  BY <1>2, <1>3, <1>6, AddTwo
<1> HIDE DEF four
<1>10. four \in Seq(Nat)
  BY <1>1, <1>9, SeqMonotonic
<1>11. NewPoint(c) \in PointType
  <2>1. <<>> \in Seq(Seq(Nat))
    OBVIOUS
  <2>2. QED
    BY <1>3, <1>4, <1>10, <2>1 DEF PointType
<1>12. NewPoint(c).hits = four /\ ToSet(c.hits) \subseteq ToSet(four)
  BY <1>4, <1>7, <1>8, <1>9
<1>13. QED
  BY <1>9, <1>11, <1>12 DEF V

\* A point that is joined has its own hits and the combination's, each once,
\* and stays where it is.
LEMMA JoinedIs ==
  ASSUME event \in Events, ich \in DOMAIN event, NEW c, ComboType(c),
         NEW p \in PointType, p.hits \in Seq(DOMAIN Hits), IsInjective(p.hits)
  PROVE  LET q == Joined(p, c)
         IN  /\ q \in PointType /\ q.hits \in Seq(DOMAIN Hits) /\ IsInjective(q.hits)
             /\ ToSet(p.hits) \subseteq ToSet(q.hits) /\ ToSet(c.hits) \subseteq ToSet(q.hits)
             /\ q.x = p.x /\ q.y = p.y
<1> DEFINE V == DOMAIN Hits
           h1 == c.hits[1]
           h2 == c.hits[2]
           h3 == c.hits[3]
           h4 == c.hits[4]
           s == p.hits
           two == Add(Add(s, h1), h2)
           four == Add(Add(two, h3), h4)
           counted == [p EXCEPT !.combos = @ + 1]
           q == [counted EXCEPT !.hits = four]
<1>1. V \subseteq Nat /\ s \in Seq(V) /\ IsInjective(s)
  BY HitsAre
<1>2. h1 \in V /\ h2 \in V /\ h3 \in V /\ h4 \in V /\ ToSet(c.hits) = {h1, h2, h3, h4}
  <2>1. 1 \in 1 .. 4 /\ 2 \in 1 .. 4 /\ 3 \in 1 .. 4 /\ 4 \in 1 .. 4
    OBVIOUS
  <2>2. QED
    BY <2>1, ComboHits, Zenon DEF ComboType
<1>3. Joined(p, c) = q
  BY DEF Joined
<1> HIDE DEF V, h1, h2, h3, h4, s
<1>4. /\ two \in Seq(V) /\ IsInjective(two)
      /\ \A x : x \in ToSet(two) <=> x \in ToSet(s) \/ x = h1 \/ x = h2
  BY <1>1, <1>2, AddTwo
<1> HIDE DEF two
<1>5. /\ four \in Seq(V) /\ IsInjective(four)
      /\ \A x : x \in ToSet(four) <=> x \in ToSet(two) \/ x = h3 \/ x = h4
  BY <1>2, <1>4, AddTwo
<1> HIDE DEF four
<1>6. four \in Seq(Nat)
  BY <1>1, <1>5, SeqMonotonic
<1>7. q \in PointType /\ q.hits = four /\ q.x = p.x /\ q.y = p.y
  <2>1. counted \in PointType /\ counted.x = p.x /\ counted.y = p.y
    <3> DEFINE A == Seq(Nat)
               B == Seq(Seq(Nat))
    <3>1. PointType = [x : Int, y : Int, combos : Nat, hits : A, choices : B]
      BY DEF PointType
    <3> HIDE DEF A, B
    <3>2. QED
      BY <3>1
  <2> HIDE DEF counted
  <2>2. QED
    BY <1>6, <2>1 DEF PointType
<1> HIDE DEF q
<1>8. ToSet(s) \subseteq ToSet(four) /\ ToSet(c.hits) \subseteq ToSet(four)
  BY <1>2, <1>4, <1>5
<1>9. QED
  BY <1>3, <1>5, <1>7, <1>8 DEF V, s

-----------------------------------------------------------------------------
(* Combinations are taken.                                                 *)

\* What CombosUsed says of one combination.
Used(c, ps) ==
  \/ \E n \in DOMAIN ps : ToSet(c.hits) \subseteq ToSet(ps[n].hits)
  \/ \E n \in DOMAIN ps : Distance(ps[n], c) \in 4 * Criterion .. 12 * Criterion - 1
  \/ Len(ps) = MaxPoints

\* Points of the chamber, within the list's length.
PointsOf(ps) ==
  /\ ps \in Seq(PointType) /\ Len(ps) <= MaxPoints
  /\ \A n \in DOMAIN ps : ps[n].hits \in Seq(DOMAIN Hits) /\ IsInjective(ps[n].hits)

\* qs has the points ps, at their places, with their hits and perhaps others.
Grown(ps, qs) ==
  /\ Len(ps) <= Len(qs)
  /\ \A n \in DOMAIN ps : /\ qs[n].x = ps[n].x /\ qs[n].y = ps[n].y
                          /\ ToSet(ps[n].hits) \subseteq ToSet(qs[n].hits)

\* What is used stays so while points grow.
LEMMA UsedKept ==
  ASSUME NEW c, NEW ps, NEW qs, PointsOf(ps), PointsOf(qs), Grown(ps, qs), Used(c, ps)
  PROVE  Used(c, qs)
<1>1. Len(ps) \in Nat /\ Len(qs) \in Nat /\ DOMAIN ps = 1 .. Len(ps) /\ DOMAIN qs = 1 .. Len(qs)
  BY DEF PointsOf
<1>2. \A n \in DOMAIN ps : n \in DOMAIN qs
  BY <1>1 DEF Grown
<1>3. CASE \E n \in DOMAIN ps : ToSet(c.hits) \subseteq ToSet(ps[n].hits)
  <2>1. PICK n \in DOMAIN ps : ToSet(c.hits) \subseteq ToSet(ps[n].hits)
    BY <1>3
  <2>2. ToSet(c.hits) \subseteq ToSet(qs[n].hits)
    BY <2>1 DEF Grown
  <2>3. QED
    BY <1>2, <2>2 DEF Used
<1>4. CASE \E n \in DOMAIN ps : Distance(ps[n], c) \in 4 * Criterion .. 12 * Criterion - 1
  <2>1. PICK n \in DOMAIN ps : Distance(ps[n], c) \in 4 * Criterion .. 12 * Criterion - 1
    BY <1>4
  <2>2. Distance(qs[n], c) = Distance(ps[n], c)
    BY DEF Grown, Distance
  <2>3. QED
    BY <1>2, <2>1, <2>2 DEF Used
<1>5. CASE Len(ps) = MaxPoints
  <2>1. Len(ps) <= Len(qs) /\ Len(qs) <= MaxPoints
    BY DEF Grown, PointsOf
  <2>2. Len(qs) = MaxPoints
    BY <1>1, <1>5, <2>1
  <2>3. QED
    BY <2>2 DEF Used
<1>6. QED
  BY <1>3, <1>4, <1>5 DEF Used

\* The points of the invariant.
LEMMA PointsAre ==
  ASSUME SpaceInv, stage \in Working
  PROVE  PointsOf(points)
BY DEF SpaceInv, TypeOK, WorkInv, CombosUsed, HitsDistinct, PointsOf

\* A combination that is near a point joins it.
LEMMA JoinsPoint ==
  ASSUME SpaceInv, stage = "combos", NEW c, ComboType(c), NEW i \in DOMAIN points
  PROVE  LET qs == [points EXCEPT ![i] = Joined(points[i], c)]
         IN  PointsOf(qs) /\ Grown(points, qs) /\ Used(c, qs)
<1> DEFINE p == Joined(points[i], c)
           qs == [points EXCEPT ![i] = p]
<1>1. event \in Events /\ ich \in DOMAIN event
  BY DEF SpaceInv, TypeOK
<1>2. PointsOf(points)
  BY PointsAre DEF Working
<1>3. points[i] \in PointType /\ points[i].hits \in Seq(DOMAIN Hits) /\ IsInjective(points[i].hits)
  BY <1>2 DEF PointsOf
<1>4. /\ p \in PointType /\ p.hits \in Seq(DOMAIN Hits) /\ IsInjective(p.hits)
      /\ ToSet(points[i].hits) \subseteq ToSet(p.hits) /\ ToSet(c.hits) \subseteq ToSet(p.hits)
      /\ p.x = points[i].x /\ p.y = points[i].y
  BY <1>1, <1>3, JoinedIs
<1> HIDE DEF p
<1>5. /\ qs \in Seq(PointType) /\ Len(qs) = Len(points) /\ DOMAIN qs = DOMAIN points
      /\ qs[i] = p /\ \A n \in DOMAIN points : n # i => qs[n] = points[n]
  BY <1>2, <1>4 DEF PointsOf
<1>6. Len(points) \in Nat
  BY <1>2 DEF PointsOf
<1> HIDE DEF qs
<1>7. PointsOf(qs)
  BY <1>2, <1>4, <1>5 DEF PointsOf
<1>8. Grown(points, qs)
  BY <1>4, <1>5, <1>6 DEF Grown
<1>9. Used(c, qs)
  BY <1>4, <1>5 DEF Used
<1>10. QED
  BY <1>7, <1>8, <1>9 DEF qs, p

\* A combination far from all points makes one.
LEMMA MakesPoint ==
  ASSUME SpaceInv, stage = "combos", NEW c, ComboType(c), HasRoom
  PROVE  LET qs == Append(points, NewPoint(c))
         IN  PointsOf(qs) /\ Grown(points, qs) /\ Used(c, qs)
<1> DEFINE p == NewPoint(c)
           qs == Append(points, p)
           m == Len(points)
<1>1. event \in Events /\ ich \in DOMAIN event
  BY DEF SpaceInv, TypeOK
<1>2. PointsOf(points)
  BY PointsAre DEF Working
<1>3. /\ p \in PointType /\ p.hits \in Seq(DOMAIN Hits) /\ IsInjective(p.hits)
      /\ ToSet(c.hits) \subseteq ToSet(p.hits)
  BY <1>1, NewPointIs
<1> HIDE DEF p
<1>4. m \in Nat /\ DOMAIN points = 1 .. m
  BY <1>2 DEF PointsOf
<1>5. /\ qs \in Seq(PointType) /\ Len(qs) = m + 1 /\ DOMAIN qs = 1 .. m + 1
      /\ qs[m + 1] = p /\ \A n \in 1 .. m : qs[n] = points[n]
  BY <1>2, <1>3 DEF PointsOf
<1>6. m < MaxPoints
  BY DEF HasRoom
<1> HIDE DEF qs, m
<1>7. \A n \in 1 .. m + 1 : n = m + 1 \/ n \in 1 .. m
  BY <1>4
<1>8. PointsOf(qs)
  <2>1. Len(qs) <= MaxPoints
    BY <1>4, <1>5, <1>6, ConstantTypes
  <2>2. QED
    BY <1>2, <1>3, <1>4, <1>5, <1>7, <2>1 DEF PointsOf
<1>9. Grown(points, qs)
  BY <1>4, <1>5 DEF Grown, m
<1>10. Used(c, qs)
  <2>1. m + 1 \in DOMAIN qs
    BY <1>4, <1>5
  <2>2. QED
    BY <1>3, <1>5, <2>1 DEF Used
<1>11. QED
  BY <1>8, <1>9, <1>10 DEF qs, p

\* A combination that does neither is in the ring of a point, or there is no
\* room.
LEMMA PassedBy ==
  ASSUME SpaceInv, stage = "combos", NEW c, ComboType(c), Near(c) = {}, ~ (HasRoom /\ Far(c))
  PROVE  Used(c, points)
<1>1. PointsOf(points)
  BY PointsAre DEF Working
<1>2. CASE ~HasRoom
  <2>1. Len(points) \in Nat /\ Len(points) <= MaxPoints
    BY <1>1 DEF PointsOf
  <2>2. Len(points) = MaxPoints
    BY <1>2, <2>1, ConstantTypes DEF HasRoom
  <2>3. QED
    BY <2>2 DEF Used
<1>3. CASE ~Far(c)
  <2>1. PICK i \in DOMAIN points : ~ (Distance(points[i], c) >= 12 * Criterion)
    BY <1>3 DEF Far
  <2>2. points[i].x \in Int /\ points[i].y \in Int /\ c.x \in Int /\ c.y \in Int
    <3>1. points[i] \in PointType
      BY <1>1 DEF PointsOf
    <3>2. QED
      BY <3>1 DEF PointType, ComboType
  <2>3. Distance(points[i], c) \in Int
    BY <2>2, DistanceIs
  <2>4. ~ (Distance(points[i], c) < 4 * Criterion)
    BY DEF Near
  <2>5. Distance(points[i], c) \in 4 * Criterion .. 12 * Criterion - 1
    <3> DEFINE d == Distance(points[i], c)
    <3> HIDE DEF d
    <3>1. d \in 4 * Criterion .. 12 * Criterion - 1
      BY <2>1, <2>3, <2>4, ConstantTypes DEF d
    <3>2. QED
      BY <3>1 DEF d
  <2>6. QED
    BY <2>5 DEF Used
<1>4. QED
  BY <1>2, <1>3

\* A combination is taken.
LEMMA ComboTaken ==
  ASSUME SpaceInv, TakeCombo
  PROVE  PointsOf(points') /\ Grown(points, points') /\ Used(Combo(icombo), points')
<1> DEFINE c == Combo(icombo)
<1>1. stage = "combos" /\ icombo \in DOMAIN combos
  <2>1. icombo \in 1 .. Len(combos) + 1 /\ icombo <= Len(combos) /\ combos \in Seq(Nat \X Nat)
    BY DEF SpaceInv, TypeOK, TakeCombo
  <2>2. QED
    BY <2>1 DEF TakeCombo
<1>2. ComboType(c)
  BY <1>1, ComboIs
<1>3. PointsOf(points)
  BY <1>1, PointsAre DEF Working
<1>4. points' = CASE Near(c) # {} ->
                       LET i == CHOOSE i \in Near(c) : \A j \in Near(c) : i <= j
                       IN  [points EXCEPT ![i] = Joined(points[i], c)]
                  [] Near(c) = {} /\ HasRoom /\ Far(c) -> Append(points, NewPoint(c))
                  [] OTHER -> points
  BY DEF TakeCombo
<1> HIDE DEF c
<1>5. CASE Near(c) # {}
  <2> DEFINE i == CHOOSE i \in Near(c) : \A j \in Near(c) : i <= j
  <2>1. Near(c) \in SUBSET Nat /\ Near(c) \subseteq DOMAIN points
    BY <1>3 DEF Near, PointsOf
  <2>2. \E n \in Near(c) : \A j \in Near(c) : n <= j
    BY <1>5, <2>1, LeastElement
  <2>3. i \in DOMAIN points
    BY <2>1, <2>2
  <2>4. points' = [points EXCEPT ![i] = Joined(points[i], c)]
    BY <1>4, <1>5
  <2> HIDE DEF i
  <2>5. QED
    BY <1>1, <1>2, <2>3, <2>4, JoinsPoint DEF c
<1>6. CASE Near(c) = {} /\ HasRoom /\ Far(c)
  <2>1. points' = Append(points, NewPoint(c))
    BY <1>4, <1>6
  <2>2. QED
    BY <1>1, <1>2, <1>6, <2>1, MakesPoint DEF c
<1>7. CASE Near(c) = {} /\ ~ (HasRoom /\ Far(c))
  <2>1. points' = points
    BY <1>4, <1>7
  <2>2. Used(c, points)
    BY <1>1, <1>2, <1>7, PassedBy
  <2>3. Grown(points, points)
    BY <1>3 DEF Grown, PointsOf
  <2>4. QED
    BY <1>3, <2>1, <2>2, <2>3 DEF c
<1>8. QED
  BY <1>5, <1>6, <1>7

-----------------------------------------------------------------------------
(* The short cut's point.                                                  *)

\* It has every hit of the chamber, once.
LEMMA EasyPointIs ==
  ASSUME event \in Events, ich \in DOMAIN event, MayBeEasy
  PROVE  /\ EasyPoint \in PointType /\ EasyPoint.hits \in Seq(DOMAIN Hits)
         /\ IsInjective(EasyPoint.hits)
<1> DEFINE V == DOMAIN Hits
           all == [i \in V |-> i]
           N == Len(Hits)
<1>1. V = 1 .. N /\ N \in Nat /\ V \subseteq Nat
  BY HitsAre
<1>2. ASSUME NEW n \in {1, 2}  PROVE XHit(n) \in V
  <2>1. Cardinality(InLayer(XLayers[n])) = 1
    BY DEF MayBeEasy
  <2>2. InLayer(XLayers[n]) # {}
    BY <2>1, FS_EmptySet
  <2>3. XHit(n) \in InLayer(XLayers[n])
    BY <2>2 DEF XHit
  <2>4. QED
    BY <2>3 DEF InLayer
<1>3. EasyX \in Int
  BY <1>2, HitsAre DEF EasyX
<1>4. all \in Seq(V) /\ IsInjective(all)
  <2>1. all \in [1 .. N -> V]
    BY <1>1
  <2>2. QED
    BY <1>1, <2>1 DEF IsInjective
<1>5. OthersY \in Seq(Int)
  <2> DEFINE others == Those(all, V \ {XHit(1), XHit(2)})
             Y(i) == (2 * Hits[i].center - EasyX * Directions[Hits[i].layer][1])
                       * Directions[Hits[i].layer][2]
  <2>1. others \in Seq(V)
    <3> HIDE DEF all, V
    <3>1. QED
      BY <1>4, ThoseProperties
  <2>2. ASSUME NEW i \in V  PROVE Y(i) \in Int
    <3>1. Hits[i].center \in Int /\ Hits[i].layer \in Layers
      BY HitsAre
    <3>2. Directions[Hits[i].layer][1] \in Int /\ Directions[Hits[i].layer][2] \in Int
      BY <3>1, ConstantTypes
    <3>3. EasyX * Directions[Hits[i].layer][1] \in Int
      BY <1>3, <3>2
    <3>4. 2 * Hits[i].center - EasyX * Directions[Hits[i].layer][1] \in Int
      BY <3>1, <3>3
    <3>5. QED
      BY <3>2, <3>4
  <2>3. OthersY = [n \in DOMAIN others |-> Y(others[n])]
    BY DEF OthersY
  <2> HIDE DEF others, Y, V
  <2>4. Len(others) \in Nat /\ DOMAIN others = 1 .. Len(others) /\ \A n \in DOMAIN others : others[n] \in V
    BY <2>1
  <2>5. OthersY \in [1 .. Len(others) -> Int]
    BY <2>2, <2>3, <2>4
  <2>6. QED
    BY <2>4, <2>5
<1>6. Total(OthersY) \div (IF OthersY = <<>> THEN 1 ELSE Len(OthersY)) \in Int
  <2> DEFINE d == IF OthersY = <<>> THEN 1 ELSE Len(OthersY)
  <2>1. d \in Nat /\ d > 0
    BY <1>5
  <2>2. Total(OthersY) \in Int
    BY <1>5, TotalIs
  <2> HIDE DEF d
  <2>3. Total(OthersY) \div d \in Int
    BY <2>1, <2>2
  <2>4. QED
    BY <2>3 DEF d
<1>7. all \in Seq(Nat)
  BY <1>1, <1>4, SeqMonotonic
<1>8. EasyPoint = [x |-> EasyX,
                   y |-> Total(OthersY) \div (IF OthersY = <<>> THEN 1 ELSE Len(OthersY)),
                   combos |-> 0, hits |-> all, choices |-> <<>>]
  BY DEF EasyPoint
<1> HIDE DEF all, V
<1>9. EasyPoint \in PointType
  <2>1. <<>> \in Seq(Seq(Nat)) /\ 0 \in Nat
    OBVIOUS
  <2>2. QED
    BY <1>3, <1>6, <1>7, <1>8, <2>1 DEF PointType
<1>10. QED
  BY <1>4, <1>8, <1>9 DEF V

-----------------------------------------------------------------------------
(* One hit per layer.                                                      *)

\* Two hits of a layer are several.
LEMMA SeveralInLayer ==
  ASSUME NEW hits \in Seq(DOMAIN Hits), NEW i \in ToSet(hits), NEW j \in ToSet(hits), i # j,
         Hits[i].layer = Hits[j].layer
  PROVE  Len(InLayerOf(hits, Hits[i].layer)) > 1
<1> DEFINE l == Hits[i].layer
           t == InLayerOf(hits, l)
<1>1. i \in InLayer(l) /\ j \in InLayer(l)
  BY ElementsOf DEF InLayer
<1>2. t \in Seq(DOMAIN Hits) /\ ToSet(t) = ToSet(hits) \intersect InLayer(l)
  BY ThoseProperties DEF InLayerOf
<1>3. i \in ToSet(t) /\ j \in ToSet(t)
  BY <1>1, <1>2
<1> HIDE DEF t, l
<1>4. Len(t) \in Nat /\ DOMAIN t = 1 .. Len(t)
  BY <1>2
<1>5. PICK a \in 1 .. Len(t), b \in 1 .. Len(t) : t[a] = i /\ t[b] = j
  BY <1>3, <1>4 DEF ToSet
<1>6. a # b
  BY <1>5
<1>7. QED
  BY <1>4, <1>6 DEF t, l

\* Two hits of a layer are not both kept.
LEMMA OneKept ==
  ASSUME NEW hits \in Seq(DOMAIN Hits), NEW i \in ToSet(hits), NEW j \in ToSet(hits),
         Hits[i].layer = Hits[j].layer, Kept(hits, i), Kept(hits, j)
  PROVE  i = j
<1>1. SUFFICES ASSUME i # j  PROVE FALSE
  OBVIOUS
<1>2. Len(InLayerOf(hits, Hits[i].layer)) > 1
  BY <1>1, SeveralInLayer
<1>3. QED
  BY <1>1, <1>2 DEF Kept

\* The hits kept are one per layer.
LEMMA KeptReduced ==
  ASSUME NEW hits \in Seq(DOMAIN Hits), IsInjective(hits)
  PROVE  LET first == Those(hits, {i \in DOMAIN Hits : Kept(hits, i)})
         IN  /\ OnePerLayer(Hits, first) /\ IsInjective(first)
             /\ \A i \in ToSet(first) : i \in ToSet(hits) /\ Kept(hits, i)
<1> DEFINE K == {i \in DOMAIN Hits : Kept(hits, i)}
           first == Those(hits, K)
<1>1. first \in Seq(DOMAIN Hits) /\ ToSet(first) = ToSet(hits) \intersect K /\ IsInjective(first)
  <2> HIDE DEF K
  <2>1. QED
    BY ThoseProperties
<1> HIDE DEF first
<1>2. \A i \in ToSet(first) : i \in ToSet(hits) /\ Kept(hits, i)
  BY <1>1
<1>3. ASSUME NEW a \in DOMAIN first, NEW b \in DOMAIN first, Hits[first[a]].layer = Hits[first[b]].layer
      PROVE  a = b
  <2>1. first[a] \in ToSet(first) /\ first[b] \in ToSet(first)
    BY <1>1, ElementsOf
  <2>2. first[a] = first[b]
    BY <1>2, <1>3, <2>1, OneKept
  <2>3. QED
    BY <1>1, <2>2 DEF IsInjective
<1>4. QED
  BY <1>1, <1>2, <1>3 DEF OnePerLayer, first

\* The choices up to a layer: one hit of each layer that one is kept of.
ChoicesTo(hits, l) ==
  {c \in Seq(DOMAIN Hits) :
     /\ OnePerLayer(Hits, c)
     /\ \A n \in DOMAIN c : Hits[c[n]].layer <= l
     /\ \A i \in ToSet(hits) :
          Hits[i].layer <= l /\ Kept(hits, i) => Hits[i].layer \in LayersOf(Hits, c)}

\* The candidates are hits of the layer, the one that is kept among them.
LEMMA CandidatesAre ==
  ASSUME NEW hits \in Seq(DOMAIN Hits), NEW l \in Layers
  PROVE  /\ Candidates(hits, l) \in Seq(InLayer(l))
         /\ \A i \in ToSet(hits) : Hits[i].layer = l /\ Kept(hits, i) => Candidates(hits, l) # <<>>
<1> DEFINE T == {i \in InLayer(l) :
                   Kept(hits, i) \/ (i \in ToSet(Spare(hits, l)) /\ Hits[i].time > MinTime)}
           t == Those(hits, T)
<1>1. t \in Seq(DOMAIN Hits) /\ ToSet(t) = ToSet(hits) \intersect T
  <2> HIDE DEF T
  <2>1. QED
    BY ThoseProperties
<1>2. ToSet(t) \subseteq InLayer(l)
  BY <1>1
<1>3. t \in Seq(InLayer(l))
  <2> HIDE DEF t
  <2>1. QED
    BY <1>1, <1>2, SeqOfElements
<1>4. ASSUME NEW i \in ToSet(hits), Hits[i].layer = l, Kept(hits, i)  PROVE t # <<>>
  <2>1. i \in InLayer(l)
    BY <1>4, ElementsOf DEF InLayer
  <2>2. i \in ToSet(t)
    BY <1>1, <1>4, <2>1
  <2> HIDE DEF t
  <2>3. ASSUME t = <<>>  PROVE FALSE
    <3>1. DOMAIN t = {}
      BY <2>3
    <3>2. QED
      BY <2>2, <3>1 DEF ToSet
  <2>4. QED
    BY <2>3
<1>5. Candidates(hits, l) = t
  BY DEF Candidates
<1>6. QED
  BY <1>3, <1>4, <1>5

\* A choice goes on with a candidate of the next layer, or as it is if there
\* is none.
LEMMA ChoiceGoesOn ==
  ASSUME event \in Events, ich \in DOMAIN event, NEW hits \in Seq(DOMAIN Hits), NEW l \in Layers,
         NEW c \in ChoicesTo(hits, l - 1)
  PROVE  /\ Candidates(hits, l) = <<>> => c \in ChoicesTo(hits, l)
         /\ \A y \in InLayer(l) : Append(c, y) \in ChoicesTo(hits, l)
<1>1. \A i \in DOMAIN Hits : Hits[i].layer \in Nat
  <2>1. \A k \in Layers : k \in Nat
    BY ConstantTypes
  <2>2. QED
    BY <2>1, HitsAre
<1>2. l \in Nat
  BY ConstantTypes
<1>3. /\ c \in Seq(DOMAIN Hits) /\ OnePerLayer(Hits, c)
      /\ \A n \in DOMAIN c : Hits[c[n]].layer <= l - 1
      /\ \A i \in ToSet(hits) : Hits[i].layer <= l - 1 /\ Kept(hits, i) => Hits[i].layer \in LayersOf(Hits, c)
  BY DEF ChoicesTo
<1>4. \A n \in DOMAIN c : c[n] \in DOMAIN Hits
  BY <1>3
<1>5. \A i \in ToSet(hits) : i \in DOMAIN Hits
  BY ElementsOf
<1>6. ASSUME Candidates(hits, l) = <<>>  PROVE c \in ChoicesTo(hits, l)
  <2>1. \A n \in DOMAIN c : Hits[c[n]].layer <= l
    BY <1>1, <1>2, <1>3, <1>4
  <2>2. ASSUME NEW i \in ToSet(hits), Hits[i].layer <= l, Kept(hits, i)
        PROVE  Hits[i].layer \in LayersOf(Hits, c)
    <3>1. Hits[i].layer # l
      BY <1>6, <2>2, CandidatesAre
    <3>2. Hits[i].layer <= l - 1
      BY <1>1, <1>2, <1>5, <2>2, <3>1
    <3>3. QED
      BY <1>3, <2>2, <3>2
  <2>3. QED
    BY <1>3, <2>1, <2>2 DEF ChoicesTo
<1>7. ASSUME NEW y \in InLayer(l)  PROVE Append(c, y) \in ChoicesTo(hits, l)
  <2> DEFINE d == Append(c, y)
             m == Len(c)
  <2>1. y \in DOMAIN Hits /\ Hits[y].layer = l
    BY DEF InLayer
  <2>2. /\ d \in Seq(DOMAIN Hits) /\ m \in Nat /\ DOMAIN c = 1 .. m /\ DOMAIN d = 1 .. m + 1
        /\ d[m + 1] = y /\ \A n \in 1 .. m : d[n] = c[n]
    BY <1>3, <2>1
  <2> HIDE DEF d, m
  <2>3. \A n \in 1 .. m + 1 : n = m + 1 \/ n \in 1 .. m
    BY <2>2
  <2>4. \A n \in 1 .. m : Hits[d[n]].layer <= l - 1 /\ Hits[d[n]].layer \in Nat
    BY <1>1, <1>3, <1>4, <2>2
  <2>5. ASSUME NEW a \in 1 .. m + 1, NEW b \in 1 .. m + 1, Hits[d[a]].layer = Hits[d[b]].layer
        PROVE  a = b
    <3>1. CASE a \in 1 .. m /\ b \in 1 .. m
      BY <1>3, <2>2, <2>5, <3>1 DEF OnePerLayer
    <3>2. CASE a \in 1 .. m /\ b = m + 1
      BY <1>2, <2>1, <2>2, <2>4, <2>5, <3>2
    <3>3. CASE a = m + 1 /\ b \in 1 .. m
      BY <1>2, <2>1, <2>2, <2>4, <2>5, <3>3
    <3>4. QED
      BY <2>3, <3>1, <3>2, <3>3
  <2>6. OnePerLayer(Hits, d)
    BY <2>2, <2>5 DEF OnePerLayer
  <2>7. \A n \in 1 .. m + 1 : Hits[d[n]].layer <= l
    <3>1. ASSUME NEW n \in 1 .. m + 1  PROVE Hits[d[n]].layer <= l
      <4>1. CASE n = m + 1
        BY <1>2, <2>1, <2>2, <4>1
      <4>2. CASE n \in 1 .. m
        BY <1>2, <2>4, <4>2
      <4>3. QED
        BY <2>3, <4>1, <4>2
    <3>2. QED
      BY <3>1
  <2>8. m + 1 \in 1 .. m + 1 /\ \A n \in 1 .. m : n \in 1 .. m + 1
    BY <2>2
  <2>9. l \in LayersOf(Hits, d) /\ LayersOf(Hits, c) \subseteq LayersOf(Hits, d)
    <3>1. y \in ToSet(d)
      BY <2>2, <2>8 DEF ToSet
    <3>2. ToSet(c) \subseteq ToSet(d)
      BY <2>2, <2>8 DEF ToSet
    <3>3. QED
      BY <2>1, <3>1, <3>2 DEF LayersOf
  <2>10. ASSUME NEW i \in ToSet(hits), Hits[i].layer <= l, Kept(hits, i)
         PROVE  Hits[i].layer \in LayersOf(Hits, d)
    <3>1. CASE Hits[i].layer = l
      BY <2>9, <3>1
    <3>2. CASE Hits[i].layer # l
      <4>1. Hits[i].layer <= l - 1
        BY <1>1, <1>2, <1>5, <2>10, <3>2
      <4>2. QED
        BY <1>3, <2>9, <2>10, <4>1
    <3>3. QED
      BY <3>1, <3>2
  <2>11. QED
    BY <2>2, <2>6, <2>7, <2>10 DEF ChoicesTo, d
<1>8. QED
  BY <1>6, <1>7

\* The loops over the layers, layer by layer.
LEMMA AllChoicesUnfolds ==
  ASSUME NEW hits \in Seq(DOMAIN Hits)
  PROVE  \E choices :
           /\ AllChoices(hits) = choices[Len(Directions)]
           /\ choices[0] = << <<>> >>
           /\ \A l \in 1 .. Len(Directions) :
                choices[l] = IF Candidates(hits, l) = <<>> THEN choices[l - 1]
                             ELSE Extended(choices[l - 1], Candidates(hits, l))
<1> DEFINE N == Len(Directions)
           D == Seq(DOMAIN Hits)
           W == Seq(D)
           P(l, x) == IF Candidates(hits, l) = <<>> THEN x ELSE Extended(x, Candidates(hits, l))
           F == [l \in 1 .. N |-> [x \in W |-> P(l, x)]]
           Is(g) == g = [l \in 0 .. N |-> IF l = 0 THEN << <<>> >> ELSE P(l, g[l - 1])]
           choices == CHOOSE g : Is(g)
<1>1. N \in Nat /\ Layers = 1 .. N
  BY ConstantTypes
<1>2. << <<>> >> \in W
  OBVIOUS
<1>3. ASSUME NEW l \in 1 .. N, NEW x \in W  PROVE P(l, x) \in W
  <2>1. Candidates(hits, l) \in Seq(InLayer(l))
    BY <1>1, CandidatesAre
  <2>2. \A c \in D : \A y \in InLayer(l) : Append(c, y) \in D
    BY DEF InLayer
  <2> HIDE DEF D
  <2>3. Extended(x, Candidates(hits, l)) \in Seq(D)
    BY <2>1, <2>2, ExtendedIs
  <2>4. QED
    BY <2>3
<1>4. AllChoices(hits) = choices[N]
  BY DEF AllChoices
<1> HIDE DEF P, N, W
<1>5. F \in [1 .. N -> [W -> W]]
  BY <1>3
<1>6. PICK g : IsRecursionTo(g, N, W, << <<>> >>, F)
  <2> HIDE DEF F
  <2>1. QED
    BY <1>1, <1>2, <1>5, RecursionTo
<1>7. Is(g)
  <2>1. g \in [0 .. N -> W] /\ g[0] = << <<>> >>
    BY <1>6 DEF IsRecursionTo
  <2>2. ASSUME NEW l \in 1 .. N  PROVE g[l] = P(l, g[l - 1])
    <3>1. l - 1 \in 0 .. N /\ g[l - 1] \in W
      BY <1>1, <2>1
    <3>2. g[l] = F[l][g[l - 1]]
      BY <1>6 DEF IsRecursionTo
    <3>3. QED
      BY <3>1, <3>2
  <2>3. ASSUME NEW l \in 0 .. N  PROVE g[l] = IF l = 0 THEN << <<>> >> ELSE P(l, g[l - 1])
    <3>1. l = 0 \/ (l \in 1 .. N /\ l # 0)
      BY <1>1
    <3>2. QED
      BY <2>1, <2>2, <3>1, Zenon
  <2>4. QED
    BY <2>1, <2>3
<1>8. Is(choices)
  BY <1>7, Zenon
<1> HIDE DEF choices
<1>9. choices[0] = << <<>> >> /\ \A l \in 1 .. N : choices[l] = P(l, choices[l - 1])
  BY <1>1, <1>8
<1>10. QED
  BY <1>4, <1>9 DEF P, N

\* Every choice has one hit of each layer that a hit is kept of.
LEMMA ChoicesAre ==
  ASSUME event \in Events, ich \in DOMAIN event, NEW hits \in Seq(DOMAIN Hits)
  PROVE  AllChoices(hits) \in Seq(ChoicesTo(hits, Len(Directions)))
<1> DEFINE N == Len(Directions)
           D == Seq(DOMAIN Hits)
           P(l, x) == IF Candidates(hits, l) = <<>> THEN x ELSE Extended(x, Candidates(hits, l))
<1>1. N \in Nat /\ Layers = 1 .. N
  BY ConstantTypes
<1>2. PICK choices : /\ AllChoices(hits) = choices[N]
                     /\ choices[0] = << <<>> >> /\ \A l \in 1 .. N : choices[l] = P(l, choices[l - 1])
  BY AllChoicesUnfolds
<1> HIDE DEF P, N
<1> DEFINE S == {l \in 0 .. N : choices[l] \in Seq(ChoicesTo(hits, l))}
<1>3. 0 \in S
  <2>1. <<>> \in ChoicesTo(hits, 0)
    <3>1. OnePerLayer(Hits, <<>>)
      BY DEF OnePerLayer
    <3>2. \A i \in ToSet(hits) : ~ (Hits[i].layer <= 0)
      <4>1. \A k \in Layers : ~ (k <= 0)
        BY <1>1
      <4>2. QED
        BY <4>1, HitsAre, ElementsOf
    <3>3. <<>> \in D
      OBVIOUS
    <3>4. QED
      BY <3>1, <3>2, <3>3 DEF ChoicesTo
  <2> DEFINE V == ChoicesTo(hits, 0)
  <2> HIDE DEF V
  <2>2. << <<>> >> \in Seq(V)
    BY <2>1 DEF V
  <2>3. choices[0] \in Seq(V)
    BY <1>2, <2>2, Zenon
  <2>4. 0 \in 0 .. N
    BY <1>1
  <2>5. QED
    BY <2>3, <2>4 DEF V
<1>4. ASSUME NEW k \in 0 .. N - 1, k \in S  PROVE k + 1 \in S
  <2> DEFINE l == k + 1
             V == ChoicesTo(hits, k)
             U == ChoicesTo(hits, l)
             t == Candidates(hits, l)
             s == choices[k]
  <2>1. l \in 1 .. N /\ l - 1 = k /\ l \in 0 .. N /\ l \in Layers
    BY <1>1
  <2>2. choices[l] = IF t = <<>> THEN s ELSE Extended(s, t)
    BY <1>2, <2>1 DEF P
  <2>3. s \in Seq(V)
    BY <1>4
  <2>4. /\ t = <<>> => \A c \in V : c \in U
        /\ \A c \in V : \A y \in InLayer(l) : Append(c, y) \in U
    BY <2>1, ChoiceGoesOn
  <2>5. t \in Seq(InLayer(l))
    BY <2>1, CandidatesAre
  <2> HIDE DEF V, U, t, s, l
  <2>6. CASE t = <<>>
    <3>1. V \subseteq U
      BY <2>4, <2>6
    <3>2. s \in Seq(U)
      BY <2>3, <3>1, SeqMonotonic
    <3>3. QED
      BY <2>1, <2>2, <2>6, <3>2 DEF U, l
  <2>7. CASE t # <<>>
    <3>1. Extended(s, t) \in Seq(U)
      BY <2>3, <2>4, <2>5, ExtendedIs
    <3>2. QED
      BY <2>1, <2>2, <2>7, <3>1 DEF U, l
  <2>8. QED
    BY <2>6, <2>7
<1> HIDE DEF S
<1>5. 0 .. N \subseteq S
  BY <1>1, <1>3, <1>4, UpTo
<1>6. N \in S
  BY <1>1, <1>5
<1>7. QED
  BY <1>2, <1>6 DEF S, N

\* A point whose hits are chosen.
LEMMA ChosenIs ==
  ASSUME event \in Events, ich \in DOMAIN event,
         NEW p \in PointType, p.hits \in Seq(DOMAIN Hits), IsInjective(p.hits)
  PROVE  LET q == Chosen(p)
         IN  /\ q \in PointType /\ Reduced(Hits, q) /\ IsInjective(q.hits)
             /\ \A i \in ToSet(q.hits) : i \in ToSet(p.hits) /\ Kept(p.hits, i)
<1> DEFINE hits == p.hits
           V == DOMAIN Hits
           first == Those(hits, {i \in V : Kept(hits, i)})
           all == AllChoices(hits)
           several == Len(first) > 4 /\ Ways(hits) > 1 /\ Ways(hits) <= MaxChoices
           some == IF several THEN all ELSE <<>>
           kept == [p EXCEPT !.hits = first]
           q == [kept EXCEPT !.choices = some]
           C == ChoicesTo(hits, Len(Directions))
<1>1. /\ OnePerLayer(Hits, first) /\ IsInjective(first)
      /\ \A i \in ToSet(first) : i \in ToSet(hits) /\ Kept(hits, i)
  BY KeptReduced
<1>2. all \in Seq(C)
  BY ChoicesAre
<1>3. ASSUME NEW c \in C
      PROVE  c \in Seq(Nat) /\ OnePerLayer(Hits, c) /\ LayersOf(Hits, first) \subseteq LayersOf(Hits, c)
  <2>1. /\ c \in Seq(V) /\ OnePerLayer(Hits, c)
        /\ \A i \in ToSet(hits) : Hits[i].layer <= Len(Directions) /\ Kept(hits, i)
                                    => Hits[i].layer \in LayersOf(Hits, c)
    BY <1>3 DEF ChoicesTo
  <2>2. \A i \in ToSet(hits) : Hits[i].layer <= Len(Directions)
    <3>1. \A l \in Layers : l <= Len(Directions)
      BY ConstantTypes
    <3>2. QED
      BY <3>1, HitsAre, ElementsOf
  <2>3. LayersOf(Hits, first) \subseteq LayersOf(Hits, c)
    BY <1>1, <2>1, <2>2 DEF LayersOf
  <2>4. c \in Seq(Nat)
    BY <2>1, HitsAre, SeqMonotonic
  <2>5. QED
    BY <2>1, <2>3, <2>4
<1>4. first \in Seq(Nat)
  <2>1. first \in Seq(V)
    BY <1>1 DEF OnePerLayer
  <2> HIDE DEF first
  <2>2. QED
    BY <2>1, HitsAre, SeqMonotonic
<1>5. Chosen(p) = q
  BY DEF Chosen
<1> HIDE DEF first, all, several, C
<1>6. some \in Seq(C)
  BY <1>2
<1>7. C \subseteq Seq(Nat)
  BY <1>3
<1>8. some \in Seq(Seq(Nat))
  <2> HIDE DEF some
  <2>1. QED
    BY <1>6, <1>7, SeqMonotonic
<1> HIDE DEF some
<1>9. kept \in PointType /\ kept.hits = first
  <2> DEFINE A == Seq(Nat)
             B == Seq(Seq(Nat))
  <2>1. PointType = [x : Int, y : Int, combos : Nat, hits : A, choices : B] /\ first \in A
    BY <1>4 DEF PointType
  <2> HIDE DEF A, B
  <2>2. QED
    BY <2>1
<1> HIDE DEF kept
<1>10. q \in PointType /\ q.hits = first /\ q.choices = some
  <2> DEFINE A == Seq(Nat)
             B == Seq(Seq(Nat))
  <2>1. PointType = [x : Int, y : Int, combos : Nat, hits : A, choices : B] /\ some \in B
    BY <1>8 DEF PointType
  <2> HIDE DEF A, B
  <2>2. QED
    BY <1>9, <2>1
<1> HIDE DEF q
<1>11. \A n \in DOMAIN some : some[n] \in C
  BY <1>6
<1>12. Reduced(Hits, q)
  BY <1>1, <1>3, <1>10, <1>11 DEF Reduced
<1>13. QED
  BY <1>1, <1>5, <1>10, <1>12

-----------------------------------------------------------------------------
(* Every step keeps the invariant.                                         *)

\* A step within a chamber: the event, the place in it and the list of points
\* stay, and what is asked of the chamber's points remains to be shown.
LEMMA ChamberStep ==
  ASSUME SpaceInv, stage \in Working \union {"find"}, stage' \in Working,
         UNCHANGED <<event, ich, total>>, easy' \in BOOLEAN,
         tests' \in Seq(TestPointType), Len(tests') <= MaxPairs,
         combos' \in Seq(Nat \X Nat), Len(combos') <= MaxCombos, icombo' \in 1 .. Len(combos') + 1,
         PointsOf(points'),
         stage' = "combos" => WorkInv' /\ CombosUsed',
         stage' \in {"choose", "select", "copy"} => Len(points') <= MaxKept,
         stage' \in {"select", "copy"} => \A n \in DOMAIN points' : Reduced(Hits, points'[n]),
         stage' = "copy" => \A n \in DOMAIN points' : Len(points'[n].hits) >= MinHit
  PROVE  SpaceInv'
<1>1. Hits' = Hits
  BY DEF Hits
<1>2. TypeOK'
  BY DEF SpaceInv, TypeOK, PointsOf, Working
<1>3. WorkInv'
  BY <1>1 DEF WorkInv, PointsOf
<1>4. FitInv'
  <2>1. Done' = Done
    BY DEF Done, Working
  <2>2. /\ stage' \in {"choose", "select", "copy"} => Len(points') <= MaxKept
        /\ stage' \in {"select", "copy"} => \A n \in DOMAIN points' : Reduced(Hits', points'[n])
        /\ stage' = "copy" => \A n \in DOMAIN points' : Len(points'[n].hits) >= MinHit
    BY <1>1
  <2>3. /\ Len(total') <= MaxKept * Done'
        /\ \A n \in DOMAIN total' : /\ total'[n].chamber \in DOMAIN event'
                                    /\ Reduced(event'[total'[n].chamber], total'[n].point)
                                    /\ Len(total'[n].point.hits) >= MinHit
    BY <2>1 DEF SpaceInv, FitInv
  <2>4. QED
    BY <2>2, <2>3 DEF FitInv
<1>5. CombosUsed'
  BY DEF CombosUsed, HitsDistinct, PointsOf
<1>6. QED
  BY <1>2, <1>3, <1>4, <1>5 DEF SpaceInv

\* There are no points.
LEMMA NoPointsAre == PointsOf(<<>>) /\ Len(<<>>) = 0 /\ DOMAIN <<>> = {}
<1>1. <<>> \in Seq(PointType) /\ Len(<<>>) = 0 /\ DOMAIN <<>> = {}
  OBVIOUS
<1>2. QED
  BY <1>1, ConstantTypes DEF PointsOf

\* SkipChamber keeps the invariant.
LEMMA SkipStep ==
  ASSUME SpaceInv, SkipChamber
  PROVE  SpaceInv'
<1>1. /\ stage = "find" /\ stage' = "copy" /\ UNCHANGED <<event, ich, total>> /\ easy' \in BOOLEAN
      /\ points' = <<>> /\ tests' = <<>> /\ combos' = <<>> /\ icombo' = 1
  BY DEF SkipChamber, NoPoints
<1>2. /\ tests' \in Seq(TestPointType) /\ Len(tests') <= MaxPairs
      /\ combos' \in Seq(Nat \X Nat) /\ Len(combos') <= MaxCombos
      /\ icombo' \in 1 .. Len(combos') + 1
  BY <1>1, ConstantTypes
<1>3. PointsOf(points') /\ Len(points') <= MaxKept /\ DOMAIN points' = {}
  BY <1>1, NoPointsAre, ConstantTypes
<1>4. stage' \in Working /\ stage \in Working \union {"find"} /\ stage' # "combos"
  BY <1>1 DEF Working
<1>5. QED
  BY <1>1, <1>2, <1>3, <1>4, ChamberStep

\* FindEasySpacePoint keeps the invariant.
LEMMA EasyStep ==
  ASSUME SpaceInv, FindEasySpacePoint
  PROVE  SpaceInv'
<1>1. /\ stage = "find" /\ stage' = "limit" /\ UNCHANGED <<event, ich, total>> /\ easy' \in BOOLEAN
      /\ points' = <<EasyPoint>> /\ tests' = <<>> /\ combos' = <<>> /\ icombo' = 1 /\ MayBeEasy
  BY DEF FindEasySpacePoint
<1>2. /\ tests' \in Seq(TestPointType) /\ Len(tests') <= MaxPairs
      /\ combos' \in Seq(Nat \X Nat) /\ Len(combos') <= MaxCombos
      /\ icombo' \in 1 .. Len(combos') + 1
  BY <1>1, ConstantTypes
<1>3. PointsOf(points')
  <2>1. event \in Events /\ ich \in DOMAIN event
    BY DEF SpaceInv, TypeOK
  <2>2. /\ EasyPoint \in PointType /\ EasyPoint.hits \in Seq(DOMAIN Hits)
        /\ IsInjective(EasyPoint.hits)
    BY <1>1, <2>1, EasyPointIs
  <2> DEFINE p == EasyPoint
  <2> HIDE DEF p
  <2>3. <<p>> \in Seq(PointType) /\ Len(<<p>>) = 1 /\ \A n \in DOMAIN <<p>> : <<p>>[n] = p
    BY <2>2 DEF p
  <2>4. PointsOf(<<p>>)
    BY <2>2, <2>3, ConstantTypes DEF PointsOf, p
  <2>5. QED
    BY <1>1, <2>4 DEF p
<1>4. stage' \in Working /\ stage \in Working \union {"find"} /\ stage' # "combos"
      /\ stage' \notin {"choose", "select", "copy"}
  BY <1>1 DEF Working
<1>5. QED
  BY <1>1, <1>2, <1>3, <1>4, ChamberStep

\* FindCombos keeps the invariant.
LEMMA CombosStep ==
  ASSUME SpaceInv, FindCombos
  PROVE  SpaceInv'
<1>1. /\ stage = "find" /\ stage' = "combos" /\ UNCHANGED <<event, ich, total>> /\ easy' \in BOOLEAN
      /\ points' = <<>> /\ tests' = TestPoints /\ combos' = Combos(tests') /\ icombo' = 1
  BY DEF FindCombos
<1>2. /\ tests' \in Seq(TestPointType) /\ Len(tests') <= MaxPairs
      /\ \A t \in DOMAIN tests' : /\ tests'[t].first \in DOMAIN Hits
                                  /\ tests'[t].second \in DOMAIN Hits
                                  /\ tests'[t].first # tests'[t].second
  BY <1>1, TestPointsAre DEF SpaceInv, TypeOK
<1>3. combos' \in Seq((DOMAIN tests') \X (DOMAIN tests')) /\ Len(combos') <= MaxCombos
  BY <1>1, <1>2, CombosAre
<1>4. combos' \in Seq(Nat \X Nat) /\ icombo' \in 1 .. Len(combos') + 1
  <2>1. DOMAIN tests' \subseteq Nat
    BY <1>2
  <2>2. (DOMAIN tests') \X (DOMAIN tests') \subseteq Nat \X Nat
    BY <2>1
  <2>3. combos' \in Seq(Nat \X Nat)
    BY <1>3, <2>2, SeqMonotonic
  <2>4. Len(combos') \in Nat
    BY <1>3
  <2>5. QED
    BY <1>1, <2>3, <2>4
<1>5. PointsOf(points') /\ DOMAIN points' = {}
  BY <1>1, NoPointsAre
<1>6. WorkInv'
  <2>1. Hits' = Hits
    BY <1>1 DEF Hits
  <2>2. QED
    BY <1>2, <1>3, <1>5, <2>1 DEF WorkInv
<1>7. CombosUsed'
  <2>1. \A k \in 1 .. icombo' - 1 : FALSE
    BY <1>1
  <2>2. QED
    BY <1>5, <2>1 DEF CombosUsed, HitsDistinct
<1>8. /\ stage' \in Working /\ stage \in Working \union {"find"}
      /\ stage' \notin {"choose", "select", "copy"}
  BY <1>1 DEF Working
<1>9. QED
  BY <1>1, <1>2, <1>3, <1>4, <1>5, <1>6, <1>7, <1>8, ChamberStep

\* TakeCombo keeps the invariant.
LEMMA TakeStep ==
  ASSUME SpaceInv, TakeCombo
  PROVE  SpaceInv'
<1>1. /\ stage = "combos" /\ icombo' = icombo + 1 /\ icombo <= Len(combos)
      /\ UNCHANGED <<event, stage, ich, tests, combos, easy, total>>
  BY DEF TakeCombo
<1>2. /\ tests \in Seq(TestPointType) /\ Len(tests) <= MaxPairs /\ easy \in BOOLEAN
      /\ combos \in Seq(Nat \X Nat) /\ Len(combos) <= MaxCombos
      /\ icombo \in 1 .. Len(combos) + 1
  BY DEF SpaceInv, TypeOK
<1>3. icombo' \in 1 .. Len(combos) + 1 /\ icombo \in Nat /\ icombo' - 1 = icombo
  BY <1>1, <1>2
<1>4. PointsOf(points') /\ Grown(points, points') /\ Used(Combo(icombo), points')
  BY ComboTaken
<1>5. Hits' = Hits
  BY <1>1 DEF Hits
<1>6. WorkInv'
  BY <1>1, <1>4, <1>5 DEF SpaceInv, WorkInv, PointsOf
<1>7. CombosUsed'
  <2>1. HitsDistinct'
    BY <1>4 DEF HitsDistinct, PointsOf
  <2>2. ASSUME NEW k \in 1 .. icombo' - 1  PROVE Used(Combo(k), points')
    <3>1. CASE k = icombo
      BY <1>4, <3>1
    <3>2. CASE k # icombo
      <4>1. k \in 1 .. icombo - 1
        <5>1. k \in 1 .. icombo
          BY <1>3
        <5>2. QED
          BY <1>3, <3>2, <5>1
      <4>2. Used(Combo(k), points)
        BY <1>1, <4>1 DEF SpaceInv, CombosUsed, Used
      <4>3. PointsOf(points)
        BY <1>1, PointsAre DEF Working
      <4>4. QED
        BY <1>4, <4>2, <4>3, UsedKept
    <3>3. QED
      BY <3>1, <3>2
  <2>3. ASSUME NEW k \in 1 .. icombo' - 1
        PROVE  LET c == Combo(k)' IN
               \/ \E n \in DOMAIN points' : ToSet(c.hits) \subseteq ToSet(points'[n].hits)
               \/ \E n \in DOMAIN points' :
                    Distance(points'[n], c) \in 4 * Criterion .. 12 * Criterion - 1
               \/ Len(points') = MaxPoints
    <3>1. Combo(k)' = Combo(k)
      BY <1>1 DEF Combo
    <3>2. QED
      BY <2>2, <3>1 DEF Used
  <2>4. QED
    BY <2>1, <2>3 DEF CombosUsed
<1>8. /\ stage' \in Working /\ stage \in Working \union {"find"}
      /\ stage' \notin {"choose", "select", "copy"}
  BY <1>1 DEF Working
<1>9. QED
  BY <1>1, <1>2, <1>3, <1>4, <1>6, <1>7, <1>8, ChamberStep

\* CombosTaken keeps the invariant.
LEMMA TakenStep ==
  ASSUME SpaceInv, CombosTaken
  PROVE  SpaceInv'
<1>1. /\ stage = "combos" /\ stage' = "limit"
      /\ UNCHANGED <<event, ich, tests, combos, icombo, points, easy, total>>
  BY DEF CombosTaken
<1>2. PointsOf(points')
  BY <1>1, PointsAre DEF Working
<1>3. /\ tests \in Seq(TestPointType) /\ Len(tests) <= MaxPairs /\ easy \in BOOLEAN
      /\ combos \in Seq(Nat \X Nat) /\ Len(combos) <= MaxCombos
      /\ icombo \in 1 .. Len(combos) + 1
  BY DEF SpaceInv, TypeOK
<1>4. /\ stage' \in Working /\ stage \in Working \union {"find"} /\ stage' # "combos"
      /\ stage' \notin {"choose", "select", "copy"}
  BY <1>1 DEF Working
<1>5. QED
  BY <1>1, <1>2, <1>3, <1>4, ChamberStep

\* LimitPoints keeps the invariant.
LEMMA LimitStep ==
  ASSUME SpaceInv, LimitPoints
  PROVE  SpaceInv'
<1>1. /\ stage = "limit" /\ stage' = (IF points' = <<>> THEN "copy" ELSE "choose")
      /\ points' = (IF Len(points) > MaxKept THEN <<>> ELSE points)
      /\ UNCHANGED <<event, ich, tests, combos, icombo, easy, total>>
  BY DEF LimitPoints
<1>2. PointsOf(points)
  BY <1>1, PointsAre DEF Working
<1>3. PointsOf(points') /\ Len(points') <= MaxKept
  <2>1. Len(points) \in Nat
    BY <1>2 DEF PointsOf
  <2>2. CASE Len(points) > MaxKept
    BY <1>1, <2>2, NoPointsAre, ConstantTypes
  <2>3. CASE ~ (Len(points) > MaxKept)
    BY <1>1, <1>2, <2>1, <2>3, ConstantTypes
  <2>4. QED
    BY <2>2, <2>3
<1>4. /\ tests \in Seq(TestPointType) /\ Len(tests) <= MaxPairs /\ easy \in BOOLEAN
      /\ combos \in Seq(Nat \X Nat) /\ Len(combos) <= MaxCombos
      /\ icombo \in 1 .. Len(combos) + 1
  BY DEF SpaceInv, TypeOK
<1>5. /\ stage' \in Working /\ stage \in Working \union {"find"} /\ stage' # "combos"
      /\ stage' # "select" /\ (stage' = "copy" => points' = <<>>)
  BY <1>1 DEF Working
<1>6. \A n \in DOMAIN <<>> : FALSE
  OBVIOUS
<1>7. /\ stage' \in {"select", "copy"} => \A n \in DOMAIN points' : Reduced(Hits, points'[n])
      /\ stage' = "copy" => \A n \in DOMAIN points' : Len(points'[n].hits) >= MinHit
  BY <1>5, <1>6
<1>8. QED
  BY <1>1, <1>3, <1>4, <1>5, <1>7, ChamberStep

\* ChooseSingleHit keeps the invariant.
LEMMA ChooseStep ==
  ASSUME SpaceInv, ChooseSingleHit
  PROVE  SpaceInv'
<1>1. /\ stage = "choose" /\ stage' = "select"
      /\ points' = [n \in DOMAIN points |-> Chosen(points[n])]
      /\ UNCHANGED <<event, ich, tests, combos, icombo, easy, total>>
  BY DEF ChooseSingleHit
<1>2. PointsOf(points)
  BY <1>1, PointsAre DEF Working
<1>3. event \in Events /\ ich \in DOMAIN event
  BY DEF SpaceInv, TypeOK
<1>4. ASSUME NEW n \in DOMAIN points
      PROVE  /\ Chosen(points[n]) \in PointType /\ Reduced(Hits, Chosen(points[n]))
             /\ IsInjective(Chosen(points[n]).hits)
  <2>1. /\ points[n] \in PointType /\ points[n].hits \in Seq(DOMAIN Hits)
        /\ IsInjective(points[n].hits)
    BY <1>2 DEF PointsOf
  <2>2. QED
    BY <1>3, <2>1, ChosenIs
<1>5. Len(points) \in Nat /\ DOMAIN points = 1 .. Len(points)
  BY <1>2 DEF PointsOf
<1>6. points' \in [1 .. Len(points) -> PointType]
  BY <1>1, <1>4, <1>5
<1>7. points' \in Seq(PointType) /\ Len(points') = Len(points) /\ DOMAIN points' = DOMAIN points
  BY <1>5, <1>6
<1>8. \A n \in DOMAIN points' : points'[n] = Chosen(points[n])
  BY <1>1, <1>7
<1>9. \A n \in DOMAIN points' : /\ points'[n].hits \in Seq(DOMAIN Hits)
                                /\ Reduced(Hits, points'[n]) /\ IsInjective(points'[n].hits)
  BY <1>4, <1>7, <1>8, ZenonT(40) DEF Reduced, OnePerLayer
<1>10. PointsOf(points') /\ Len(points') <= MaxKept
  BY <1>1, <1>2, <1>7, <1>9 DEF PointsOf, SpaceInv, FitInv
<1>11. /\ tests \in Seq(TestPointType) /\ Len(tests) <= MaxPairs /\ easy \in BOOLEAN
       /\ combos \in Seq(Nat \X Nat) /\ Len(combos) <= MaxCombos
       /\ icombo \in 1 .. Len(combos) + 1
  BY DEF SpaceInv, TypeOK
<1>12. /\ stage' \in Working /\ stage \in Working \union {"find"} /\ stage' # "combos"
       /\ stage' # "copy"
  BY <1>1 DEF Working
<1>13. QED
  BY <1>1, <1>9, <1>10, <1>11, <1>12, ChamberStep

\* SelectSpacePoints keeps the invariant.
LEMMA SelectStep ==
  ASSUME SpaceInv, SelectSpacePoints
  PROVE  SpaceInv'
<1> DEFINE T == {p \in ToSet(points) : Good(p)}
<1>1. /\ stage = "select" /\ stage' = "copy" /\ points' = Those(points, T)
      /\ UNCHANGED <<event, ich, tests, combos, icombo, easy, total>>
  BY DEF SelectSpacePoints
<1>2. PointsOf(points)
  BY <1>1, PointsAre DEF Working
<1>3. /\ points' \in Seq(PointType) /\ Len(points') <= Len(points)
      /\ ToSet(points') = ToSet(points) \intersect T
  <2> HIDE DEF T
  <2>1. points \in Seq(PointType)
    BY <1>2 DEF PointsOf
  <2>2. QED
    BY <1>1, <2>1, ThoseProperties
<1>4. ASSUME NEW n \in DOMAIN points'
      PROVE  /\ points'[n].hits \in Seq(DOMAIN Hits) /\ IsInjective(points'[n].hits)
             /\ Reduced(Hits, points'[n]) /\ Len(points'[n].hits) >= MinHit
  <2>1. points'[n] \in ToSet(points')
    BY DEF ToSet
  <2>2. points'[n] \in ToSet(points) /\ Good(points'[n])
    BY <1>3, <2>1
  <2>3. PICK k \in DOMAIN points : points'[n] = points[k]
    BY <2>2 DEF ToSet
  <2>4. Reduced(Hits, points[k])
    BY <1>1 DEF SpaceInv, FitInv
  <2>5. QED
    BY <1>2, <2>2, <2>3, <2>4 DEF Good, PointsOf
<1>5. Len(points) \in Nat /\ Len(points') \in Nat /\ Len(points) <= MaxPoints /\ Len(points) <= MaxKept
  BY <1>1, <1>2, <1>3 DEF PointsOf, SpaceInv, FitInv
<1>6. PointsOf(points') /\ Len(points') <= MaxKept
  BY <1>3, <1>4, <1>5, ConstantTypes DEF PointsOf
<1>7. /\ tests \in Seq(TestPointType) /\ Len(tests) <= MaxPairs /\ easy \in BOOLEAN
      /\ combos \in Seq(Nat \X Nat) /\ Len(combos) <= MaxCombos
      /\ icombo \in 1 .. Len(combos) + 1
  BY DEF SpaceInv, TypeOK
<1>8. /\ stage' \in Working /\ stage \in Working \union {"find"} /\ stage' # "combos"
  BY <1>1 DEF Working
<1>9. QED
  BY <1>1, <1>4, <1>6, <1>7, <1>8, ChamberStep

\* NextChamber keeps the invariant: the points selected go to the end of the
\* list, with the chamber they are in.
LEMMA CopyStep ==
  ASSUME SpaceInv, NextChamber
  PROVE  SpaceInv'
<1> DEFINE m == Len(total)
           k == Len(points)
           new == [n \in DOMAIN points |-> [chamber |-> ich, point |-> points[n]]]
           TotalType == [chamber : Nat, point : PointType]
           Fit(e) == /\ e.chamber \in DOMAIN event
                     /\ Reduced(event[e.chamber], e.point)
                     /\ Len(e.point.hits) >= MinHit
<1>1. /\ stage = "copy" /\ total' = total \o new
      /\ ich' = (IF ich < Len(event) THEN ich + 1 ELSE ich)
      /\ stage' = (IF ich < Len(event) THEN "find" ELSE "done")
      /\ UNCHANGED <<event, tests, combos, icombo, points, easy>>
  BY DEF NextChamber
<1>2. /\ event \in Events /\ TypeOK /\ ich \in DOMAIN event /\ total \in Seq(TotalType)
      /\ Len(total) <= MaxKept * (ich - 1)
      /\ \A n \in DOMAIN total : Fit(total[n])
  BY <1>1 DEF SpaceInv, TypeOK, FitInv, Done
<1>3. event \in Seq(Seq(HitType))
  BY <1>2, SpacePointAssumption DEF HitType
<1>4. Len(event) \in Nat /\ DOMAIN event = 1 .. Len(event) /\ ich \in 1 .. Len(event) /\ ich \in Nat
  BY <1>2, <1>3
<1>5. PointsOf(points)
  BY <1>1, PointsAre DEF Working
<1>6. k \in Nat /\ DOMAIN points = 1 .. k /\ k <= MaxKept /\ MaxKept \in Nat
  BY <1>1, <1>5, ConstantTypes DEF PointsOf, SpaceInv, FitInv
<1>7. ASSUME NEW n \in DOMAIN points  PROVE new[n] \in TotalType /\ Fit(new[n])
  <2>1. points[n] \in PointType
    BY <1>5 DEF PointsOf
  <2>2. Reduced(Hits, points[n]) /\ Len(points[n].hits) >= MinHit
    BY <1>1 DEF SpaceInv, FitInv
  <2>3. new[n] = [chamber |-> ich, point |-> points[n]]
    OBVIOUS
  <2>4. QED
    BY <1>2, <1>4, <2>1, <2>2, <2>3 DEF Hits
<1> HIDE DEF Fit, TotalType
<1>8. new \in Seq(TotalType) /\ Len(new) = k /\ DOMAIN new = 1 .. k
  <2>1. new \in [1 .. k -> TotalType]
    BY <1>6, <1>7
  <2>2. QED
    BY <1>6, <2>1
<1> HIDE DEF new
<1>9. m \in Nat /\ DOMAIN total = 1 .. m
  BY <1>2
<1>10. /\ total' \in Seq(TotalType) /\ Len(total') = m + k
       /\ \A n \in 1 .. m : total'[n] = total[n]
       /\ \A n \in 1 .. k : total'[m + n] = new[n]
  <2> DEFINE both == total \o new
  <2> HIDE DEF k
  <2>1. both \in Seq(TotalType) /\ Len(both) = m + k
    BY <1>2, <1>8
  <2>2. \A n \in 1 .. m : both[n] = total[n]
    BY <1>2, <1>8
  <2>3. \A n \in 1 .. k : both[m + n] = new[n]
    BY <1>2, <1>8
  <2> HIDE DEF both
  <2>4. total' = both
    BY <1>1 DEF both
  <2>5. QED
    BY <2>1, <2>2, <2>3, <2>4
<1> HIDE DEF m, k
<1>11. m + k <= MaxKept * ich
  <2>1. m <= MaxKept * (ich - 1)
    BY <1>2 DEF m
  <2>2. MaxKept * (ich - 1) = MaxKept * ich - MaxKept /\ MaxKept * ich \in Nat
    BY <1>4, <1>6
  <2>3. QED
    BY <1>6, <1>9, <2>1, <2>2
<1>12. MaxKept * ich <= MaxKept * Len(event)
  <2>1. MaxKept * (Len(event) - ich) >= 0
    BY <1>4, <1>6
  <2>2. MaxKept * (Len(event) - ich) = MaxKept * Len(event) - MaxKept * ich
    BY <1>4, <1>6
  <2>3. MaxKept * ich \in Nat /\ MaxKept * Len(event) \in Nat
    BY <1>4, <1>6
  <2>4. QED
    BY <2>1, <2>2, <2>3
<1>13. ASSUME NEW n \in DOMAIN total'  PROVE Fit(total'[n])
  <2>1. DOMAIN total' = 1 .. m + k
    BY <1>10
  <2>2. CASE n \in 1 .. m
    BY <1>2, <1>9, <1>10, <2>2
  <2>3. CASE n \notin 1 .. m
    <3>1. n - m \in 1 .. k /\ m + (n - m) = n
      BY <1>6, <1>9, <2>1, <2>3
    <3>2. total'[n] = new[n - m]
      BY <1>10, <3>1
    <3>3. QED
      BY <1>6, <1>7, <3>1, <3>2
  <2>4. QED
    BY <2>2, <2>3
<1>14. TypeOK'
  <2>1. ich' \in DOMAIN event
    BY <1>1, <1>4
  <2>2. Len(total') <= MaxKept * Len(event)
    <3>1. MaxKept * ich \in Nat /\ MaxKept * Len(event) \in Nat /\ m + k \in Nat
      BY <1>4, <1>6, <1>9
    <3>2. QED
      BY <1>10, <1>11, <1>12, <3>1
  <2>3. stage' \in {"find", "done"}
    BY <1>1
  <2>4. total' \in Seq([chamber : Nat, point : PointType])
    BY <1>10 DEF TotalType
  <2>5. /\ tests \in Seq(TestPointType) /\ Len(tests) <= MaxPairs
        /\ combos \in Seq(Nat \X Nat) /\ Len(combos) <= MaxCombos
        /\ icombo \in 1 .. Len(combos) + 1
        /\ points \in Seq(PointType) /\ Len(points) <= MaxPoints
        /\ easy \in BOOLEAN
    BY <1>2 DEF TypeOK
  <2>6. QED
    BY <1>1, <2>1, <2>2, <2>3, <2>4, <2>5 DEF TypeOK
<1>15. WorkInv' /\ HitsDistinct'
  <2>1. stage' \notin Working /\ stage' # "combos"
    BY <1>1 DEF Working
  <2>2. HitsDistinct'
    BY <1>1, <1>5 DEF HitsDistinct, PointsOf
  <2>3. QED
    BY <2>1, <2>2 DEF WorkInv
<1>16. FitInv'
  <2>1. Done' = ich
    BY <1>1, <1>4 DEF Done
  <2>2. stage' \notin {"choose", "select", "copy"}
    BY <1>1
  <2>3. Len(total') <= MaxKept * Done'
    BY <1>10, <1>11, <2>1
  <2>4. \A n \in DOMAIN total' : /\ total'[n].chamber \in DOMAIN event'
                                 /\ Reduced(event'[total'[n].chamber], total'[n].point)
                                 /\ Len(total'[n].point.hits) >= MinHit
    BY <1>1, <1>13 DEF Fit
  <2>5. QED
    BY <2>2, <2>3, <2>4 DEF FitInv
<1>17. CombosUsed'
  <2>1. stage' # "combos"
    BY <1>1
  <2>2. QED
    BY <1>15, <2>1 DEF CombosUsed
<1>18. QED
  BY <1>1, <1>2, <1>14, <1>15, <1>16, <1>17 DEF SpaceInv

\* The invariant is there at the start,
LEMMA SpaceInit == Init => SpaceInv
<1>1. SUFFICES ASSUME Init  PROVE SpaceInv
  OBVIOUS
<1>2. /\ event \in Events /\ stage = "find" /\ ich = 1 /\ tests = <<>> /\ combos = <<>>
      /\ icombo = 1 /\ points = <<>> /\ easy = FALSE /\ total = <<>>
  BY <1>1 DEF Init
<1>3. ich \in DOMAIN event /\ Len(event) \in Nat
  <2>1. event \in Seq(Seq(HitType)) /\ event # <<>>
    BY <1>2, SpacePointAssumption DEF HitType
  <2>2. Len(event) \in Nat /\ Len(event) # 0 /\ DOMAIN event = 1 .. Len(event)
    BY <2>1
  <2>3. QED
    BY <1>2, <2>2
<1>4. MaxKept * Len(event) >= 0 /\ MaxKept * 0 = 0
  BY <1>3, ConstantTypes
<1>5. TypeOK
  <2>1. /\ <<>> \in Seq(TestPointType) /\ <<>> \in Seq(Nat \X Nat) /\ <<>> \in Seq(PointType)
        /\ <<>> \in Seq([chamber : Nat, point : PointType]) /\ Len(<<>>) = 0
    OBVIOUS
  <2>2. icombo \in 1 .. Len(combos) + 1
    BY <1>2
  <2>3. /\ Len(tests) <= MaxPairs /\ Len(combos) <= MaxCombos /\ Len(points) <= MaxPoints
        /\ Len(total) <= MaxKept * Len(event)
    BY <1>2, <1>4, <2>1, ConstantTypes
  <2>4. QED
    BY <1>2, <1>3, <2>1, <2>2, <2>3 DEF TypeOK
<1>6. DOMAIN points = {} /\ DOMAIN total = {} /\ Len(total) = 0
  BY <1>2
<1>7. WorkInv /\ CombosUsed
  BY <1>2, <1>6 DEF WorkInv, CombosUsed, HitsDistinct, Working
<1>8. FitInv
  <2>1. Done = 0
    BY <1>2 DEF Done
  <2>2. QED
    BY <1>2, <1>4, <1>6, <2>1 DEF FitInv
<1>9. QED
  BY <1>2, <1>5, <1>7, <1>8 DEF SpaceInv

\* and every step keeps it.
LEMMA SpaceStep == SpaceInv /\ [Next]_vars => SpaceInv'
<1>1. SUFFICES ASSUME SpaceInv, [Next]_vars  PROVE SpaceInv'
  OBVIOUS
<1>2. CASE SkipChamber
  BY <1>1, <1>2, SkipStep
<1>3. CASE FindEasySpacePoint
  BY <1>1, <1>3, EasyStep
<1>4. CASE FindCombos
  BY <1>1, <1>4, CombosStep
<1>5. CASE TakeCombo
  BY <1>1, <1>5, TakeStep
<1>6. CASE CombosTaken
  BY <1>1, <1>6, TakenStep
<1>7. CASE LimitPoints
  BY <1>1, <1>7, LimitStep
<1>8. CASE ChooseSingleHit
  BY <1>1, <1>8, ChooseStep
<1>9. CASE SelectSpacePoints
  BY <1>1, <1>9, SelectStep
<1>10. CASE NextChamber
  BY <1>1, <1>10, CopyStep
<1>11. CASE UNCHANGED vars
  <2>1. UNCHANGED <<event, stage, ich, tests, combos, icombo, points, easy, total>>
    BY <1>11 DEF vars
  <2>2. event' \in Events /\ TypeOK' /\ Hits' = Hits /\ Done' = Done /\ HitsDistinct'
    BY <1>1, <2>1 DEF SpaceInv, TypeOK, Hits, Done, CombosUsed, HitsDistinct
  <2>3. WorkInv'
    BY <1>1, <2>1, <2>2 DEF SpaceInv, WorkInv
  <2>4. FitInv'
    BY <1>1, <2>1, <2>2 DEF SpaceInv, FitInv
  <2>5. CombosUsed'
    <3>1. \A k : Combo(k)' = Combo(k)
      BY <2>1 DEF Combo
    <3>2. QED
      BY <1>1, <2>1, <2>2, <3>1 DEF SpaceInv, CombosUsed
  <2>6. QED
    BY <2>2, <2>3, <2>4, <2>5 DEF SpaceInv
<1>12. QED
  BY <1>1, <1>2, <1>3, <1>4, <1>5, <1>6, <1>7, <1>8, <1>9, <1>10, <1>11 DEF Next

\* The invariant is one of the specification.
LEMMA SpaceInvariant == Spec => []SpaceInv
<1>1. QED
  BY SpaceInit, SpaceStep, PTL DEF Spec

-----------------------------------------------------------------------------
(* Theorems.                                                               *)

\* The state of the pattern recognition is of its types, and none of the
\* fixed arrays is overrun: pairs and test points (max_number_pairs),
\* combinations (max_number_comb), the space points of a chamber
\* (hmax_space_points) and those of all chambers.
THEOREM SpacePointTypes == Spec => []TypeOK
<1>1. SpaceInv => TypeOK
  BY DEF SpaceInv
<1>2. QED
  BY <1>1, SpaceInvariant, PTL

\* h_find_space_points loses no combination without a reason and puts no hit
\* into a space point twice, whatever the order of the combinations.
THEOREM CombinationsUsed == Spec => []CombosUsed
<1>1. SpaceInv => CombosUsed
  BY DEF SpaceInv
<1>2. QED
  BY <1>1, SpaceInvariant, PTL

\* Hits of different layers are as many as the layers.
LEMMA LayersCount ==
  ASSUME NEW chamber, NEW s, OnePerLayer(chamber, s)
  PROVE  /\ IsFiniteSet(LayersOf(chamber, s)) /\ Cardinality(LayersOf(chamber, s)) = Len(s)
         /\ ToSet(s) \subseteq DOMAIN chamber /\ Len(s) \in Nat
<1>1. s \in Seq(DOMAIN chamber) /\ Len(s) \in Nat /\ DOMAIN s = 1 .. Len(s)
  BY DEF OnePerLayer
<1>2. PICK f : f = [k \in 1 .. Len(s) |-> chamber[s[k]].layer]
  OBVIOUS
<1>3. \A l : l \in LayersOf(chamber, s) <=> \E i \in 1 .. Len(s) : l = f[i]
  BY <1>1, <1>2 DEF LayersOf, ToSet
<1>4. \A i, j \in 1 .. Len(s) : f[i] = f[j] => i = j
  BY <1>1, <1>2 DEF OnePerLayer
<1>5. IsFiniteSet(LayersOf(chamber, s)) /\ Cardinality(LayersOf(chamber, s)) = Len(s)
  BY <1>1, <1>3, <1>4, ImagesCount
<1>6. ToSet(s) \subseteq DOMAIN chamber
  BY <1>1, ElementsOf
<1>7. QED
  BY <1>1, <1>5, <1>6

\* What goes on to the tracking is fit for it: points of one chamber with hits
\* in at least hmin_hit layers and one hit per layer, in every choice
\* (h_choose_single_hit reduces before select_space_points_hks counts).
THEOREM PointsFit == Spec => []FitForTracking
<1>1. ASSUME SpaceInv  PROVE FitForTracking
  <2>1. SUFFICES ASSUME NEW n \in DOMAIN total,
                        NEW hits \in {total[n].point.hits} \union ToSet(total[n].point.choices)
                 PROVE  LET chamber == event[total[n].chamber] IN
                        /\ ToSet(hits) \subseteq DOMAIN chamber
                        /\ Cardinality({chamber[i].layer : i \in ToSet(hits)}) = Len(hits)
                        /\ Len(hits) >= MinHit
    BY DEF FitForTracking
  <2> DEFINE p == total[n].point
             chamber == event[total[n].chamber]
  <2>2. Reduced(chamber, p) /\ Len(p.hits) >= MinHit
    BY <1>1 DEF SpaceInv, FitInv
  <2> HIDE DEF p, chamber
  <2>3. OnePerLayer(chamber, p.hits)
    BY <2>2 DEF Reduced
  <2>4. OnePerLayer(chamber, hits) /\ LayersOf(chamber, p.hits) \subseteq LayersOf(chamber, hits)
    <3>1. CASE hits = p.hits
      BY <2>3, <3>1
    <3>2. CASE hits \in ToSet(p.choices)
      <4>1. PICK k \in DOMAIN p.choices : hits = p.choices[k]
        BY <3>2 DEF ToSet
      <4>2. QED
        BY <2>2, <4>1 DEF Reduced
    <3>3. QED
      BY <3>1, <3>2 DEF p
  <2>5. /\ IsFiniteSet(LayersOf(chamber, hits)) /\ Cardinality(LayersOf(chamber, hits)) = Len(hits)
        /\ ToSet(hits) \subseteq DOMAIN chamber /\ Len(hits) \in Nat
    BY <2>4, LayersCount
  <2>6. /\ IsFiniteSet(LayersOf(chamber, p.hits))
        /\ Cardinality(LayersOf(chamber, p.hits)) = Len(p.hits) /\ Len(p.hits) \in Nat
    BY <2>3, LayersCount
  <2>7. Cardinality(LayersOf(chamber, p.hits)) <= Cardinality(LayersOf(chamber, hits))
    BY <2>4, <2>5, FS_Subset
  <2>8. Len(hits) >= MinHit
    BY <2>2, <2>5, <2>6, <2>7, ConstantTypes
  <2>9. QED
    BY <2>5, <2>8 DEF LayersOf, chamber
<1>2. QED
  BY <1>1, SpaceInvariant, PTL

-----------------------------------------------------------------------------
(* The earliest hit.                                                       *)

\* best is of the earliest of the first n hits within the window.
IsBest(best, hits, n) ==
  /\ best.min \in Int
  /\ \A k \in 1 .. n : InTime(hits[k]) => best.min <= Hits[hits[k]].time
  /\ \/ best.hit = 0 /\ best.min = 500 * Unit
     \/ \E k \in 1 .. n : /\ best.hit = hits[k] /\ InTime(hits[k])
                          /\ best.min = Hits[hits[k]].time

\* One more hit: if it is not later it is the earliest.
LEMMA BestGoesOn ==
  ASSUME event \in Events, ich \in DOMAIN event, WholeTimes,
         NEW hits \in Seq(DOMAIN Hits), NEW n \in 1 .. Len(hits), NEW best, IsBest(best, hits, n - 1)
  PROVE  IsBest(IF InTime(hits[n]) /\ Hits[hits[n]].time <= best.min
                THEN [min |-> Whole(Hits[hits[n]].time), hit |-> hits[n]] ELSE best, hits, n)
<1> DEFINE h == hits[n]
<1>1. n \in Nat /\ n >= 1 /\ Len(hits) \in Nat /\ \A k \in 1 .. Len(hits) : hits[k] \in DOMAIN Hits
  OBVIOUS
<1>2. \A k \in 1 .. n : k \in 1 .. Len(hits) /\ (k = n \/ k \in 1 .. n - 1)
  BY <1>1
<1>3. \A k \in 1 .. n : Hits[hits[k]].time \in Int
  BY <1>1, <1>2, HitsAre
<1>4. Whole(Hits[h].time) = Hits[h].time
  BY <1>1 DEF WholeTimes, Hits
<1>5. n \in 1 .. n /\ \A k \in 1 .. n - 1 : k \in 1 .. n
  BY <1>1
<1>6. CASE InTime(h) /\ Hits[h].time <= best.min
  <2> DEFINE new == [min |-> Hits[h].time, hit |-> h]
  <2>1. ASSUME NEW k \in 1 .. n, InTime(hits[k])  PROVE new.min <= Hits[hits[k]].time
    <3>1. CASE k = n
      BY <1>3, <3>1
    <3>2. CASE k # n
      <4>1. best.min <= Hits[hits[k]].time /\ best.min \in Int
        BY <1>2, <2>1, <3>2 DEF IsBest
      <4>2. QED
        BY <1>3, <1>5, <1>6, <4>1
    <3>3. QED
      BY <3>1, <3>2
  <2>2. new.min \in Int
    BY <1>3, <1>5
  <2>3. IsBest(new, hits, n)
    BY <1>5, <1>6, <2>1, <2>2 DEF IsBest
  <2>4. QED
    BY <1>4, <1>6, <2>3
<1>7. CASE ~ (InTime(h) /\ Hits[h].time <= best.min)
  <2>1. best.min \in Int
    BY DEF IsBest
  <2>2. ASSUME NEW k \in 1 .. n, InTime(hits[k])  PROVE best.min <= Hits[hits[k]].time
    <3>1. CASE k = n
      BY <1>3, <1>5, <1>7, <2>1, <2>2, <3>1
    <3>2. CASE k # n
      BY <1>2, <2>2, <3>2 DEF IsBest
    <3>3. QED
      BY <3>1, <3>2
  <2>3. \/ best.hit = 0 /\ best.min = 500 * Unit
        \/ \E k \in 1 .. n : /\ best.hit = hits[k] /\ InTime(hits[k])
                             /\ best.min = Hits[hits[k]].time
    BY <1>5 DEF IsBest
  <2>4. IsBest(best, hits, n)
    BY <2>1, <2>2, <2>3 DEF IsBest
  <2>5. QED
    BY <1>7, <2>4
<1>8. QED
  BY <1>6, <1>7

\* A time cut to whole units is an integer.
LEMMA WholeIs ==
  ASSUME NEW t \in Int
  PROVE  Whole(t) \in Int
<1>1. Unit \in Nat /\ Unit > 0
  BY ConstantTypes
<1>2. t % Unit \in Int /\ (-t) % Unit \in Int
  BY <1>1
<1>3. QED
  BY <1>2 DEF Whole

\* What the loop over the hits of a layer makes of one more.
Best(hits, n, x) ==
  IF InTime(hits[n]) /\ Hits[hits[n]].time <= x.min
  THEN [min |-> Whole(Hits[hits[n]].time), hit |-> hits[n]] ELSE x

\* The loop over the hits of a layer, hit by hit.
LEMMA EarliestUnfolds ==
  ASSUME event \in Events, ich \in DOMAIN event, NEW hits \in Seq(DOMAIN Hits)
  PROVE  \E best : /\ Earliest(hits) = best[Len(hits)]
                   /\ best[0] = [min |-> 500 * Unit, hit |-> 0]
                   /\ \A n \in 1 .. Len(hits) : best[n] = Best(hits, n, best[n - 1])
<1> DEFINE N == Len(hits)
           V == [min : Int, hit : {0} \union DOMAIN Hits]
           a == [min |-> 500 * Unit, hit |-> 0]
           P(n, x) == IF InTime(hits[n]) /\ Hits[hits[n]].time <= x.min
                      THEN [min |-> Whole(Hits[hits[n]].time), hit |-> hits[n]] ELSE x
           F == [n \in 1 .. N |-> [x \in V |-> P(n, x)]]
           Is(g) == g = [n \in 0 .. N |-> IF n = 0 THEN a ELSE P(n, g[n - 1])]
           best == CHOOSE g : Is(g)
<1>1. N \in Nat /\ \A n \in 1 .. N : hits[n] \in DOMAIN Hits
  OBVIOUS
<1>2. a \in V
  BY ConstantTypes
<1>3. ASSUME NEW n \in 1 .. N, NEW x \in V  PROVE P(n, x) \in V
  <2>1. hits[n] \in DOMAIN Hits /\ Whole(Hits[hits[n]].time) \in Int
    BY <1>1, HitsAre, WholeIs
  <2>2. [min |-> Whole(Hits[hits[n]].time), hit |-> hits[n]] \in V
    BY <2>1
  <2>3. QED
    BY <2>2
<1>4. Earliest(hits) = best[N]
  BY DEF Earliest
<1> HIDE DEF P, N, V, a
<1>5. F \in [1 .. N -> [V -> V]]
  BY <1>3
<1>6. PICK g : IsRecursionTo(g, N, V, a, F)
  <2> HIDE DEF F
  <2>1. QED
    BY <1>1, <1>2, <1>5, RecursionTo
<1>7. Is(g)
  <2>1. g \in [0 .. N -> V] /\ g[0] = a
    BY <1>6 DEF IsRecursionTo
  <2>2. ASSUME NEW n \in 1 .. N  PROVE g[n] = P(n, g[n - 1])
    <3>1. n - 1 \in 0 .. N /\ g[n - 1] \in V
      BY <1>1, <2>1
    <3>2. g[n] = F[n][g[n - 1]]
      BY <1>6 DEF IsRecursionTo
    <3>3. QED
      BY <3>1, <3>2
  <2>3. ASSUME NEW n \in 0 .. N  PROVE g[n] = IF n = 0 THEN a ELSE P(n, g[n - 1])
    <3>1. n = 0 \/ (n \in 1 .. N /\ n # 0)
      BY <1>1
    <3>2. QED
      BY <2>1, <2>2, <3>1, Zenon
  <2>4. QED
    BY <2>1, <2>3
<1>8. Is(best)
  BY <1>7, Zenon
<1> HIDE DEF best
<1>9. best[0] = a /\ \A n \in 1 .. N : best[n] = P(n, best[n - 1])
  BY <1>1, <1>8
<1>10. \A n \in 1 .. N : P(n, best[n - 1]) = Best(hits, n, best[n - 1])
  BY DEF P, Best
<1>11. QED
  BY <1>4, <1>9, <1>10 DEF N, a

\* Earliest finds the earliest of all.
LEMMA EarliestIs ==
  ASSUME event \in Events, ich \in DOMAIN event, WholeTimes, NEW hits \in Seq(DOMAIN Hits)
  PROVE  IsBest(Earliest(hits), hits, Len(hits))
<1> DEFINE N == Len(hits)
           a == [min |-> 500 * Unit, hit |-> 0]
<1>1. N \in Nat /\ \A n \in 1 .. N : hits[n] \in DOMAIN Hits
  OBVIOUS
<1>2. PICK best : /\ Earliest(hits) = best[N]
                  /\ best[0] = a /\ \A n \in 1 .. N : best[n] = Best(hits, n, best[n - 1])
  BY EarliestUnfolds
<1>3. IsBest(a, hits, 0)
  BY ConstantTypes DEF IsBest
<1>4. ASSUME NEW n \in 1 .. N, NEW x, IsBest(x, hits, n - 1)  PROVE IsBest(Best(hits, n, x), hits, n)
  BY <1>4, BestGoesOn DEF Best
<1> HIDE DEF N, a
<1> DEFINE S == {n \in 0 .. N : IsBest(best[n], hits, n)}
<1>5. 0 \in S
  BY <1>1, <1>2, <1>3
<1>6. ASSUME NEW k \in 0 .. N - 1, k \in S  PROVE k + 1 \in S
  <2>1. k + 1 \in 1 .. N /\ (k + 1) - 1 = k /\ k + 1 \in 0 .. N
    BY <1>1
  <2>2. IsBest(best[k], hits, (k + 1) - 1) /\ best[k + 1] = Best(hits, k + 1, best[(k + 1) - 1])
    BY <1>2, <1>6, <2>1
  <2>3. IsBest(best[k + 1], hits, k + 1)
    BY <1>4, <2>1, <2>2
  <2>4. QED
    BY <2>1, <2>3
<1> HIDE DEF S
<1>7. 0 .. N \subseteq S
  BY <1>1, <1>5, <1>6, UpTo
<1>8. N \in S
  BY <1>1, <1>7
<1>9. QED
  BY <1>2, <1>8 DEF S, N

\* The hit found is one in the window, if there is one.
IsSome(best, hits, n) ==
  /\ best.min \in Int
  /\ \/ best.hit = 0 /\ best.min = 500 * Unit /\ \A k \in 1 .. n : ~InTime(hits[k])
     \/ \E k \in 1 .. n : best.hit = hits[k] /\ InTime(hits[k])

\* Earliest finds a hit in the window, if there is one.
LEMMA EarliestSome ==
  ASSUME event \in Events, ich \in DOMAIN event, NEW hits \in Seq(DOMAIN Hits)
  PROVE  IsSome(Earliest(hits), hits, Len(hits))
<1> DEFINE N == Len(hits)
           a == [min |-> 500 * Unit, hit |-> 0]
<1>1. N \in Nat /\ \A n \in 1 .. N : hits[n] \in DOMAIN Hits
  OBVIOUS
<1>2. PICK best : /\ Earliest(hits) = best[N]
                  /\ best[0] = a /\ \A n \in 1 .. N : best[n] = Best(hits, n, best[n - 1])
  BY EarliestUnfolds
<1>3. IsSome(a, hits, 0)
  BY ConstantTypes DEF IsSome
<1>4. ASSUME NEW n \in 1 .. N, NEW x, IsSome(x, hits, n - 1)  PROVE IsSome(Best(hits, n, x), hits, n)
  <2> DEFINE h == hits[n]
             new == [min |-> Whole(Hits[h].time), hit |-> h]
  <2>1. n \in Nat /\ n >= 1 /\ n \in 1 .. n /\ \A k \in 1 .. n : k = n \/ k \in 1 .. n - 1
    BY <1>1
  <2>2. Hits[h].time \in Int /\ Whole(Hits[h].time) \in Int
    BY <1>1, HitsAre, WholeIs
  <2>3. x.min \in Int
    BY <1>4 DEF IsSome
  <2>4. CASE InTime(h) /\ Hits[h].time <= x.min
    <3>1. IsSome(new, hits, n)
      BY <2>1, <2>2, <2>4 DEF IsSome
    <3>2. QED
      BY <2>4, <3>1 DEF Best
  <2>5. CASE ~ (InTime(h) /\ Hits[h].time <= x.min)
    <3>1. CASE x.hit = 0 /\ x.min = 500 * Unit /\ \A k \in 1 .. n - 1 : ~InTime(hits[k])
      <4>1. ~InTime(h)
        BY <2>2, <2>5, <3>1, ConstantTypes DEF InTime, MaxTime
      <4>2. IsSome(x, hits, n)
        BY <2>1, <2>3, <3>1, <4>1 DEF IsSome
      <4>3. QED
        BY <2>5, <4>2 DEF Best
    <3>2. CASE \E k \in 1 .. n - 1 : x.hit = hits[k] /\ InTime(hits[k])
      <4>1. \A k \in 1 .. n - 1 : k \in 1 .. n
        BY <2>1
      <4>2. IsSome(x, hits, n)
        BY <2>3, <3>2, <4>1 DEF IsSome
      <4>3. QED
        BY <2>5, <4>2 DEF Best
    <3>3. QED
      BY <1>4, <3>1, <3>2 DEF IsSome
  <2>6. QED
    BY <2>4, <2>5
<1> HIDE DEF N, a
<1> DEFINE S == {n \in 0 .. N : IsSome(best[n], hits, n)}
<1>5. 0 \in S
  BY <1>1, <1>2, <1>3
<1>6. ASSUME NEW k \in 0 .. N - 1, k \in S  PROVE k + 1 \in S
  <2>1. k + 1 \in 1 .. N /\ (k + 1) - 1 = k /\ k + 1 \in 0 .. N
    BY <1>1
  <2>2. IsSome(best[k], hits, (k + 1) - 1) /\ best[k + 1] = Best(hits, k + 1, best[(k + 1) - 1])
    BY <1>2, <1>6, <2>1
  <2>3. IsSome(best[k + 1], hits, k + 1)
    BY <1>4, <2>1, <2>2
  <2>4. QED
    BY <2>1, <2>3
<1> HIDE DEF S
<1>7. 0 .. N \subseteq S
  BY <1>1, <1>5, <1>6, UpTo
<1>8. N \in S
  BY <1>1, <1>7
<1>9. QED
  BY <1>2, <1>8 DEF S, N

\* Of the hits of a layer the one kept is in the window, if any is, and none
\* in the window is earlier.
LEMMA KeptIsEarliest ==
  ASSUME event \in Events, ich \in DOMAIN event, WholeTimes, NEW hits \in Seq(DOMAIN Hits),
         NEW i \in ToSet(hits), Kept(hits, i), NEW j \in ToSet(hits),
         Hits[j].layer = Hits[i].layer, InTime(j)
  PROVE  InTime(i) /\ Hits[i].time <= Hits[j].time
<1>1. i \in DOMAIN Hits /\ j \in DOMAIN Hits
  BY ElementsOf
<1>2. Hits[i].time \in Int /\ Hits[j].time \in Int
  BY <1>1, HitsAre
<1>3. CASE i = j
  BY <1>2, <1>3
<1>4. CASE i # j
  <2> DEFINE l == Hits[i].layer
             others == InLayerOf(hits, l)
             best == Earliest(others)
  <2>1. Len(others) > 1
    BY <1>4, SeveralInLayer
  <2>2. best.hit = i
    BY <2>1 DEF Kept
  <2>3. others \in Seq(DOMAIN Hits) /\ ToSet(others) = ToSet(hits) \intersect InLayer(l)
    BY ThoseProperties DEF InLayerOf
  <2>4. j \in ToSet(others)
    BY <1>1, <2>3 DEF InLayer
  <2> HIDE DEF others, l
  <2>5. IsBest(best, others, Len(others))
    BY <2>3, EarliestIs
  <2> HIDE DEF best
  <2>6. PICK m \in 1 .. Len(others) : others[m] = j
    BY <2>3, <2>4 DEF ToSet
  <2>7. best.min <= Hits[j].time /\ best.min \in Int
    BY <2>5, <2>6 DEF IsBest
  <2>8. i # 0
    BY <1>1, HitsAre
  <2>9. PICK k \in 1 .. Len(others) : /\ best.hit = others[k] /\ InTime(others[k])
                                      /\ best.min = Hits[others[k]].time
    BY <2>2, <2>5, <2>8 DEF IsBest
  <2>10. QED
    BY <1>2, <2>2, <2>7, <2>9
<1>5. QED
  BY <1>3, <1>4

\* With times in whole units h_choose_single_hit keeps the earliest hit of a
\* layer within the window of times, as its comment says.
THEOREM EarliestKept == ASSUME WholeTimes PROVE Spec => KeepsEarliest
<1> DEFINE Kept1 == stage = "choose" =>
                      \A n \in DOMAIN points : \A i \in ToSet(points'[n].hits) :
                        \A j \in ToSet(points[n].hits) :
                          Hits[j].layer = Hits[i].layer /\ InTime(j)
                            => InTime(i) /\ Hits[i].time <= Hits[j].time
<1>1. ASSUME SpaceInv, Next  PROVE Kept1
  <2>1. SUFFICES ASSUME stage = "choose", NEW n \in DOMAIN points,
                        NEW i \in ToSet(points'[n].hits), NEW j \in ToSet(points[n].hits),
                        Hits[j].layer = Hits[i].layer, InTime(j)
                 PROVE  InTime(i) /\ Hits[i].time <= Hits[j].time
    OBVIOUS
  <2>2. ChooseSingleHit
    BY <1>1, <2>1 DEF Next, SkipChamber, FindEasySpacePoint, FindCombos, TakeCombo, CombosTaken,
                      LimitPoints, SelectSpacePoints, NextChamber
  <2>3. points'[n] = Chosen(points[n])
    BY <2>2 DEF ChooseSingleHit
  <2>4. event \in Events /\ ich \in DOMAIN event
    BY <1>1 DEF SpaceInv, TypeOK
  <2>5. /\ points[n] \in PointType /\ points[n].hits \in Seq(DOMAIN Hits)
        /\ IsInjective(points[n].hits)
    BY <1>1, <2>1, PointsAre DEF PointsOf, Working
  <2>6. i \in ToSet(points[n].hits) /\ Kept(points[n].hits, i)
    BY <2>3, <2>4, <2>5, ChosenIs
  <2>7. QED
    BY <2>1, <2>4, <2>5, <2>6, KeptIsEarliest
<1>2. SpaceInv /\ [Next]_vars => [Kept1]_vars
  <2> HIDE DEF Kept1
  <2>1. QED
    BY <1>1
<1> HIDE DEF Kept1
<1>3. Spec => [][Kept1]_vars
  BY <1>2, SpaceInvariant, PTL DEF Spec
<1>4. QED
  BY <1>3 DEF KeepsEarliest, Kept1

-----------------------------------------------------------------------------
(* All choices.                                                            *)

\* The hits a point may keep of a layer, as ChoicesComplete has them: those in
\* the window, or the only one.
OfLayer(hits, l) == {i \in ToSet(hits) : Hits[i].layer = l}
UsableIn(hits, l) == {i \in OfLayer(hits, l) : InTime(i) \/ OfLayer(hits, l) = {i}}

\* Of the hits of a layer one that is kept is usable; one is kept if any is
\* usable, and an only hit is kept.
LEMMA KeptWhich ==
  ASSUME event \in Events, ich \in DOMAIN event, NEW hits \in Seq(DOMAIN Hits), IsInjective(hits),
         NEW l, NEW i \in OfLayer(hits, l)
  PROVE  /\ Kept(hits, i) => i \in UsableIn(hits, l)
         /\ OfLayer(hits, l) = {i} => Kept(hits, i)
         /\ InTime(i) => \E j \in OfLayer(hits, l) : Kept(hits, j)
<1> DEFINE others == InLayerOf(hits, l)
           first == Earliest(others)
<1>1. i \in ToSet(hits) /\ i \in DOMAIN Hits /\ Hits[i].layer = l
  BY ElementsOf DEF OfLayer
<1>2. /\ others \in Seq(DOMAIN Hits) /\ ToSet(others) = ToSet(hits) \intersect InLayer(l)
      /\ IsInjective(others)
  BY ThoseProperties DEF InLayerOf
<1>3. ToSet(others) = OfLayer(hits, l)
  <2>1. ToSet(hits) \subseteq DOMAIN Hits
    BY ElementsOf
  <2>2. QED
    BY <1>2, <2>1 DEF OfLayer, InLayer
<1>4. \A j \in OfLayer(hits, l) : Kept(hits, j) <=> (Len(others) > 1 => first.hit = j)
  BY DEF Kept, OfLayer
<1> HIDE DEF others
<1>5. IsSome(first, others, Len(others))
  BY <1>2, EarliestSome
<1> HIDE DEF first
<1>6. Len(others) \in Nat /\ DOMAIN others = 1 .. Len(others)
  BY <1>2
<1>7. \A k \in 1 .. Len(others) : others[k] \in OfLayer(hits, l)
  BY <1>3, <1>6 DEF ToSet
<1>8. CASE Len(others) > 1
  <2>1. OfLayer(hits, l) # {i}
    <3>1. 1 \in 1 .. Len(others) /\ 2 \in 1 .. Len(others)
      BY <1>6, <1>8
    <3>2. others[1] # others[2]
      BY <1>2, <1>6, <3>1 DEF IsInjective
    <3>3. QED
      BY <1>7, <3>1, <3>2
  <2>2. ASSUME first.hit = i  PROVE InTime(i)
    <3>1. i # 0
      BY <1>1, HitsAre
    <3>2. QED
      BY <1>5, <2>2, <3>1 DEF IsSome
  <2>3. ASSUME InTime(i)  PROVE \E j \in OfLayer(hits, l) : first.hit = j
    <3>1. PICK m \in 1 .. Len(others) : others[m] = i
      BY <1>3, <1>6 DEF ToSet
    <3>2. \E k \in 1 .. Len(others) : first.hit = others[k]
      BY <1>5, <2>3, <3>1 DEF IsSome
    <3>3. QED
      BY <1>7, <3>2
  <2>4. QED
    BY <1>4, <1>8, <2>1, <2>2, <2>3 DEF UsableIn
<1>9. CASE ~ (Len(others) > 1)
  <2>1. OfLayer(hits, l) = {i}
    <3>1. ASSUME NEW j \in OfLayer(hits, l)  PROVE j = i
      <4>1. PICK a \in 1 .. Len(others), b \in 1 .. Len(others) : others[a] = i /\ others[b] = j
        BY <1>3, <1>6 DEF ToSet
      <4>2. a = 1 /\ b = 1
        BY <1>6, <1>9
      <4>3. QED
        BY <4>1, <4>2
    <3>2. QED
      BY <3>1
  <2>2. Kept(hits, i)
    BY <1>4, <1>9
  <2>3. QED
    BY <2>1, <2>2 DEF UsableIn
<1>10. QED
  BY <1>8, <1>9

\* The elements of a sequence without repetition are as many as it is long.
LEMMA ElementsCount ==
  ASSUME NEW V, NEW s \in Seq(V), IsInjective(s)
  PROVE  IsFiniteSet(ToSet(s)) /\ Cardinality(ToSet(s)) = Len(s) /\ Len(s) \in Nat
<1>1. Len(s) \in Nat /\ DOMAIN s = 1 .. Len(s)
  OBVIOUS
<1>2. \A r : r \in ToSet(s) <=> \E i \in 1 .. Len(s) : r = s[i]
  BY <1>1 DEF ToSet
<1>3. \A i, j \in 1 .. Len(s) : s[i] = s[j] => i = j
  BY <1>1 DEF IsInjective
<1>4. QED
  BY <1>1, <1>2, <1>3, ImagesCount

\* The candidates of a layer are its usable hits, each once; all but one of them
\* are to spare.
LEMMA CandidatesUsable ==
  ASSUME event \in Events, ich \in DOMAIN event, NoneAtMinTime,
         NEW hits \in Seq(DOMAIN Hits), IsInjective(hits), NEW l \in Layers
  PROVE  /\ Candidates(hits, l) \in Seq(DOMAIN Hits) /\ IsInjective(Candidates(hits, l))
         /\ ToSet(Candidates(hits, l)) = UsableIn(hits, l)
         /\ Len(Spare(hits, l)) \in Nat
         /\ UsableIn(hits, l) = {} => Len(Spare(hits, l)) = 0
         /\ UsableIn(hits, l) # {} => Len(Candidates(hits, l)) = Len(Spare(hits, l)) + 1
<1> DEFINE A == {i \in InLayer(l) : ~Kept(hits, i) /\ InTime(i)}
           spare == Those(hits, A)
           B == {i \in InLayer(l) : Kept(hits, i) \/ (i \in ToSet(spare) /\ Hits[i].time > MinTime)}
           cands == Those(hits, B)
           O == OfLayer(hits, l)
           U == UsableIn(hits, l)
<1>1. Spare(hits, l) = spare
  BY DEF Spare
<1>2. Candidates(hits, l) = cands
  BY <1>1 DEF Candidates
<1>3. \A i : i \in O <=> i \in ToSet(hits) /\ i \in InLayer(l)
  <2>1. ToSet(hits) \subseteq DOMAIN Hits
    BY ElementsOf
  <2>2. QED
    BY <2>1 DEF OfLayer, InLayer
<1>4. /\ spare \in Seq(DOMAIN Hits) /\ ToSet(spare) = ToSet(hits) \intersect A
      /\ IsInjective(spare)
  <2> HIDE DEF A
  <2>1. QED
    BY ThoseProperties
<1>5. /\ cands \in Seq(DOMAIN Hits) /\ ToSet(cands) = ToSet(hits) \intersect B
      /\ IsInjective(cands)
  <2> HIDE DEF B
  <2>1. QED
    BY ThoseProperties
<1>6. \A i : i \in ToSet(spare) <=> i \in O /\ ~Kept(hits, i) /\ InTime(i)
  BY <1>3, <1>4
<1> HIDE DEF spare, A
<1>7. ASSUME NEW i \in O, InTime(i)  PROVE Hits[i].time > MinTime
  <2>1. i \in DOMAIN Hits
    BY <1>7, ElementsOf DEF OfLayer
  <2>2. Hits[i].time \in Int /\ MinTime \in Int
    BY <2>1, HitsAre, ConstantTypes DEF MinTime
  <2>3. Hits[i].time # MinTime
    BY <2>1 DEF NoneAtMinTime, Hits
  <2>4. QED
    BY <1>7, <2>2, <2>3 DEF InTime
<1>8. \A i : i \in ToSet(cands) <=> i \in O /\ (Kept(hits, i) \/ InTime(i))
  BY <1>3, <1>5, <1>6, <1>7
<1> HIDE DEF cands, B
<1>9. \A i \in O : Kept(hits, i) \/ InTime(i) <=> i \in U
  <2>1. ASSUME NEW i \in O  PROVE Kept(hits, i) \/ InTime(i) <=> i \in U
    <3>1. (Kept(hits, i) => i \in U) /\ (O = {i} => Kept(hits, i))
      BY KeptWhich
    <3>2. QED
      BY <3>1 DEF UsableIn
  <2>2. QED
    BY <2>1
<1>10. U \subseteq O
  BY DEF UsableIn
<1>11. ToSet(cands) = U
  BY <1>8, <1>9, <1>10
<1>12. /\ IsFiniteSet(ToSet(spare)) /\ Cardinality(ToSet(spare)) = Len(spare) /\ Len(spare) \in Nat
       /\ Cardinality(ToSet(cands)) = Len(cands)
  BY <1>4, <1>5, ElementsCount
<1>13. ASSUME U = {}  PROVE Len(spare) = 0
  <2>1. ToSet(spare) = {}
    BY <1>6, <1>9, <1>13
  <2>2. QED
    BY <1>12, <2>1, FS_EmptySet
<1>14. ASSUME U # {}  PROVE Len(cands) = Len(spare) + 1
  <2>1. PICK k \in O : Kept(hits, k)
    <3>1. PICK i \in O : i \in U
      BY <1>10, <1>14
    <3>2. InTime(i) \/ O = {i}
      BY <3>1 DEF UsableIn
    <3>3. (O = {i} => Kept(hits, i)) /\ (InTime(i) => \E j \in O : Kept(hits, j))
      BY KeptWhich
    <3>4. QED
      BY <3>2, <3>3
  <2>2. \A i \in O : Kept(hits, i) => i = k
    BY <2>1, OneKept DEF OfLayer
  <2>3. k \notin ToSet(spare) /\ ToSet(cands) = ToSet(spare) \union {k}
    BY <1>6, <1>8, <2>1, <2>2
  <2>4. Cardinality(ToSet(spare) \union {k}) = Cardinality(ToSet(spare)) + 1
    BY <1>12, <2>3, FS_AddElement
  <2>5. QED
    BY <1>12, <2>3, <2>4
<1>15. QED
  BY <1>1, <1>2, <1>4, <1>5, <1>11, <1>12, <1>13, <1>14

\* The ways to choose a usable hit of each layer up to l that has any.
UsableTo(hits, l) == {i \in ToSet(hits) : Hits[i].layer <= l /\ i \in UsableIn(hits, Hits[i].layer)}
OneOf(S, k) == \E x \in S : Hits[x].layer = k /\ \A y \in S : Hits[y].layer = k => y = x
WaysTo(hits, l) ==
  {S \in SUBSET UsableTo(hits, l) : \A k \in 1 .. l : UsableIn(hits, k) # {} => OneOf(S, k)}

\* A way goes on with a usable hit of the next layer, or as it is if there is
\* none; and so does every way.
LEMMA WaysGoOn ==
  ASSUME event \in Events, ich \in DOMAIN event, NEW hits \in Seq(DOMAIN Hits), NEW l \in Layers
  PROVE  /\ UsableIn(hits, l) = {} => \A S : S \in WaysTo(hits, l) <=> S \in WaysTo(hits, l - 1)
         /\ UsableIn(hits, l) # {} =>
              \A S : S \in WaysTo(hits, l) <=>
                       \E R \in WaysTo(hits, l - 1) : \E y \in UsableIn(hits, l) : S = R \union {y}
         /\ \A y \in UsableTo(hits, l - 1) : y \notin UsableIn(hits, l)
<1> DEFINE U == UsableIn(hits, l)
           T == UsableTo(hits, l)
           T1 == UsableTo(hits, l - 1)
           OneThere(S, k) == UsableIn(hits, k) # {} => OneOf(S, k)
<1>1. l \in Nat /\ l >= 1
  BY ConstantTypes
<1>2. \A i \in ToSet(hits) : Hits[i].layer \in Nat
  <2>1. \A k \in Layers : k \in Nat
    BY ConstantTypes
  <2>2. QED
    BY <2>1, HitsAre, ElementsOf
<1>3. \A i : i \in U => i \in ToSet(hits) /\ Hits[i].layer = l
  BY DEF UsableIn, OfLayer
<1>4. \A i \in T1 : i \in ToSet(hits) /\ Hits[i].layer <= l - 1 /\ Hits[i].layer # l
  BY <1>1, <1>2 DEF UsableTo
<1>5. \A i : i \in T <=> i \in T1 \/ i \in U
  <2>1. ASSUME NEW i, i \in T  PROVE i \in T1 \/ i \in U
    <3>1. i \in ToSet(hits) /\ Hits[i].layer <= l /\ i \in UsableIn(hits, Hits[i].layer)
      BY <2>1 DEF UsableTo
    <3>2. Hits[i].layer = l \/ Hits[i].layer <= l - 1
      BY <1>1, <1>2, <3>1
    <3>3. QED
      BY <3>1, <3>2 DEF UsableTo
  <2>2. ASSUME NEW i, i \in T1  PROVE i \in T
    <3>1. i \in ToSet(hits) /\ Hits[i].layer <= l - 1 /\ i \in UsableIn(hits, Hits[i].layer)
      BY <2>2 DEF UsableTo
    <3>2. Hits[i].layer <= l
      BY <1>1, <1>2, <3>1
    <3>3. QED
      BY <3>1, <3>2 DEF UsableTo
  <2>3. ASSUME NEW i, i \in U  PROVE i \in T
    <3>1. l <= l
      BY <1>1
    <3>2. QED
      BY <1>3, <2>3, <3>1 DEF UsableTo
  <2>4. QED
    BY <2>1, <2>2, <2>3
<1>6. \A k : k \in 1 .. l <=> k \in 1 .. l - 1 \/ k = l
  BY <1>1
<1>7. /\ \A S : S \in WaysTo(hits, l) <=> S \subseteq T /\ \A k \in 1 .. l : OneThere(S, k)
      /\ \A S : S \in WaysTo(hits, l - 1) <=> S \subseteq T1 /\ \A k \in 1 .. l - 1 : OneThere(S, k)
  BY DEF WaysTo
<1>8. \A k \in 1 .. l - 1 : k # l
  BY <1>1
<1>9. ASSUME U = {}, NEW S  PROVE S \in WaysTo(hits, l) <=> S \in WaysTo(hits, l - 1)
  <2>1. \A i : i \in T <=> i \in T1
    BY <1>5, <1>9
  <2>2. OneThere(S, l)
    BY <1>9
  <2> HIDE DEF U, T, T1, OneThere
  <2>3. QED
    BY <1>6, <1>7, <2>1, <2>2
<1>10. ASSUME NEW R, NEW S, NEW y, y \in U, \A i : i \in S <=> i \in R \/ i = y, NEW k, k # l
       PROVE  OneThere(S, k) <=> OneThere(R, k)
  <2>1. \A i \in S : Hits[i].layer = k => i \in R
    BY <1>3, <1>10
  <2>2. R \subseteq S
    BY <1>10
  <2>3. OneOf(S, k) <=> OneOf(R, k)
    BY <2>1, <2>2 DEF OneOf
  <2>4. QED
    BY <2>3
<1>11. ASSUME U # {}, NEW S, S \in WaysTo(hits, l)
       PROVE  \E R \in WaysTo(hits, l - 1) : \E y \in U : S = R \union {y}
  <2>1. S \subseteq T /\ \A k \in 1 .. l : OneThere(S, k)
    BY <1>7, <1>11
  <2>2. OneOf(S, l)
    BY <1>1, <1>6, <1>11, <2>1
  <2>3. PICK y \in S : Hits[y].layer = l /\ \A x \in S : Hits[x].layer = l => x = y
    BY <2>2 DEF OneOf
  <2> DEFINE R == S \ {y}
  <2>4. y \in U
    BY <1>4, <1>5, <2>1, <2>3
  <2>5. R \subseteq T1
    BY <1>3, <1>5, <2>1, <2>3
  <2>6. \A i : i \in S <=> i \in R \/ i = y
    BY <2>3
  <2> HIDE DEF U, T, T1, OneThere, R
  <2>7. \A k \in 1 .. l - 1 : OneThere(R, k)
    BY <1>6, <1>8, <1>10, <2>1, <2>4, <2>6
  <2>8. R \in WaysTo(hits, l - 1)
    BY <1>7, <2>5, <2>7
  <2>9. S = R \union {y}
    BY <2>6
  <2>10. QED
    BY <2>4, <2>8, <2>9
<1>12. ASSUME NEW R \in WaysTo(hits, l - 1), NEW y \in U, NEW S, S = R \union {y}
       PROVE  S \in WaysTo(hits, l)
  <2>1. R \subseteq T1 /\ \A k \in 1 .. l - 1 : OneThere(R, k)
    BY <1>7
  <2>2. \A i : i \in S <=> i \in R \/ i = y
    BY <1>12
  <2>3. S \subseteq T
    BY <1>5, <2>1, <2>2
  <2>4. OneOf(S, l)
    BY <1>3, <1>4, <2>1, <2>2 DEF OneOf
  <2>5. OneThere(S, l)
    BY <2>4
  <2> HIDE DEF U, T, T1, OneThere
  <2>6. \A k \in 1 .. l - 1 : OneThere(S, k)
    BY <1>8, <1>10, <2>1, <2>2
  <2>7. QED
    BY <1>6, <1>7, <2>3, <2>5, <2>6
<1>13. \A y \in T1 : y \notin U
  BY <1>3, <1>4
<1>14. QED
  BY <1>9, <1>11, <1>12, <1>13

\* cs has the ways up to layer l, each once.
IsAll(cs, hits, l) ==
  /\ cs \in Seq(Seq(DOMAIN Hits))
  /\ \A S : S \in WaysTo(hits, l) <=> \E k \in DOMAIN cs : S = ToSet(cs[k])
  /\ \A j, k \in DOMAIN cs : ToSet(cs[j]) = ToSet(cs[k]) => j = k

\* Append adds one element.
LEMMA AppendElements ==
  ASSUME NEW V, NEW s \in Seq(V), NEW y
  PROVE  ToSet(Append(s, y)) = ToSet(s) \union {y}
<1> DEFINE t == Append(s, y)
<1>1. /\ Len(s) \in Nat /\ DOMAIN s = 1 .. Len(s) /\ DOMAIN t = 1 .. Len(s) + 1
      /\ t[Len(s) + 1] = y /\ \A i \in 1 .. Len(s) : t[i] = s[i]
  OBVIOUS
<1> HIDE DEF t
<1>2. \A i : i \in 1 .. Len(s) + 1 <=> i \in 1 .. Len(s) \/ i = Len(s) + 1
  BY <1>1
<1>3. \A x : x \in ToSet(t) <=> x \in ToSet(s) \/ x = y
  BY <1>1, <1>2 DEF ToSet
<1>4. QED
  BY <1>3 DEF t

\* The ways up to a layer, each once, make those up to the next.
LEMMA AllGoesOn ==
  ASSUME event \in Events, ich \in DOMAIN event, NoneAtMinTime,
         NEW hits \in Seq(DOMAIN Hits), IsInjective(hits), NEW l \in Layers,
         NEW cs, IsAll(cs, hits, l - 1)
  PROVE  LET next == IF Candidates(hits, l) = <<>> THEN cs ELSE Extended(cs, Candidates(hits, l))
         IN  IsAll(next, hits, l) /\ Len(next) = Len(cs) * (Len(Spare(hits, l)) + 1)
<1> DEFINE D == Seq(DOMAIN Hits)
           t == Candidates(hits, l)
           U == UsableIn(hits, l)
           T == UsableTo(hits, l - 1)
           m == Len(Spare(hits, l))
           E == Extended(cs, t)
<1>1. /\ t \in Seq(DOMAIN Hits) /\ IsInjective(t) /\ ToSet(t) = U /\ m \in Nat
      /\ U = {} => m = 0
      /\ U # {} => Len(t) = m + 1
  BY CandidatesUsable
<1>2. /\ U = {} => \A S : S \in WaysTo(hits, l) <=> S \in WaysTo(hits, l - 1)
      /\ U # {} => \A S : S \in WaysTo(hits, l) <=>
                            \E R \in WaysTo(hits, l - 1) : \E y \in U : S = R \union {y}
      /\ \A y \in T : y \notin U
  BY WaysGoOn
<1>3. /\ cs \in Seq(D)
      /\ \A S : S \in WaysTo(hits, l - 1) <=> \E k \in DOMAIN cs : S = ToSet(cs[k])
      /\ \A j, k \in DOMAIN cs : ToSet(cs[j]) = ToSet(cs[k]) => j = k
  BY DEF IsAll
<1>4. \A S \in WaysTo(hits, l - 1) : S \subseteq T
  BY DEF WaysTo
<1>5. \A c \in D : \A y \in DOMAIN Hits : Append(c, y) \in D /\ ToSet(Append(c, y)) = ToSet(c) \union {y}
  <2>1. ASSUME NEW c \in D, NEW y \in DOMAIN Hits
        PROVE  Append(c, y) \in D /\ ToSet(Append(c, y)) = ToSet(c) \union {y}
    BY AppendElements
  <2>2. QED
    BY <2>1
<1> DEFINE a == Len(cs)
           b == Len(t)
<1> HIDE DEF D, t, U, T, m
<1>6. a \in Nat /\ b \in Nat /\ DOMAIN cs = 1 .. a /\ DOMAIN t = 1 .. b
  BY <1>1, <1>3
<1>7. ASSUME t = <<>>
      PROVE  IsAll(cs, hits, l) /\ Len(cs) = Len(cs) * (m + 1)
  <2>1. U = {}
    BY <1>1, <1>7 DEF ToSet
  <2>2. \A S : S \in WaysTo(hits, l) <=> \E k \in DOMAIN cs : S = ToSet(cs[k])
    BY <1>2, <1>3, <2>1
  <2>3. IsAll(cs, hits, l)
    BY <1>3, <2>2 DEF IsAll, D
  <2>4. Len(cs) = Len(cs) * (m + 1)
    <3>1. m = 0 /\ a \in Nat
      BY <1>1, <1>6, <2>1
    <3> HIDE DEF a
    <3>2. a = a * (m + 1)
      BY <3>1
    <3>3. QED
      BY <3>2 DEF a
  <2>5. QED
    BY <2>3, <2>4
<1>8. ASSUME t # <<>>
      PROVE  IsAll(E, hits, l) /\ Len(E) = Len(cs) * (m + 1)
  <2>1. b # 0
    <3>1. t \in Seq(DOMAIN Hits)
      BY <1>1
    <3>2. QED
      BY <1>8, <3>1, EmptySeq
  <2>2. 1 \in 1 .. b
    BY <1>6, <2>1, SMTT(30)
  <2>3. U # {}
    BY <1>1, <1>6, <2>2 DEF ToSet
  <2>4. E \in Seq(D)
    BY <1>1, <1>3, <1>5, ExtendedIs
  <2>5. PICK row, col : Grid(E, cs, t, row, col)
    <3>1. cs \in Seq(D) /\ t \in Seq(DOMAIN Hits)
      BY <1>1, <1>3
    <3>2. QED
      BY <3>1, ExtendedGrid
  <2>6. Len(E) = a * b
    BY <1>1, <1>3, ExtendedGrid
  <2> HIDE DEF E
  <2>7. a * b \in Nat /\ DOMAIN E = 1 .. a * b
    BY <1>6, <2>4, <2>6
  <2>8. /\ \A k \in 1 .. a * b :
             /\ row[k] \in 1 .. a /\ col[k] \in 1 .. b
             /\ E[k] = Append(cs[row[k]], t[col[k]])
        /\ \A i \in 1 .. a : \A j \in 1 .. b : \E k \in 1 .. a * b : row[k] = i /\ col[k] = j
        /\ \A k, n \in 1 .. a * b : row[k] = row[n] /\ col[k] = col[n] => k = n
    BY <2>5 DEF Grid
  <2>9. ASSUME NEW k \in 1 .. a * b
        PROVE  /\ ToSet(E[k]) = ToSet(cs[row[k]]) \union {t[col[k]]}
               /\ ToSet(cs[row[k]]) \in WaysTo(hits, l - 1) /\ t[col[k]] \in U
    <3>1. row[k] \in 1 .. a /\ col[k] \in 1 .. b /\ E[k] = Append(cs[row[k]], t[col[k]])
      BY <2>8
    <3>2. cs[row[k]] \in D /\ t[col[k]] \in DOMAIN Hits /\ t[col[k]] \in U
      <4>1. row[k] \in DOMAIN cs /\ col[k] \in DOMAIN t
        BY <1>6, <3>1
      <4>2. cs \in Seq(D) /\ t \in Seq(DOMAIN Hits) /\ ToSet(t) = U
        BY <1>1, <1>3
      <4> HIDE DEF a, b
      <4>3. t[col[k]] \in ToSet(t) /\ t[col[k]] \in DOMAIN Hits
        BY <4>1, <4>2, ElementsOf
      <4>4. cs[row[k]] \in D
        BY <4>1, <4>2, ElementsOf
      <4>5. QED
        BY <4>2, <4>3, <4>4
    <3>3. ToSet(cs[row[k]]) \in WaysTo(hits, l - 1)
      BY <1>3, <1>6, <3>1
    <3>4. QED
      BY <1>5, <3>1, <3>2, <3>3
  <2>10. ASSUME NEW S, S \in WaysTo(hits, l)  PROVE \E k \in DOMAIN E : S = ToSet(E[k])
    <3>1. PICK R \in WaysTo(hits, l - 1), y \in U : S = R \union {y}
      BY <1>2, <2>3, <2>10
    <3>2. PICK i \in 1 .. a : R = ToSet(cs[i])
      BY <1>3, <1>6
    <3>3. PICK j \in 1 .. b : y = t[j]
      BY <1>1, <1>6 DEF ToSet
    <3>4. PICK k \in 1 .. a * b : row[k] = i /\ col[k] = j
      BY <2>8
    <3>5. QED
      BY <2>7, <2>9, <3>1, <3>2, <3>3, <3>4, SMTT(30)
  <2>11. ASSUME NEW k \in DOMAIN E  PROVE ToSet(E[k]) \in WaysTo(hits, l)
    BY <1>2, <2>3, <2>7, <2>9
  <2>12. ASSUME NEW j \in DOMAIN E, NEW k \in DOMAIN E, ToSet(E[j]) = ToSet(E[k])  PROVE j = k
    <3> DEFINE R == ToSet(cs[row[j]])
               Q == ToSet(cs[row[k]])
               y == t[col[j]]
               z == t[col[k]]
    <3>1. R \subseteq T /\ Q \subseteq T /\ y \in U /\ z \in U /\ R \union {y} = Q \union {z}
      BY <1>4, <2>7, <2>9, <2>12
    <3>2. R = Q /\ y = z
      <4>1. \A x \in T : x \notin U
        BY <1>2
      <4> HIDE DEF R, Q, y, z
      <4>2. y \in Q \union {z} /\ \A x : x \in R \/ x = y <=> x \in Q \/ x = z
        BY <3>1
      <4>3. y = z
        BY <3>1, <4>1, <4>2
      <4>4. \A x : x \in R <=> x \in Q
        BY <3>1, <4>1, <4>2, <4>3
      <4>5. QED
        BY <4>3, <4>4
    <3>3. row[j] \in 1 .. a /\ row[k] \in 1 .. a /\ col[j] \in 1 .. b /\ col[k] \in 1 .. b
      BY <2>8, <2>7, SMTT(30)
    <3>4. row[j] = row[k]
      BY <1>3, <1>6, <3>2, <3>3
    <3>5. col[j] = col[k]
      BY <1>1, <1>6, <3>2, <3>3 DEF IsInjective
    <3>6. QED
      BY <2>8, <2>7, <3>4, <3>5
  <2>13. IsAll(E, hits, l)
    BY <2>4, <2>10, <2>11, <2>12 DEF IsAll, D
  <2>14. b = m + 1
    BY <1>1, <2>3
  <2>15. QED
    BY <2>6, <2>13, <2>14
<1>9. CASE t = <<>>
  BY <1>7, <1>9 DEF t, m
<1>10. CASE t # <<>>
  BY <1>8, <1>10 DEF t, m
<1>11. QED
  BY <1>9, <1>10

\* The count of the choices, layer by layer.
LEMMA WaysUnfolds ==
  ASSUME event \in Events, ich \in DOMAIN event, NoneAtMinTime,
         NEW hits \in Seq(DOMAIN Hits), IsInjective(hits)
  PROVE  \E ways : /\ Ways(hits) = ways[Len(Directions)] /\ ways[0] = 1
                   /\ \A l \in 1 .. Len(Directions) : ways[l] = ways[l - 1] * (Len(Spare(hits, l)) + 1)
<1> DEFINE N == Len(Directions)
           P(l, x) == x * (Len(Spare(hits, l)) + 1)
           F == [l \in 1 .. N |-> [x \in Nat |-> P(l, x)]]
           Is(g) == g = [l \in 0 .. N |-> IF l = 0 THEN 1 ELSE P(l, g[l - 1])]
           ways == CHOOSE g : Is(g)
<1>1. N \in Nat /\ Layers = 1 .. N
  BY ConstantTypes
<1>2. ASSUME NEW l \in 1 .. N, NEW x \in Nat  PROVE P(l, x) \in Nat
  <2>1. Len(Spare(hits, l)) \in Nat
    BY <1>1, CandidatesUsable
  <2>2. QED
    BY <2>1
<1>3. Ways(hits) = ways[N]
  BY DEF Ways
<1> HIDE DEF P, N
<1>4. F \in [1 .. N -> [Nat -> Nat]]
  BY <1>2
<1>5. PICK g : IsRecursionTo(g, N, Nat, 1, F)
  <2> HIDE DEF F
  <2>1. QED
    BY <1>1, <1>4, RecursionTo
<1>6. Is(g)
  <2>1. g \in [0 .. N -> Nat] /\ g[0] = 1
    BY <1>5 DEF IsRecursionTo
  <2>2. ASSUME NEW l \in 1 .. N  PROVE g[l] = P(l, g[l - 1])
    <3>1. l - 1 \in 0 .. N /\ g[l - 1] \in Nat
      BY <1>1, <2>1
    <3>2. g[l] = F[l][g[l - 1]]
      BY <1>5 DEF IsRecursionTo
    <3>3. QED
      BY <3>1, <3>2
  <2>3. ASSUME NEW l \in 0 .. N  PROVE g[l] = IF l = 0 THEN 1 ELSE P(l, g[l - 1])
    <3>1. l = 0 \/ (l \in 1 .. N /\ l # 0)
      BY <1>1
    <3>2. QED
      BY <2>1, <2>2, <3>1, Zenon
  <2>4. QED
    BY <2>1, <2>3
<1>7. Is(ways)
  BY <1>6, Zenon
<1> HIDE DEF ways
<1>8. ways[0] = 1 /\ \A l \in 1 .. N : ways[l] = P(l, ways[l - 1])
  BY <1>1, <1>7
<1>9. QED
  BY <1>3, <1>8 DEF P, N

\* The loops make all ways, each once, and as many as were counted.
LEMMA AllMade ==
  ASSUME event \in Events, ich \in DOMAIN event, NoneAtMinTime,
         NEW hits \in Seq(DOMAIN Hits), IsInjective(hits)
  PROVE  /\ IsAll(AllChoices(hits), hits, Len(Directions))
         /\ Len(AllChoices(hits)) = Ways(hits)
<1> DEFINE N == Len(Directions)
           P(l, x) == IF Candidates(hits, l) = <<>> THEN x ELSE Extended(x, Candidates(hits, l))
           Q(l, n) == n * (Len(Spare(hits, l)) + 1)
<1>1. N \in Nat /\ Layers = 1 .. N
  BY ConstantTypes
<1>2. PICK choices : /\ AllChoices(hits) = choices[N]
                     /\ choices[0] = << <<>> >> /\ \A l \in 1 .. N : choices[l] = P(l, choices[l - 1])
  BY AllChoicesUnfolds
<1>3. PICK ways : /\ Ways(hits) = ways[N] /\ ways[0] = 1
                  /\ \A l \in 1 .. N : ways[l] = Q(l, ways[l - 1])
  BY WaysUnfolds
<1>4. ASSUME NEW l \in 1 .. N, NEW x, IsAll(x, hits, l - 1)
      PROVE  IsAll(P(l, x), hits, l) /\ Len(P(l, x)) = Q(l, Len(x))
  BY <1>1, <1>4, AllGoesOn
<1>5. IsAll(<< <<>> >>, hits, 0)
  <2> DEFINE none == << <<>> >>
  <2>1. UsableTo(hits, 0) = {}
    <3>1. \A i \in ToSet(hits) : ~ (Hits[i].layer <= 0)
      <4>1. \A k \in Layers : ~ (k <= 0)
        BY <1>1
      <4>2. QED
        BY <4>1, HitsAre, ElementsOf
    <3>2. QED
      BY <3>1 DEF UsableTo
  <2>2. \A S : S \in WaysTo(hits, 0) <=> S = {}
    BY <2>1 DEF WaysTo
  <2>3. none \in Seq(Seq(DOMAIN Hits)) /\ DOMAIN none = 1 .. 1 /\ none[1] = <<>>
    OBVIOUS
  <2>4. ToSet(<<>>) = {}
    BY DEF ToSet
  <2> HIDE DEF none
  <2>5. \A k \in DOMAIN none : k = 1
    BY <2>3
  <2>6. 1 \in DOMAIN none
    BY <2>3
  <2>7. \A S : S \in WaysTo(hits, 0) <=> \E k \in DOMAIN none : S = ToSet(none[k])
    BY <2>2, <2>3, <2>4, <2>5, <2>6
  <2>8. \A j, k \in DOMAIN none : ToSet(none[j]) = ToSet(none[k]) => j = k
    BY <2>5
  <2>9. IsAll(none, hits, 0)
    BY <2>3, <2>7, <2>8 DEF IsAll
  <2>10. QED
    BY <2>9 DEF none
<1>6. Len(<< <<>> >>) = 1
  OBVIOUS
<1> HIDE DEF P, Q, N
<1> DEFINE S == {l \in 0 .. N : IsAll(choices[l], hits, l) /\ Len(choices[l]) = ways[l]}
<1>7. 0 \in S
  <2>1. IsAll(choices[0], hits, 0)
    BY <1>2, <1>5, Zenon
  <2>2. Len(choices[0]) = ways[0]
    BY <1>2, <1>3, <1>6, Zenon
  <2>3. 0 \in 0 .. N
    BY <1>1
  <2>4. QED
    BY <2>1, <2>2, <2>3
<1>8. ASSUME NEW k \in 0 .. N - 1, k \in S  PROVE k + 1 \in S
  <2>1. k + 1 \in 1 .. N /\ (k + 1) - 1 = k /\ k + 1 \in 0 .. N
    BY <1>1
  <2>2. /\ IsAll(choices[k], hits, (k + 1) - 1) /\ Len(choices[k]) = ways[k]
        /\ choices[k + 1] = P(k + 1, choices[k]) /\ ways[k + 1] = Q(k + 1, ways[k])
    BY <1>2, <1>3, <1>8, <2>1
  <2>3. /\ IsAll(choices[k + 1], hits, k + 1)
        /\ Len(choices[k + 1]) = Q(k + 1, Len(choices[k]))
    BY <1>4, <2>1, <2>2
  <2>4. QED
    BY <2>1, <2>2, <2>3
<1> HIDE DEF S
<1>9. 0 .. N \subseteq S
  BY <1>1, <1>7, <1>8, UpTo
<1>10. N \in S
  BY <1>1, <1>9
<1>11. QED
  BY <1>2, <1>3, <1>10 DEF S, N

\* One of the hits of a layer, as ChoicesComplete says it.
LEMMA OneIs ==
  ASSUME event \in Events, ich \in DOMAIN event, NEW hits \in Seq(DOMAIN Hits), IsInjective(hits),
         NEW S \in SUBSET ToSet(hits), NEW l
  PROVE  Cardinality(S \intersect OfLayer(hits, l)) = 1 <=> OneOf(S, l)
<1> DEFINE X == S \intersect OfLayer(hits, l)
<1>1. \A x : x \in X <=> x \in S /\ Hits[x].layer = l
  BY DEF OfLayer
<1>2. IsFiniteSet(ToSet(hits)) /\ X \subseteq ToSet(hits)
  BY ElementsCount
<1> HIDE DEF X
<1>3. IsFiniteSet(X)
  BY <1>2, FS_Subset
<1>4. Cardinality(X) = 1 <=> \E x : X = {x}
  BY <1>3, FS_Singleton
<1>5. ASSUME NEW x, X = {x}  PROVE OneOf(S, l)
  BY <1>1, <1>5 DEF OneOf
<1>6. ASSUME OneOf(S, l)  PROVE \E x : X = {x}
  <2>1. PICK x \in S : Hits[x].layer = l /\ \A y \in S : Hits[y].layer = l => y = x
    BY <1>6 DEF OneOf
  <2>2. \A y : y \in X <=> y = x
    BY <1>1, <2>1
  <2>3. X = {x}
    BY <2>2
  <2>4. QED
    BY <2>3
<1>7. QED
  BY <1>4, <1>5, <1>6 DEF X

\* The ways of ChoicesComplete are those up to the last layer.
LEMMA WaysAre ==
  ASSUME event \in Events, ich \in DOMAIN event, NEW hits \in Seq(DOMAIN Hits), IsInjective(hits)
  PROVE  LET layer(l) == {i \in ToSet(hits) : Hits[i].layer = l}
             usable == {i \in ToSet(hits) : InTime(i) \/ layer(Hits[i].layer) = {i}}
             hit == {Hits[i].layer : i \in usable}
         IN  {S \in SUBSET usable : \A l \in hit : Cardinality(S \intersect layer(l)) = 1}
               = WaysTo(hits, Len(Directions))
<1> DEFINE N == Len(Directions)
           usable == {i \in ToSet(hits) : InTime(i) \/ OfLayer(hits, Hits[i].layer) = {i}}
           hit == {Hits[i].layer : i \in usable}
           ways == {S \in SUBSET usable : \A l \in hit : Cardinality(S \intersect OfLayer(hits, l)) = 1}
<1>1. \A i \in ToSet(hits) : Hits[i].layer \in 1 .. N /\ Hits[i].layer <= N
  <2>1. \A k \in Layers : k \in 1 .. N /\ k <= N
    BY ConstantTypes
  <2>2. QED
    BY <2>1, HitsAre, ElementsOf
<1>2. \A i : i \in usable <=> i \in ToSet(hits) /\ i \in UsableIn(hits, Hits[i].layer)
  BY DEF UsableIn, OfLayer
<1>3. usable = UsableTo(hits, N)
  BY <1>1, <1>2 DEF UsableTo
<1>4. \A l : l \in hit <=> l \in 1 .. N /\ UsableIn(hits, l) # {}
  <2>1. ASSUME NEW l, NEW i \in UsableIn(hits, l)  PROVE l \in hit
    <3>1. i \in ToSet(hits) /\ Hits[i].layer = l
      BY DEF UsableIn, OfLayer
    <3>2. QED
      BY <1>2, <3>1
  <2>2. QED
    BY <1>1, <1>2, <2>1
<1>5. usable \subseteq ToSet(hits)
  OBVIOUS
<1> HIDE DEF usable, hit, N
<1>6. \A S : S \in ways <=> S \in WaysTo(hits, N)
  <2>1. ASSUME NEW S, S \subseteq usable, NEW l
        PROVE  Cardinality(S \intersect OfLayer(hits, l)) = 1 <=> OneOf(S, l)
    BY <1>5, <2>1, OneIs
  <2>2. \A S : S \in ways <=>
                 S \subseteq usable /\ \A l \in hit : Cardinality(S \intersect OfLayer(hits, l)) = 1
    OBVIOUS
  <2>3. \A S : S \in WaysTo(hits, N) <=>
                 S \subseteq usable /\ \A l \in 1 .. N : UsableIn(hits, l) # {} => OneOf(S, l)
    BY <1>3 DEF WaysTo
  <2>4. QED
    BY <1>4, <2>1, <2>2, <2>3
<1>7. ways = WaysTo(hits, N)
  BY <1>6
<1>8. QED
  BY <1>7 DEF usable, hit, N, OfLayer

\* The ways are as many as the choices.
LEMMA WaysCounted ==
  ASSUME NEW hits, NEW l, NEW cs, IsAll(cs, hits, l)
  PROVE  Cardinality(WaysTo(hits, l)) = Len(cs) /\ Len(cs) \in Nat
<1>1. cs \in Seq(Seq(DOMAIN Hits))
  BY DEF IsAll
<1>2. Len(cs) \in Nat /\ DOMAIN cs = 1 .. Len(cs)
  BY <1>1
<1> DEFINE f == [k \in 1 .. Len(cs) |-> ToSet(cs[k])]
<1>3. \A k \in 1 .. Len(cs) : f[k] = ToSet(cs[k])
  OBVIOUS
<1> HIDE DEF f
<1> DEFINE n == Len(cs)
           W == WaysTo(hits, l)
<1>4. /\ \A S : S \in W <=> \E k \in 1 .. n : S = ToSet(cs[k])
      /\ \A j, k \in 1 .. n : ToSet(cs[j]) = ToSet(cs[k]) => j = k
  BY <1>2 DEF IsAll
<1> HIDE DEF n, W
<1>5. /\ \A S : S \in W <=> \E k \in 1 .. n : S = f[k]
      /\ \A j, k \in 1 .. n : f[j] = f[k] => j = k
  BY <1>3, <1>4 DEF n
<1>6. n \in Nat
  BY <1>2 DEF n
<1>7. Cardinality(W) = n
  BY <1>5, <1>6, ImagesCount
<1>8. QED
  BY <1>6, <1>7 DEF n, W

\* A hit is kept of the layers with a usable one and of no others.
LEMMA KeptLayers ==
  ASSUME event \in Events, ich \in DOMAIN event, NEW hits \in Seq(DOMAIN Hits), IsInjective(hits)
  PROVE  LET first == Those(hits, {i \in DOMAIN Hits : Kept(hits, i)})
             usable == {i \in ToSet(hits) : InTime(i) \/ OfLayer(hits, Hits[i].layer) = {i}}
         IN  Cardinality({Hits[i].layer : i \in usable}) = Len(first)
<1> DEFINE K == {i \in DOMAIN Hits : Kept(hits, i)}
           first == Those(hits, K)
           usable == {i \in ToSet(hits) : InTime(i) \/ OfLayer(hits, Hits[i].layer) = {i}}
           hit == {Hits[i].layer : i \in usable}
<1>1. OnePerLayer(Hits, first)
  BY KeptReduced
<1>2. ToSet(first) = ToSet(hits) \intersect K
  <2> HIDE DEF K
  <2>1. QED
    BY ThoseProperties
<1>3. \A i : i \in ToSet(first) <=> i \in ToSet(hits) /\ Kept(hits, i)
  BY <1>2, ElementsOf
<1> HIDE DEF first, K
<1>4. ASSUME NEW l, l \in LayersOf(Hits, first)  PROVE l \in hit
  <2>1. PICK i \in ToSet(first) : l = Hits[i].layer
    BY <1>4 DEF LayersOf
  <2>2. i \in OfLayer(hits, l) /\ Kept(hits, i) /\ i \in ToSet(hits)
    BY <1>3, <2>1 DEF OfLayer
  <2>3. i \in UsableIn(hits, l)
    BY <2>2, KeptWhich
  <2>4. i \in usable
    BY <2>1, <2>2, <2>3 DEF UsableIn
  <2>5. QED
    BY <2>1, <2>4
<1>5. ASSUME NEW i \in usable  PROVE Hits[i].layer \in LayersOf(Hits, first)
  <2> DEFINE l == Hits[i].layer
  <2>1. i \in OfLayer(hits, l) /\ (InTime(i) \/ OfLayer(hits, l) = {i})
    BY DEF OfLayer
  <2>2. \E j \in OfLayer(hits, l) : Kept(hits, j)
    <3> HIDE DEF l
    <3>1. /\ OfLayer(hits, l) = {i} => Kept(hits, i)
          /\ InTime(i) => \E j \in OfLayer(hits, l) : Kept(hits, j)
      BY <2>1, KeptWhich
    <3>2. QED
      BY <2>1, <3>1
  <2>3. PICK j \in OfLayer(hits, l) : Kept(hits, j)
    BY <2>2
  <2>4. j \in ToSet(first) /\ Hits[j].layer = l
    BY <1>3, <2>3 DEF OfLayer
  <2>5. QED
    BY <2>4 DEF LayersOf
<1>6. \A l : l \in LayersOf(Hits, first) <=> l \in hit
  BY <1>4, <1>5
<1> HIDE DEF hit
<1>7. LayersOf(Hits, first) = hit
  BY <1>6
<1>8. Cardinality(LayersOf(Hits, first)) = Len(first)
  BY <1>1, LayersCount
<1>9. QED
  BY <1>7, <1>8 DEF hit, first, K

\* If no drift time is where the window begins, h_choose_single_hit makes all
\* ways to take one hit per layer, each once, of a point with hits in five
\* layers or more, and none if they are too many or only one.
THEOREM ChoicesAllMade == ASSUME NoneAtMinTime PROVE Spec => ChoicesComplete
<1>1. ASSUME SpaceInv, Next, stage = "choose"  PROVE EveryWayChosen
  <2>1. ASSUME NEW n \in DOMAIN points
        PROVE  LET hits == ToSet(points[n].hits)
                   layer(l) == {i \in hits : Hits[i].layer = l}
                   usable == {i \in hits : InTime(i) \/ layer(Hits[i].layer) = {i}}
                   hit == {Hits[i].layer : i \in usable}
                   ways == {S \in SUBSET usable :
                              \A l \in hit : Cardinality(S \intersect layer(l)) = 1}
                   choices == points'[n].choices
               IN  IF Cardinality(hit) > 4 /\ Cardinality(ways) \in 2 .. MaxChoices
                   THEN /\ {ToSet(choices[k]) : k \in DOMAIN choices} = ways
                        /\ Len(choices) = Cardinality(ways)
                   ELSE choices = <<>>
    <3> DEFINE h == points[n].hits
               usable == {i \in ToSet(h) : InTime(i) \/ OfLayer(h, Hits[i].layer) = {i}}
               hit == {Hits[i].layer : i \in usable}
               ways == {S \in SUBSET usable : \A l \in hit : Cardinality(S \intersect OfLayer(h, l)) = 1}
               first == Those(h, {i \in DOMAIN Hits : Kept(h, i)})
               all == AllChoices(h)
               choices == points'[n].choices
    <3>1. ChooseSingleHit
      BY <1>1 DEF Next, SkipChamber, FindEasySpacePoint, FindCombos, TakeCombo, CombosTaken,
                  LimitPoints, SelectSpacePoints, NextChamber
    <3>2. points'[n] = Chosen(points[n])
      BY <3>1 DEF ChooseSingleHit
    <3>3. event \in Events /\ ich \in DOMAIN event
      BY <1>1 DEF SpaceInv, TypeOK
    <3>4. points[n] \in PointType /\ h \in Seq(DOMAIN Hits) /\ IsInjective(h)
      BY <1>1, PointsAre DEF PointsOf, Working
    <3>5. choices = IF Len(first) > 4 /\ Ways(h) > 1 /\ Ways(h) <= MaxChoices THEN all ELSE <<>>
      <4>1. points[n] = [x |-> points[n].x, y |-> points[n].y, combos |-> points[n].combos,
                         hits |-> points[n].hits, choices |-> points[n].choices]
        BY <3>4 DEF PointType
      <4>2. QED
        BY <3>2, <4>1 DEF Chosen
    <3>6. Cardinality(hit) = Len(first)
      BY <3>3, <3>4, KeptLayers
    <3>7. ways = WaysTo(h, Len(Directions))
      BY <3>3, <3>4, WaysAre DEF OfLayer
    <3>8. IsAll(all, h, Len(Directions)) /\ Len(all) = Ways(h)
      BY <3>3, <3>4, AllMade
    <3> HIDE DEF ways, hit, first, all, choices, h, usable
    <3>9. Cardinality(ways) = Len(all) /\ Len(all) \in Nat
      BY <3>7, <3>8, WaysCounted
    <3>10. Cardinality(ways) \in 2 .. MaxChoices <=> Ways(h) > 1 /\ Ways(h) <= MaxChoices
      BY <3>8, <3>9, ConstantTypes
    <3>11. {ToSet(all[k]) : k \in DOMAIN all} = ways
      <4>1. \A S : S \in ways <=> \E k \in DOMAIN all : S = ToSet(all[k])
        BY <3>7, <3>8 DEF IsAll
      <4>2. QED
        BY <4>1
    <3>12. IF Cardinality(hit) > 4 /\ Cardinality(ways) \in 2 .. MaxChoices
           THEN /\ {ToSet(choices[k]) : k \in DOMAIN choices} = ways
                /\ Len(choices) = Cardinality(ways)
           ELSE choices = <<>>
      BY <3>5, <3>6, <3>9, <3>10, <3>11
    <3>13. QED
      BY <3>12 DEF ways, hit, usable, choices, h, OfLayer
  <2>2. QED
    BY <2>1 DEF EveryWayChosen
<1>2. SpaceInv /\ [Next]_vars => [stage = "choose" => EveryWayChosen]_vars
  BY <1>1
<1>3. Spec => [][stage = "choose" => EveryWayChosen]_vars
  BY <1>2, SpaceInvariant, PTL DEF Spec
<1>4. QED
  BY <1>3 DEF ChoicesComplete
=============================================================================
