----------------------------- MODULE SpacePoints ------------------------------
(***************************************************************************)
(* Pattern recognition in the HKS drift chambers (h_pattern_recognition):  *)
(* per chamber, pairs of hits on wires of different direction give test    *)
(* points, pairs of test points close together give space points, each     *)
(* with its hits.  Of several hits in one layer a space point keeps the    *)
(* earliest and, if there are not too many, all ways to choose one hit per *)
(* layer.  Wire centres are even integers so that the points of two wires  *)
(* have integer coordinates; those of combinations are kept doubled.       *)
(***************************************************************************)
EXTENDS Integers, Sequences, SequencesExt, FiniteSets, Lists

CONSTANTS
  Directions,   \* per layer of a chamber, <<xsp, ysp>> of its wires
  XLayers,      \* xlayer and xprimelayer
  Criterion,    \* hspace_point_criterion, a squared distance
  MinHit, MinCombos, MaxPrHits,   \* hmin_hit, hmin_combos, hmax_pr_hits
  MaxPairs,     \* max_number_pairs
  MaxCombos,    \* max_number_comb
  MaxPoints,    \* hmax_space_points
  MaxKept,      \* the limit of h_pattern_recognition on the points of a chamber
  MaxChoices,   \* the limit of h_choose_single_hit on the choices
  Unit,         \* what a time of 1 is in the units of the model
  Events        \* the hits of a chamber there may be, sorted by layer

\* h_choose_single_hit's window of drift times.
MinTime == -5 * Unit
MaxTime == 125 * Unit

Layers == DOMAIN Directions

ASSUME SpacePointAssumption ==
  /\ Directions \in Seq({-1, 0, 1} \X {-1, 0, 1})
  /\ XLayers \in Layers \X Layers
  /\ \A l \in Layers : (Directions[l][2] = 0) <=> (l \in {XLayers[1], XLayers[2]})
  /\ {Criterion, MinHit, MinCombos, MaxPrHits, MaxPairs, MaxCombos, MaxPoints, MaxKept,
      MaxChoices, Unit} \subseteq Nat /\ Unit > 0 /\ MaxPoints > 0
  /\ \A chambers \in Events :
       /\ chambers \in Seq(Seq([layer : Layers, center : Int, time : Int])) /\ chambers # <<>>
       /\ \A c \in DOMAIN chambers : \A i \in DOMAIN chambers[c] :
            /\ chambers[c][i].center % 2 = 0
            /\ i > 1 => chambers[c][i - 1].layer <= chambers[c][i].layer

\* hmax_hits_per_point: h_choose_single_hit has room for that many and two.
HitsPerPoint == 50
ASSUME HitsPerPointAssumption ==
  \A chambers \in Events : \A c \in DOMAIN chambers : Len(chambers[c]) <= HitsPerPoint

VARIABLES
  event,     \* the hits of each chamber: layer, wire centre, drift time
  stage, ich,
  tests,     \* pair and test_points: the two hits and the point, in order
  combos,    \* combos: pairs of test points
  icombo,
  points,    \* space_points and space_point_hits of the chamber
  easy,      \* easy_space_point
  total      \* hspace_points: the points of all chambers

vars == <<event, stage, ich, tests, combos, icombo, points, easy, total>>

Hits == event[ich]
NoPoints == /\ tests' = <<>> /\ combos' = <<>> /\ icombo' = 1 /\ points' = <<>>

Init ==
  /\ event \in Events
  /\ stage = "find" /\ ich = 1
  /\ tests = <<>> /\ combos = <<>> /\ icombo = 1 /\ points = <<>>
  /\ easy = FALSE
  /\ total = <<>>

-----------------------------------------------------------------------------
(* Operators.                                                              *)

Square(n) == n * n
Distance(p, q) == Square(p.x - q.x) + Square(p.y - q.y)
Fewer(m, n) == IF m <= n THEN m ELSE n

\* The pairs of 1 .. n that are in T, in the order of the double loops.
PairsUpTo(n, T) == FlattenSeq([i \in 1 .. n |-> Those([j \in 1 .. n - i |-> <<i, i + j>>], T)])

First(n, s) == SubSeq(s, 1, Fewer(n, Len(s)))

Determinate(a, b) ==
  Directions[a.layer][1] * Directions[b.layer][2] - Directions[a.layer][2] * Directions[b.layer][1]

\* Where two wires cross.
TestPoint(i, j) ==
  LET a == Hits[i]
      b == Hits[j]
      det == Determinate(a, b)
      over(n) == IF det > 0 THEN n \div det ELSE (-n) \div (-det)
  IN  [first |-> i, second |-> j,
       x |-> over(a.center * Directions[b.layer][2] - b.center * Directions[a.layer][2]),
       y |-> over(b.center * Directions[a.layer][1] - a.center * Directions[b.layer][1])]

\* The first pairs of hits on wires that are not parallel.
TestPoints ==
  LET crossing == PairsUpTo(Len(Hits), {p \in (DOMAIN Hits) \X (DOMAIN Hits) :
                                          Determinate(Hits[p[1]], Hits[p[2]]) # 0})
  IN  [n \in DOMAIN First(MaxPairs, crossing) |-> TestPoint(crossing[n][1], crossing[n][2])]

\* The first pairs of test points within the criterion.
Combos(points1) ==
  First(MaxCombos, PairsUpTo(Len(points1),
                             {p \in (DOMAIN points1) \X (DOMAIN points1) :
                                Distance(points1[p[1]], points1[p[2]]) <= Criterion}))

\* (AddAgain: a mutant, a hit the point has is added again.)
AddAgain(hits, h) == Append(hits, h)

Add(hits, h) == IF h \in ToSet(hits) THEN hits ELSE Append(hits, h)

\* A combination's position, doubled, and its four hits, one or two of which
\* may be the same.
Combo(n) ==
  LET p == tests[combos[n][1]]
      q == tests[combos[n][2]]
  IN  [x |-> p.x + q.x, y |-> p.y + q.y, hits |-> <<p.first, p.second, q.first, q.second>>]

-----------------------------------------------------------------------------
(* h_find_easy_space_point: one hit in the x layer and one in x', close     *)
(* together, and the others in agreement with them.                        *)

InLayer(l) == {i \in DOMAIN Hits : Hits[i].layer = l}
XHit(n) == CHOOSE i \in InLayer(XLayers[n]) : TRUE

MayBeEasy ==
  /\ \A n \in {1, 2} : Cardinality(InLayer(XLayers[n])) = 1
  /\ Square(Hits[XHit(1)].center - Hits[XHit(2)].center) < Criterion
  /\ Len(Hits) <= 6

\* The y of the others at the x of the two, doubled; ysp is 1 or -1.
EasyX == Hits[XHit(1)].center + Hits[XHit(2)].center
OthersY ==
  LET others == Those([i \in DOMAIN Hits |-> i], (DOMAIN Hits) \ {XHit(1), XHit(2)})
  IN  [n \in DOMAIN others |->
         LET h == Hits[others[n]]
         IN  (2 * h.center - EasyX * Directions[h.layer][1]) * Directions[h.layer][2]]

\* All of them within sqrt(Criterion/2) of their mean.
IsEasy ==
  LET ys == OthersY
      n == Len(ys)
  IN  \A k \in DOMAIN ys : Square(Total(ys) - n * ys[k]) < 2 * Criterion * Square(n)

EasyPoint ==
  [x |-> EasyX,
   y |-> Total(OthersY) \div (IF OthersY = <<>> THEN 1 ELSE Len(OthersY)),
   combos |-> 0, hits |-> [i \in DOMAIN Hits |-> i], choices |-> <<>>]

-----------------------------------------------------------------------------
(* h_find_space_points.                                                    *)

\* hdc_hits_per_layer decides whether the chamber is looked at.
Considered == Len(Hits) >= MinHit /\ Len(Hits) < MaxPrHits

SkipChamber ==
  /\ stage = "find"
  /\ ~Considered
  /\ NoPoints
  /\ easy' = FALSE
  /\ stage' = "copy"
  /\ UNCHANGED <<event, ich, total>>

FindEasySpacePoint ==
  /\ stage = "find"
  /\ Considered
  /\ MayBeEasy /\ IsEasy
  /\ points' = <<EasyPoint>>
  /\ tests' = <<>> /\ combos' = <<>> /\ icombo' = 1
  /\ easy' = TRUE
  /\ stage' = "limit"
  /\ UNCHANGED <<event, ich, total>>

FindCombos ==
  /\ stage = "find"
  /\ Considered
  /\ ~(MayBeEasy /\ IsEasy)
  /\ tests' = TestPoints
  /\ combos' = Combos(tests')
  /\ icombo' = 1 /\ points' = <<>>
  /\ easy' = FALSE
  /\ stage' = "combos"
  /\ UNCHANGED <<event, ich, total>>

\* (NewPointPair: a mutant, only the first pair's hits are taken.)
NewPointPair(c) ==
  [x |-> c.x, y |-> c.y, combos |-> 1, hits |-> SubSeq(c.hits, 1, 2), choices |-> <<>>]

NewPoint(c) ==
  [x |-> c.x, y |-> c.y, combos |-> 1,
   hits |-> Add(Add(SubSeq(c.hits, 1, 2), c.hits[3]), c.hits[4]), choices |-> <<>>]

\* The combination's new hits are added to a point; its position stays.
Joined(p, c) ==
  [p EXCEPT !.combos = @ + 1,
            !.hits = Add(Add(Add(Add(@, c.hits[1]), c.hits[2]), c.hits[3]), c.hits[4])]

\* Far enough from every point that exists to be a new one.
Far(c) == \A i \in DOMAIN points : Distance(points[i], c) >= 12 * Criterion

\* The points that a combination belongs to; the first one gets it.
Near(c) == {i \in DOMAIN points : Distance(points[i], c) < 4 * Criterion}

HasRoom == Len(points) < MaxPoints

TakeCombo ==
  /\ stage = "combos"
  /\ icombo <= Len(combos)
  /\ LET c == Combo(icombo) IN
     points' =
       CASE Near(c) # {} ->
              LET i == CHOOSE i \in Near(c) : \A j \in Near(c) : i <= j
              IN  [points EXCEPT ![i] = Joined(@, c)]
         [] Near(c) = {} /\ HasRoom /\ Far(c) -> Append(points, NewPoint(c))
         [] OTHER -> points
  /\ icombo' = icombo + 1
  /\ UNCHANGED <<event, stage, ich, tests, combos, easy, total>>

CombosTaken ==
  /\ stage = "combos"
  /\ icombo > Len(combos)
  /\ stage' = "limit"
  /\ UNCHANGED <<event, ich, tests, combos, icombo, points, easy, total>>

-----------------------------------------------------------------------------
(* The rest of the chamber's work in h_pattern_recognition.                 *)

\* A chamber with too many points is given up.
LimitPoints ==
  /\ stage = "limit"
  /\ points' = IF Len(points) > MaxKept THEN <<>> ELSE points
  /\ stage' = IF points' = <<>> THEN "copy" ELSE "choose"
  /\ UNCHANGED <<event, ich, tests, combos, icombo, easy, total>>

InTime(i) == Hits[i].time >= MinTime /\ Hits[i].time <= MaxTime

InLayerOf(hits, l) == Those(hits, InLayer(l))

\* hdtmin is an integer: a real time is cut to whole units when stored in it.
Whole(time) == IF time >= 0 THEN time - (time % Unit) ELSE time + ((-time) % Unit)

\* (Latest: a mutant, the comparison is the other way round.)
Latest(hits) ==
  LET best[n \in 0 .. Len(hits)] ==
        IF n = 0 THEN [min |-> 0, hit |-> 0]
        ELSE IF InTime(hits[n]) /\ Hits[hits[n]].time >= best[n - 1].min
             THEN [min |-> Whole(Hits[hits[n]].time), hit |-> hits[n]] ELSE best[n - 1]
  IN  best[Len(hits)]

\* The earliest of a layer's hits within the window of times, 0 if none is.
Earliest(hits) ==
  LET best[n \in 0 .. Len(hits)] ==
        IF n = 0 THEN [min |-> 500 * Unit, hit |-> 0]
        ELSE IF InTime(hits[n]) /\ Hits[hits[n]].time <= best[n - 1].min
             THEN [min |-> Whole(Hits[hits[n]].time), hit |-> hits[n]] ELSE best[n - 1]
  IN  best[Len(hits)]

\* Of several hits in a layer one is kept, if one is in the window.
Kept(hits, i) ==
  LET others == InLayerOf(hits, Hits[i].layer)
  IN  Len(others) > 1 => Earliest(others).hit = i

\* (SpareOnce: a mutant, the hits of the first layer with several only.)
SpareOnce(hits, l) ==
  IF \E k \in Layers : k < l /\ Len(InLayerOf(hits, k)) > 1 THEN <<>>
  ELSE Those(hits, {i \in InLayer(l) : ~Kept(hits, i) /\ InTime(i)})

\* The hits of a layer that might be taken instead of the one kept.
Spare(hits, l) == Those(hits, {i \in InLayer(l) : ~Kept(hits, i) /\ InTime(i)})

\* The hits of a layer to choose from: the upper loops leave out a hit at the
\* very beginning of the window.
Candidates(hits, l) ==
  Those(hits, {i \in InLayer(l) :
                 Kept(hits, i) \/ (i \in ToSet(Spare(hits, l)) /\ Hits[i].time > MinTime)})

\* One hit per layer in every way, the last layer's changing fastest.
AllChoices(hits) ==
  LET choices[l \in 0 .. Len(Directions)] ==
        IF l = 0 THEN << <<>> >>
        ELSE IF Candidates(hits, l) = <<>> THEN choices[l - 1]
             ELSE Extended(choices[l - 1], Candidates(hits, l))
  IN  choices[Len(Directions)]

\* multinum, the number of choices; a spare hit at MinTime is counted here.
Ways(hits) ==
  LET ways[l \in 0 .. Len(Directions)] ==
        IF l = 0 THEN 1 ELSE ways[l - 1] * (Len(Spare(hits, l)) + 1)
  IN  ways[Len(Directions)]

\* hits are the finalnum hits kept; a point with choices has those instead.
Chosen(p) ==
  LET first == Those(p.hits, {i \in DOMAIN Hits : Kept(p.hits, i)})
      several == Len(first) > 4 /\ Ways(p.hits) > 1 /\ Ways(p.hits) <= MaxChoices
  IN  [p EXCEPT !.hits = first, !.choices = IF several THEN AllChoices(p.hits) ELSE <<>>]

ChooseSingleHit ==
  /\ stage = "choose"
  /\ points' = [n \in DOMAIN points |-> Chosen(points[n])]
  /\ stage' = "select"
  /\ UNCHANGED <<event, ich, tests, combos, icombo, easy, total>>

\* (GoodCombos: a mutant, the hits are not counted.)
GoodCombos(p) == p.combos >= MinCombos \/ easy

Good(p) == (p.combos >= MinCombos \/ easy) /\ Len(p.hits) >= MinHit

SelectSpacePoints ==
  /\ stage = "select"
  /\ points' = Those(points, {p \in ToSet(points) : Good(p)})
  /\ stage' = "copy"
  /\ UNCHANGED <<event, ich, tests, combos, icombo, easy, total>>

\* The chamber's points are appended to those of the chambers before it.
NextChamber ==
  /\ stage = "copy"
  /\ total' = total \o [n \in DOMAIN points |-> [chamber |-> ich, point |-> points[n]]]
  /\ ich' = IF ich < Len(event) THEN ich + 1 ELSE ich
  /\ stage' = IF ich < Len(event) THEN "find" ELSE "done"
  /\ UNCHANGED <<event, tests, combos, icombo, points, easy>>

-----------------------------------------------------------------------------

Next ==
  \/ SkipChamber \/ FindEasySpacePoint \/ FindCombos \/ TakeCombo \/ CombosTaken
  \/ LimitPoints \/ ChooseSingleHit \/ SelectSpacePoints \/ NextChamber

Spec == Init /\ [][Next]_vars

-----------------------------------------------------------------------------
(* Properties.                                                             *)

TestPointType == [first : Nat, second : Nat, x : Int, y : Int]
PointType == [x : Int, y : Int, combos : Nat, hits : Seq(Nat), choices : Seq(Seq(Nat))]

\* The state is of its types and the fixed arrays are not overrun.
TypeOK ==
  /\ stage \in {"find", "combos", "limit", "choose", "select", "copy", "done"}
  /\ ich \in DOMAIN event
  /\ tests \in Seq(TestPointType) /\ Len(tests) <= MaxPairs
  /\ combos \in Seq(Nat \X Nat) /\ Len(combos) <= MaxCombos
  /\ icombo \in 1 .. Len(combos) + 1
  /\ points \in Seq(PointType) /\ Len(points) <= MaxPoints
  /\ easy \in BOOLEAN
  /\ total \in Seq([chamber : Nat, point : PointType]) /\ Len(total) <= MaxKept * Len(event)

\* No hit is twice in a space point, whatever combinations made it: the hits
\* of a combination that the point has, and those that the combination itself
\* has twice, are flagged (h_find_space_points' iflag).
HitsDistinct == \A n \in DOMAIN points : IsInjective(points[n].hits)

\* No combination is lost, whatever was joined or found after it, and no hit is
\* counted twice: the hits of a combination are together in a space point, each
\* once, or it lies in the ring around one where it neither joins nor makes a
\* point, or the list is full.
CombosUsed ==
  /\ HitsDistinct
  /\ stage = "combos" =>
       \A k \in 1 .. icombo - 1 :
         LET c == Combo(k) IN
         \/ \E n \in DOMAIN points : ToSet(c.hits) \subseteq ToSet(points[n].hits)
         \/ \E n \in DOMAIN points :
              Distance(points[n], c) \in 4 * Criterion .. 12 * Criterion - 1
         \/ Len(points) = MaxPoints

\* The times are whole units, so that the smallest is not cut when it is kept
\* in an integer (h_choose_single_hit's hdtmin): with finer times the code may
\* keep a later hit.
WholeTimes ==
  \A chambers \in Events : \A c \in DOMAIN chambers : \A i \in DOMAIN chambers[c] :
    Whole(chambers[c][i].time) = chambers[c][i].time

\* No drift time is exactly where the window begins: h_choose_single_hit has such
\* a hit in the window where it counts the choices (line 316, .ge.-5) and outside
\* where it makes them (line 373, .gt.-5).
NoneAtMinTime ==
  \A chambers \in Events : \A c \in DOMAIN chambers : \A i \in DOMAIN chambers[c] :
    chambers[c][i].time # MinTime

\* h_choose_single_hit.f:5-7, "If two hits are in the same layer it rejects
\* the one with the longer drift time": the hit kept of a layer is the
\* earliest in the window.
KeepsEarliest ==
  [][stage = "choose" =>
       \A n \in DOMAIN points : \A i \in ToSet(points'[n].hits) :
         \A j \in ToSet(points[n].hits) :
           Hits[j].layer = Hits[i].layer /\ InTime(j) => InTime(i) /\ Hits[i].time <= Hits[j].time]_vars

\* The choices of a point with hits in five layers or more are all ways to
\* take one hit per layer, each once, if there are not too many.
EveryWayChosen ==
  \A n \in DOMAIN points :
    LET hits == ToSet(points[n].hits)
        layer(l) == {i \in hits : Hits[i].layer = l}
        usable == {i \in hits : InTime(i) \/ layer(Hits[i].layer) = {i}}
        hit == {Hits[i].layer : i \in usable}
        ways == {S \in SUBSET usable : \A l \in hit : Cardinality(S \intersect layer(l)) = 1}
        choices == points'[n].choices
    IN  IF Cardinality(hit) > 4 /\ Cardinality(ways) \in 2 .. MaxChoices
        THEN /\ {ToSet(choices[k]) : k \in DOMAIN choices} = ways
             /\ Len(choices) = Cardinality(ways)
        ELSE choices = <<>>

\* h_choose_single_hit's lists are complete, whatever the order of the hits and
\* however many layers have several.
ChoicesComplete == [][stage = "choose" => EveryWayChosen]_vars

\* What goes on to the tracking: points of one chamber, each with hits in at
\* least MinHit layers and one hit per layer, in every choice.
FitForTracking ==
  \A n \in DOMAIN total :
    LET p == total[n].point
        chamber == event[total[n].chamber]
    IN  \A hits \in {p.hits} \union ToSet(p.choices) :
          /\ ToSet(hits) \subseteq DOMAIN chamber
          /\ Cardinality({chamber[i].layer : i \in ToSet(hits)}) = Len(hits)
          /\ Len(hits) >= MinHit
=============================================================================
