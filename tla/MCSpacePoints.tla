---------------------------- MODULE MCSpacePoints -----------------------------
(***************************************************************************)
(* Instances of SpacePoints: a chamber of six layers in three directions,  *)
(* a track's hits with layers missing, noise and a second track.           *)
(***************************************************************************)
EXTENDS SpacePoints

SixLayers == << <<1, 1>>, <<1, 1>>, <<1, 0>>, <<1, 0>>, <<1, -1>>, <<1, -1>> >>
XPair == <<3, 4>>

Hit(l, c, t) == [layer |-> l, center |-> c, time |-> t]

\* A set of hits as the chamber's list, sorted by layer.
Sorted(S) ==
  FlattenSeq([l \in 1 .. 6 |-> SetToSeq({h \in S : h.layer = l})])

\* A track through (0, 0), but for the layers missing.
Track(missing) == {Hit(l, 0, 20 * Unit) : l \in 1 .. 6 \ missing}

\* A second track at x = c.
Second(c) == {Hit(l, c, 30 * Unit) : l \in {1, 3, 5}}

Noise == {Hit(l, 2, t * Unit) : l \in {1, 6}, t \in {10, 40}} \union {Hit(3, 2, -10 * Unit)}

Missing == {{}, {1}, {4}, {2, 4}, {2, 5, 6}}

SmallNoise == {S \in SUBSET Noise : Cardinality(S) <= 2}

ChamberHits == {Track(m) \union n \union s : m \in Missing, n \in SmallNoise,
                                             s \in {{}, Second(2), Second(4), Second(16)}}

\* Two chambers, the second with few hits or none.
TwoChambers ==
  {<<Sorted(first), Sorted(second)>> :
     first \in ChamberHits, second \in {{}, Track({2, 3}) \union {Hit(6, 2, 10 * Unit)}}}

\* Two more hits in the first layer, less than a unit of time apart.
CloseTimes ==
  {<<Sorted(Track({}) \union {Hit(1, 2, a), Hit(1, 4, b)})>> : a, b \in {17, 19, 20, 23}}

\* The events of the run meet the hypotheses of the theorems.
ASSUME MCTimesAssumption == Events = TwoChambers => WholeTimes /\ NoneAtMinTime
=============================================================================
