------------------------------ MODULE MCHitList -------------------------------
(***************************************************************************)
(* Instances of HitList: small detectors and their words.                  *)
(***************************************************************************)
EXTENDS HitList

Word(c, t, s) == [counter |-> c, sigtyp |-> t, signal |-> s, inWindow |-> TRUE]

\* Two counters with multihit TDCs on both ends and ADCs.
Pairs ==
  [routine |-> "all", signalcount |-> 4, multihit |-> TRUE, maxhits |-> 6,
   words |-> {Word(1, 2, 11), Word(1, 2, 12), Word(1, 2, 13), Word(1, 3, 21), Word(1, 3, 22),
              Word(1, 3, 24), Word(2, 2, 14), Word(2, 3, 23), Word(1, 0, 5), Word(1, 0, 6),
              Word(2, 1, 7)},
   plusFirst |-> TRUE, ownTimes |-> TRUE]

\* Three wires, two values each, in the window of times and out of it.
Wires(routine, length) ==
  [routine |-> routine, signalcount |-> 1, multihit |-> FALSE, maxhits |-> length,
   words |-> [counter : 1 .. 3, sigtyp : {0}, signal : {1, 2}, inWindow : BOOLEAN],
   plusFirst |-> FALSE, ownTimes |-> FALSE]

\* Counters without multihit TDCs.
Sums(routine, length) ==
  [routine |-> routine, signalcount |-> 2, multihit |-> FALSE, maxhits |-> length,
   words |-> {Word(c, t, c) : c \in 1 .. 3, t \in {0, 1}},
   plusFirst |-> FALSE, ownTimes |-> FALSE]

\* Detectors that every word of MaxWords finds room for, but for the wires.
Fitting == {Pairs, Wires("fb", 4), Sums("fb", 3), Sums("all", 3)}

\* So SignalsStored and PairsListed are about them.
ASSUME FittingAssumption == \A d \in Fitting : Roomy(d) /\ Ordered(d)

\* More wires than the arrays hold.
Overrunning == {Wires("all", 2)}

\* More counters than the arrays hold.
Full == {Sums("fb", 2)}

\* The same times on both counters.
EqualTimes ==
  {[Pairs EXCEPT !.words = {Word(c, t, s) : c \in {1, 2}, t \in Tdcs, s \in {11, 12}},
                 !.ownTimes = FALSE]}

\* Hits on one end only.
MinusOnly == {[Pairs EXCEPT !.plusFirst = FALSE]}
=============================================================================
