------------------------------- MODULE HitList --------------------------------
(***************************************************************************)
(* The hit list of one detector, as g_decode_fb_detector and               *)
(* g_decode_all_detector build it from the data words of an event: kept    *)
(* sorted by plane and counter while words come in any order, one entry    *)
(* per hit of a chamber wire and one per counter or, for the counters with *)
(* multihit TDCs, per pair of hits on its two ends.  A counter stands for  *)
(* a plane and a counter in it; the arrays planelist, counterlist and      *)
(* signal0 to signal3 are one sequence, hitcount is its length.            *)
(***************************************************************************)
EXTENDS Integers, Sequences, FiniteSets, SequencesExt, FiniteSetsExt

CONSTANTS
  Detectors,     \* the detectors: see HitListAssumption
  MaxWords       \* bound on the words of an event

\* The signals of a counter: ADC +, ADC -, TDC +, TDC -.
SigTypes == 0 .. 3
Tdcs == {2, 3}

\* A detector: the routine called for it ("fb" g_decode_fb_detector, "all"
\* g_decode_all_detector), its signals per counter (signalcount), whether its
\* TDCs are multihit, the length of its arrays (maxhits), the data words it
\* may have, whether a counter's + hits come before its - hits and whether
\* the times on different counters differ.
ASSUME HitListAssumption ==
  /\ MaxWords \in Nat
  /\ \A d \in Detectors :
       /\ d.routine \in {"fb", "all"}
       /\ d.signalcount \in 1 .. 4
       /\ d.signalcount = 1 => \A w \in d.words : w.sigtyp = 0
       /\ d.multihit => d.routine = "all" /\ d.signalcount = 4
       /\ d.maxhits \in Nat \ {0}
       /\ d.words \subseteq [counter : Nat, sigtyp : SigTypes, signal : Nat, inWindow : BOOLEAN]
       /\ {d.multihit, d.plusFirst, d.ownTimes} \subseteq BOOLEAN

VARIABLES
  det,     \* the detector
  hits,    \* the list
  stray,   \* whether a signal was stored outside the arrays
  taken    \* the words taken, for the properties

vars == <<det, hits, stray, taken>>

Routine == det.routine
SignalCount == det.signalcount
MaxHits == det.maxhits

\* -1, or -70000 for an F1 TDC: any negative value.
NoSignal == -1

NewHit(counter) == [counter |-> counter, signal |-> [t \in SigTypes |-> NoSignal]]

\* (PlaceBefore: a mutant, hits of the same counter are passed over.)
PlaceBefore(list, counter) == Max({0} \union {i \in DOMAIN list : list[i].counter < counter})

\* Search back from the end for the same counter or an earlier one; 0: none.
PlaceOf(list, counter) == Max({0} \union {i \in DOMAIN list : list[i].counter <= counter})

\* "Don't overwrite arrays."
HasRoom ==
  \/ Len(hits) < MaxHits
  \/ Len(hits) = MaxHits /\ SignalCount >= (IF Routine = "all" THEN 1 ELSE 2)

Init == det \in Detectors /\ hits = <<>> /\ stray = FALSE /\ taken = <<>>

-----------------------------------------------------------------------------
(* One signal per counter: every word is a hit of its own.  The drift      *)
(* chambers' routine keeps those in a window of times only.                *)

\* (InsertSingleUnsorted: a mutant, the search is left out.)
InsertSingleUnsorted(w) ==
  hits' = IF Routine = "fb" /\ ~w.inWindow THEN hits
          ELSE Append(hits, [NewHit(w.counter) EXCEPT !.signal[0] = w.signal])

InsertSingle(w) ==
  hits' = IF Routine = "fb" /\ ~w.inWindow THEN hits
          ELSE InsertAt(hits, PlaceOf(hits, w.counter) + 1,
                        [NewHit(w.counter) EXCEPT !.signal[0] = w.signal])

-----------------------------------------------------------------------------
(* Several signals per counter.                                            *)

\* (WithHitLast: a mutant, the new hit goes to the end.)
WithHitLast(counter) ==
  LET h == PlaceOf(hits, counter) IN
  IF h > 0 /\ hits[h].counter = counter THEN hits ELSE Append(hits, NewHit(counter))

\* The list with a hit of the counter in it.  Only g_decode_fb_detector looks
\* again whether there is room for it.
WithHit(counter) ==
  LET h == PlaceOf(hits, counter) IN
  CASE h > 0 /\ hits[h].counter = counter -> hits
    [] Routine = "fb" /\ Len(hits) = MaxHits -> hits
    [] OTHER -> InsertAt(hits, h + 1, NewHit(counter))

\* The signal goes to the hit found, whether it is of this counter or not.
StoreSignal(w) ==
  LET list == WithHit(w.counter)
      h == PlaceOf(list, w.counter)
  IN  IF h > 0
      THEN hits' = [list EXCEPT ![h].signal[w.sigtyp] = w.signal] /\ UNCHANGED stray
      ELSE hits' = list /\ stray' = TRUE

\* (StoreAdcOnce: a mutant, only the last entry of the counter gets it.
\* StoreAdcAll: a mutant, every entry gets it.)
StoreAdcOnce(w) ==
  LET list == WithHit(w.counter) IN
  hits' = [list EXCEPT ![PlaceOf(list, w.counter)].signal[w.sigtyp] = w.signal]

StoreAdcAll(w) ==
  hits' = [i \in DOMAIN WithHit(w.counter) |->
             [WithHit(w.counter)[i] EXCEPT !.signal[w.sigtyp] = w.signal]]

\* An ADC is common to all entries of its counter.
StoreAdc(w) ==
  hits' = [i \in DOMAIN WithHit(w.counter) |->
             LET hit == WithHit(w.counter)[i]
             IN  IF hit.counter = w.counter THEN [hit EXCEPT !.signal[w.sigtyp] = w.signal]
                 ELSE hit]

\* (NeverPaired: a mutant, the search is left out.)
NeverPaired(list, i, sigtyp, multi) == FALSE

\* Whether the pair of the new hit with entry i's hit on the other end was
\* made from an earlier entry.  The search goes back over as many entries as
\* were added for a + hit, and over the whole list for a - hit.
Paired(list, i, sigtyp, multi) ==
  IF sigtyp = 2
  THEN \E j \in (i - multi) .. (i - 1) : j > 0 /\ list[j].signal[3] = list[i].signal[3]
  ELSE list[i].signal[2] >= 0 /\ \E j \in 1 .. (i - 1) : list[j].signal[2] = list[i].signal[2]

\* What the pass over entry i makes of the list; h is the last entry of the
\* counter at first, behind which multi entries have been added.
Pass(w, h, list, i, multi) ==
  CASE list[i].counter # w.counter -> [list |-> list, multi |-> multi]
    [] list[i].counter = w.counter /\ list[i].signal[w.sigtyp] < 0 ->
         [list |-> [list EXCEPT ![i].signal[w.sigtyp] = w.signal], multi |-> multi]
    [] OTHER ->
         IF Len(list) >= MaxHits \/ Paired(list, i, w.sigtyp, multi)
         THEN [list |-> list, multi |-> multi]
         ELSE [list |-> InsertAt(list, h + multi + 1,
                                 [list[i] EXCEPT !.signal[w.sigtyp] = w.signal]),
               multi |-> multi + 1]

\* The list after a pass over each of the first h entries.
AfterPasses(w, first, h) ==
  LET after[i \in 0 .. h] ==
        IF i = 0 THEN [list |-> first, multi |-> 0]
        ELSE Pass(w, h, after[i - 1].list, i, after[i - 1].multi)
  IN  after[h].list

\* A new hit on one end makes a pair with every hit on the other.
StoreTdc(w) ==
  LET first == WithHit(w.counter)
  IN  hits' = AfterPasses(w, first, PlaceOf(first, w.counter))

-----------------------------------------------------------------------------

\* What the order of the channels and the data may exclude.
MayFollow(w) ==
  /\ det.plusFirst =>
       /\ w.sigtyp = 2 => \A k \in DOMAIN taken : ~(taken[k].counter = w.counter /\ taken[k].sigtyp = 3)
       /\ w.sigtyp = 3 => \E k \in DOMAIN taken : taken[k].counter = w.counter /\ taken[k].sigtyp = 2
  /\ w.sigtyp \in Tdcs =>
       \A k \in DOMAIN taken :
         taken[k].sigtyp = w.sigtyp /\ taken[k].signal = w.signal =>
           ~det.ownTimes /\ taken[k].counter # w.counter

TakeWord(w) ==
  /\ Len(taken) < MaxWords
  /\ MayFollow(w)
  /\ taken' = Append(taken, w)
  /\ UNCHANGED det

Ignore(w) == TakeWord(w) /\ ~HasRoom /\ UNCHANGED <<hits, stray>>

Single(w) ==
  /\ TakeWord(w) /\ HasRoom
  /\ SignalCount = 1
  /\ InsertSingle(w)
  /\ UNCHANGED stray

Multiple(w) ==
  /\ TakeWord(w) /\ HasRoom
  /\ SignalCount > 1
  /\ IF ~det.multihit THEN StoreSignal(w)
     ELSE (IF w.sigtyp \in Tdcs THEN StoreTdc(w) ELSE StoreAdc(w)) /\ UNCHANGED stray

Next == \E w \in det.words : Ignore(w) \/ Single(w) \/ Multiple(w)

Spec == Init /\ [][Next]_vars

-----------------------------------------------------------------------------
(* Properties.                                                             *)

Signals(words, counter, t) ==
  {words[k].signal : k \in {n \in DOMAIN words : words[n].counter = counter /\ words[n].sigtyp = t}}

\* The last signal of a counter among some words, if there is one.
LastSignal(words, counter, t) ==
  LET last == Max({0} \union {k \in DOMAIN words : words[k].counter = counter /\ words[k].sigtyp = t})
  IN  IF last = 0 THEN NoSignal ELSE words[last].signal

CountersTaken == {taken[k].counter : k \in DOMAIN taken}

OrNone(signals) == IF signals = {} THEN {NoSignal} ELSE signals

EntriesOf(counter) == {i \in DOMAIN hits : hits[i].counter = counter}

\* The hits on the two ends of a counter are paired each with each, and no
\* pair is listed twice (g_decode_all_detector.f:549-719), while the list has
\* room.
PairsComplete ==
  det.multihit /\ Len(hits) < MaxHits =>
    \A c \in CountersTaken :
      LET pairs == OrNone(Signals(taken, c, 2)) \X OrNone(Signals(taken, c, 3))
      IN  /\ Cardinality(EntriesOf(c)) = Cardinality(pairs)
          /\ {<<hits[i].signal[2], hits[i].signal[3]>> : i \in EntriesOf(c)} = pairs

\* All entries of a counter have its last ADC values, those added after the
\* ADC was read too ("no multiplicity for ADC").
AdcCommon ==
  det.multihit /\ Len(hits) <= MaxHits =>
    \A i \in DOMAIN hits, t \in SigTypes \ Tdcs :
      hits[i].signal[t] = LastSignal(taken, hits[i].counter, t)

\* No signal is stored with a counter it does not belong to, or nowhere
\* ("Don't overwrite arrays", g_decode_fb_detector.f:277), and the entries of a
\* counter agree on its ADC values.
SignalsOwn ==
  /\ ~stray
  /\ \A i \in DOMAIN hits, t \in SigTypes :
       hits[i].signal[t] \in Signals(taken, hits[i].counter, t) \union {NoSignal}
  /\ AdcCommon

Sorted(list) == \A i, j \in DOMAIN list : i < j => list[i].counter <= list[j].counter

\* The words in the window of times, as many as fit, and the place of one of
\* them among them, wires first and then the order they came in.
Kept ==
  {k \in DOMAIN taken :
     taken[k].inWindow /\ Cardinality({m \in 1 .. (k - 1) : taken[m].inWindow}) < MaxHits}

Rank(k) ==
  Cardinality({m \in Kept : \/ taken[m].counter < taken[k].counter
                            \/ taken[m].counter = taken[k].counter /\ m <= k})

\* A list is in the order of the counters (the translation routines take the
\* hits of a counter for neighbours), whatever the order of the words; and a
\* chamber's is the words in the window of times, as many as fit, in the order
\* they came within a wire.
WireHits ==
  /\ Sorted(hits)
  /\ Routine = "fb" /\ SignalCount = 1 =>
       /\ Len(hits) = Cardinality(Kept)
       /\ \A k \in Kept : /\ hits[Rank(k)].counter = taken[k].counter
                          /\ hits[Rank(k)].signal[0] = taken[k].signal

-----------------------------------------------------------------------------
(* What every step preserves, from which the properties follow.            *)

Hits == [counter : Nat, signal : [SigTypes -> Int]]

TypeOK ==
  /\ det \in Detectors /\ hits \in Seq(Hits) /\ stray \in BOOLEAN
  /\ taken \in Seq(det.words)

\* A chamber's hits come from different words in the window, from[i] for hit i,
\* and no word before the last of them is left out.
WiresFrom(from) ==
  /\ \A i \in DOMAIN hits :
       /\ taken[from[i]].inWindow
       /\ hits[i].counter = taken[from[i]].counter
       /\ hits[i].signal[0] = taken[from[i]].signal
  /\ \A i, j \in DOMAIN hits :
       i < j => \/ hits[i].counter < hits[j].counter
                \/ hits[i].counter = hits[j].counter /\ from[i] < from[j]
  /\ \A k \in DOMAIN taken :
       taken[k].inWindow => \/ \E i \in DOMAIN hits : from[i] = k
                            \/ Len(hits) = MaxHits /\ \A i \in DOMAIN hits : from[i] < k

WiresInv ==
  Routine = "fb" /\ SignalCount = 1 =>
    Len(hits) <= MaxHits /\ \E from \in [DOMAIN hits -> DOMAIN taken] : WiresFrom(from)

\* A detector that a new counter always finds room for.
Roomy(d) ==
  LET counters == {w.counter : w \in d.words} IN
  d.routine = "fb" /\ d.signalcount > 1 => IsFiniteSet(counters) /\ Cardinality(counters) <= d.maxhits

\* Without multihit TDCs a counter has one entry; a counter with words has one
\* at least, as long as no word is ignored.
CountersInv ==
  /\ \A i \in DOMAIN hits : hits[i].counter \in CountersTaken
  /\ SignalCount > 1 /\ ~det.multihit =>
       \A i, j \in DOMAIN hits : hits[i].counter = hits[j].counter => i = j
  /\ det.multihit /\ Len(hits) <= MaxHits =>
       \A k \in DOMAIN taken : \E i \in DOMAIN hits : hits[i].counter = taken[k].counter

\* A detector whose TDC channels come and count as PairsComplete needs it.
Ordered(d) == d.multihit => d.plusFirst /\ d.ownTimes

TimesInv ==
  det.ownTimes =>
    \A k, m \in DOMAIN taken :
      taken[k].sigtyp \in Tdcs /\ taken[k].sigtyp = taken[m].sigtyp /\ taken[k].signal = taken[m].signal
        => k = m

\* The entries of a counter in a list have the signals of A at one end with
\* those of B at the other, each with each and once.
EachWithEach(list, counter, s, o, A, B) ==
  LET own == {i \in DOMAIN list : list[i].counter = counter} IN
  /\ \A i \in own : list[i].signal[s] \in A /\ list[i].signal[o] \in B
  /\ \A a \in A, b \in B : \E i \in own : list[i].signal[s] = a /\ list[i].signal[o] = b
  /\ \A i, j \in own :
       list[i].signal[s] = list[j].signal[s] /\ list[i].signal[o] = list[j].signal[o] => i = j

PairsInv ==
  det.multihit /\ Len(hits) < MaxHits =>
    \A c \in CountersTaken :
      EachWithEach(hits, c, 2, 3,
                   OrNone(Signals(taken, c, 2)), OrNone(Signals(taken, c, 3)))

-----------------------------------------------------------------------------
(* What does not hold of the code: see the README.                         *)

\* g_decode_all_detector.f:410, "Don't overwrite arrays": the list stays
\* within its arrays.
WithinArrays == Len(hits) <= MaxHits

\* g_decode_all_bank.f:126, "will unpack words from the bank into the hit
\* arrays": every TDC word is in an entry of its counter, while there is room.
EveryHitUnpacked ==
  Len(hits) < MaxHits =>
    \A k \in DOMAIN taken : taken[k].sigtyp \in Tdcs =>
      \E i \in EntriesOf(taken[k].counter) : hits[i].signal[taken[k].sigtyp] = taken[k].signal

\* g_decode_all_detector.f:670, "if the same (-) is found, (+) is not
\* duplicated": no two entries of a counter are the same pair.
PairsOnce ==
  \A i, j \in DOMAIN hits : i # j => hits[i] # hits[j]
=============================================================================
