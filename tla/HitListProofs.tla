---------------------------- MODULE HitListProofs -----------------------------
(***************************************************************************)
(* The hit lists are as HitList's properties say, for every detector, any  *)
(* length of the arrays and any number of words: sorted, a signal with its *)
(* own counter, wires in order, and, at the end, all pairs of (+) and (-)  *)
(* channels (PairsListed).                                                 *)
(***************************************************************************)
EXTENDS HitList, Recursion, SequenceTheorems

-----------------------------------------------------------------------------
(* Lists.                                                                  *)

\* The greatest of some numbers of an interval that has 0.
LEMMA MaxIs ==
  ASSUME NEW n \in Nat, NEW S \in SUBSET (0 .. n), S # {}
  PROVE  Max(S) \in S /\ \A i \in S : i <= Max(S)
<1> DEFINE T == {n - i : i \in S}
<1>1. T \in SUBSET Nat /\ T # {}
  <2>1. \A i \in S : n - i \in Nat
    OBVIOUS
  <2>2. QED
    BY <2>1, Zenon
<1>2. PICK t \in T : \A m \in T : t <= m
  BY <1>1, LeastElement
<1>3. PICK x \in S : t = n - x
  BY <1>2
<1>4. \A y \in S : x >= y
  BY <1>2, <1>3
<1>5. Max(S) \in S /\ \A y \in S : Max(S) >= y
  BY <1>3, <1>4, Zenon DEF Max
<1>6. QED
  BY <1>5

\* What is in a list of hits.
LEMMA ListType ==
  ASSUME NEW list \in Seq(Hits)
  PROVE  /\ Len(list) \in Nat /\ DOMAIN list = 1 .. Len(list)
         /\ \A i \in 1 .. Len(list) : /\ list[i] \in Hits /\ list[i].counter \in Nat
                                      /\ list[i].signal \in [SigTypes -> Int]
<1>1. Len(list) \in Nat /\ DOMAIN list = 1 .. Len(list) /\ \A i \in 1 .. Len(list) : list[i] \in Hits
  BY ElementOfSeq
<1>2. ASSUME NEW hit \in Hits
      PROVE  hit.counter \in Nat /\ hit.signal \in [SigTypes -> Int]
  BY DEF Hits
<1>3. QED
  BY <1>1, <1>2

\* The place found is that of the last entry of the counter or of an earlier one.
LEMMA PlaceIs ==
  ASSUME NEW list \in Seq(Hits), NEW counter \in Nat
  PROVE  /\ PlaceOf(list, counter) \in 0 .. Len(list)
         /\ PlaceOf(list, counter) > 0 => list[PlaceOf(list, counter)].counter <= counter
         /\ \A i \in 1 .. Len(list) : i > PlaceOf(list, counter) => list[i].counter > counter
         /\ Sorted(list) => \A i \in 1 .. PlaceOf(list, counter) : list[i].counter <= counter
<1> DEFINE S == {0} \union {i \in DOMAIN list : list[i].counter <= counter}
           h == Max(S)
<1>1. /\ Len(list) \in Nat /\ DOMAIN list = 1 .. Len(list)
      /\ \A i \in 1 .. Len(list) : list[i].counter \in Nat
  BY ListType
<1>2. S \in SUBSET (0 .. Len(list)) /\ S # {} /\ 0 \in S
  BY <1>1
<1>3. h \in S /\ \A i \in S : i <= h
  <2> HIDE DEF S
  <2>1. QED
    BY <1>1, <1>2, MaxIs
<1> HIDE DEF h
<1>4. h \in 0 .. Len(list)
  BY <1>2, <1>3
<1>5. h > 0 => list[h].counter <= counter
  BY <1>1, <1>3
<1>6. \A i \in 1 .. Len(list) : i > h => list[i].counter > counter
  BY <1>1, <1>3, <1>4
<1>7. Sorted(list) => \A i \in 1 .. h : list[i].counter <= counter
  <2>1. SUFFICES ASSUME Sorted(list), NEW i \in 1 .. h PROVE list[i].counter <= counter
    OBVIOUS
  <2>2. i = h \/ i < h
    BY <1>4
  <2>3. list[h].counter <= counter /\ i \in DOMAIN list /\ h \in DOMAIN list
    BY <1>1, <1>4, <1>5
  <2>4. list[i].counter <= list[h].counter
    BY <1>1, <2>1, <2>2, <2>3 DEF Sorted
  <2>5. QED
    BY <1>1, <2>3, <2>4
<1>8. QED
  BY <1>4, <1>5, <1>6, <1>7 DEF PlaceOf, h

\* t is s with one more element e at i.
Inserted(t, T, s, i, e) ==
  /\ t \in Seq(T) /\ Len(t) = Len(s) + 1
  /\ \A j \in 1 .. Len(s) + 1 : t[j] = IF j < i THEN s[j] ELSE IF j = i THEN e ELSE s[j - 1]

\* What InsertAt makes of a sequence.
LEMMA InsertIs ==
  ASSUME NEW T, NEW s \in Seq(T), NEW i \in 1 .. Len(s) + 1, NEW e \in T
  PROVE  Inserted(InsertAt(s, i, e), T, s, i, e)
<1> DEFINE a == SubSeq(s, 1, i - 1)
           b == SubSeq(s, i, Len(s))
<1>1. Len(s) \in Nat /\ i \in Int
  OBVIOUS
<1>2. a \in Seq(T) /\ Len(a) = i - 1 /\ \A j \in 1 .. i - 1 : a[j] = s[j]
  <2>1. \A j \in 1 .. i - 1 : s[j] \in T
    BY <1>1
  <2>2. QED
    BY <1>1, <2>1, SubSeqProperties
<1>3. b \in Seq(T) /\ Len(b) = Len(s) - i + 1 /\ \A j \in 1 .. Len(s) - i + 1 : b[j] = s[i + j - 1]
  <2>1. \A j \in i .. Len(s) : s[j] \in T
    BY <1>1
  <2>2. QED
    BY <1>1, <2>1, SubSeqProperties
<1>4. InsertAt(s, i, e) = (a \o <<e>>) \o b
  BY DEF InsertAt
<1> HIDE DEF a, b
<1> DEFINE c == a \o <<e>>
<1>5. c \in Seq(T) /\ Len(c) = i /\ \A j \in 1 .. i : c[j] = IF j < i THEN s[j] ELSE e
  BY <1>1, <1>2
<1> HIDE DEF c
<1> DEFINE d == c \o b
<1>6. /\ d \in Seq(T) /\ Len(d) = Len(s) + 1
      /\ \A j \in 1 .. Len(s) + 1 : d[j] = IF j <= i THEN c[j] ELSE b[j - i]
  <2>1. /\ d \in Seq(T) /\ Len(d) = Len(c) + Len(b)
        /\ \A j \in 1 .. Len(c) + Len(b) : d[j] = IF j <= Len(c) THEN c[j] ELSE b[j - Len(c)]
    BY <1>3, <1>5, ConcatProperties
  <2> HIDE DEF d
  <2>2. Len(c) + Len(b) = Len(s) + 1
    BY <1>1, <1>3, <1>5
  <2>3. QED
    BY <1>5, <2>1, <2>2
<1> HIDE DEF d
<1>7. \A j \in 1 .. Len(s) + 1 : j > i => b[j - i] = s[j - 1]
  BY <1>1, <1>3
<1>8. ASSUME NEW j \in 1 .. Len(s) + 1
      PROVE  d[j] = IF j < i THEN s[j] ELSE IF j = i THEN e ELSE s[j - 1]
  <2>1. CASE j <= i
    BY <1>1, <1>5, <1>6, <2>1
  <2>2. CASE j > i
    BY <1>1, <1>6, <1>7, <2>2
  <2>3. j \in Int /\ i \in Int
    BY <1>1
  <2>4. QED
    BY <2>1, <2>2, <2>3
<1>9. QED
  BY <1>4, <1>6, <1>8 DEF c, d, Inserted

-----------------------------------------------------------------------------
(* Hits and words.                                                         *)

\* A new signal in a hit.
LEMMA SignalSet ==
  ASSUME NEW hit \in Hits, NEW t \in SigTypes, NEW v \in Int
  PROVE  LET new == [hit EXCEPT !.signal[t] = v]
         IN  /\ new \in Hits /\ new.counter = hit.counter
             /\ new.signal[t] = v /\ \A u \in SigTypes \ {t} : new.signal[u] = hit.signal[u]
BY DEF Hits

\* A new hit.
LEMMA NewHitIs ==
  ASSUME NEW counter \in Nat
  PROVE  /\ NewHit(counter) \in Hits /\ NewHit(counter).counter = counter
         /\ \A t \in SigTypes : NewHit(counter).signal[t] = NoSignal
BY DEF NewHit, Hits, NoSignal

\* What is known of a detector and of its words.
LEMMA DetectorIs ==
  ASSUME NEW d \in Detectors
  PROVE  /\ d.routine \in {"fb", "all"} /\ d.signalcount \in 1 .. 4 /\ d.maxhits \in Nat \ {0}
         /\ d.multihit \in BOOLEAN /\ d.plusFirst \in BOOLEAN /\ d.ownTimes \in BOOLEAN
         /\ d.multihit => d.routine = "all" /\ d.signalcount = 4
         /\ \A w \in d.words : /\ w.counter \in Nat /\ w.sigtyp \in SigTypes /\ w.signal \in Nat
                               /\ w.inWindow \in BOOLEAN
                               /\ d.signalcount = 1 => w.sigtyp = 0
<1>1. \A w \in d.words : w \in [counter : Nat, sigtyp : SigTypes, signal : Nat, inWindow : BOOLEAN]
  BY HitListAssumption
<1>2. {d.multihit, d.plusFirst, d.ownTimes} \subseteq BOOLEAN
  BY HitListAssumption, Zenon
<1>3. d.multihit \in BOOLEAN /\ d.plusFirst \in BOOLEAN /\ d.ownTimes \in BOOLEAN
  BY <1>2, Zenon
<1>4. \A w \in d.words : /\ w.counter \in Nat /\ w.sigtyp \in SigTypes /\ w.signal \in Nat
                         /\ w.inWindow \in BOOLEAN
  BY <1>1
<1>5. QED
  BY <1>3, <1>4, HitListAssumption

\* M is L with m entries of the counter behind place h; before it only entries
\* of the counter differ, in their signals.
Shifted(M, L, h, m, counter) ==
  /\ h \in 0 .. Len(L) /\ m \in Nat /\ Len(M) = Len(L) + m
  /\ \A j \in 1 .. h : M[j].counter = L[j].counter /\ (L[j].counter # counter => M[j] = L[j])
  /\ \A j \in h + 1 .. h + m : M[j].counter = counter
  /\ \A j \in h + m + 1 .. Len(M) : M[j] = L[j - m]

\* Entries added behind the last one of their counter leave the list sorted.
LEMMA ShiftedSorted ==
  ASSUME NEW M \in Seq(Hits), NEW L \in Seq(Hits), NEW h, NEW m, NEW counter \in Nat,
         Shifted(M, L, h, m, counter), Sorted(L),
         \A j \in 1 .. h : L[j].counter <= counter,
         \A j \in h + 1 .. Len(L) : L[j].counter > counter
  PROVE  Sorted(M)
<1>1. /\ Len(M) \in Nat /\ Len(L) \in Nat /\ DOMAIN M = 1 .. Len(M) /\ DOMAIN L = 1 .. Len(L)
      /\ \A i \in 1 .. Len(L) : L[i].counter \in Nat
      /\ \A i \in 1 .. Len(M) : M[i].counter \in Nat
  BY ListType
<1>2. h \in 0 .. Len(L) /\ m \in Nat /\ Len(M) = Len(L) + m
  BY DEF Shifted
<1> DEFINE place(j) == IF j <= h THEN j ELSE j - m
<1>3. ASSUME NEW j \in 1 .. Len(M), j <= h \/ j > h + m
      PROVE  /\ place(j) \in 1 .. Len(L) /\ M[j].counter = L[place(j)].counter
             /\ j <= h => M[j].counter <= counter
             /\ j > h => M[j].counter > counter
  <2>1. CASE j <= h
    BY <1>1, <1>2, <2>1 DEF Shifted
  <2>2. CASE j > h + m
    <3>1. j - m \in h + 1 .. Len(L) /\ place(j) = j - m /\ j \in h + m + 1 .. Len(M)
      BY <1>1, <1>2, <2>2
    <3>2. M[j] = L[j - m]
      BY <3>1 DEF Shifted
    <3>3. ~(j <= h) /\ j - m \in 1 .. Len(L)
      BY <1>1, <1>2, <2>2, <3>1
    <3>4. QED
      BY <3>1, <3>2, <3>3
  <2>3. QED
    BY <1>3, <2>1, <2>2
<1>4. ASSUME NEW j \in 1 .. Len(M), j > h, j <= h + m
      PROVE  M[j].counter = counter
  BY <1>1, <1>2, <1>4 DEF Shifted
<1>5. ASSUME NEW i \in 1 .. Len(M), NEW j \in 1 .. Len(M), i < j
      PROVE  M[i].counter <= M[j].counter
  <2>1. CASE i > h /\ i <= h + m
    <3>1. M[i].counter = counter /\ j > h
      BY <1>2, <1>4, <1>5, <2>1
    <3>2. CASE j <= h + m
      BY <1>4, <3>1, <3>2
    <3>3. CASE j > h + m
      BY <1>3, <1>1, <3>1, <3>3
    <3>4. QED
      BY <1>2, <3>2, <3>3
  <2>2. CASE j > h /\ j <= h + m
    <3>1. M[j].counter = counter
      BY <1>4, <2>2
    <3>2. CASE i <= h
      BY <1>3, <3>1, <3>2
    <3>3. QED
      BY <1>2, <2>1, <2>2, <3>2, <1>5
  <2>3. CASE (i <= h \/ i > h + m) /\ (j <= h \/ j > h + m)
    <3>1. place(i) < place(j)
      BY <1>2, <1>5, <2>3
    <3>2. /\ place(i) \in 1 .. Len(L) /\ M[i].counter = L[place(i)].counter
          /\ place(j) \in 1 .. Len(L) /\ M[j].counter = L[place(j)].counter
      BY <1>3, <2>3
    <3> HIDE DEF place
    <3>3. L[place(i)].counter <= L[place(j)].counter
      BY <1>1, <3>1, <3>2 DEF Sorted
    <3>4. QED
      BY <3>2, <3>3
  <2>4. QED
    BY <1>2, <2>1, <2>2, <2>3
<1>6. QED
  BY <1>1, <1>5 DEF Sorted

\* Sorted is a matter of the counters.
LEMMA CountersSorted ==
  ASSUME NEW M \in Seq(Hits), NEW L \in Seq(Hits), Len(M) = Len(L), Sorted(L),
         \A j \in 1 .. Len(L) : M[j].counter = L[j].counter
  PROVE  Sorted(M)
<1>1. DOMAIN M = 1 .. Len(L) /\ DOMAIN L = 1 .. Len(L)
  BY ListType
<1>2. QED
  BY <1>1 DEF Sorted

\* The list with a hit of the counter in it: it was there, or there is no room
\* for it, or it is put where it belongs.
LEMMA WithHitIs ==
  ASSUME TypeOK, Sorted(hits), NEW counter \in Nat
  PROVE  LET L == WithHit(counter)
             h == PlaceOf(hits, counter)
             g == PlaceOf(L, counter)
         IN  /\ L \in Seq(Hits) /\ Sorted(L)
             /\ \/ L = hits /\ g > 0 /\ L[g].counter = counter
                \/ /\ L = hits /\ Routine = "fb" /\ Len(hits) = MaxHits
                   /\ \A i \in 1 .. Len(hits) : hits[i].counter # counter
                \/ /\ Shifted(L, hits, h, 1, counter) /\ g = h + 1 /\ L[g] = NewHit(counter)
                   /\ \A j \in 1 .. h : L[j] = hits[j]
                   /\ ~(Routine = "fb" /\ Len(hits) = MaxHits)
                   /\ \A i \in 1 .. Len(hits) : hits[i].counter # counter
<1> DEFINE L == WithHit(counter)
           h == PlaceOf(hits, counter)
           g == PlaceOf(L, counter)
<1>1. hits \in Seq(Hits)
  BY DEF TypeOK
<1>2. /\ Len(hits) \in Nat /\ DOMAIN hits = 1 .. Len(hits)
      /\ \A i \in 1 .. Len(hits) : hits[i].counter \in Nat
  BY <1>1, ListType
<1>3. /\ h \in 0 .. Len(hits)
      /\ \A i \in 1 .. Len(hits) : i > h => hits[i].counter > counter
      /\ \A i \in 1 .. h : hits[i].counter <= counter
  BY <1>1, PlaceIs
<1>4. CASE h > 0 /\ hits[h].counter = counter
  BY <1>1, <1>4 DEF WithHit
<1>5. CASE ~(h > 0 /\ hits[h].counter = counter)
  <2>1. ASSUME NEW i \in 1 .. Len(hits)  PROVE hits[i].counter # counter
    <3>1. CASE i > h
      BY <1>2, <1>3, <3>1
    <3>2. CASE i <= h
      <4>1. h > 0 /\ i \in DOMAIN hits /\ h \in DOMAIN hits /\ (i = h \/ i < h)
        BY <1>2, <1>3, <3>2
      <4>2. hits[i].counter <= hits[h].counter
        BY <1>2, <4>1 DEF Sorted
      <4>3. hits[h].counter <= counter /\ hits[h].counter # counter
        BY <1>3, <1>5, <4>1
      <4>4. QED
        BY <1>2, <4>1, <4>2, <4>3
    <3>3. QED
      BY <1>3, <3>1, <3>2
  <2>2. CASE Routine = "fb" /\ Len(hits) = MaxHits
    <3>1. L = hits
      BY <1>5, <2>2 DEF WithHit
    <3>2. QED
      BY <1>1, <2>1, <2>2, <3>1
  <2>3. CASE ~(Routine = "fb" /\ Len(hits) = MaxHits)
    <3>1. L = InsertAt(hits, h + 1, NewHit(counter))
      BY <1>5, <2>3, Zenon DEF WithHit
    <3>2. NewHit(counter) \in Hits /\ NewHit(counter).counter = counter
      BY NewHitIs
    <3> HIDE DEF L, h, g
    <3>3. h + 1 \in 1 .. Len(hits) + 1
      BY <1>2, <1>3
    <3>4. /\ L \in Seq(Hits) /\ Len(L) = Len(hits) + 1
          /\ \A j \in 1 .. Len(hits) + 1 :
               L[j] = IF j < h + 1 THEN hits[j] ELSE IF j = h + 1 THEN NewHit(counter) ELSE hits[j - 1]
      <4>1. Inserted(L, Hits, hits, h + 1, NewHit(counter))
        BY <1>1, <3>1, <3>2, <3>3, InsertIs
      <4>2. QED
        BY <4>1 DEF Inserted
    <3>5. L[h + 1] = NewHit(counter) /\ \A j \in 1 .. h : L[j] = hits[j]
      BY <1>2, <1>3, <3>4
    <3>6. Shifted(L, hits, h, 1, counter)
      <4>1. \A j \in h + 2 .. Len(L) : L[j] = hits[j - 1]
        BY <1>2, <1>3, <3>4
      <4>2. \A j \in h + 1 .. h + 1 : L[j].counter = counter
        BY <1>3, <3>2, <3>5
      <4>3. QED
        BY <1>2, <1>3, <3>4, <3>5, <4>1, <4>2 DEF Shifted
    <3>7. Sorted(L)
      <4>1. \A j \in h + 1 .. Len(hits) : hits[j].counter > counter
        BY <1>2, <1>3
      <4>2. QED
        BY <1>1, <1>3, <3>4, <3>6, <4>1, ShiftedSorted
    <3>8. g = h + 1
      <4>1. /\ g \in 0 .. Len(L) /\ (g > 0 => L[g].counter <= counter)
            /\ \A i \in 1 .. Len(L) : i > g => L[i].counter > counter
        BY <3>4, PlaceIs DEF g
      <4>2. L[h + 1].counter = counter /\ h + 1 \in 1 .. Len(L)
        BY <1>2, <1>3, <3>2, <3>4, <3>5
      <4>3. ~(h + 1 > g)
        BY <4>1, <4>2
      <4>4. ASSUME g > h + 1  PROVE FALSE
        <5>1. g \in h + 2 .. Len(L) /\ g \in 1 .. Len(hits) + 1
          BY <1>2, <1>3, <3>4, <4>1, <4>4
        <5>2. L[g] = hits[g - 1] /\ g - 1 \in 1 .. Len(hits) /\ g - 1 > h
          BY <1>2, <1>3, <3>4, <5>1
        <5>3. hits[g - 1].counter > counter
          BY <1>3, <5>2
        <5>4. QED
          BY <1>2, <1>3, <4>1, <4>4, <5>2, <5>3
      <4>5. QED
        BY <1>2, <1>3, <4>1, <4>3, <4>4
    <3>9. QED
      BY <2>1, <2>3, <3>4, <3>5, <3>6, <3>7, <3>8 DEF L, h, g
  <2>4. QED
    BY <2>2, <2>3
<1>6. QED
  BY <1>4, <1>5

-----------------------------------------------------------------------------
(* The passes over the entries for a hit of a multihit TDC.                *)

\* x is b with the signal of w.
CopyOf(x, b, w) ==
  /\ b.counter = w.counter /\ b.signal[w.sigtyp] >= 0
  /\ x = [b EXCEPT !.signal[w.sigtyp] = w.signal]

Stages == [list : Seq(Hits), multi : Nat]

\* After the passes over the first i of the h entries of list F: the entries
\* of w's counter without such a signal have got w's, and behind them all there
\* are multi copies of others.
Stage(F, h, w, i, st) ==
  /\ st \in Stages
  /\ Len(st.list) = Len(F) + st.multi
  /\ \A j \in 1 .. h :
       st.list[j] = IF j <= i /\ F[j].counter = w.counter /\ F[j].signal[w.sigtyp] < 0
                    THEN [F[j] EXCEPT !.signal[w.sigtyp] = w.signal] ELSE F[j]
  /\ \A j \in h + 1 .. h + st.multi : \E e \in 1 .. i : CopyOf(st.list[j], F[e], w)
  /\ \A j \in h + 1 .. Len(F) : st.list[j + st.multi] = F[j]

\* A stage from its list and the number of its copies.
LEMMA StageIs ==
  ASSUME NEW F, NEW h, NEW w, NEW i, NEW M \in Seq(Hits), NEW m \in Nat,
         Len(M) = Len(F) + m,
         \A j \in 1 .. h :
           M[j] = IF j <= i /\ F[j].counter = w.counter /\ F[j].signal[w.sigtyp] < 0
                  THEN [F[j] EXCEPT !.signal[w.sigtyp] = w.signal] ELSE F[j],
         \A j \in h + 1 .. h + m : \E e \in 1 .. i : CopyOf(M[j], F[e], w),
         \A j \in h + 1 .. Len(F) : M[j + m] = F[j]
  PROVE  Stage(F, h, w, i, [list |-> M, multi |-> m])
BY DEF Stage, Stages

\* A word of a detector.
IsWord(w) == w.counter \in Nat /\ w.sigtyp \in SigTypes /\ w.signal \in Nat

\* One pass.
LEMMA PassStage ==
  ASSUME NEW F \in Seq(Hits), NEW h \in 1 .. Len(F), NEW w, IsWord(w),
         NEW i \in 1 .. h, NEW st, Stage(F, h, w, i - 1, st)
  PROVE  Stage(F, h, w, i, Pass(w, h, st.list, i, st.multi))
<1> DEFINE L == st.list
           m == st.multi
           x == [L[i] EXCEPT !.signal[w.sigtyp] = w.signal]
           next == Pass(w, h, L, i, m)
<1>1. /\ L \in Seq(Hits) /\ m \in Nat /\ Len(L) = Len(F) + m
      /\ \A j \in 1 .. h :
           L[j] = IF j <= i - 1 /\ F[j].counter = w.counter /\ F[j].signal[w.sigtyp] < 0
                  THEN [F[j] EXCEPT !.signal[w.sigtyp] = w.signal] ELSE F[j]
      /\ \A j \in h + 1 .. h + m : \E e \in 1 .. i - 1 : CopyOf(L[j], F[e], w)
      /\ \A j \in h + 1 .. Len(F) : L[j + m] = F[j]
  BY DEF Stage, Stages
<1>2. Len(F) \in Nat /\ h \in Nat /\ h >= 1 /\ h <= Len(F) /\ i \in Nat /\ i >= 1 /\ i <= h
      /\ w.signal \in Int /\ w.sigtyp \in SigTypes
  BY DEF IsWord
<1>3. L[i] = F[i] /\ F[i] \in Hits /\ i \in 1 .. Len(L)
  <2>1. i \in 1 .. h /\ ~(i <= i - 1) /\ i \in 1 .. Len(F) /\ i \in 1 .. Len(L)
    BY <1>1, <1>2
  <2>2. F[i] \in Hits
    BY <2>1, ElementOfSeq
  <2>3. QED
    BY <1>1, <2>1, <2>2
<1>4. x \in Hits /\ F[i].signal[w.sigtyp] \in Int
  <2>1. F[i].signal \in [SigTypes -> Int]
    BY <1>2, ListType
  <2>2. QED
    BY <1>2, <1>3, <2>1, SignalSet
<1>5. ASSUME next = [list |-> L, multi |-> m],
             F[i].counter # w.counter \/ ~(F[i].signal[w.sigtyp] < 0)
      PROVE  Stage(F, h, w, i, next)
  <2> HIDE DEF next, L, m
  <2>2. ASSUME NEW j \in 1 .. h
        PROVE  L[j] = IF j <= i /\ F[j].counter = w.counter /\ F[j].signal[w.sigtyp] < 0
                      THEN [F[j] EXCEPT !.signal[w.sigtyp] = w.signal] ELSE F[j]
    <3>1. CASE j = i
      BY <1>3, <1>5, <3>1
    <3>2. CASE j # i
      <4>1. j <= i - 1 <=> j <= i
        BY <1>2, <3>2
      <4>2. QED
        BY <1>1, <4>1
    <3>3. QED
      BY <3>1, <3>2
  <2>3. \A j \in h + 1 .. h + m : \E e \in 1 .. i : CopyOf(L[j], F[e], w)
    <3>1. 1 .. i - 1 \subseteq 1 .. i
      BY <1>2
    <3>2. QED
      BY <1>1, <3>1
  <2>4. QED
    BY <1>1, <1>5, <2>2, <2>3, StageIs
<1>6. CASE L[i].counter # w.counter
  <2>1. next = [list |-> L, multi |-> m]
    BY <1>6 DEF Pass
  <2>2. QED
    BY <1>3, <1>5, <1>6, <2>1
<1>7. CASE L[i].counter = w.counter /\ L[i].signal[w.sigtyp] < 0
  <2> DEFINE M == [L EXCEPT ![i].signal[w.sigtyp] = w.signal]
  <2>1. next = [list |-> M, multi |-> m]
    BY <1>7 DEF Pass
  <2>2. M = [L EXCEPT ![i] = x]
    OBVIOUS
  <2>3. M \in Seq(Hits) /\ Len(M) = Len(L) /\ M[i] = x /\ \A j \in 1 .. Len(L) : j # i => M[j] = L[j]
    <3> HIDE DEF x, L, M
    <3>1. [L EXCEPT ![i] = x] \in Seq(Hits) /\ Len([L EXCEPT ![i] = x]) = Len(L)
      BY <1>1, <1>3, <1>4, ExceptSeq
    <3>2. DOMAIN L = 1 .. Len(L)
      BY <1>1
    <3>3. QED
      BY <1>3, <2>2, <3>1, <3>2
  <2> HIDE DEF next, M, L, m
  <2>5. ASSUME NEW j \in 1 .. h
        PROVE  M[j] = IF j <= i /\ F[j].counter = w.counter /\ F[j].signal[w.sigtyp] < 0
                      THEN [F[j] EXCEPT !.signal[w.sigtyp] = w.signal] ELSE F[j]
    <3>1. CASE j = i
      BY <1>3, <1>7, <2>3, <3>1
    <3>2. CASE j # i
      <4>1. (j <= i - 1 <=> j <= i) /\ j \in 1 .. Len(L)
        BY <1>1, <1>2, <3>2
      <4>2. M[j] = L[j]
        BY <2>3, <3>2, <4>1
      <4>3. QED
        BY <1>1, <4>1, <4>2
    <3>3. QED
      BY <3>1, <3>2
  <2>6. ASSUME NEW j \in h + 1 .. h + m  PROVE \E e \in 1 .. i : CopyOf(M[j], F[e], w)
    <3>1. M[j] = L[j] /\ 1 .. i - 1 \subseteq 1 .. i
      BY <1>1, <1>2, <2>3
    <3>2. QED
      BY <1>1, <3>1
  <2>7. ASSUME NEW j \in h + 1 .. Len(F)  PROVE M[j + m] = F[j]
    <3>1. j + m \in 1 .. Len(L) /\ j + m # i
      BY <1>1, <1>2
    <3>2. QED
      BY <1>1, <2>3, <3>1
  <2>8. M \in Seq(Hits) /\ m \in Nat /\ Len(M) = Len(F) + m
    BY <1>1, <2>3
  <2>9. Stage(F, h, w, i, [list |-> M, multi |-> m])
    BY <2>5, <2>6, <2>7, <2>8, StageIs, Zenon
  <2>10. QED
    BY <2>1, <2>9, Zenon DEF next, L, m
<1>8. CASE L[i].counter = w.counter /\ ~(L[i].signal[w.sigtyp] < 0)
  <2>1. CASE Len(L) >= MaxHits \/ Paired(L, i, w.sigtyp, m)
    <3>1. next = [list |-> L, multi |-> m]
      BY <1>8, <2>1 DEF Pass
    <3>2. QED
      BY <1>3, <1>5, <1>8, <3>1
  <2>2. CASE ~(Len(L) >= MaxHits \/ Paired(L, i, w.sigtyp, m))
    <3> DEFINE M == InsertAt(L, h + m + 1, x)
    <3>1. next = [list |-> M, multi |-> m + 1]
      BY <1>8, <2>2 DEF Pass
    <3>2. h + m + 1 \in 1 .. Len(L) + 1
      BY <1>1, <1>2
    <3>3. /\ M \in Seq(Hits) /\ Len(M) = Len(L) + 1
          /\ \A j \in 1 .. Len(L) + 1 : M[j] = IF j < h + m + 1 THEN L[j]
                                              ELSE IF j = h + m + 1 THEN x ELSE L[j - 1]
      <4> HIDE DEF x, L, m
      <4>1. L \in Seq(Hits) /\ x \in Hits /\ M = InsertAt(L, h + m + 1, x)
        BY <1>1, <1>4
      <4>2. Inserted(M, Hits, L, h + m + 1, x)
        BY <3>2, <4>1, InsertIs
      <4> HIDE DEF M
      <4>3. QED
        BY <4>2 DEF Inserted
    <3>5. CopyOf(x, F[i], w)
      BY <1>3, <1>4, <1>8 DEF CopyOf
    <3> HIDE DEF next, M, L, m, x
    <3>6. ASSUME NEW j \in 1 .. h
          PROVE  M[j] = IF j <= i /\ F[j].counter = w.counter /\ F[j].signal[w.sigtyp] < 0
                        THEN [F[j] EXCEPT !.signal[w.sigtyp] = w.signal] ELSE F[j]
      <4>1. M[j] = L[j]
        BY <1>1, <1>2, <3>3
      <4>2. CASE j = i
        BY <1>3, <1>8, <4>1, <4>2
      <4>3. CASE j # i
        <5>1. j <= i - 1 <=> j <= i
          BY <1>2, <4>3
        <5>2. QED
          BY <1>1, <4>1, <5>1
      <4>4. QED
        BY <4>2, <4>3
    <3>7. ASSUME NEW j \in h + 1 .. h + (m + 1)  PROVE \E e \in 1 .. i : CopyOf(M[j], F[e], w)
      <4>1. CASE j = h + m + 1
        <5>1. j \in 1 .. Len(L) + 1 /\ ~(j < h + m + 1)
          BY <1>2, <3>2, <4>1
        <5>2. M[j] = x
          BY <3>3, <4>1, <5>1
        <5>3. i \in 1 .. i
          BY <1>2
        <5>4. QED
          BY <3>5, <5>2, <5>3
      <4>2. CASE j # h + m + 1
        <5>0. m \in Nat /\ Len(L) = Len(F) + m
          BY <1>1
        <5>1. j \in h + 1 .. h + m /\ j \in 1 .. Len(L) + 1 /\ j < h + m + 1
          BY <1>2, <4>2, <5>0
        <5>2. M[j] = L[j]
          BY <3>3, <5>1
        <5>3. PICK e \in 1 .. i - 1 : CopyOf(L[j], F[e], w)
          BY <1>1, <5>1
        <5>4. e \in 1 .. i
          BY <1>2
        <5>5. QED
          BY <5>2, <5>3, <5>4
      <4>3. QED
        BY <4>1, <4>2
    <3>8. ASSUME NEW j \in h + 1 .. Len(F)  PROVE M[j + (m + 1)] = F[j]
      <4>1. j + (m + 1) \in 1 .. Len(L) + 1 /\ j + (m + 1) > h + m + 1 /\ (j + (m + 1)) - 1 = j + m
        BY <1>1, <1>2
      <4>2. M[j + (m + 1)] = L[j + m]
        BY <1>1, <1>2, <3>3, <4>1, SMTT(30)
      <4>3. QED
        BY <1>1, <4>2
    <3>9. Len(M) = Len(F) + (m + 1)
      BY <1>1, <1>2, <3>3
    <3>10. M \in Seq(Hits) /\ m + 1 \in Nat
      BY <1>1, <3>3
    <3>11. Stage(F, h, w, i, [list |-> M, multi |-> m + 1])
      BY <3>6, <3>7, <3>8, <3>9, <3>10, StageIs, Zenon
    <3>12. QED
      BY <3>1, <3>11, Zenon DEF next, L, m
  <2>3. QED
    BY <2>1, <2>2
<1>9. QED
  BY <1>6, <1>7, <1>8

\* g is a run of the passes over the first h entries of F.
Passes(g, F, h, w) ==
  /\ g[0] = [list |-> F, multi |-> 0]
  /\ \A i \in 1 .. h : g[i] = Pass(w, h, g[i - 1].list, i, g[i - 1].multi)

\* Before the passes.
LEMMA FirstStage ==
  ASSUME NEW F \in Seq(Hits), NEW h \in 1 .. Len(F), NEW w
  PROVE  Stage(F, h, w, 0, [list |-> F, multi |-> 0])
<1>1. \A j \in 1 .. h : ~(j <= 0)
  OBVIOUS
<1>2. Len(F) \in Nat /\ h \in Nat
  OBVIOUS
<1>3. \A j \in h + 1 .. h + 0 : FALSE
  BY <1>2
<1>4. \A j \in h + 1 .. Len(F) : F[j + 0] = F[j]
  BY <1>2
<1>5. QED
  BY <1>1, <1>2, <1>3, <1>4 DEF Stage, Stages

\* The stages the passes go through.
LEMMA PassesStages ==
  ASSUME NEW F \in Seq(Hits), NEW h \in 1 .. Len(F), NEW w, IsWord(w),
         NEW g, Passes(g, F, h, w)
  PROVE  \A i \in 0 .. h : Stage(F, h, w, i, g[i])
<1> DEFINE S == {i \in Nat : i <= h => Stage(F, h, w, i, g[i])}
<1>1. 0 \in S
  BY FirstStage DEF Passes
<1>2. ASSUME NEW i \in S  PROVE i + 1 \in S
  <2>1. SUFFICES ASSUME i + 1 <= h PROVE Stage(F, h, w, i + 1, g[i + 1])
    OBVIOUS
  <2>2. i + 1 \in 1 .. h /\ (i + 1) - 1 = i /\ i \in Nat
    BY <2>1
  <2>3. Stage(F, h, w, i, g[i])
    BY <2>1, <2>2
  <2>4. g[i + 1] = Pass(w, h, g[i].list, i + 1, g[i].multi)
    BY <2>2 DEF Passes
  <2>5. Stage(F, h, w, (i + 1) - 1, g[i])
    BY <2>2, <2>3
  <2>6. Stage(F, h, w, i + 1, Pass(w, h, g[i].list, i + 1, g[i].multi))
    BY <2>2, <2>5, PassStage
  <2>7. QED
    BY <2>4, <2>6
<1> HIDE DEF S
<1>3. S = Nat
  BY <1>1, <1>2, SetInduction DEF S
<1>4. QED
  BY <1>3 DEF S

\* AfterPasses gives the list at the end of such a run.
LEMMA PassesRun ==
  ASSUME NEW F \in Seq(Hits), NEW h \in 1 .. Len(F), NEW w, IsWord(w)
  PROVE  \E g : Passes(g, F, h, w) /\ AfterPasses(w, F, h) = g[h].list
<1> DEFINE start == [list |-> F, multi |-> 0]
           P(i, v) == Pass(w, h, v.list, i, v.multi)
           K == [n \in Nat |-> [v \in Stages |->
                   IF n < h /\ Stage(F, h, w, n, v) THEN P(n + 1, v) ELSE v]]
           Is(a) == a = [i \in 0 .. h |-> IF i = 0 THEN start ELSE P(i, a[i - 1])]
<1>1. start \in Stages
  BY DEF Stages
<1>2. ASSUME NEW n \in Nat, NEW v \in Stages, n < h, Stage(F, h, w, n, v)
      PROVE  P(n + 1, v) \in Stages /\ Stage(F, h, w, n + 1, P(n + 1, v))
  <2>1. n + 1 \in 1 .. h /\ (n + 1) - 1 = n
    BY <1>2
  <2>2. Stage(F, h, w, (n + 1) - 1, v)
    BY <1>2, <2>1
  <2>3. Stage(F, h, w, n + 1, P(n + 1, v))
    BY <2>1, <2>2, PassStage
  <2> HIDE DEF P
  <2>4. QED
    BY <2>3 DEF Stage
<1> HIDE DEF P
<1>3. K \in [Nat -> [Stages -> Stages]]
  BY <1>2
<1>4. PICK f : IsRecursion(f, Stages, start, K)
  <2> HIDE DEF K, start
  <2>1. QED
    BY <1>1, <1>3, RecursionExists
<1>5. /\ f \in [Nat -> Stages] /\ f[0] = start
      /\ \A n \in Nat : f[n + 1] = IF n < h /\ Stage(F, h, w, n, f[n]) THEN P(n + 1, f[n]) ELSE f[n]
  <2> HIDE DEF start
  <2>1. f \in [Nat -> Stages] /\ f[0] = start /\ \A n \in Nat : f[n + 1] = K[n][f[n]]
    BY <1>4 DEF IsRecursion
  <2>2. QED
    BY <2>1
<1> DEFINE S == {n \in Nat : n <= h => Stage(F, h, w, n, f[n])}
<1>6. S = Nat
  <2>1. 0 \in S
    BY <1>5, FirstStage
  <2>2. ASSUME NEW n \in S  PROVE n + 1 \in S
    <3>1. SUFFICES ASSUME n + 1 <= h PROVE Stage(F, h, w, n + 1, f[n + 1])
      OBVIOUS
    <3>2. n \in Nat /\ n < h /\ Stage(F, h, w, n, f[n]) /\ f[n] \in Stages
      BY <1>5, <3>1
    <3>3. f[n + 1] = P(n + 1, f[n])
      BY <1>5, <3>2
    <3>4. QED
      BY <1>2, <3>2, <3>3
  <2> HIDE DEF S
  <2>3. QED
    BY <2>1, <2>2, SetInduction DEF S
<1>7. \E a : Is(a)
  <2> DEFINE a == [i \in 0 .. h |-> f[i]]
  <2>1. ASSUME NEW i \in 0 .. h  PROVE a[i] = IF i = 0 THEN start ELSE P(i, a[i - 1])
    <3>1. CASE i = 0
      BY <1>5, <3>1
    <3>2. CASE i # 0
      <4>1. i - 1 \in Nat /\ i - 1 \in 0 .. h /\ (i - 1) + 1 = i /\ i - 1 < h /\ i - 1 <= h
        BY <3>2
      <4>2. Stage(F, h, w, i - 1, f[i - 1])
        BY <1>6, <4>1
      <4>3. f[i] = P(i, f[i - 1])
        BY <1>5, <4>1, <4>2
      <4>4. a[i] = f[i] /\ a[i - 1] = f[i - 1]
        BY <4>1
      <4> HIDE DEF a, start
      <4>5. QED
        BY <3>2, <4>3, <4>4
    <3>3. QED
      BY <3>1, <3>2
  <2>2. a = [i \in 0 .. h |-> a[i]]
    OBVIOUS
  <2> HIDE DEF a, start
  <2>3. [i \in 0 .. h |-> a[i]] = [i \in 0 .. h |-> IF i = 0 THEN start ELSE P(i, a[i - 1])]
    BY <2>1
  <2>4. QED
    BY <2>2, <2>3
<1> DEFINE after == CHOOSE a : Is(a)
<1>8. Is(after)
  <2> HIDE DEF Is
  <2>1. QED
    BY <1>7, Zenon
<1>9. AfterPasses(w, F, h) = after[h].list
  BY DEF AfterPasses, P
<1> HIDE DEF after, start
<1>10. after = [i \in 0 .. h |-> IF i = 0 THEN start ELSE P(i, after[i - 1])]
  BY <1>8
<1>11. Passes(after, F, h, w)
  <2>1. after[0] = start /\ \A i \in 1 .. h : after[i] = P(i, after[i - 1])
    BY <1>10
  <2>2. QED
    BY <2>1 DEF Passes, start, P
<1>12. QED
  BY <1>9, <1>11

\* M comes from F by a word: its entries are F's or have the word's signal,
\* and every entry of F has left one of its counter.
GrownFrom(M, F, w) ==
  /\ M \in Seq(Hits) /\ Len(F) <= Len(M)
  /\ \A j \in 1 .. Len(M) : \E e \in 1 .. Len(F) :
       \/ M[j] = F[e]
       \/ F[e].counter = w.counter /\ M[j] = [F[e] EXCEPT !.signal[w.sigtyp] = w.signal]
  /\ \A e \in 1 .. Len(F) : \E j \in 1 .. Len(M) : M[j].counter = F[e].counter

\* What the last stage says of the list.
LEMMA StageGrown ==
  ASSUME NEW F \in Seq(Hits), NEW h \in 1 .. Len(F), NEW w, IsWord(w),
         NEW st, Stage(F, h, w, h, st)
  PROVE  Shifted(st.list, F, h, st.multi, w.counter) /\ GrownFrom(st.list, F, w)
<1> DEFINE M == st.list
           m == st.multi
<1>1. /\ M \in Seq(Hits) /\ m \in Nat /\ Len(M) = Len(F) + m
      /\ \A j \in 1 .. h : M[j] = IF j <= h /\ F[j].counter = w.counter /\ F[j].signal[w.sigtyp] < 0
                                  THEN [F[j] EXCEPT !.signal[w.sigtyp] = w.signal] ELSE F[j]
      /\ \A j \in h + 1 .. h + m : \E e \in 1 .. h : CopyOf(M[j], F[e], w)
      /\ \A j \in h + 1 .. Len(F) : M[j + m] = F[j]
  BY DEF Stage, Stages
<1>2. Len(F) \in Nat /\ h \in 1 .. Len(F) /\ h \in Nat /\ h <= Len(F)
      /\ w.signal \in Int /\ w.sigtyp \in SigTypes
  BY DEF IsWord
<1> HIDE DEF M, m
<1>3. ASSUME NEW e \in 1 .. Len(F)
      PROVE  LET x == [F[e] EXCEPT !.signal[w.sigtyp] = w.signal]
             IN  x \in Hits /\ x.counter = F[e].counter
  <2>1. F[e] \in Hits
    BY ListType
  <2>2. QED
    BY <1>2, <2>1, SignalSet
<1>4. ASSUME NEW j \in 1 .. h
      PROVE  /\ M[j].counter = F[j].counter
             /\ F[j].counter # w.counter => M[j] = F[j]
             /\ \/ M[j] = F[j]
                \/ F[j].counter = w.counter /\ M[j] = [F[j] EXCEPT !.signal[w.sigtyp] = w.signal]
  <2>1. j \in 1 .. Len(F)
    BY <1>2
  <2>2. CASE F[j].counter = w.counter /\ F[j].signal[w.sigtyp] < 0
    <3>0. j <= h
      BY <1>2
    <3>1. M[j] = [F[j] EXCEPT !.signal[w.sigtyp] = w.signal]
      BY <1>1, <2>2, <3>0, Zenon
    <3>2. QED
      BY <1>3, <2>1, <2>2, <3>1
  <2>3. CASE ~(F[j].counter = w.counter /\ F[j].signal[w.sigtyp] < 0)
    <3>1. M[j] = F[j]
      BY <1>1, <2>3
    <3>2. QED
      BY <3>1
  <2>4. QED
    BY <2>2, <2>3
<1>5. ASSUME NEW j \in h + 1 .. h + m
      PROVE  /\ M[j].counter = w.counter
             /\ \E e \in 1 .. Len(F) :
                  F[e].counter = w.counter /\ M[j] = [F[e] EXCEPT !.signal[w.sigtyp] = w.signal]
  <2>1. PICK e \in 1 .. h : CopyOf(M[j], F[e], w)
    BY <1>1
  <2>2. e \in 1 .. Len(F) /\ F[e].counter = w.counter
        /\ M[j] = [F[e] EXCEPT !.signal[w.sigtyp] = w.signal]
    BY <1>2, <2>1 DEF CopyOf
  <2>3. QED
    BY <1>3, <2>2
<1>6. ASSUME NEW j \in h + m + 1 .. Len(M)  PROVE j - m \in 1 .. Len(F) /\ M[j] = F[j - m]
  <2>1. j - m \in h + 1 .. Len(F) /\ (j - m) + m = j /\ j - m \in 1 .. Len(F)
    BY <1>1, <1>2
  <2>2. M[(j - m) + m] = F[j - m]
    BY <1>1, <2>1
  <2>3. QED
    BY <2>1, <2>2
<1>7. Shifted(M, F, h, m, w.counter)
  <2>1. h \in 0 .. Len(F)
    BY <1>2
  <2>2. \A j \in 1 .. h : M[j].counter = F[j].counter /\ (F[j].counter # w.counter => M[j] = F[j])
    BY <1>4
  <2>3. \A j \in h + 1 .. h + m : M[j].counter = w.counter
    BY <1>5
  <2>4. \A j \in h + m + 1 .. Len(M) : M[j] = F[j - m]
    BY <1>6
  <2>5. QED
    BY <1>1, <2>1, <2>2, <2>3, <2>4, Zenon DEF Shifted
<1>8. ASSUME NEW j \in 1 .. Len(M)
      PROVE  \E e \in 1 .. Len(F) :
               \/ M[j] = F[e]
               \/ F[e].counter = w.counter /\ M[j] = [F[e] EXCEPT !.signal[w.sigtyp] = w.signal]
  <2>1. CASE j \in 1 .. h
    <3>1. j \in 1 .. Len(F)
      BY <1>2, <2>1
    <3>2. QED
      BY <1>4, <2>1, <3>1
  <2>2. CASE j \in h + 1 .. h + m
    BY <1>5, <2>2
  <2>3. CASE j \in h + m + 1 .. Len(M)
    BY <1>6, <2>3
  <2>4. QED
    BY <1>1, <1>2, <2>1, <2>2, <2>3, SMTT(30)
<1>9. ASSUME NEW e \in 1 .. Len(F)  PROVE \E j \in 1 .. Len(M) : M[j].counter = F[e].counter
  <2>1. CASE e <= h
    <3>1. e \in 1 .. h /\ e \in 1 .. Len(M)
      BY <1>1, <1>2, <2>1
    <3>2. QED
      BY <1>4, <3>1
  <2>2. CASE e > h
    <3>1. e \in h + 1 .. Len(F) /\ e + m \in 1 .. Len(M)
      BY <1>1, <1>2, <2>2
    <3>2. QED
      BY <1>1, <3>1
  <2>3. QED
    BY <1>2, <2>1, <2>2
<1>10. Len(F) <= Len(M)
  BY <1>1, <1>2
<1>11. GrownFrom(M, F, w)
  BY <1>1, <1>8, <1>9, <1>10 DEF GrownFrom
<1>12. QED
  BY <1>7, <1>11 DEF M, m

\* The list after the passes: it is still sorted.
LEMMA PassesGrown ==
  ASSUME NEW F \in Seq(Hits), Sorted(F), NEW w, IsWord(w),
         PlaceOf(F, w.counter) > 0, F[PlaceOf(F, w.counter)].counter = w.counter
  PROVE  LET h == PlaceOf(F, w.counter)
             M == AfterPasses(w, F, h)
         IN  /\ GrownFrom(M, F, w) /\ Sorted(M)
             /\ \E g : /\ Passes(g, F, h, w) /\ M = g[h].list
                       /\ \A i \in 0 .. h : Stage(F, h, w, i, g[i])
<1> DEFINE h == PlaceOf(F, w.counter)
<1>1. /\ h \in 1 .. Len(F) /\ w.counter \in Nat
      /\ \A i \in 1 .. Len(F) : i > h => F[i].counter > w.counter
      /\ \A i \in 1 .. h : F[i].counter <= w.counter
  BY PlaceIs DEF IsWord
<1> HIDE DEF h
<1>2. PICK g : Passes(g, F, h, w) /\ AfterPasses(w, F, h) = g[h].list
  BY <1>1, PassesRun
<1>3. \A i \in 0 .. h : Stage(F, h, w, i, g[i])
  BY <1>1, <1>2, PassesStages
<1> DEFINE M == g[h].list
<1>4. Shifted(M, F, h, g[h].multi, w.counter) /\ GrownFrom(M, F, w)
  <2>1. h \in 0 .. h
    BY <1>1
  <2>2. Stage(F, h, w, h, g[h])
    BY <1>3, <2>1
  <2>3. QED
    BY <1>1, <2>2, StageGrown
<1>5. M \in Seq(Hits)
  BY <1>4 DEF GrownFrom
<1>6. \A j \in h + 1 .. Len(F) : F[j].counter > w.counter
  BY <1>1
<1> HIDE DEF M
<1>7. Sorted(M)
  BY <1>1, <1>4, <1>5, <1>6, ShiftedSorted
<1>8. QED
  BY <1>2, <1>3, <1>4, <1>7 DEF h, M

-----------------------------------------------------------------------------
(* The words taken.                                                        *)

\* One more word: the signals, the counters and the last signals of the words.
LEMMA TakenGrows ==
  ASSUME NEW T, NEW words \in Seq(T), NEW w \in T, NEW counter, NEW t
  PROVE  LET more == Append(words, w)
         IN  /\ more \in Seq(T) /\ DOMAIN words = 1 .. Len(words) /\ Len(words) \in Nat
             /\ DOMAIN more = 1 .. Len(words) + 1
             /\ more[Len(words) + 1] = w /\ \A k \in 1 .. Len(words) : more[k] = words[k]
             /\ Signals(more, counter, t)
                  = Signals(words, counter, t)
                      \union (IF counter = w.counter /\ t = w.sigtyp THEN {w.signal} ELSE {})
<1> DEFINE more == Append(words, w)
           n == Len(words)
<1>1. /\ more \in Seq(T) /\ n \in Nat /\ DOMAIN words = 1 .. n /\ DOMAIN more = 1 .. n + 1
      /\ more[n + 1] = w /\ \A k \in 1 .. n : more[k] = words[k]
  BY AppendProperties
<1> HIDE DEF more, n
<1>2. Signals(more, counter, t)
        = Signals(words, counter, t)
            \union (IF counter = w.counter /\ t = w.sigtyp THEN {w.signal} ELSE {})
  <2>1. ASSUME NEW v \in Signals(more, counter, t)
        PROVE  v \in Signals(words, counter, t)
                 \union (IF counter = w.counter /\ t = w.sigtyp THEN {w.signal} ELSE {})
    <3>1. PICK k \in 1 .. n + 1 : /\ more[k].counter = counter /\ more[k].sigtyp = t
                                  /\ v = more[k].signal
      BY <1>1 DEF Signals
    <3>2. CASE k = n + 1
      BY <1>1, <3>1, <3>2
    <3>3. CASE k \in 1 .. n
      <4>1. v \in Signals(words, counter, t)
        BY <1>1, <3>1, <3>3 DEF Signals
      <4>2. QED
        BY <4>1
    <3>4. QED
      BY <1>1, <3>2, <3>3
  <2>2. ASSUME NEW v \in Signals(words, counter, t)  PROVE v \in Signals(more, counter, t)
    <3>1. PICK k \in 1 .. n : /\ words[k].counter = counter /\ words[k].sigtyp = t
                              /\ v = words[k].signal
      BY <1>1, <2>2 DEF Signals
    <3>2. k \in 1 .. n + 1 /\ more[k] = words[k]
      BY <1>1
    <3>3. QED
      BY <1>1, <3>1, <3>2 DEF Signals
  <2>3. counter = w.counter /\ t = w.sigtyp => w.signal \in Signals(more, counter, t)
    <3>1. n + 1 \in 1 .. n + 1
      BY <1>1
    <3>2. QED
      BY <1>1, <3>1 DEF Signals
  <2>4. QED
    BY <2>1, <2>2, <2>3
<1>3. QED
  BY <1>1, <1>2 DEF more, n

\* The last signal is that of the new word, for its own counter and type.
LEMMA LastSignalGrows ==
  ASSUME NEW T, NEW words \in Seq(T), NEW w \in T, NEW counter, NEW t
  PROVE  LastSignal(Append(words, w), counter, t)
           = IF counter = w.counter /\ t = w.sigtyp THEN w.signal ELSE LastSignal(words, counter, t)
<1> DEFINE more == Append(words, w)
           n == Len(words)
           Of(s) == {0} \union {k \in DOMAIN s : s[k].counter = counter /\ s[k].sigtyp = t}
<1>1. /\ n \in Nat /\ DOMAIN words = 1 .. n /\ DOMAIN more = 1 .. n + 1
      /\ more[n + 1] = w /\ \A k \in 1 .. n : more[k] = words[k]
  BY TakenGrows
<1>2. LastSignal(words, counter, t) = IF Max(Of(words)) = 0 THEN NoSignal ELSE words[Max(Of(words))].signal
  BY Zenon DEF LastSignal
<1>3. LastSignal(more, counter, t) = IF Max(Of(more)) = 0 THEN NoSignal ELSE more[Max(Of(more))].signal
  BY Zenon DEF LastSignal
<1> HIDE DEF more, n
<1>4. CASE counter = w.counter /\ t = w.sigtyp
  <2>1. Of(more) \in SUBSET (0 .. n + 1) /\ Of(more) # {} /\ n + 1 \in Of(more) /\ n + 1 \in Nat
    BY <1>1, <1>4
  <2> HIDE DEF Of
  <2>2. Max(Of(more)) \in Of(more) /\ \A i \in Of(more) : i <= Max(Of(more))
    BY <2>1, MaxIs
  <2>3. Max(Of(more)) = n + 1
    BY <1>1, <2>1, <2>2
  <2>4. n + 1 # 0
    BY <1>1
  <2>5. QED
    BY <1>1, <1>3, <1>4, <2>3, <2>4 DEF more
<1>5. CASE ~(counter = w.counter /\ t = w.sigtyp)
  <2>1. Of(more) = Of(words)
    BY <1>1, <1>5
  <2>2. Of(words) \in SUBSET (0 .. n) /\ Of(words) # {}
    BY <1>1
  <2> HIDE DEF Of
  <2>3. Max(Of(words)) \in 0 .. n
    BY <1>1, <2>2, MaxIs
  <2>4. Max(Of(words)) # 0 => more[Max(Of(words))] = words[Max(Of(words))]
    BY <1>1, <2>3
  <2>5. QED
    BY <1>2, <1>3, <1>5, <2>1, <2>4 DEF more
<1>6. QED
  BY <1>4, <1>5

\* Without a word of the counter there is no last signal.
LEMMA NoLastSignal ==
  ASSUME NEW T, NEW words \in Seq(T), NEW counter, NEW t,
         \A k \in DOMAIN words : words[k].counter # counter
  PROVE  LastSignal(words, counter, t) = NoSignal
<1>1. {k \in DOMAIN words : words[k].counter = counter /\ words[k].sigtyp = t} = {}
  OBVIOUS
<1>2. {0} \union {k \in DOMAIN words : words[k].counter = counter /\ words[k].sigtyp = t} = {0}
  BY <1>1
<1>3. Max({0}) = 0
  BY DEF Max
<1>4. QED
  BY <1>2, <1>3, Zenon DEF LastSignal

-----------------------------------------------------------------------------
(* What a word does to the list.                                           *)

\* No two entries are of the same counter.
Distinct(list) ==
  \A i, j \in 1 .. Len(list) : list[i].counter = list[j].counter => i = j

\* A counter is new and there is no room for it (g_decode_fb_detector.f:364).
NoRoomFor(counter) ==
  /\ Routine = "fb" /\ Len(hits) = MaxHits
  /\ \A i \in 1 .. Len(hits) : hits[i].counter # counter

\* The entries of the list with a hit of the counter in it.
LEMMA WithHitGrown ==
  ASSUME TypeOK, Sorted(hits), NEW counter \in Nat
  PROVE  LET L == WithHit(counter)
             g == PlaceOf(L, counter)
         IN  /\ L \in Seq(Hits) /\ Sorted(L) /\ Len(hits) <= Len(L) /\ Len(hits) \in Nat
             /\ \A j \in 1 .. Len(L) :
                  \/ L[j] = NewHit(counter) /\ \A i \in 1 .. Len(hits) : hits[i].counter # counter
                  \/ \E i \in 1 .. Len(hits) : L[j] = hits[i]
             /\ \A i \in 1 .. Len(hits) : \E j \in 1 .. Len(L) : L[j] = hits[i]
             /\ ~NoRoomFor(counter) => g \in 1 .. Len(L) /\ L[g].counter = counter
             /\ Distinct(hits) => Distinct(L)
<1> DEFINE L == WithHit(counter)
           h == PlaceOf(hits, counter)
           g == PlaceOf(L, counter)
<1>1. /\ L \in Seq(Hits) /\ Sorted(L)
      /\ \/ L = hits /\ g > 0 /\ L[g].counter = counter
         \/ L = hits /\ NoRoomFor(counter)
         \/ /\ Shifted(L, hits, h, 1, counter) /\ g = h + 1 /\ L[g] = NewHit(counter)
            /\ \A j \in 1 .. h : L[j] = hits[j]
            /\ \A i \in 1 .. Len(hits) : hits[i].counter # counter
  <2>1. /\ L \in Seq(Hits) /\ Sorted(L)
        /\ \/ L = hits /\ g > 0 /\ L[g].counter = counter
           \/ /\ L = hits /\ Routine = "fb" /\ Len(hits) = MaxHits
              /\ \A i \in 1 .. Len(hits) : hits[i].counter # counter
           \/ /\ Shifted(L, hits, h, 1, counter) /\ g = h + 1 /\ L[g] = NewHit(counter)
              /\ \A j \in 1 .. h : L[j] = hits[j]
              /\ ~(Routine = "fb" /\ Len(hits) = MaxHits)
              /\ \A i \in 1 .. Len(hits) : hits[i].counter # counter
    BY WithHitIs
  <2> HIDE DEF L, h, g
  <2>2. QED
    BY <2>1, Zenon DEF NoRoomFor
<1>2. hits \in Seq(Hits) /\ Len(hits) \in Nat
  BY DEF TypeOK
<1>3. g \in 0 .. Len(L) /\ Len(L) \in Nat
  BY <1>1, PlaceIs
<1> HIDE DEF L, h, g
<1>4. CASE L = hits
  <2>1. ~NoRoomFor(counter) => g \in 1 .. Len(L) /\ L[g].counter = counter
    <3>1. SUFFICES ASSUME ~NoRoomFor(counter) PROVE g \in 1 .. Len(L) /\ L[g].counter = counter
      OBVIOUS
    <3>2. CASE g > 0 /\ L[g].counter = counter
      BY <1>3, <3>2
    <3>3. CASE g = h + 1 /\ \A i \in 1 .. Len(hits) : hits[i].counter # counter
      <4>1. CASE Shifted(L, hits, h, 1, counter)
        BY <1>2, <1>4, <4>1 DEF Shifted
      <4>2. QED
        BY <1>1, <3>1, <3>2, <4>1
    <3>4. QED
      BY <1>1, <3>1, <3>2, <3>3
  <2>2. \A j \in 1 .. Len(L) : \E i \in 1 .. Len(hits) : L[j] = hits[i]
    BY <1>4
  <2>3. \A i \in 1 .. Len(hits) : \E j \in 1 .. Len(L) : L[j] = hits[i]
    BY <1>4
  <2>4. Len(hits) <= Len(L)
    BY <1>2, <1>4
  <2>5. QED
    BY <1>1, <1>2, <1>4, <2>1, <2>2, <2>3, <2>4 DEF L, g
<1>5. CASE L # hits
  <2>1. /\ Shifted(L, hits, h, 1, counter) /\ g = h + 1 /\ L[g] = NewHit(counter)
        /\ \A j \in 1 .. h : L[j] = hits[j]
        /\ \A i \in 1 .. Len(hits) : hits[i].counter # counter
    BY <1>1, <1>5
  <2>2. /\ h \in 0 .. Len(hits) /\ Len(L) = Len(hits) + 1
        /\ \A j \in h + 2 .. Len(L) : L[j] = hits[j - 1]
    <3>1. (h + 1) + 1 = h + 2
      BY <2>1 DEF Shifted
    <3>2. QED
      BY <2>1, <3>1 DEF Shifted
  <2>3. L[g].counter = counter /\ g \in 1 .. Len(L)
    BY <1>2, <2>1, <2>2, NewHitIs
  <2> DEFINE from(j) == IF j <= h THEN j ELSE j - 1
  <2>4. ASSUME NEW j \in 1 .. Len(L), j # g
        PROVE  from(j) \in 1 .. Len(hits) /\ L[j] = hits[from(j)]
    <3>1. CASE j <= h
      BY <1>2, <2>1, <2>2, <3>1
    <3>2. CASE j > h
      <4>1. j \in h + 2 .. Len(L) /\ from(j) = j - 1 /\ j - 1 \in 1 .. Len(hits)
        BY <1>2, <2>1, <2>2, <2>4, <3>2
      <4> HIDE DEF from
      <4>2. QED
        BY <2>2, <4>1
    <3>3. QED
      BY <2>2, <3>1, <3>2
  <2>5. ASSUME NEW i \in 1 .. Len(hits)  PROVE \E j \in 1 .. Len(L) : L[j] = hits[i]
    <3>1. CASE i <= h
      <4>1. i \in 1 .. h /\ i \in 1 .. Len(L)
        BY <1>2, <2>2, <3>1
      <4>2. QED
        BY <2>1, <4>1
    <3>2. CASE i > h
      <4>1. i + 1 \in h + 2 .. Len(L) /\ i + 1 \in 1 .. Len(L) /\ (i + 1) - 1 = i
        BY <1>2, <2>2, <3>2
      <4>2. L[i + 1] = hits[i]
        BY <2>2, <4>1
      <4>3. QED
        BY <4>1, <4>2
    <3>3. QED
      BY <2>2, <3>1, <3>2
  <2>6. ASSUME Distinct(hits), NEW i \in 1 .. Len(L), NEW j \in 1 .. Len(L),
               L[i].counter = L[j].counter
        PROVE  i = j
    <3>1. CASE i = g
      BY <2>1, <2>3, <2>4, <2>6, <3>1
    <3>2. CASE j = g
      BY <2>1, <2>3, <2>4, <2>6, <3>2
    <3>3. CASE i # g /\ j # g
      <4>1. /\ from(i) \in 1 .. Len(hits) /\ L[i] = hits[from(i)]
            /\ from(j) \in 1 .. Len(hits) /\ L[j] = hits[from(j)]
        BY <2>4, <3>3
      <4> HIDE DEF from
      <4>2. from(i) = from(j)
        BY <2>6, <4>1 DEF Distinct
      <4>3. QED
        BY <2>1, <2>2, <3>3, <4>2 DEF from
    <3>4. QED
      BY <3>1, <3>2, <3>3
  <2>7. ASSUME NEW j \in 1 .. Len(L)
        PROVE  \/ L[j] = NewHit(counter) /\ \A i \in 1 .. Len(hits) : hits[i].counter # counter
               \/ \E i \in 1 .. Len(hits) : L[j] = hits[i]
    <3> HIDE DEF from
    <3>1. QED
      BY <2>1, <2>4
  <2>8. Len(hits) <= Len(L)
    BY <1>2, <2>2
  <2>9. Distinct(hits) => Distinct(L)
    BY <2>6 DEF Distinct
  <2>10. QED
    BY <1>1, <1>2, <2>3, <2>5, <2>7, <2>8, <2>9 DEF L, g
<1>6. QED
  BY <1>4, <1>5

\* M is L with v as the signal t of entry g.
HasSignal(M, L, g, t, v) ==
  /\ M \in Seq(Hits) /\ Len(M) = Len(L)
  /\ M[g] = [L[g] EXCEPT !.signal[t] = v]
  /\ \A j \in 1 .. Len(L) : j # g => M[j] = L[j]
  /\ \A j \in 1 .. Len(L) : M[j].counter = L[j].counter

\* A signal stored with one entry.
LEMMA EntrySet ==
  ASSUME NEW L \in Seq(Hits), NEW g \in 1 .. Len(L), NEW t \in SigTypes, NEW v \in Int
  PROVE  HasSignal([L EXCEPT ![g].signal[t] = v], L, g, t, v)
<1> DEFINE x == [L[g] EXCEPT !.signal[t] = v]
           M == [L EXCEPT ![g].signal[t] = v]
<1>1. M = [L EXCEPT ![g] = x]
  OBVIOUS
<1>2. L[g] \in Hits /\ DOMAIN L = 1 .. Len(L) /\ Len(L) \in Nat
  BY ListType
<1>3. x \in Hits /\ x.counter = L[g].counter
  BY <1>2, SignalSet
<1> HIDE DEF x, M
<1>4. [L EXCEPT ![g] = x] \in Seq(Hits) /\ Len([L EXCEPT ![g] = x]) = Len(L)
  BY <1>3, ExceptSeq
<1>5. M[g] = x /\ \A j \in 1 .. Len(L) : j # g => M[j] = L[j]
  BY <1>1, <1>2
<1>6. QED
  BY <1>1, <1>3, <1>4, <1>5 DEF x, M, HasSignal

\* A hit on a counter with single-hit signals: it is stored with an entry of the
\* counter, unless there is no room for one.
LEMMA SignalStep ==
  ASSUME TypeOK, Sorted(hits), NEW w, IsWord(w), StoreSignal(w), stray \in BOOLEAN
  PROVE  /\ hits' \in Seq(Hits) /\ Sorted(hits') /\ stray' \in BOOLEAN
         /\ ~NoRoomFor(w.counter) =>
              /\ stray' = stray /\ GrownFrom(hits', WithHit(w.counter), w)
              /\ Distinct(hits) => Distinct(hits')
<1> DEFINE L == WithHit(w.counter)
           g == PlaceOf(L, w.counter)
<1>1. w.counter \in Nat /\ w.sigtyp \in SigTypes /\ w.signal \in Int
  BY DEF IsWord
<1>2. /\ L \in Seq(Hits) /\ Sorted(L)
      /\ ~NoRoomFor(w.counter) => g \in 1 .. Len(L) /\ L[g].counter = w.counter
      /\ Distinct(hits) => Distinct(L)
  BY <1>1, WithHitGrown
<1>3. g \in 0 .. Len(L) /\ Len(L) \in Nat
  BY <1>1, <1>2, PlaceIs
<1>4. IF g > 0
      THEN hits' = [L EXCEPT ![g].signal[w.sigtyp] = w.signal] /\ UNCHANGED stray
      ELSE hits' = L /\ stray' = TRUE
  BY Zenon DEF StoreSignal
<1> HIDE DEF L, g
<1>5. CASE g > 0
  <2>1. g \in 1 .. Len(L)
    BY <1>3, <1>5
  <2>2. hits' = [L EXCEPT ![g].signal[w.sigtyp] = w.signal] /\ stray' = stray
    BY <1>4, <1>5
  <2>3. /\ hits' \in Seq(Hits) /\ Len(hits') = Len(L)
        /\ hits'[g] = [L[g] EXCEPT !.signal[w.sigtyp] = w.signal]
        /\ \A j \in 1 .. Len(L) : j # g => hits'[j] = L[j]
        /\ \A j \in 1 .. Len(L) : hits'[j].counter = L[j].counter
    <3>1. HasSignal([L EXCEPT ![g].signal[w.sigtyp] = w.signal], L, g, w.sigtyp, w.signal)
      BY <1>1, <1>2, <2>1, EntrySet
    <3>2. HasSignal(hits', L, g, w.sigtyp, w.signal)
      BY <2>2, <3>1
    <3>3. QED
      BY <3>2 DEF HasSignal
  <2>4. Sorted(hits')
    BY <1>2, <2>3, CountersSorted
  <2>5. ASSUME ~NoRoomFor(w.counter)
        PROVE  GrownFrom(hits', L, w)
    <3>1. L[g].counter = w.counter
      BY <1>2, <2>5
    <3>2. ASSUME NEW j \in 1 .. Len(hits')
          PROVE  \E e \in 1 .. Len(L) :
                   \/ hits'[j] = L[e]
                   \/ L[e].counter = w.counter /\ hits'[j] = [L[e] EXCEPT !.signal[w.sigtyp] = w.signal]
      BY <2>1, <2>3, <3>1
    <3>3. \A e \in 1 .. Len(L) : \E j \in 1 .. Len(hits') : hits'[j].counter = L[e].counter
      BY <2>3
    <3>4. Len(L) <= Len(hits')
      BY <1>3, <2>3
    <3>5. QED
      BY <2>3, <3>2, <3>3, <3>4 DEF GrownFrom
  <2>6. ASSUME Distinct(hits)  PROVE Distinct(hits')
    <3>1. Distinct(L)
      BY <1>2, <2>6
    <3>2. QED
      BY <2>3, <3>1 DEF Distinct
  <2>7. QED
    BY <2>2, <2>3, <2>4, <2>5, <2>6 DEF L
<1>6. CASE ~(g > 0)
  <2>1. hits' = L /\ stray' = TRUE
    BY <1>4, <1>6
  <2>2. ~(~NoRoomFor(w.counter))
    BY <1>2, <1>3, <1>6
  <2>3. QED
    BY <1>2, <2>1, <2>2
<1>7. QED
  BY <1>5, <1>6

\* An ADC value: it goes to all entries of the counter.
LEMMA AdcStep ==
  ASSUME TypeOK, Sorted(hits), NEW w, IsWord(w), StoreAdc(w)
  PROVE  LET L == WithHit(w.counter)
         IN  /\ hits' \in Seq(Hits) /\ Sorted(hits') /\ Len(hits') = Len(L)
             /\ GrownFrom(hits', L, w)
             /\ \A j \in 1 .. Len(L) :
                  hits'[j] = IF L[j].counter = w.counter
                             THEN [L[j] EXCEPT !.signal[w.sigtyp] = w.signal] ELSE L[j]
<1> DEFINE L == WithHit(w.counter)
<1>1. w.counter \in Nat /\ w.sigtyp \in SigTypes /\ w.signal \in Int
  BY DEF IsWord
<1>2. L \in Seq(Hits) /\ Sorted(L)
  BY <1>1, WithHitGrown
<1>3. hits' = [i \in DOMAIN L |-> IF L[i].counter = w.counter
                                  THEN [L[i] EXCEPT !.signal[w.sigtyp] = w.signal] ELSE L[i]]
  BY DEF StoreAdc
<1> HIDE DEF L
<1>4. Len(L) \in Nat /\ DOMAIN L = 1 .. Len(L) /\ \A i \in 1 .. Len(L) : L[i] \in Hits
  BY <1>2, ListType
<1>5. ASSUME NEW j \in 1 .. Len(L)
      PROVE  /\ hits'[j] = IF L[j].counter = w.counter
                           THEN [L[j] EXCEPT !.signal[w.sigtyp] = w.signal] ELSE L[j]
             /\ hits'[j] \in Hits /\ hits'[j].counter = L[j].counter
  <2>1. hits'[j] = IF L[j].counter = w.counter
                   THEN [L[j] EXCEPT !.signal[w.sigtyp] = w.signal] ELSE L[j]
    BY <1>3, <1>4
  <2> DEFINE x == [L[j] EXCEPT !.signal[w.sigtyp] = w.signal]
  <2>2. L[j] \in Hits /\ x \in Hits /\ x.counter = L[j].counter
    BY <1>1, <1>4, SignalSet
  <2> HIDE DEF x
  <2>3. hits'[j] = x \/ hits'[j] = L[j]
    BY <2>1 DEF x
  <2>4. QED
    BY <2>1, <2>2, <2>3
<1>6. hits' \in Seq(Hits) /\ Len(hits') = Len(L)
  <2>1. DOMAIN hits' = 1 .. Len(L) /\ hits' = [i \in 1 .. Len(L) |-> hits'[i]]
    BY <1>3, <1>4
  <2>2. \A i \in 1 .. Len(L) : hits'[i] \in Hits
    BY <1>5
  <2> DEFINE M == hits'
  <2> HIDE DEF M
  <2>3. M = [i \in 1 .. Len(L) |-> M[i]] /\ \A i \in 1 .. Len(L) : M[i] \in Hits
    BY <2>1, <2>2 DEF M
  <2>4. M \in Seq(Hits) /\ Len(M) = Len(L)
    BY <1>4, <2>3
  <2>5. QED
    BY <2>4 DEF M
<1>7. Sorted(hits')
  BY <1>2, <1>5, <1>6, CountersSorted
<1>8. GrownFrom(hits', L, w)
  <2>1. ASSUME NEW j \in 1 .. Len(hits')
        PROVE  \E e \in 1 .. Len(L) :
                 \/ hits'[j] = L[e]
                 \/ L[e].counter = w.counter /\ hits'[j] = [L[e] EXCEPT !.signal[w.sigtyp] = w.signal]
    <3>1. j \in 1 .. Len(L)
      BY <1>6
    <3>2. hits'[j] = IF L[j].counter = w.counter
                     THEN [L[j] EXCEPT !.signal[w.sigtyp] = w.signal] ELSE L[j]
      BY <1>5, <3>1
    <3>3. QED
      BY <3>1, <3>2
  <2>2. ASSUME NEW e \in 1 .. Len(L)
        PROVE  \E j \in 1 .. Len(hits') : hits'[j].counter = L[e].counter
    BY <1>5, <1>6
  <2>3. Len(L) <= Len(hits')
    BY <1>4, <1>6
  <2>4. QED
    BY <1>6, <2>1, <2>2, <2>3 DEF GrownFrom
<1>9. QED
  BY <1>5, <1>6, <1>7, <1>8 DEF L

\* A time: entries get it or are doubled for it.
LEMMA TdcStep ==
  ASSUME TypeOK, Sorted(hits), NEW w, IsWord(w), StoreTdc(w), ~NoRoomFor(w.counter)
  PROVE  LET F == WithHit(w.counter)
             h == PlaceOf(F, w.counter)
         IN  /\ hits' \in Seq(Hits) /\ Sorted(hits') /\ GrownFrom(hits', F, w)
             /\ h \in 1 .. Len(F) /\ F[h].counter = w.counter
             /\ \E g : /\ Passes(g, F, h, w) /\ hits' = g[h].list
                       /\ \A i \in 0 .. h : Stage(F, h, w, i, g[i])
<1> DEFINE F == WithHit(w.counter)
           h == PlaceOf(F, w.counter)
<1>1. w.counter \in Nat
  BY DEF IsWord
<1>2. F \in Seq(Hits) /\ Sorted(F) /\ h \in 1 .. Len(F) /\ F[h].counter = w.counter
  BY <1>1, WithHitGrown
<1>3. hits' = AfterPasses(w, F, h)
  BY Zenon DEF StoreTdc
<1> HIDE DEF F
<1>4. h > 0
  <2> HIDE DEF h
  <2>1. QED
    BY <1>2
<1>5. /\ GrownFrom(AfterPasses(w, F, h), F, w) /\ Sorted(AfterPasses(w, F, h))
      /\ \E g : /\ Passes(g, F, h, w) /\ AfterPasses(w, F, h) = g[h].list
                /\ \A i \in 0 .. h : Stage(F, h, w, i, g[i])
  BY <1>2, <1>4, PassesGrown
<1> HIDE DEF h
<1>6. GrownFrom(hits', F, w) /\ Sorted(hits')
  BY <1>3, <1>5
<1>7. hits' \in Seq(Hits)
  BY <1>6 DEF GrownFrom
<1>8. \E g : /\ Passes(g, F, h, w) /\ hits' = g[h].list
             /\ \A i \in 0 .. h : Stage(F, h, w, i, g[i])
  BY <1>3, <1>5
<1>9. QED
  BY <1>2, <1>6, <1>7, <1>8 DEF F, h

\* A hit on one wire: it is put behind the last one that does not come later,
\* or left out.
LEMMA SingleStep ==
  ASSUME TypeOK, Sorted(hits), NEW w, IsWord(w), InsertSingle(w)
  PROVE  LET p == PlaceOf(hits, w.counter) + 1
             e == [NewHit(w.counter) EXCEPT !.signal[0] = w.signal]
         IN  /\ p \in 1 .. Len(hits) + 1 /\ e \in Hits /\ e.counter = w.counter
             /\ e.signal[0] = w.signal /\ \A t \in SigTypes \ {0} : e.signal[t] = NoSignal
             /\ hits' \in Seq(Hits) /\ Sorted(hits')
             /\ \/ hits' = hits /\ Routine = "fb" /\ ~w.inWindow
                \/ Inserted(hits', Hits, hits, p, e) /\ (Routine = "fb" => w.inWindow)
<1> DEFINE p == PlaceOf(hits, w.counter) + 1
           e == [NewHit(w.counter) EXCEPT !.signal[0] = w.signal]
<1>1. w.counter \in Nat /\ w.signal \in Int /\ 0 \in SigTypes
  BY DEF IsWord, SigTypes
<1>2. hits \in Seq(Hits)
  BY DEF TypeOK
<1>3. /\ p \in 1 .. Len(hits) + 1 /\ p - 1 \in 0 .. Len(hits) /\ Len(hits) \in Nat
      /\ \A i \in 1 .. Len(hits) : i > p - 1 => hits[i].counter > w.counter
      /\ \A i \in 1 .. p - 1 : hits[i].counter <= w.counter
  <2> DEFINE h == PlaceOf(hits, w.counter)
  <2>0. Len(hits) \in Nat
    BY <1>2
  <2>1. /\ h \in 0 .. Len(hits)
        /\ \A i \in 1 .. Len(hits) : i > h => hits[i].counter > w.counter
        /\ \A i \in 1 .. h : hits[i].counter <= w.counter
    BY <1>1, <1>2, PlaceIs, Zenon
  <2> HIDE DEF h
  <2>2. (h + 1) - 1 = h /\ h + 1 \in 1 .. Len(hits) + 1
    BY <2>0, <2>1
  <2>3. p = h + 1
    BY DEF h
  <2> HIDE DEF p
  <2>4. QED
    BY <2>0, <2>1, <2>2, <2>3
<1>4. /\ e \in Hits /\ e.counter = w.counter /\ e.signal[0] = w.signal
      /\ \A t \in SigTypes \ {0} : e.signal[t] = NoSignal
  <2>1. /\ NewHit(w.counter) \in Hits /\ NewHit(w.counter).counter = w.counter
        /\ \A t \in SigTypes : NewHit(w.counter).signal[t] = NoSignal
    BY <1>1, NewHitIs
  <2>2. QED
    BY <1>1, <2>1, SignalSet
<1>5. hits' = IF Routine = "fb" /\ ~w.inWindow THEN hits ELSE InsertAt(hits, p, e)
  BY Zenon DEF InsertSingle
<1> HIDE DEF p, e
<1>6. CASE Routine = "fb" /\ ~w.inWindow
  BY <1>2, <1>3, <1>4, <1>5, <1>6 DEF p, e
<1>7. CASE ~(Routine = "fb" /\ ~w.inWindow)
  <2>1. hits' = InsertAt(hits, p, e)
    BY <1>5, <1>7
  <2>2. Inserted(hits', Hits, hits, p, e)
    BY <1>2, <1>3, <1>4, <2>1, InsertIs
  <2>3. /\ hits' \in Seq(Hits) /\ Len(hits') = Len(hits) + 1
        /\ \A j \in 1 .. Len(hits) + 1 :
             hits'[j] = IF j < p THEN hits[j] ELSE IF j = p THEN e ELSE hits[j - 1]
    BY <2>2 DEF Inserted
  <2>4. Shifted(hits', hits, p - 1, 1, w.counter)
    <3>1. \A j \in 1 .. p - 1 : hits'[j] = hits[j]
      BY <1>3, <2>3
    <3>2. \A j \in (p - 1) + 1 .. (p - 1) + 1 : hits'[j].counter = w.counter
      BY <1>3, <1>4, <2>3
    <3>3. \A j \in (p - 1) + 1 + 1 .. Len(hits') : hits'[j] = hits[j - 1]
      BY <1>3, <2>3
    <3>4. QED
      BY <1>3, <2>3, <3>1, <3>2, <3>3 DEF Shifted
  <2>5. \A j \in (p - 1) + 1 .. Len(hits) : hits[j].counter > w.counter
    BY <1>3
  <2>6. Sorted(hits')
    BY <1>1, <1>2, <1>3, <2>3, <2>4, <2>5, ShiftedSorted
  <2>7. QED
    BY <1>3, <1>4, <1>7, <2>2, <2>3, <2>6 DEF p, e
<1>8. QED
  BY <1>6, <1>7

-----------------------------------------------------------------------------
(* Type and order.                                                         *)

ListInv == TypeOK /\ Sorted(hits)

\* One step of the list: a word is taken, and it is ignored or stored.
WordTaken(w) ==
  /\ det' = det /\ taken' = Append(taken, w)
  /\ \/ Ignore(w) \/ Single(w) \/ Multiple(w)

\* What a step makes of the list.
LEMMA StepIs ==
  ASSUME ListInv, NEW w \in det.words, WordTaken(w)
  PROVE  /\ IsWord(w) /\ stray \in BOOLEAN
         /\ \/ Ignore(w) /\ ~HasRoom /\ hits' = hits /\ stray' = stray
            \/ Single(w) /\ HasRoom /\ SignalCount = 1 /\ InsertSingle(w) /\ stray' = stray
            \/ Multiple(w) /\ HasRoom /\ SignalCount > 1 /\ ~det.multihit /\ StoreSignal(w)
            \/ /\ Multiple(w) /\ HasRoom /\ SignalCount > 1 /\ det.multihit /\ Routine = "all"
               /\ w.sigtyp \in Tdcs /\ StoreTdc(w) /\ stray' = stray
            \/ /\ Multiple(w) /\ HasRoom /\ SignalCount > 1 /\ det.multihit /\ Routine = "all"
               /\ w.sigtyp \notin Tdcs /\ StoreAdc(w) /\ stray' = stray
<1>1. det \in Detectors /\ stray \in BOOLEAN
  BY DEF ListInv, TypeOK
<1>2. IsWord(w) /\ (det.multihit => Routine = "all")
  BY <1>1, DetectorIs DEF IsWord, Routine
<1>3. CASE Ignore(w)
  BY <1>1, <1>2, <1>3, Zenon DEF Ignore
<1>4. CASE Single(w)
  BY <1>1, <1>2, <1>4, Zenon DEF Single
<1>5. CASE Multiple(w)
  BY <1>1, <1>2, <1>5, Zenon DEF Multiple
<1>6. QED
  BY <1>3, <1>4, <1>5, Zenon DEF WordTaken

\* A step of the specification takes a word or changes nothing.
LEMMA NextIs ==
  ASSUME [Next]_vars
  PROVE  (\E w \in det.words : WordTaken(w)) \/ UNCHANGED vars
<1>1. ASSUME NEW w \in det.words, Ignore(w) \/ Single(w) \/ Multiple(w)
      PROVE  WordTaken(w)
  <2>1. TakeWord(w)
    BY <1>1, Zenon DEF Ignore, Single, Multiple
  <2>2. QED
    BY <1>1, <2>1, Zenon DEF TakeWord, WordTaken
<1>2. QED
  BY <1>1, Zenon DEF Next

\* The list stays sorted by counters, whatever the word.
LEMMA ListStep ==
  ASSUME ListInv, NEW w \in det.words, WordTaken(w)
  PROVE  ListInv'
<1>1. /\ det \in Detectors /\ det' = det /\ taken \in Seq(det.words)
      /\ hits \in Seq(Hits) /\ stray \in BOOLEAN /\ TypeOK /\ Sorted(hits) /\ IsWord(w)
  BY StepIs DEF ListInv, TypeOK, WordTaken
<1>2. taken' \in Seq(det.words)
  <2>1. taken' = Append(taken, w)
    BY DEF WordTaken
  <2>2. Append(taken, w) \in Seq(det.words)
    BY <1>1, AppendProperties
  <2>3. QED
    BY <2>1, <2>2
<1>3. hits' \in Seq(Hits) /\ Sorted(hits') /\ stray' \in BOOLEAN
  <2>1. CASE hits' = hits /\ stray' = stray
    BY <1>1, <2>1
  <2>2. CASE InsertSingle(w) /\ stray' = stray
    BY <1>1, <2>2, SingleStep
  <2>3. CASE StoreSignal(w)
    BY <1>1, <2>3, SignalStep
  <2>4. CASE Routine = "all" /\ StoreTdc(w) /\ stray' = stray
    <3>1. ~NoRoomFor(w.counter)
      BY <2>4 DEF NoRoomFor
    <3>2. QED
      BY <1>1, <2>4, <3>1, TdcStep
  <2>5. CASE StoreAdc(w) /\ stray' = stray
    BY <1>1, <2>5, AdcStep
  <2>6. QED
    BY StepIs, <2>1, <2>2, <2>3, <2>4, <2>5, Zenon
<1>4. QED
  BY <1>1, <1>2, <1>3, Zenon DEF ListInv, TypeOK

\* An empty list is sorted.
LEMMA ListInit ==
  ASSUME Init
  PROVE  ListInv
<1>1. det \in Detectors /\ hits = <<>> /\ stray = FALSE /\ taken = <<>>
  BY Zenon DEF Init
<1>2. hits \in Seq(Hits) /\ taken \in Seq(det.words)
  BY <1>1, EmptySeq
<1>3. Len(hits) = 0
  BY <1>1
<1>4. DOMAIN hits = 1 .. 0
  BY <1>2, <1>3, ListType
<1>5. Sorted(hits)
  BY <1>4 DEF Sorted
<1>6. QED
  BY <1>1, <1>2, <1>5 DEF ListInv, TypeOK

\* Every step of the specification leaves it sorted.
LEMMA ListKept ==
  ASSUME ListInv, [Next]_vars
  PROVE  ListInv'
<1>1. CASE UNCHANGED vars
  BY <1>1 DEF vars, ListInv, TypeOK
<1>2. QED
  BY <1>1, ListStep, NextIs, Zenon

\* The variables have the types HitList says, and a hit list is in the order of
\* the counters after every word (g_decode_fb_detector.f:275-305 and :306-330,
\* g_decode_all_detector.f:457-543 and :578-715).
THEOREM HitsSorted == Spec => [](TypeOK /\ Sorted(hits))
<1>1. Init => ListInv
  BY ListInit
<1>2. ListInv /\ [Next]_vars => ListInv'
  BY ListKept
<1>3. QED
  BY <1>1, <1>2, PTL DEF Spec, ListInv

-----------------------------------------------------------------------------
(* Room for a new counter.                                                 *)

\* The counters of some words.
CountersOf(words) == {w.counter : w \in words}

\* The facts CountersInv states are about the entries of the list.
LEMMA CountersAre ==
  ASSUME TypeOK, CountersInv
  PROVE  /\ \A i \in 1 .. Len(hits) : hits[i].counter \in CountersOf(det.words)
         /\ SignalCount > 1 /\ ~det.multihit => Distinct(hits)
<1>1. Len(hits) \in Nat /\ DOMAIN hits = 1 .. Len(hits)
  BY ListType DEF TypeOK
<1>2. taken \in Seq(det.words) /\ \A k \in DOMAIN taken : taken[k] \in det.words
  BY ElementOfSeq DEF TypeOK
<1>3. \A i \in 1 .. Len(hits) : \E k \in DOMAIN taken : hits[i].counter = taken[k].counter
  BY <1>1 DEF CountersInv, CountersTaken
<1>4. \A i \in 1 .. Len(hits) : hits[i].counter \in CountersOf(det.words)
  BY <1>2, <1>3 DEF CountersOf
<1>5. SignalCount > 1 /\ ~det.multihit => Distinct(hits)
  BY <1>1, Zenon DEF CountersInv, Distinct
<1>6. QED
  BY <1>4, <1>5

\* Different elements with different images: there are no more of them.
LEMMA NoMoreThan ==
  ASSUME NEW S, IsFiniteSet(S), NEW T, IsFiniteSet(T), NEW f \in [S -> T],
         \A x, y \in S : f[x] = f[y] => x = y
  PROVE  Cardinality(S) <= Cardinality(T)
<1>1. Cardinality(S) \in Nat /\ Cardinality(T) \in Nat
  BY FS_CardinalityType
<1>2. ASSUME Cardinality(T) < Cardinality(S)  PROVE FALSE
  <2>1. \E x, y \in S : x # y /\ f[x] = f[y]
    BY <1>2, FS_PigeonHole
  <2>2. QED
    BY <2>1
<1>3. QED
  BY <1>1, <1>2

\* Entries of different counters, none of them counter: there are fewer of them
\* than counters.
LEMMA FewerEntries ==
  ASSUME NEW list \in Seq(Hits), Distinct(list), NEW C, IsFiniteSet(C), NEW counter \in C,
         \A i \in 1 .. Len(list) : list[i].counter \in C \ {counter}
  PROVE  Len(list) < Cardinality(C)
<1> DEFINE n == Len(list)
           f == [i \in 1 .. n |-> list[i].counter]
<1>1. n \in Nat
  OBVIOUS
<1>2. f \in [1 .. n -> C \ {counter}]
  OBVIOUS
<1>3. \A i, j \in 1 .. n : f[i] = f[j] => i = j
  BY DEF Distinct
<1>4. IsFiniteSet(1 .. n) /\ Cardinality(1 .. n) = n
  BY <1>1, CountTo
<1>5. IsFiniteSet(C \ {counter}) /\ Cardinality(C \ {counter}) = Cardinality(C) - 1
  BY FS_RemoveElement
<1>6. Cardinality(C) \in Nat
  BY FS_CardinalityType
<1> HIDE DEF f, n
<1>7. Cardinality(1 .. n) <= Cardinality(C \ {counter})
  BY <1>2, <1>3, <1>4, <1>5, NoMoreThan
<1>8. QED
  BY <1>1, <1>4, <1>5, <1>6, <1>7 DEF n

\* A roomy detector has room for every counter.
LEMMA RoomForAll ==
  ASSUME TypeOK, CountersInv, Roomy(det), SignalCount > 1, NEW w \in det.words
  PROVE  ~NoRoomFor(w.counter)
<1> SUFFICES ASSUME NoRoomFor(w.counter) PROVE FALSE
  OBVIOUS
<1>1. /\ Routine = "fb" /\ Len(hits) = MaxHits
      /\ \A i \in 1 .. Len(hits) : hits[i].counter # w.counter
  BY DEF NoRoomFor
<1>2. det \in Detectors /\ hits \in Seq(Hits)
  BY DEF TypeOK
<1>3. ~det.multihit
  BY <1>1, <1>2, DetectorIs DEF Routine
<1>4. Distinct(hits) /\ \A i \in 1 .. Len(hits) : hits[i].counter \in CountersOf(det.words)
  BY <1>3, CountersAre
<1>5. IsFiniteSet(CountersOf(det.words)) /\ Cardinality(CountersOf(det.words)) <= MaxHits
  BY <1>1, Zenon DEF Roomy, Routine, SignalCount, MaxHits, CountersOf
<1>6. w.counter \in CountersOf(det.words)
  BY DEF CountersOf
<1>7. Len(hits) < Cardinality(CountersOf(det.words))
  BY <1>1, <1>2, <1>4, <1>5, <1>6, FewerEntries
<1>8. MaxHits \in Nat /\ Cardinality(CountersOf(det.words)) \in Nat
  BY <1>2, <1>5, DetectorIs, FS_CardinalityType DEF MaxHits
<1>9. QED
  BY <1>1, <1>5, <1>7, <1>8

-----------------------------------------------------------------------------
(* The entries after a word, and the signals in them.                      *)

\* x is hit b, with w's signal in it if it is of w's counter.
FromHit(x, b, w) ==
  \/ x = b
  \/ b.counter = w.counter /\ x = [b EXCEPT !.signal[w.sigtyp] = w.signal]

\* Every entry of M was in the list or is a new hit of w's counter, with w's
\* signal or without.
EntriesFrom(M, w) ==
  \A j \in 1 .. Len(M) : \E b \in Hits :
    /\ b = NewHit(w.counter) \/ \E i \in 1 .. Len(hits) : b = hits[i]
    /\ FromHit(M[j], b, w)

\* The entries of a list grown from that with a hit of the counter in it.
LEMMA GrownEntries ==
  ASSUME TypeOK, Sorted(hits), NEW w, IsWord(w), NEW M, GrownFrom(M, WithHit(w.counter), w)
  PROVE  EntriesFrom(M, w)
<1> DEFINE L == WithHit(w.counter)
<1>1. w.counter \in Nat
  BY DEF IsWord
<1>2. /\ L \in Seq(Hits)
      /\ \A j \in 1 .. Len(L) :
           L[j] = NewHit(w.counter) \/ \E i \in 1 .. Len(hits) : L[j] = hits[i]
  BY <1>1, WithHitGrown
<1> HIDE DEF L
<1>3. \A j \in 1 .. Len(L) : L[j] \in Hits
  BY <1>2, ListType
<1>4. \A j \in 1 .. Len(M) : \E e \in 1 .. Len(L) : FromHit(M[j], L[e], w)
  BY DEF GrownFrom, FromHit, L
<1>5. QED
  BY <1>2, <1>3, <1>4 DEF EntriesFrom

\* The entries after a word that there is room for.
LEMMA WordEntries ==
  ASSUME ListInv, NEW w \in det.words, WordTaken(w),
         SignalCount > 1 => ~NoRoomFor(w.counter)
  PROVE  EntriesFrom(hits', w) /\ stray' = stray
<1>1. TypeOK /\ Sorted(hits) /\ IsWord(w) /\ hits \in Seq(Hits)
  BY StepIs DEF ListInv, TypeOK
<1>2. \A i \in 1 .. Len(hits) : hits[i] \in Hits
  BY <1>1, ListType
<1>3. CASE hits' = hits /\ stray' = stray
  BY <1>2, <1>3 DEF EntriesFrom, FromHit
<1>4. CASE SignalCount = 1 /\ InsertSingle(w) /\ stray' = stray
  <2> DEFINE p == PlaceOf(hits, w.counter) + 1
             e == [NewHit(w.counter) EXCEPT !.signal[0] = w.signal]
  <2>1. /\ p \in 1 .. Len(hits) + 1
        /\ hits' = hits \/ Inserted(hits', Hits, hits, p, e)
    BY <1>1, <1>4, SingleStep
  <2>2. w.sigtyp = 0
    BY <1>1, <1>4, DetectorIs DEF TypeOK, SignalCount
  <2>3. /\ NewHit(w.counter) \in Hits /\ NewHit(w.counter).counter = w.counter
        /\ Len(hits) \in Nat
    BY <1>1, NewHitIs DEF IsWord
  <2>4. FromHit(e, NewHit(w.counter), w)
    BY <2>2, <2>3 DEF FromHit
  <2>5. CASE hits' = hits
    BY <1>3, <1>4, <2>5
  <2>6. CASE Inserted(hits', Hits, hits, p, e)
    <3> HIDE DEF p, e
    <3>1. /\ Len(hits') = Len(hits) + 1
          /\ \A j \in 1 .. Len(hits) + 1 :
               hits'[j] = IF j < p THEN hits[j] ELSE IF j = p THEN e ELSE hits[j - 1]
      BY <2>6 DEF Inserted
    <3>2. ASSUME NEW j \in 1 .. Len(hits')
          PROVE  hits'[j] = e \/ \E i \in 1 .. Len(hits) : hits'[j] = hits[i]
      <4>1. CASE j < p
        BY <2>1, <2>3, <3>1, <4>1
      <4>2. CASE j = p
        BY <2>1, <2>3, <3>1, <4>2
      <4>3. CASE j > p
        <5>1. j - 1 \in 1 .. Len(hits) /\ j \in 1 .. Len(hits) + 1 /\ ~(j < p) /\ j # p
          BY <2>1, <2>3, <3>1, <4>3
        <5>2. QED
          BY <3>1, <5>1
      <4>4. QED
        BY <2>1, <2>3, <4>1, <4>2, <4>3
    <3>3. QED
      BY <1>2, <1>4, <2>3, <2>4, <3>2 DEF EntriesFrom, FromHit
  <2>7. QED
    BY <2>1, <2>5, <2>6
<1>5. CASE SignalCount > 1 /\ StoreSignal(w)
  <2>1. stray \in BOOLEAN
    BY StepIs
  <2>2. stray' = stray /\ GrownFrom(hits', WithHit(w.counter), w)
    BY <1>1, <1>5, <2>1, SignalStep
  <2>3. QED
    BY <1>1, <2>2, GrownEntries
<1>6. CASE SignalCount > 1 /\ StoreTdc(w) /\ stray' = stray
  <2>1. GrownFrom(hits', WithHit(w.counter), w)
    BY <1>1, <1>6, TdcStep
  <2>2. QED
    BY <1>1, <1>6, <2>1, GrownEntries
<1>7. CASE StoreAdc(w) /\ stray' = stray
  <2>1. GrownFrom(hits', WithHit(w.counter), w)
    BY <1>1, <1>7, AdcStep
  <2>2. QED
    BY <1>1, <1>7, <2>1, GrownEntries
<1>8. QED
  BY StepIs, <1>3, <1>4, <1>5, <1>6, <1>7, Zenon

\* The signals of a hit are its counter's among some words, or none.
OwnSignals(hit, words) ==
  \A t \in SigTypes : hit.signal[t] \in Signals(words, hit.counter, t) \union {NoSignal}

\* A hit that has its counter's signals still has them after one more word.
LEMMA OwnKept ==
  ASSUME NEW T, NEW words \in Seq(T), NEW w \in T, IsWord(w), NEW b \in Hits, NEW x,
         FromHit(x, b, w), OwnSignals(b, words)
  PROVE  OwnSignals(x, Append(words, w)) /\ x.counter = b.counter
<1> DEFINE more == Append(words, w)
<1>1. w.sigtyp \in SigTypes /\ w.signal \in Int
  BY DEF IsWord
<1>2. ASSUME NEW c, NEW t
      PROVE  Signals(more, c, t)
               = Signals(words, c, t) \union (IF c = w.counter /\ t = w.sigtyp THEN {w.signal} ELSE {})
  BY TakenGrows
<1> HIDE DEF more
<1>3. CASE x = b
  BY <1>2, <1>3 DEF OwnSignals, more
<1>4. CASE b.counter = w.counter /\ x = [b EXCEPT !.signal[w.sigtyp] = w.signal]
  <2>1. /\ x.counter = b.counter /\ x.signal[w.sigtyp] = w.signal
        /\ \A u \in SigTypes \ {w.sigtyp} : x.signal[u] = b.signal[u]
    BY <1>1, <1>4, SignalSet
  <2>2. w.signal \in Signals(more, x.counter, w.sigtyp)
    BY <1>2, <1>4, <2>1
  <2>3. ASSUME NEW u \in SigTypes, u # w.sigtyp
        PROVE  x.signal[u] \in Signals(more, x.counter, u) \union {NoSignal}
    BY <1>2, <2>1, <2>3 DEF OwnSignals
  <2>4. QED
    BY <2>1, <2>2, <2>3 DEF OwnSignals, more
<1>5. QED
  BY <1>3, <1>4 DEF FromHit

\* The entries have signals of their own counters after a word, when they had
\* before it and come from those.
LEMMA OwnStep ==
  ASSUME ListInv, NEW w \in det.words, WordTaken(w), EntriesFrom(hits', w),
         \A i \in 1 .. Len(hits) : OwnSignals(hits[i], taken)
  PROVE  \A j \in 1 .. Len(hits') :
           /\ OwnSignals(hits'[j], taken')
           /\ \/ hits'[j].counter = w.counter
              \/ \E i \in 1 .. Len(hits) : hits'[j].counter = hits[i].counter
<1>1. taken \in Seq(det.words) /\ taken' = Append(taken, w) /\ IsWord(w)
  BY StepIs DEF ListInv, TypeOK, WordTaken
<1>2. NewHit(w.counter).counter = w.counter /\ OwnSignals(NewHit(w.counter), taken)
  BY <1>1, NewHitIs DEF OwnSignals, IsWord
<1>3. ASSUME NEW j \in 1 .. Len(hits')
      PROVE  /\ OwnSignals(hits'[j], taken')
             /\ \/ hits'[j].counter = w.counter
                \/ \E i \in 1 .. Len(hits) : hits'[j].counter = hits[i].counter
  <2>1. PICK b \in Hits : /\ b = NewHit(w.counter) \/ \E i \in 1 .. Len(hits) : b = hits[i]
                          /\ FromHit(hits'[j], b, w)
    BY DEF EntriesFrom
  <2>2. OwnSignals(b, taken)
    BY <1>2, <2>1
  <2>3. OwnSignals(hits'[j], Append(taken, w)) /\ hits'[j].counter = b.counter
    BY <1>1, <2>1, <2>2, OwnKept
  <2>4. QED
    BY <1>1, <1>2, <2>1, <2>3
<1>4. QED
  BY <1>3

\* The counters that words were taken of.
LEMMA CountersGrow ==
  ASSUME ListInv, NEW w \in det.words, WordTaken(w)
  PROVE  /\ \A k \in DOMAIN taken' : \/ taken'[k] = w
                                     \/ k \in DOMAIN taken /\ taken'[k] = taken[k]
         /\ \A c \in CountersTaken : c \in CountersTaken'
         /\ w.counter \in CountersTaken'
<1>1. /\ Len(taken) \in Nat /\ DOMAIN taken = 1 .. Len(taken)
      /\ DOMAIN taken' = 1 .. Len(taken) + 1
      /\ taken'[Len(taken) + 1] = w /\ \A k \in 1 .. Len(taken) : taken'[k] = taken[k]
  BY AppendProperties DEF ListInv, TypeOK, WordTaken
<1>2. Len(taken) + 1 \in DOMAIN taken'
  BY <1>1
<1>3. w.counter \in CountersTaken'
  BY <1>1, <1>2 DEF CountersTaken
<1>4. ASSUME NEW c \in CountersTaken  PROVE c \in CountersTaken'
  <2>1. PICK k \in DOMAIN taken : c = taken[k].counter
    BY DEF CountersTaken
  <2>2. k \in DOMAIN taken' /\ taken'[k] = taken[k]
    BY <1>1
  <2>3. QED
    BY <2>1, <2>2 DEF CountersTaken
<1>5. QED
  BY <1>1, <1>3, <1>4

\* No entry is lost, and a counter with a word has one.
LEMMA EntriesKept ==
  ASSUME ListInv, NEW w \in det.words, WordTaken(w), det.multihit, Len(hits') <= MaxHits
  PROVE  /\ Multiple(w) /\ Len(hits) <= MaxHits
         /\ GrownFrom(hits', WithHit(w.counter), w)
         /\ \A i \in 1 .. Len(hits) : \E j \in 1 .. Len(hits') : hits'[j].counter = hits[i].counter
         /\ \E j \in 1 .. Len(hits') : hits'[j].counter = w.counter
<1>1. TypeOK /\ Sorted(hits) /\ IsWord(w) /\ hits \in Seq(Hits) /\ det \in Detectors
  BY StepIs DEF ListInv, TypeOK
<1>2. Routine = "all" /\ SignalCount = 4 /\ MaxHits \in Nat /\ Len(hits) \in Nat /\ w.counter \in Nat
  BY <1>1, DetectorIs DEF Routine, SignalCount, MaxHits, IsWord
<1>3. ~NoRoomFor(w.counter)
  BY <1>2 DEF NoRoomFor
<1> DEFINE L == WithHit(w.counter)
           g == PlaceOf(L, w.counter)
<1>4. Multiple(w) /\ GrownFrom(hits', L, w)
  <2>1. CASE Ignore(w) /\ ~HasRoom /\ hits' = hits
    BY <1>2, <2>1 DEF HasRoom
  <2>2. CASE Multiple(w) /\ StoreTdc(w)
    BY <1>1, <1>3, <2>2, TdcStep
  <2>3. CASE Multiple(w) /\ StoreAdc(w)
    BY <1>1, <2>3, AdcStep
  <2>4. SignalCount # 1
    BY <1>2
  <2>5. QED
    BY StepIs, <2>1, <2>2, <2>3, <2>4, Zenon
<1>5. /\ Len(hits) <= Len(L) /\ \A i \in 1 .. Len(hits) : \E j \in 1 .. Len(L) : L[j] = hits[i]
      /\ g \in 1 .. Len(L) /\ L[g].counter = w.counter /\ L \in Seq(Hits)
  BY <1>1, <1>2, <1>3, WithHitGrown
<1> HIDE DEF L, g
<1>6. /\ hits' \in Seq(Hits) /\ Len(L) <= Len(hits')
      /\ \A e \in 1 .. Len(L) : \E j \in 1 .. Len(hits') : hits'[j].counter = L[e].counter
  BY <1>4 DEF GrownFrom
<1>7. Len(hits') \in Nat /\ Len(L) \in Nat
  BY <1>5, <1>6, LenProperties
<1>8. Len(hits) <= MaxHits
  BY <1>2, <1>5, <1>6, <1>7
<1>9. \A i \in 1 .. Len(hits) : \E j \in 1 .. Len(hits') : hits'[j].counter = hits[i].counter
  BY <1>5, <1>6
<1>10. \E j \in 1 .. Len(hits') : hits'[j].counter = w.counter
  BY <1>5, <1>6
<1>11. QED
  BY <1>4, <1>8, <1>9, <1>10 DEF L

\* The counters of the entries and of the words stay in step.
LEMMA CountersStep ==
  ASSUME ListInv, CountersInv, NEW w \in det.words, WordTaken(w), EntriesFrom(hits', w),
         SignalCount > 1 => ~NoRoomFor(w.counter),
         \A i \in 1 .. Len(hits) : OwnSignals(hits[i], taken)
  PROVE  CountersInv'
<1>1. ListInv' /\ TypeOK /\ TypeOK' /\ Sorted(hits) /\ det' = det /\ IsWord(w)
  BY ListStep, StepIs DEF ListInv, WordTaken
<1>2. /\ hits' \in Seq(Hits) /\ hits \in Seq(Hits)
      /\ DOMAIN hits' = 1 .. Len(hits') /\ DOMAIN hits = 1 .. Len(hits)
  BY <1>1, ListType DEF TypeOK
<1>3. ASSUME NEW j \in DOMAIN hits'  PROVE hits'[j].counter \in CountersTaken'
  <2>1. \/ hits'[j].counter = w.counter
        \/ \E i \in 1 .. Len(hits) : hits'[j].counter = hits[i].counter
    BY <1>2, OwnStep
  <2>2. \A i \in 1 .. Len(hits) : hits[i].counter \in CountersTaken
    BY <1>2 DEF CountersInv
  <2>3. QED
    BY <2>1, <2>2, CountersGrow
<1>4. ASSUME SignalCount > 1, ~det.multihit  PROVE Distinct(hits')
  <2>1. Distinct(hits) /\ ~NoRoomFor(w.counter)
    BY <1>1, <1>4, CountersAre
  <2>2. CASE hits' = hits
    BY <2>1, <2>2 DEF Distinct
  <2>3. CASE StoreSignal(w)
    BY <1>1, <2>1, <2>3, StepIs, SignalStep
  <2>4. SignalCount # 1
    <3>1. SignalCount \in Nat
      BY <1>1, DetectorIs DEF TypeOK, SignalCount
    <3>2. QED
      BY <1>4, <3>1
  <2>5. QED
    BY StepIs, <1>4, <2>2, <2>3, <2>4, Zenon
<1>5. ASSUME det.multihit, Len(hits') <= MaxHits, NEW k \in DOMAIN taken'
      PROVE  \E j \in DOMAIN hits' : hits'[j].counter = taken'[k].counter
  <2>1. /\ Len(hits) <= MaxHits
        /\ \A i \in 1 .. Len(hits) : \E j \in 1 .. Len(hits') : hits'[j].counter = hits[i].counter
        /\ \E j \in 1 .. Len(hits') : hits'[j].counter = w.counter
    BY <1>5, EntriesKept
  <2>2. CASE taken'[k] = w
    BY <1>2, <2>1, <2>2
  <2>3. CASE k \in DOMAIN taken /\ taken'[k] = taken[k]
    <3>1. PICK i \in 1 .. Len(hits) : hits[i].counter = taken[k].counter
      BY <1>2, <1>5, <2>1, <2>3 DEF CountersInv
    <3>2. QED
      BY <1>2, <2>1, <2>3, <3>1
  <2>4. QED
    BY <2>2, <2>3, CountersGrow
<1>6. \A i, j \in DOMAIN hits' :
        (SignalCount > 1 /\ ~det.multihit) /\ hits'[i].counter = hits'[j].counter => i = j
  BY <1>2, <1>4 DEF Distinct
<1>7. SignalCount' = SignalCount /\ MaxHits' = MaxHits
  BY <1>1 DEF SignalCount, MaxHits
<1>8. QED
  BY <1>1, <1>3, <1>5, <1>6, <1>7, Zenon DEF CountersInv

\* The ADC values of a hit are the last of its counter among some words.
LastAdcs(hit, words) ==
  \A t \in SigTypes \ Tdcs : hit.signal[t] = LastSignal(words, hit.counter, t)

\* They stay so when a word is taken that is not an ADC of this counter, and
\* when its value is stored.
LEMMA AdcsKept ==
  ASSUME NEW T, NEW words \in Seq(T), NEW w \in T, IsWord(w), NEW b \in Hits, NEW x,
         LastAdcs(b, words), FromHit(x, b, w),
         w.sigtyp \notin Tdcs /\ b.counter = w.counter =>
           x = [b EXCEPT !.signal[w.sigtyp] = w.signal]
  PROVE  LastAdcs(x, Append(words, w))
<1> DEFINE more == Append(words, w)
<1>1. w.sigtyp \in SigTypes /\ w.signal \in Int
  BY DEF IsWord
<1>2. ASSUME NEW c, NEW t
      PROVE  LastSignal(more, c, t)
               = IF c = w.counter /\ t = w.sigtyp THEN w.signal ELSE LastSignal(words, c, t)
  BY LastSignalGrows
<1> DEFINE new == [b EXCEPT !.signal[w.sigtyp] = w.signal]
<1>3. /\ new.counter = b.counter /\ new.signal[w.sigtyp] = w.signal
      /\ \A u \in SigTypes \ {w.sigtyp} : new.signal[u] = b.signal[u]
  BY <1>1, SignalSet, ZenonT(40)
<1> HIDE DEF more, new
<1>4. CASE b.counter = w.counter /\ x = new
  BY <1>2, <1>3, <1>4 DEF LastAdcs, more
<1>5. CASE x = b /\ (b.counter # w.counter \/ w.sigtyp \in Tdcs)
  BY <1>2, <1>5 DEF LastAdcs, more
<1>6. x = b \/ (b.counter = w.counter /\ x = new)
  BY DEF FromHit, new
<1>7. w.sigtyp \notin Tdcs /\ b.counter = w.counter => x = new
  BY DEF new
<1>8. QED
  BY <1>4, <1>5, <1>6, <1>7

\* The entries of a counter agree on its ADC values after a word, too.
LEMMA AdcsStep ==
  ASSUME ListInv, CountersInv, AdcCommon, NEW w \in det.words, WordTaken(w)
  PROVE  AdcCommon'
<1>1. ListInv' /\ TypeOK /\ TypeOK' /\ Sorted(hits) /\ det' = det /\ IsWord(w)
  BY ListStep, StepIs DEF ListInv, WordTaken
<1>2. /\ hits' \in Seq(Hits) /\ hits \in Seq(Hits) /\ w.counter \in Nat
      /\ DOMAIN hits' = 1 .. Len(hits') /\ DOMAIN hits = 1 .. Len(hits)
      /\ taken \in Seq(det.words) /\ taken' = Append(taken, w)
  BY <1>1, ListType DEF TypeOK, WordTaken, IsWord
<1>3. SUFFICES ASSUME det.multihit, Len(hits') <= MaxHits, NEW j \in 1 .. Len(hits')
               PROVE  LastAdcs(hits'[j], taken')
  <2>1. MaxHits' = MaxHits
    BY <1>1 DEF MaxHits
  <2>2. QED
    BY <1>1, <1>2, <1>3, <2>1 DEF AdcCommon, LastAdcs
<1>4. /\ Multiple(w) /\ Len(hits) <= MaxHits
      /\ GrownFrom(hits', WithHit(w.counter), w)
  BY <1>3, EntriesKept
<1> DEFINE L == WithHit(w.counter)
<1>5. /\ L \in Seq(Hits)
      /\ \A e \in 1 .. Len(L) :
           \/ L[e] = NewHit(w.counter) /\ \A i \in 1 .. Len(hits) : hits[i].counter # w.counter
           \/ \E i \in 1 .. Len(hits) : L[e] = hits[i]
  BY <1>1, <1>2, WithHitGrown
<1>6. w.sigtyp \notin Tdcs =>
        /\ Len(hits') = Len(L)
        /\ \A e \in 1 .. Len(L) :
             hits'[e] = IF L[e].counter = w.counter
                        THEN [L[e] EXCEPT !.signal[w.sigtyp] = w.signal] ELSE L[e]
  <2>1. SUFFICES ASSUME w.sigtyp \notin Tdcs
                 PROVE  /\ Len(hits') = Len(L)
                        /\ \A e \in 1 .. Len(L) :
                             hits'[e] = IF L[e].counter = w.counter
                                        THEN [L[e] EXCEPT !.signal[w.sigtyp] = w.signal] ELSE L[e]
    OBVIOUS
  <2>2. StoreAdc(w)
    BY <1>3, <1>4, <2>1, Zenon DEF Multiple
  <2>3. QED
    BY <1>1, <2>2, AdcStep
<1> HIDE DEF L
<1>7. \A e \in 1 .. Len(L) : L[e] \in Hits
  BY <1>5, ListType
<1>8. ASSUME NEW e \in 1 .. Len(L)  PROVE LastAdcs(L[e], taken)
  <2>1. CASE L[e] = NewHit(w.counter) /\ \A i \in 1 .. Len(hits) : hits[i].counter # w.counter
    <3>1. \A k \in DOMAIN taken : taken[k].counter # w.counter
      BY <1>2, <1>3, <1>4, <2>1 DEF CountersInv
    <3>2. \A t \in SigTypes : LastSignal(taken, w.counter, t) = NoSignal
      BY <1>2, <3>1, NoLastSignal
    <3>3. NewHit(w.counter).counter = w.counter
          /\ \A t \in SigTypes : NewHit(w.counter).signal[t] = NoSignal
      BY <1>2, NewHitIs
    <3>4. QED
      BY <2>1, <3>2, <3>3 DEF LastAdcs
  <2>2. ASSUME NEW i \in 1 .. Len(hits), L[e] = hits[i]
        PROVE  LastAdcs(L[e], taken)
    BY <1>2, <1>3, <1>4, <2>2 DEF LastAdcs, AdcCommon
  <2>3. QED
    BY <1>5, <2>1, <2>2
<1>9. PICK e \in 1 .. Len(L) :
        /\ FromHit(hits'[j], L[e], w)
        /\ w.sigtyp \notin Tdcs =>
             hits'[j] = IF L[e].counter = w.counter
                        THEN [L[e] EXCEPT !.signal[w.sigtyp] = w.signal] ELSE L[e]
  <2>1. CASE w.sigtyp \in Tdcs
    BY <1>4, <2>1 DEF GrownFrom, FromHit, L
  <2>2. CASE w.sigtyp \notin Tdcs
    <3>1. j \in 1 .. Len(L)
      BY <1>6, <2>2
    <3>2. FromHit(hits'[j], L[j], w)
      BY <1>6, <2>2, <3>1 DEF FromHit
    <3>3. QED
      BY <1>6, <2>2, <3>1, <3>2
  <2>3. QED
    BY <2>1, <2>2
<1>10. QED
  BY <1>1, <1>2, <1>7, <1>8, <1>9, AdcsKept

\* What a step preserves for roomy detectors.
SignalsInv == ListInv /\ CountersInv /\ SignalsOwn

\* Nothing is in an empty list.
LEMMA SignalsInit ==
  ASSUME Init
  PROVE  SignalsInv
<1>1. hits = <<>> /\ stray = FALSE /\ taken = <<>>
  BY Zenon DEF Init
<1>2. ListInv
  BY ListInit
<1>3. DOMAIN hits = {} /\ DOMAIN taken = {}
  BY <1>1
<1>4. CountersInv
  BY <1>3 DEF CountersInv
<1>5. SignalsOwn
  BY <1>1, <1>3 DEF SignalsOwn, AdcCommon
<1>6. QED
  BY <1>2, <1>4, <1>5 DEF SignalsInv

\* No signal goes to a wrong entry with any word.
LEMMA SignalsStep ==
  ASSUME SignalsInv, Roomy(det), NEW w \in det.words, WordTaken(w)
  PROVE  SignalsInv'
<1>1. ListInv /\ CountersInv /\ AdcCommon /\ TypeOK /\ stray = FALSE
  BY Zenon DEF SignalsInv, SignalsOwn, ListInv, TypeOK
<1>2. SignalCount > 1 => ~NoRoomFor(w.counter)
  BY <1>1, RoomForAll
<1>3. EntriesFrom(hits', w) /\ stray' = stray
  BY <1>1, <1>2, WordEntries
<1>4. ListInv'
  BY <1>1, ListStep
<1>5. DOMAIN hits = 1 .. Len(hits) /\ DOMAIN hits' = 1 .. Len(hits')
  BY <1>1, <1>4, ListType DEF ListInv, TypeOK
<1>6. \A i \in 1 .. Len(hits) : OwnSignals(hits[i], taken)
  BY <1>5 DEF SignalsInv, SignalsOwn, OwnSignals
<1>7. CountersInv'
  BY <1>1, <1>2, <1>3, <1>6, CountersStep
<1>8. AdcCommon'
  BY <1>1, AdcsStep
<1>9. \A j \in 1 .. Len(hits') : OwnSignals(hits'[j], taken')
  BY <1>1, <1>3, <1>6, OwnStep
<1>10. SignalsOwn'
  BY <1>1, <1>3, <1>5, <1>8, <1>9 DEF SignalsOwn, OwnSignals
<1>11. QED
  BY <1>4, <1>7, <1>10 DEF SignalsInv

\* No signal is stored with a counter it does not belong to, or outside the
\* arrays, and the entries of a counter agree on its ADC values
\* (g_decode_fb_detector.f:277 and :364-384, g_decode_all_detector.f:578-640), in
\* every detector whose arrays are as long as it has counters.
THEOREM SignalsStored ==
  ASSUME \A d \in Detectors : Roomy(d)
  PROVE  Spec => []SignalsOwn
<1>1. Init => SignalsInv
  BY SignalsInit
<1>2. SignalsInv /\ [Next]_vars => SignalsInv'
  <2> SUFFICES ASSUME SignalsInv, [Next]_vars PROVE SignalsInv'
    OBVIOUS
  <2>1. CASE UNCHANGED vars
    BY <2>1 DEF vars, SignalsInv, ListInv, TypeOK, CountersInv, CountersTaken, SignalsOwn,
                AdcCommon, SignalCount, MaxHits
  <2>2. Roomy(det)
    BY DEF SignalsInv, ListInv, TypeOK
  <2>3. QED
    BY <2>1, <2>2, SignalsStep, NextIs, Zenon
<1>3. SignalsInv => SignalsOwn
  BY DEF SignalsInv
<1>4. QED
  BY <1>1, <1>2, <1>3, PTL DEF Spec

-----------------------------------------------------------------------------
(* The wires of a chamber.                                                 *)

\* The words in the window before word k.
InWindowBefore(k) == {m \in 1 .. (k - 1) : taken[m].inWindow}

\* What WiresFrom says of its function.
LEMMA FromIs ==
  ASSUME TypeOK, NEW from \in [DOMAIN hits -> DOMAIN taken], WiresFrom(from)
  PROVE  /\ Len(hits) \in Nat /\ Len(taken) \in Nat
         /\ DOMAIN hits = 1 .. Len(hits) /\ DOMAIN taken = 1 .. Len(taken)
         /\ \A k \in 1 .. Len(taken) : taken[k].counter \in Nat /\ taken[k].inWindow \in BOOLEAN
         /\ \A i \in 1 .. Len(hits) :
              /\ from[i] \in 1 .. Len(taken) /\ taken[from[i]].inWindow
              /\ hits[i].counter = taken[from[i]].counter
              /\ hits[i].signal[0] = taken[from[i]].signal
         /\ \A i, j \in 1 .. Len(hits) :
              i < j => \/ taken[from[i]].counter < taken[from[j]].counter
                       \/ taken[from[i]].counter = taken[from[j]].counter /\ from[i] < from[j]
         /\ \A i, j \in 1 .. Len(hits) : from[i] = from[j] => i = j
<1>1. /\ Len(hits) \in Nat /\ Len(taken) \in Nat
      /\ DOMAIN hits = 1 .. Len(hits) /\ DOMAIN taken = 1 .. Len(taken)
  BY ListType, LenProperties DEF TypeOK
<1>2. \A k \in 1 .. Len(taken) : taken[k].counter \in Nat /\ taken[k].inWindow \in BOOLEAN
  <2>1. det \in Detectors /\ \A k \in 1 .. Len(taken) : taken[k] \in det.words
    BY ElementOfSeq DEF TypeOK
  <2>2. QED
    BY <2>1, DetectorIs
<1>3. \A i \in 1 .. Len(hits) :
        /\ from[i] \in 1 .. Len(taken) /\ taken[from[i]].inWindow
        /\ hits[i].counter = taken[from[i]].counter
        /\ hits[i].signal[0] = taken[from[i]].signal
  BY <1>1 DEF WiresFrom
<1>4. \A i, j \in 1 .. Len(hits) :
        i < j => \/ hits[i].counter < hits[j].counter
                 \/ hits[i].counter = hits[j].counter /\ from[i] < from[j]
  BY <1>1 DEF WiresFrom
<1>5. \A i, j \in 1 .. Len(hits) :
        i < j => \/ taken[from[i]].counter < taken[from[j]].counter
                 \/ taken[from[i]].counter = taken[from[j]].counter /\ from[i] < from[j]
  BY <1>3, <1>4
<1>6. ASSUME NEW i \in 1 .. Len(hits), NEW j \in 1 .. Len(hits), i < j
      PROVE  from[i] # from[j]
  <2>1. /\ from[i] \in Nat /\ from[j] \in Nat
        /\ taken[from[i]].counter \in Nat /\ taken[from[j]].counter \in Nat
    BY <1>1, <1>2, <1>3
  <2>2. QED
    BY <1>5, <1>6, <2>1
<1>7. ASSUME NEW i \in 1 .. Len(hits), NEW j \in 1 .. Len(hits), from[i] = from[j]
      PROVE  i = j
  <2>1. i \in Int /\ j \in Int
    OBVIOUS
  <2>2. ~(i < j) /\ ~(j < i)
    BY <1>6, <1>7, SMTT(30)
  <2>3. QED
    BY <2>1, <2>2
<1>8. QED
  BY <1>1, <1>2, <1>3, <1>5, <1>7, Zenon

\* The words the hits come from are those kept, and there are as many of them.
LEMMA FromKept ==
  ASSUME TypeOK, NEW from \in [DOMAIN hits -> DOMAIN taken], WiresFrom(from),
         Len(hits) <= MaxHits, MaxHits \in Nat
  PROVE  Kept = {from[i] : i \in 1 .. Len(hits)} /\ Cardinality(Kept) = Len(hits)
<1> DEFINE R == {from[i] : i \in 1 .. Len(hits)}
<1>1. /\ Len(hits) \in Nat /\ Len(taken) \in Nat
      /\ DOMAIN hits = 1 .. Len(hits) /\ DOMAIN taken = 1 .. Len(taken)
      /\ \A i \in 1 .. Len(hits) : from[i] \in 1 .. Len(taken) /\ taken[from[i]].inWindow
      /\ \A i, j \in 1 .. Len(hits) : from[i] = from[j] => i = j
  BY FromIs
<1>2. IsFiniteSet(R) /\ Cardinality(R) = Len(hits)
  <2>1. Len(hits) \in Nat /\ \A i, j \in 1 .. Len(hits) : from[i] = from[j] => i = j
    BY <1>1
  <2>2. QED
    BY <2>1, ImageCount, ZenonT(40)
<1>3. ASSUME NEW k \in 1 .. Len(taken), taken[k].inWindow
      PROVE  k \in R \/ (Len(hits) = MaxHits /\ \A r \in R : r < k)
  <2>1. \/ \E i \in DOMAIN hits : from[i] = k
        \/ Len(hits) = MaxHits /\ \A i \in DOMAIN hits : from[i] < k
    BY <1>1, <1>3, Zenon DEF WiresFrom
  <2>2. QED
    BY <1>1, <2>1
<1>4. R \in SUBSET (1 .. Len(taken)) /\ \A r \in R : taken[r].inWindow
  BY <1>1
<1> HIDE DEF R
<1>5. ASSUME NEW k \in 1 .. Len(taken)
      PROVE  /\ IsFiniteSet(InWindowBefore(k)) /\ Cardinality(InWindowBefore(k)) \in Nat
             /\ k \notin InWindowBefore(k)
  <2>1. k - 1 \in Nat /\ ~(k <= k - 1)
    BY <1>1
  <2>2. IsFiniteSet(1 .. (k - 1))
    BY <2>1, CountTo
  <2>3. InWindowBefore(k) \in SUBSET (1 .. (k - 1))
    BY DEF InWindowBefore
  <2>4. IsFiniteSet(InWindowBefore(k))
    BY <2>2, <2>3, FS_Subset
  <2>5. k \notin InWindowBefore(k)
    BY <1>1, <2>1 DEF InWindowBefore
  <2>6. QED
    BY <2>4, <2>5, FS_CardinalityType
<1>6. ASSUME NEW k \in R  PROVE k \in Kept
  <2>1. k \in 1 .. Len(taken) /\ taken[k].inWindow
    BY <1>4
  <2>2. InWindowBefore(k) \in SUBSET (R \ {k})
    <3>1. ASSUME NEW m \in InWindowBefore(k)  PROVE m \in R /\ m # k
      <4>1. m \in 1 .. (k - 1) /\ taken[m].inWindow
        BY DEF InWindowBefore
      <4>2. m \in 1 .. Len(taken) /\ m < k /\ ~(k < m) /\ m # k
        BY <1>1, <2>1, <4>1
      <4>3. QED
        BY <1>3, <4>1, <4>2
    <3>2. QED
      BY <3>1
  <2>3. IsFiniteSet(R \ {k}) /\ Cardinality(R \ {k}) = Cardinality(R) - 1
    BY <1>2, FS_RemoveElement
  <2>4. Cardinality(InWindowBefore(k)) <= Cardinality(R \ {k})
    BY <2>2, <2>3, FS_Subset
  <2>5. Cardinality(InWindowBefore(k)) < MaxHits
    BY <1>1, <1>2, <1>5, <2>1, <2>3, <2>4
  <2>6. QED
    BY <1>1, <2>1, <2>5 DEF Kept, InWindowBefore
<1>7. ASSUME NEW k \in Kept  PROVE k \in R
  <2>1. k \in 1 .. Len(taken) /\ taken[k].inWindow /\ Cardinality(InWindowBefore(k)) < MaxHits
    BY <1>1 DEF Kept, InWindowBefore
  <2>2. SUFFICES ASSUME Len(hits) = MaxHits, \A r \in R : r < k PROVE FALSE
    BY <1>3, <2>1
  <2>3. R \in SUBSET InWindowBefore(k)
    <3>1. ASSUME NEW r \in R  PROVE r \in 1 .. (k - 1) /\ taken[r].inWindow
      <4>1. r \in 1 .. Len(taken) /\ r < k /\ taken[r].inWindow
        BY <1>4, <2>2
      <4>2. r \in 1 .. (k - 1)
        BY <1>1, <2>1, <4>1
      <4>3. QED
        BY <4>1, <4>2
    <3>2. QED
      BY <3>1 DEF InWindowBefore
  <2>4. Cardinality(R) <= Cardinality(InWindowBefore(k))
    BY <1>5, <2>1, <2>3, FS_Subset
  <2>5. QED
    BY <1>2, <1>5, <2>1, <2>2, <2>4
<1>8. Kept = R
  BY <1>6, <1>7
<1>9. Cardinality(Kept) = Len(hits)
  BY <1>2, <1>8
<1>10. QED
  BY <1>8, <1>9 DEF R

\* The place of a word among those kept is that of its hit.
LEMMA FromRank ==
  ASSUME TypeOK, NEW from \in [DOMAIN hits -> DOMAIN taken], WiresFrom(from),
         Len(hits) <= MaxHits, MaxHits \in Nat, NEW i \in 1 .. Len(hits)
  PROVE  Rank(from[i]) = i
<1>1. /\ Len(hits) \in Nat /\ Len(taken) \in Nat
      /\ \A k \in 1 .. Len(taken) : taken[k].counter \in Nat
      /\ \A j \in 1 .. Len(hits) : from[j] \in 1 .. Len(taken)
      /\ \A j, m \in 1 .. Len(hits) :
              j < m => \/ taken[from[j]].counter < taken[from[m]].counter
                       \/ taken[from[j]].counter = taken[from[m]].counter /\ from[j] < from[m]
      /\ \A j, m \in 1 .. Len(hits) : from[j] = from[m] => j = m
  BY FromIs
<1>2. Kept = {from[j] : j \in 1 .. Len(hits)}
  BY FromKept
<1> DEFINE k == from[i]
           P == {m \in Kept : \/ taken[m].counter < taken[k].counter
                              \/ taken[m].counter = taken[k].counter /\ m <= k}
           Q == {from[j] : j \in 1 .. i}
<1>3. i \in Nat /\ \A j \in 1 .. i : j \in 1 .. Len(hits)
  BY <1>1
<1>4. ASSUME NEW j \in 1 .. Len(hits)
      PROVE  /\ from[j] \in Nat /\ from[i] \in Nat
             /\ taken[from[j]].counter \in Nat /\ taken[from[i]].counter \in Nat
  BY <1>1
<1>5. ASSUME NEW m \in P  PROVE m \in Q
  <2>1. PICK j \in 1 .. Len(hits) : m = from[j]
    BY <1>2
  <2>2. ~(i < j)
    <3>1. SUFFICES ASSUME i < j PROVE FALSE
      OBVIOUS
    <3>2. \/ taken[from[i]].counter < taken[from[j]].counter
          \/ taken[from[i]].counter = taken[from[j]].counter /\ from[i] < from[j]
      BY <1>1, <3>1
    <3>3. \/ taken[from[j]].counter < taken[from[i]].counter
          \/ taken[from[j]].counter = taken[from[i]].counter /\ from[j] <= from[i]
      BY <2>1
    <3>4. QED
      BY <1>4, <3>2, <3>3
  <2>3. j \in 1 .. i
    BY <1>3, <2>2
  <2>4. QED
    BY <2>1, <2>3
<1>6. ASSUME NEW m \in Q  PROVE m \in P
  <2>1. PICK j \in 1 .. i : m = from[j]
    OBVIOUS
  <2>2. j \in 1 .. Len(hits) /\ m \in Kept
    BY <1>2, <1>3, <2>1
  <2>3. \/ taken[from[j]].counter < taken[from[i]].counter
        \/ taken[from[j]].counter = taken[from[i]].counter /\ from[j] <= from[i]
    <3>1. CASE j = i
      BY <1>4, <3>1
    <3>2. CASE j < i
      BY <1>1, <1>4, <2>2, <3>2
    <3>3. QED
      BY <1>3, <3>1, <3>2
  <2>4. QED
    BY <2>1, <2>2, <2>3
<1>7. Rank(k) = Cardinality(P)
  BY Zenon DEF Rank
<1>8. \A j, m \in 1 .. i : from[j] = from[m] => j = m
  BY <1>1, <1>3
<1> HIDE DEF P, Q, k
<1>9. P = Q
  BY <1>5, <1>6
<1>10. Cardinality(Q) = i
  BY <1>3, <1>8, ImageCount DEF Q
<1>11. QED
  BY <1>7, <1>9, <1>10 DEF k

\* A word that leaves the list as it is, as it is not in the window or as the
\* list is full: the hits come from the same words.
LEMMA WireLeft ==
  ASSUME ListInv, NEW w \in det.words, WordTaken(w), hits' = hits,
         NEW from \in [DOMAIN hits -> DOMAIN taken], WiresFrom(from),
         w.inWindow => Len(hits) = MaxHits
  PROVE  from \in [DOMAIN hits' -> DOMAIN taken'] /\ WiresFrom(from)'
<1>1. /\ Len(hits) \in Nat /\ Len(taken) \in Nat
      /\ DOMAIN hits = 1 .. Len(hits) /\ DOMAIN taken = 1 .. Len(taken)
      /\ \A i \in 1 .. Len(hits) : from[i] \in 1 .. Len(taken)
  BY FromIs DEF ListInv
<1>2. /\ DOMAIN taken' = 1 .. Len(taken) + 1
      /\ taken'[Len(taken) + 1] = w /\ \A k \in 1 .. Len(taken) : taken'[k] = taken[k]
      /\ MaxHits' = MaxHits
  BY AppendProperties DEF ListInv, TypeOK, WordTaken, MaxHits
<1>3. from \in [DOMAIN hits' -> DOMAIN taken']
  BY <1>1, <1>2
<1>4. ASSUME NEW k \in DOMAIN taken', taken'[k].inWindow
      PROVE  \/ \E i \in DOMAIN hits : from[i] = k
             \/ Len(hits) = MaxHits /\ \A i \in DOMAIN hits : from[i] < k
  <2>1. CASE k \in 1 .. Len(taken)
    <3>1. taken[k].inWindow /\ k \in DOMAIN taken
      BY <1>1, <1>2, <1>4, <2>1
    <3>2. QED
      BY <3>1, Zenon DEF WiresFrom
  <2>2. CASE k = Len(taken) + 1
    <3>1. Len(hits) = MaxHits
      BY <1>2, <1>4, <2>2
    <3>2. \A i \in DOMAIN hits : from[i] < k
      BY <1>1, <2>2
    <3>3. QED
      BY <3>1, <3>2
  <2>3. QED
    BY <1>1, <1>2, <2>1, <2>2
<1>5. \A i \in DOMAIN hits' :
        /\ taken'[from[i]].inWindow /\ hits'[i].counter = taken'[from[i]].counter
        /\ hits'[i].signal[0] = taken'[from[i]].signal
  <2>1. \A i \in DOMAIN hits : /\ taken[from[i]].inWindow /\ hits[i].counter = taken[from[i]].counter
                               /\ hits[i].signal[0] = taken[from[i]].signal
    BY Zenon DEF WiresFrom
  <2>2. QED
    BY <1>1, <1>2, <2>1
<1>6. \A i, j \in DOMAIN hits' :
        i < j => \/ hits'[i].counter < hits'[j].counter
                 \/ hits'[i].counter = hits'[j].counter /\ from[i] < from[j]
  BY Zenon DEF WiresFrom
<1>7. Len(hits') = Len(hits) /\ DOMAIN hits' = DOMAIN hits
  OBVIOUS
<1>8. \A k \in DOMAIN taken' :
        taken'[k].inWindow => \/ \E i \in DOMAIN hits' : from[i] = k
                              \/ Len(hits') = MaxHits' /\ \A i \in DOMAIN hits' : from[i] < k
  BY <1>2, <1>4, <1>7
<1>9. WiresFrom(from)'
  BY <1>5, <1>6, <1>8, Zenon DEF WiresFrom
<1>10. QED
  BY <1>3, <1>9

\* (Cited where the rest of a step's context is of no use.)
LEMMA LessDiffers ==
  ASSUME NEW m \in Nat, NEW n \in Nat, m < n
  PROVE  m # n
  OBVIOUS

\* A word in the window that is put at place p: the hits behind it move by one.
LEMMA WirePut ==
  ASSUME ListInv, NEW w \in det.words, WordTaken(w), w.inWindow, Len(hits) < MaxHits,
         NEW from \in [DOMAIN hits -> DOMAIN taken], WiresFrom(from),
         NEW p \in 1 .. Len(hits) + 1, NEW e, Inserted(hits', Hits, hits, p, e),
         e.counter = w.counter, e.signal[0] = w.signal,
         \A i \in 1 .. Len(hits) : i < p => hits[i].counter <= w.counter,
         \A i \in 1 .. Len(hits) : i >= p => hits[i].counter > w.counter
  PROVE  \E to \in [DOMAIN hits' -> DOMAIN taken'] : WiresFrom(to)'
<1> DEFINE n == Len(hits)
           N == Len(taken)
           back(j) == IF j < p THEN j ELSE j - 1
<1>0. PICK to :
        to = [j \in 1 .. n + 1 |-> IF j < p THEN from[j] ELSE IF j = p THEN N + 1 ELSE from[j - 1]]
  OBVIOUS
<1>1. /\ n \in Nat /\ N \in Nat /\ DOMAIN hits = 1 .. n /\ DOMAIN taken = 1 .. N
      /\ \A i \in 1 .. n : /\ from[i] \in 1 .. N /\ taken[from[i]].inWindow
                           /\ hits[i].counter = taken[from[i]].counter
                           /\ hits[i].signal[0] = taken[from[i]].signal
  BY FromIs DEF ListInv
<1>2. /\ DOMAIN taken' = 1 .. N + 1 /\ taken'[N + 1] = w
      /\ \A k \in 1 .. N : taken'[k] = taken[k]
  BY AppendProperties DEF ListInv, TypeOK, WordTaken
<1>3. /\ hits' \in Seq(Hits) /\ DOMAIN hits' = 1 .. n + 1
      /\ \A j \in 1 .. n + 1 :
           hits'[j] = IF j < p THEN hits[j] ELSE IF j = p THEN e ELSE hits[j - 1]
  BY ListType DEF Inserted
<1>4. w.counter \in Nat /\ \A i \in 1 .. n : hits[i].counter \in Nat
  BY StepIs, ListType DEF ListInv, TypeOK, IsWord
<1>5. \A i, j \in 1 .. n :
        i < j => \/ hits[i].counter < hits[j].counter
                 \/ hits[i].counter = hits[j].counter /\ from[i] < from[j]
  BY <1>1, Zenon DEF WiresFrom
<1>6. \A k \in 1 .. N : taken[k].inWindow => \E i \in 1 .. n : from[i] = k
  <2>1. MaxHits \in Nat
    BY DetectorIs DEF ListInv, TypeOK, MaxHits
  <2>2. Len(hits) # MaxHits
    BY <1>1, <2>1, LessDiffers, Zenon
  <2>3. QED
    BY <1>1, <2>2, Zenon DEF WiresFrom
<1>7. ASSUME NEW j \in 1 .. n + 1, j # p
      PROVE  back(j) \in 1 .. n /\ hits'[j] = hits[back(j)] /\ to[j] = from[back(j)]
  <2>1. CASE j < p
    BY <1>0, <1>1, <1>3, <2>1
  <2>2. CASE j > p
    <3>1. ~(j < p) /\ j - 1 \in 1 .. n
      BY <1>1, <2>2
    <3>2. QED
      BY <1>0, <1>3, <1>7, <3>1
  <2>3. QED
    BY <1>1, <1>7, <2>1, <2>2
<1>8. hits'[p] = e /\ to[p] = N + 1 /\ p \in 1 .. n + 1
  <2>1. ~(p < p) /\ p \in 1 .. n + 1
    BY <1>1
  <2>2. QED
    BY <1>0, <1>3, <2>1
<1>9. ASSUME NEW i \in 1 .. n
      PROVE  \E j \in 1 .. n + 1 : j # p /\ back(j) = i
  <2>1. CASE i < p
    BY <1>1, <2>1
  <2>2. CASE i >= p
    <3>1. i + 1 \in 1 .. n + 1 /\ ~(i + 1 < p) /\ i + 1 # p /\ (i + 1) - 1 = i
      BY <1>1, <2>2
    <3>2. QED
      BY <3>1
  <2>3. QED
    BY <1>1, <2>1, <2>2
<1>10. ASSUME NEW j \in 1 .. n + 1, NEW k \in 1 .. n + 1, j < k, j # p, k # p
       PROVE  back(j) < back(k)
  BY <1>1, <1>10
<1>11. \A j \in 1 .. n + 1 : j # p => (back(j) < p <=> j < p)
  BY <1>1
<1>12. to \in [1 .. n + 1 -> 1 .. N + 1]
  <2>1. ASSUME NEW j \in 1 .. n + 1
        PROVE  to[j] \in 1 .. N + 1
    <3> HIDE DEF back
    <3>1. CASE j = p
      BY <1>1, <1>8, <3>1
    <3>2. CASE j # p
      BY <1>1, <1>7, <3>2
    <3>3. QED
      BY <3>1, <3>2
  <2>2. QED
    BY <1>0, <2>1
<1> HIDE DEF back, n, N
<1>13. ASSUME NEW j \in 1 .. n + 1
       PROVE  /\ taken'[to[j]].inWindow /\ hits'[j].counter = taken'[to[j]].counter
              /\ hits'[j].signal[0] = taken'[to[j]].signal
  <2>1. CASE j = p
    BY <1>2, <1>8, <2>1
  <2>2. CASE j # p
    BY <1>1, <1>2, <1>7, <2>2
  <2>3. QED
    BY <2>1, <2>2
<1>14. ASSUME NEW j \in 1 .. n + 1, NEW k \in 1 .. n + 1, j < k
       PROVE  \/ hits'[j].counter < hits'[k].counter
              \/ hits'[j].counter = hits'[k].counter /\ to[j] < to[k]
  <2>1. CASE j # p /\ k # p
    BY <1>5, <1>7, <1>10, <1>14, <2>1
  <2>2. CASE k = p
    <3>1. j # p /\ j < p
      BY <1>14, <2>2
    <3>2. back(j) \in 1 .. n /\ hits'[j] = hits[back(j)] /\ to[j] = from[back(j)] /\ back(j) < p
      BY <1>7, <1>11, <3>1
    <3>3. hits[back(j)].counter <= w.counter /\ from[back(j)] \in 1 .. N
      BY <1>1, <3>2 DEF n
    <3>4. from[back(j)] < N + 1
      BY <1>1, <3>3
    <3>5. hits'[k].counter = w.counter /\ to[k] = N + 1
      BY <1>8, <2>2
    <3>6. hits[back(j)].counter \in Nat
      BY <1>4, <3>2
    <3>7. to[j] < to[k]
      BY <3>2, <3>4, <3>5, Zenon
    <3>8. hits'[j].counter \in Nat /\ hits'[k].counter \in Nat /\ hits'[j].counter <= hits'[k].counter
      BY <1>4, <3>2, <3>3, <3>5, <3>6, Zenon
    <3>9. \/ hits'[j].counter < hits'[k].counter
          \/ hits'[j].counter = hits'[k].counter
      BY <3>8
    <3>10. QED
      BY <3>7, <3>9, Zenon
  <2>3. CASE j = p
    <3>1. k # p /\ ~(k < p)
      BY <1>14, <2>3
    <3>2. back(k) \in 1 .. n /\ hits'[k] = hits[back(k)] /\ ~(back(k) < p)
      BY <1>7, <1>11, <3>1
    <3>3. back(k) >= p
      BY <1>1, <3>2
    <3>4. hits[back(k)].counter > w.counter /\ hits[back(k)].counter \in Nat
      BY <1>4, <3>2, <3>3 DEF n
    <3>5. hits'[j].counter = w.counter
      BY <1>8, <2>3
    <3>6. QED
      BY <1>4, <3>2, <3>4, <3>5
  <2>4. QED
    BY <2>1, <2>2, <2>3
<1>15. ASSUME NEW k \in 1 .. N + 1, taken'[k].inWindow
       PROVE  \E j \in 1 .. n + 1 : to[j] = k
  <2>1. CASE k = N + 1
    BY <1>8, <2>1
  <2>2. CASE k # N + 1
    <3>1. k \in 1 .. N
      BY <1>1, <2>2
    <3>2. PICK i \in 1 .. n : from[i] = k
      BY <1>2, <1>6, <1>15, <3>1
    <3>3. PICK j \in 1 .. n + 1 : j # p /\ back(j) = i
      BY <1>9
    <3>4. QED
      BY <1>7, <3>2, <3>3
  <2>3. QED
    BY <2>1, <2>2
<1>16. to \in [DOMAIN hits' -> DOMAIN taken'] /\ WiresFrom(to)'
  <2>1. to \in [DOMAIN hits' -> DOMAIN taken']
    BY <1>2, <1>3, <1>12
  <2>2. \A j \in DOMAIN hits' : /\ taken'[to[j]].inWindow /\ hits'[j].counter = taken'[to[j]].counter
                                /\ hits'[j].signal[0] = taken'[to[j]].signal
    BY <1>3, <1>13
  <2>3. \A j, k \in DOMAIN hits' : j < k => \/ hits'[j].counter < hits'[k].counter
                                            \/ hits'[j].counter = hits'[k].counter /\ to[j] < to[k]
    BY <1>3, <1>14
  <2>4. \A k \in DOMAIN taken' :
          taken'[k].inWindow => \/ \E j \in DOMAIN hits' : to[j] = k
                                \/ Len(hits') = MaxHits' /\ \A j \in DOMAIN hits' : to[j] < k
    BY <1>2, <1>3, <1>15
  <2>5. QED
    BY <2>1, <2>2, <2>3, <2>4, Zenon DEF WiresFrom
<1>17. QED
  BY <1>16, Zenon

\* The list of a chamber's wires and where its hits come from.
WireInv == ListInv /\ WiresInv

\* A word of a chamber with one signal per wire is ignored as the list is full or
\* as it is not in the window, or it is put behind the wires up to its own.
LEMMA ChamberStep ==
  ASSUME ListInv, NEW w \in det.words, WordTaken(w), Routine = "fb", SignalCount = 1,
         Len(hits) <= MaxHits
  PROVE  \/ hits' = hits /\ (w.inWindow => Len(hits) = MaxHits)
         \/ /\ w.inWindow /\ Len(hits) < MaxHits
            /\ \E p \in 1 .. Len(hits) + 1, e \in Hits :
                 /\ Inserted(hits', Hits, hits, p, e)
                 /\ e.counter = w.counter /\ e.signal[0] = w.signal
                 /\ \A i \in 1 .. Len(hits) : i < p => hits[i].counter <= w.counter
                 /\ \A i \in 1 .. Len(hits) : i >= p => hits[i].counter > w.counter
<1>1. /\ Len(hits) \in Nat /\ MaxHits \in Nat /\ hits \in Seq(Hits) /\ w.counter \in Nat
      /\ w.inWindow \in BOOLEAN /\ IsWord(w)
  BY StepIs, DetectorIs, ListType DEF ListInv, TypeOK, MaxHits
<1>2. HasRoom <=> Len(hits) < MaxHits
  BY <1>1 DEF HasRoom
<1>3. CASE hits' = hits /\ ~HasRoom
  BY <1>1, <1>2, <1>3
<1>4. CASE InsertSingle(w) /\ HasRoom
  <2> DEFINE p == PlaceOf(hits, w.counter) + 1
             e == [NewHit(w.counter) EXCEPT !.signal[0] = w.signal]
  <2>1. /\ p \in 1 .. Len(hits) + 1 /\ e \in Hits /\ e.counter = w.counter /\ e.signal[0] = w.signal
        /\ \/ hits' = hits /\ ~w.inWindow
           \/ Inserted(hits', Hits, hits, p, e) /\ w.inWindow
    BY <1>1, <1>4, SingleStep DEF ListInv
  <2>2. PlaceOf(hits, w.counter) \in 0 .. Len(hits)
    BY <1>1, PlaceIs
  <2>3. \A i \in 1 .. Len(hits) : i < p => hits[i].counter <= w.counter
    <3>1. \A i \in 1 .. PlaceOf(hits, w.counter) : hits[i].counter <= w.counter
      BY <1>1, PlaceIs DEF ListInv
    <3>2. QED
      BY <2>2, <3>1
  <2>4. \A i \in 1 .. Len(hits) : i >= p => hits[i].counter > w.counter
    <3>1. \A i \in 1 .. Len(hits) : i > PlaceOf(hits, w.counter) => hits[i].counter > w.counter
      BY <1>1, PlaceIs
    <3>2. QED
      BY <2>2, <3>1
  <2> HIDE DEF p, e
  <2>5. QED
    BY <1>2, <1>4, <2>1, <2>3, <2>4, Zenon
<1>5. QED
  BY <1>3, <1>4, StepIs

\* So the hits of a chamber keep coming from its words.
LEMMA WiresStep ==
  ASSUME WireInv, NEW w \in det.words, WordTaken(w)
  PROVE  WireInv'
<1>1. ListInv /\ WiresInv /\ ListInv' /\ det' = det /\ MaxHits' = MaxHits
  BY ListStep DEF WireInv, WordTaken, MaxHits
<1>2. SUFFICES ASSUME Routine = "fb", SignalCount = 1
               PROVE  /\ Len(hits') <= MaxHits
                      /\ \E to \in [DOMAIN hits' -> DOMAIN taken'] : WiresFrom(to)'
  BY <1>1, Zenon DEF WireInv, WiresInv, Routine, SignalCount, MaxHits
<1>3. PICK from \in [DOMAIN hits -> DOMAIN taken] : WiresFrom(from)
  BY <1>1, <1>2, Zenon DEF WiresInv
<1>4. Len(hits) <= MaxHits
  BY <1>1, <1>2, Zenon DEF WiresInv
<1>5. Len(hits) \in Nat /\ MaxHits \in Nat
  BY <1>1, DetectorIs, ListType DEF ListInv, TypeOK, MaxHits
<1>6. CASE hits' = hits /\ (w.inWindow => Len(hits) = MaxHits)
  <2>1. from \in [DOMAIN hits' -> DOMAIN taken'] /\ WiresFrom(from)'
    BY <1>1, <1>3, <1>6, WireLeft
  <2>2. QED
    BY <1>4, <1>6, <2>1, Zenon
<1>7. ASSUME w.inWindow, Len(hits) < MaxHits,
             NEW p \in 1 .. Len(hits) + 1, NEW e \in Hits,
             Inserted(hits', Hits, hits, p, e), e.counter = w.counter, e.signal[0] = w.signal,
             \A i \in 1 .. Len(hits) : i < p => hits[i].counter <= w.counter,
             \A i \in 1 .. Len(hits) : i >= p => hits[i].counter > w.counter
      PROVE  /\ Len(hits') <= MaxHits
             /\ \E to \in [DOMAIN hits' -> DOMAIN taken'] : WiresFrom(to)'
  <2>1. Len(hits') = Len(hits) + 1
    BY <1>7 DEF Inserted
  <2>2. Len(hits') <= MaxHits
    BY <1>5, <1>7, <2>1
  <2>3. \E to \in [DOMAIN hits' -> DOMAIN taken'] : WiresFrom(to)'
    BY <1>1, <1>3, <1>7, WirePut
  <2>4. QED
    BY <2>2, <2>3
<1>8. QED
  BY <1>1, <1>2, <1>4, <1>6, <1>7, ChamberStep, Zenon

\* An empty list comes from no words.
LEMMA WiresInit ==
  ASSUME Init
  PROVE  WireInv
<1>1. ListInv
  BY ListInit
<1>2. /\ Len(hits) = 0 /\ DOMAIN hits = 1 .. 0 /\ DOMAIN taken = 1 .. 0
      /\ MaxHits \in Nat
  <2>1. /\ hits = <<>> /\ taken = <<>> /\ hits \in Seq(Hits) /\ taken \in Seq(det.words)
        /\ det \in Detectors
    BY <1>1, Zenon DEF Init, ListInv, TypeOK
  <2>2. QED
    BY <2>1, DetectorIs DEF MaxHits
<1>3. PICK from : from = [i \in DOMAIN hits |-> 0]
  OBVIOUS
<1>4. from \in [DOMAIN hits -> DOMAIN taken]
  BY <1>2, <1>3
<1>5. WiresFrom(from)
  BY <1>2 DEF WiresFrom
<1>6. Len(hits) <= MaxHits
  BY <1>2
<1>7. QED
  BY <1>1, <1>4, <1>5, <1>6, Zenon DEF WireInv, WiresInv

\* Hits that come from the words in this way are the words that are kept, each at
\* its place.
LEMMA WiresAre ==
  ASSUME WireInv
  PROVE  WireHits
<1>1. ListInv /\ WiresInv /\ TypeOK /\ Sorted(hits) /\ MaxHits \in Nat
  BY DetectorIs DEF WireInv, ListInv, TypeOK, MaxHits
<1>2. ASSUME Routine = "fb", SignalCount = 1
      PROVE  /\ Len(hits) = Cardinality(Kept)
             /\ \A k \in Kept : /\ hits[Rank(k)].counter = taken[k].counter
                                /\ hits[Rank(k)].signal[0] = taken[k].signal
  <2>1. Len(hits) <= MaxHits /\ \E from \in [DOMAIN hits -> DOMAIN taken] : WiresFrom(from)
    BY <1>1, <1>2, Zenon DEF WiresInv
  <2>2. PICK from \in [DOMAIN hits -> DOMAIN taken] : WiresFrom(from)
    BY <2>1
  <2>3. /\ Len(hits) \in Nat
        /\ \A i \in 1 .. Len(hits) : /\ hits[i].counter = taken[from[i]].counter
                                     /\ hits[i].signal[0] = taken[from[i]].signal
        /\ \A i, j \in 1 .. Len(hits) : from[i] = from[j] => i = j
    BY <1>1, <2>2, FromIs
  <2>4. Kept = {from[i] : i \in 1 .. Len(hits)}
    BY <1>1, <2>1, <2>2, FromKept
  <2>5. \A i \in 1 .. Len(hits) : Rank(from[i]) = i
    BY <1>1, <2>1, <2>2, FromRank
  <2>6. Cardinality(Kept) = Len(hits)
    BY <1>1, <2>1, <2>2, FromKept, Zenon
  <2>7. ASSUME NEW k \in Kept
        PROVE  /\ hits[Rank(k)].counter = taken[k].counter
               /\ hits[Rank(k)].signal[0] = taken[k].signal
    <3>1. PICK i \in 1 .. Len(hits) : k = from[i]
      BY <2>4
    <3>2. Rank(k) = i
      BY <2>5, <3>1
    <3>3. QED
      BY <2>3, <3>1, <3>2, Zenon
  <2>8. QED
    BY <2>6, <2>7
<1>3. QED
  BY <1>1, <1>2, Zenon DEF WireHits

\* A chamber's hits are its words in the window of times, as many as fit, in the
\* order of the wires and, on a wire, in the order they came
\* (g_decode_fb_detector.f:262-305), and every list is in the order of its counters.
THEOREM WiresInOrder == Spec => []WireHits
<1>1. Init => WireInv
  BY WiresInit
<1>2. WireInv /\ [Next]_vars => WireInv'
  <2> SUFFICES ASSUME WireInv, [Next]_vars PROVE WireInv'
    OBVIOUS
  <2>1. CASE UNCHANGED vars
    BY <2>1 DEF vars, WireInv, ListInv, TypeOK, WiresInv, WiresFrom, Routine, SignalCount, MaxHits
  <2>2. ListInv
    BY DEF WireInv
  <2>3. QED
    BY <2>1, <2>2, WiresStep, NextIs, Zenon
<1>3. WireInv => WireHits
  BY WiresAre
<1>4. QED
  BY <1>1, <1>2, <1>3, PTL DEF Spec

-----------------------------------------------------------------------------
(* Each with each.                                                         *)

\* What it says of the entries of the counter.
LEMMA EachIs ==
  ASSUME NEW list \in Seq(Hits), NEW c, NEW s, NEW o, NEW A, NEW B
  PROVE  EachWithEach(list, c, s, o, A, B) <=>
           /\ \A i \in 1 .. Len(list) :
                list[i].counter = c => list[i].signal[s] \in A /\ list[i].signal[o] \in B
           /\ \A a \in A, b \in B : \E i \in 1 .. Len(list) :
                list[i].counter = c /\ list[i].signal[s] = a /\ list[i].signal[o] = b
           /\ \A i, j \in 1 .. Len(list) :
                list[i].counter = c /\ list[j].counter = c /\ list[i].signal[s] = list[j].signal[s]
                  /\ list[i].signal[o] = list[j].signal[o] => i = j
<1>1. DOMAIN list = 1 .. Len(list)
  BY ListType
<1>2. QED
  BY <1>1 DEF EachWithEach

\* What has to be shown of them.
LEMMA EachFrom ==
  ASSUME NEW list \in Seq(Hits), NEW c, NEW s, NEW o, NEW A, NEW B,
         \A i \in 1 .. Len(list) :
           list[i].counter = c => list[i].signal[s] \in A /\ list[i].signal[o] \in B,
         \A a \in A, b \in B : \E i \in 1 .. Len(list) :
           list[i].counter = c /\ list[i].signal[s] = a /\ list[i].signal[o] = b,
         \A i, j \in 1 .. Len(list) :
           list[i].counter = c /\ list[j].counter = c /\ list[i].signal[s] = list[j].signal[s]
             /\ list[i].signal[o] = list[j].signal[o] => i = j
  PROVE  EachWithEach(list, c, s, o, A, B)
BY EachIs

\* The two ends are alike.
LEMMA EachSwapped ==
  ASSUME NEW list \in Seq(Hits), NEW c, NEW s, NEW o, NEW A, NEW B,
         EachWithEach(list, c, s, o, A, B)
  PROVE  EachWithEach(list, c, o, s, B, A)
BY EachIs

\* Only the counters and the signals of the two ends matter.
LEMMA EachSame ==
  ASSUME NEW L \in Seq(Hits), NEW M \in Seq(Hits), NEW c, NEW s, NEW o, NEW A, NEW B,
         EachWithEach(L, c, s, o, A, B), Len(M) = Len(L),
         \A j \in 1 .. Len(L) : /\ M[j].counter = L[j].counter
                                /\ M[j].signal[s] = L[j].signal[s] /\ M[j].signal[o] = L[j].signal[o]
  PROVE  EachWithEach(M, c, s, o, A, B)
BY EachIs

\* Entries of other counters behind place h do not matter.
LEMMA EachShifted ==
  ASSUME NEW L \in Seq(Hits), NEW M \in Seq(Hits), NEW h, NEW m, NEW counter \in Nat,
         Shifted(M, L, h, m, counter), NEW c, c # counter,
         NEW s, NEW o, NEW A, NEW B, EachWithEach(L, c, s, o, A, B)
  PROVE  EachWithEach(M, c, s, o, A, B)
<1>1. /\ h \in 0 .. Len(L) /\ m \in Nat /\ Len(M) = Len(L) + m /\ Len(L) \in Nat
      /\ \A j \in 1 .. h : M[j].counter = L[j].counter /\ (L[j].counter # counter => M[j] = L[j])
      /\ \A j \in h + 1 .. h + m : M[j].counter = counter
      /\ \A j \in h + m + 1 .. Len(M) : M[j] = L[j - m]
  BY LenProperties DEF Shifted
<1> DEFINE from(j) == IF j <= h THEN j ELSE j - m
           to(i) == IF i <= h THEN i ELSE i + m
<1>2. ASSUME NEW j \in 1 .. Len(M), M[j].counter = c
      PROVE  from(j) \in 1 .. Len(L) /\ M[j] = L[from(j)] /\ j = to(from(j))
  <2>1. CASE j <= h
    BY <1>1, <1>2, <2>1
  <2>2. CASE j > h
    <3>0. j \in Int /\ h \in Int /\ m \in Int /\ h >= 0 /\ j <= Len(M)
      BY <1>1
    <3>1. ~(j <= h + m)
      BY <1>1, <1>2, <2>2, <3>0
    <3>2. j \in h + m + 1 .. Len(M) /\ j - m \in 1 .. Len(L) /\ from(j) = j - m /\ j - m > h
          /\ (j - m) + m = j
      <4>1. ~(j <= h) /\ ~(j - m <= h)
        BY <2>2, <3>0, <3>1
      <4>2. QED
        BY <1>1, <3>0, <3>1, <4>1
    <3>3. M[j] = L[j - m]
      BY <1>1, <3>2
    <3>4. to(j - m) = j
      BY <3>0, <3>2
    <3> HIDE DEF from, to
    <3>5. QED
      BY <3>2, <3>3, <3>4
  <2>3. QED
    BY <1>1, <2>1, <2>2
<1>3. ASSUME NEW i \in 1 .. Len(L), L[i].counter = c
      PROVE  to(i) \in 1 .. Len(M) /\ M[to(i)] = L[i]
  <2>1. CASE i <= h
    BY <1>1, <1>3, <2>1
  <2>2. CASE i > h
    <3>1. i + m \in h + m + 1 .. Len(M) /\ i + m \in 1 .. Len(M) /\ (i + m) - m = i /\ to(i) = i + m
      BY <1>1, <2>2
    <3>2. M[i + m] = L[i]
      BY <1>1, <3>1
    <3>3. QED
      BY <3>1, <3>2
  <2>3. QED
    BY <1>1, <2>1, <2>2
<1> HIDE DEF from, to
<1>4. ASSUME NEW i \in 1 .. Len(M)
      PROVE  M[i].counter = c => M[i].signal[s] \in A /\ M[i].signal[o] \in B
  BY <1>2, EachIs
<1>5. ASSUME NEW a \in A, NEW b \in B
      PROVE  \E i \in 1 .. Len(M) : M[i].counter = c /\ M[i].signal[s] = a /\ M[i].signal[o] = b
  <2>1. PICK i \in 1 .. Len(L) : L[i].counter = c /\ L[i].signal[s] = a /\ L[i].signal[o] = b
    BY EachIs
  <2>2. QED
    BY <1>3, <2>1
<1>6. ASSUME NEW i \in 1 .. Len(M), NEW j \in 1 .. Len(M), M[i].counter = c, M[j].counter = c,
             M[i].signal[s] = M[j].signal[s], M[i].signal[o] = M[j].signal[o]
      PROVE  i = j
  <2>1. /\ from(i) \in 1 .. Len(L) /\ M[i] = L[from(i)] /\ i = to(from(i))
        /\ from(j) \in 1 .. Len(L) /\ M[j] = L[from(j)] /\ j = to(from(j))
    BY <1>2, <1>6
  <2>2. from(i) = from(j)
    BY <1>6, <2>1, EachIs
  <2>3. QED
    BY <2>1, <2>2
<1>7. QED
  BY <1>4, <1>5, <1>6, EachIs

-----------------------------------------------------------------------------
(* The pairs before the passes.                                            *)

\* The entries of a counter are the pairs of its hits among some words.
PairsOf(list, words, c) ==
  EachWithEach(list, c, 2, 3, OrNone(Signals(words, c, 2)), OrNone(Signals(words, c, 3)))

\* A counter without words has no signals.
LEMMA NoSignals ==
  ASSUME NEW words, NEW c, \A k \in DOMAIN words : words[k].counter # c, NEW t
  PROVE  OrNone(Signals(words, c, t)) = {NoSignal}
<1>1. Signals(words, c, t) = {}
  BY DEF Signals
<1>2. QED
  BY <1>1 DEF OrNone

\* A new entry is the one pair of a counter without words.
LEMMA NewPair ==
  ASSUME NEW L \in Seq(Hits), NEW M \in Seq(Hits), NEW h, NEW counter \in Nat,
         Shifted(M, L, h, 1, counter), M[h + 1] = NewHit(counter),
         \A j \in 1 .. h : M[j] = L[j], \A i \in 1 .. Len(L) : L[i].counter # counter
  PROVE  EachWithEach(M, counter, 2, 3, {NoSignal}, {NoSignal})
<1>1. /\ h \in 0 .. Len(L) /\ Len(M) = Len(L) + 1 /\ Len(L) \in Nat
      /\ \A j \in h + 1 + 1 .. Len(M) : M[j] = L[j - 1]
  BY LenProperties DEF Shifted
<1>2. 2 \in SigTypes /\ 3 \in SigTypes
  BY DEF SigTypes
<1>3. /\ h + 1 \in 1 .. Len(M) /\ M[h + 1].counter = counter
      /\ M[h + 1].signal[2] = NoSignal /\ M[h + 1].signal[3] = NoSignal
  BY <1>1, <1>2, NewHitIs
<1>4. ASSUME NEW j \in 1 .. Len(M), M[j].counter = counter
      PROVE  j = h + 1
  <2>1. CASE j <= h
    BY <1>1, <1>4, <2>1
  <2>2. CASE j > h + 1
    <3>1. j \in h + 1 + 1 .. Len(M) /\ j - 1 \in 1 .. Len(L)
      BY <1>1, <2>2
    <3>2. M[j] = L[j - 1]
      BY <1>1, <3>1
    <3>3. QED
      BY <1>4, <3>1, <3>2
  <2>3. QED
    BY <1>1, <2>1, <2>2
<1>5. QED
  BY <1>3, <1>4, EachIs

\* The list with a hit of a word's counter in it has the pairs of all counters.
LEMMA FirstPairs ==
  ASSUME ListInv, CountersInv, PairsInv, det.multihit, Len(hits) < MaxHits,
         NEW counter \in Nat
  PROVE  \A c \in CountersTaken \union {counter} : PairsOf(WithHit(counter), taken, c)
<1> DEFINE L == WithHit(counter)
           h == PlaceOf(hits, counter)
           g == PlaceOf(L, counter)
<1>1. TypeOK /\ Sorted(hits) /\ hits \in Seq(Hits) /\ det \in Detectors
  BY DEF ListInv, TypeOK
<1>2. Routine = "all" /\ MaxHits \in Nat /\ Len(hits) \in Nat /\ DOMAIN hits = 1 .. Len(hits)
  BY <1>1, DetectorIs, ListType DEF Routine, MaxHits
<1>3. Routine # "fb"
  BY <1>2
<1>4. /\ L \in Seq(Hits)
      /\ \/ L = hits /\ g > 0 /\ L[g].counter = counter
         \/ /\ Shifted(L, hits, h, 1, counter) /\ g = h + 1 /\ L[g] = NewHit(counter)
            /\ \A j \in 1 .. h : L[j] = hits[j]
            /\ \A i \in 1 .. Len(hits) : hits[i].counter # counter
  BY <1>1, <1>3, WithHitIs, Zenon
<1>5. g \in 0 .. Len(L)
  BY <1>4, PlaceIs
<1> HIDE DEF L, h, g
<1>6. \A c \in CountersTaken : PairsOf(hits, taken, c)
  BY DEF PairsInv, PairsOf
<1>7. CASE L = hits /\ g > 0 /\ L[g].counter = counter
  <2>1. g \in DOMAIN hits
    BY <1>2, <1>5, <1>7
  <2>2. counter \in CountersTaken
    BY <1>7, <2>1 DEF CountersInv
  <2>3. QED
    BY <1>6, <1>7, <2>2 DEF L
<1>8. CASE /\ Shifted(L, hits, h, 1, counter) /\ g = h + 1 /\ L[g] = NewHit(counter)
           /\ \A j \in 1 .. h : L[j] = hits[j]
           /\ \A i \in 1 .. Len(hits) : hits[i].counter # counter
  <2>1. Len(hits) <= MaxHits
    BY <1>2
  <2>2. \A k \in DOMAIN taken : taken[k].counter # counter
    BY <1>2, <1>8, <2>1 DEF CountersInv
  <2>3. PairsOf(L, taken, counter)
    <3>1. EachWithEach(L, counter, 2, 3, {NoSignal}, {NoSignal})
      BY <1>1, <1>4, <1>8, NewPair
    <3>2. OrNone(Signals(taken, counter, 2)) = {NoSignal}
          /\ OrNone(Signals(taken, counter, 3)) = {NoSignal}
      BY <2>2, NoSignals
    <3>3. QED
      BY <3>1, <3>2 DEF PairsOf
  <2>4. ASSUME NEW c \in CountersTaken, c # counter
        PROVE  PairsOf(L, taken, c)
    <3>1. PairsOf(hits, taken, c)
      BY <1>6
    <3>2. QED
      BY <1>1, <1>4, <1>8, <2>4, <3>1, EachShifted DEF PairsOf
  <2>5. QED
    BY <2>3, <2>4 DEF L
<1>9. QED
  BY <1>4, <1>7, <1>8

\* One more word leaves the signals of all but its own counter and type.
LEMMA SameSignals ==
  ASSUME NEW T, NEW words \in Seq(T), NEW w \in T, NEW c, NEW t, c # w.counter \/ t # w.sigtyp
  PROVE  Signals(Append(words, w), c, t) = Signals(words, c, t)
<1>1. Signals(Append(words, w), c, t)
        = Signals(words, c, t) \union (IF c = w.counter /\ t = w.sigtyp THEN {w.signal} ELSE {})
  BY TakenGrows
<1>2. ~(c = w.counter /\ t = w.sigtyp)
  OBVIOUS
<1>3. QED
  BY <1>1, <1>2

\* An ADC value changes no pair.
LEMMA AdcPairs ==
  ASSUME ListInv, CountersInv, PairsInv, det.multihit, Len(hits) < MaxHits,
         NEW w \in det.words, WordTaken(w), StoreAdc(w), w.sigtyp \notin Tdcs,
         NEW c \in CountersTaken \union {w.counter}
  PROVE  PairsOf(hits', taken', c)
<1> DEFINE L == WithHit(w.counter)
<1>1. TypeOK /\ Sorted(hits) /\ IsWord(w) /\ taken \in Seq(det.words) /\ taken' = Append(taken, w)
  BY StepIs DEF ListInv, TypeOK, WordTaken
<1>2. w.counter \in Nat /\ w.signal \in Int /\ w.sigtyp \in SigTypes
  BY <1>1 DEF IsWord
<1>3. L \in Seq(Hits)
  BY <1>1, <1>2, WithHitGrown
<1>4. /\ hits' \in Seq(Hits) /\ Len(hits') = Len(L)
      /\ \A j \in 1 .. Len(L) :
           hits'[j] = IF L[j].counter = w.counter
                      THEN [L[j] EXCEPT !.signal[w.sigtyp] = w.signal] ELSE L[j]
  BY <1>1, AdcStep
<1>5. PairsOf(L, taken, c)
  BY <1>2, FirstPairs
<1> HIDE DEF L
<1>6. 2 \in Tdcs /\ 3 \in Tdcs /\ 2 \in SigTypes \ {w.sigtyp} /\ 3 \in SigTypes \ {w.sigtyp}
      /\ w.sigtyp # 2 /\ w.sigtyp # 3
  BY DEF Tdcs, SigTypes
<1>7. ASSUME NEW j \in 1 .. Len(L)
      PROVE  /\ hits'[j].counter = L[j].counter
             /\ hits'[j].signal[2] = L[j].signal[2] /\ hits'[j].signal[3] = L[j].signal[3]
  <2> DEFINE x == [L[j] EXCEPT !.signal[w.sigtyp] = w.signal]
  <2>1. L[j] \in Hits
    BY <1>3, ListType
  <2>2. /\ x \in Hits /\ x.counter = L[j].counter
        /\ x.signal[w.sigtyp] = w.signal /\ \A u \in SigTypes \ {w.sigtyp} : x.signal[u] = L[j].signal[u]
    BY <1>2, <2>1, SignalSet, ZenonT(40)
  <2>3. hits'[j] = IF L[j].counter = w.counter THEN x ELSE L[j]
    BY <1>4
  <2> HIDE DEF x
  <2>4. QED
    BY <1>6, <2>2, <2>3
<1>8. Signals(taken', c, 2) = Signals(taken, c, 2) /\ Signals(taken', c, 3) = Signals(taken, c, 3)
  BY <1>1, <1>6, SameSignals
<1>9. QED
  BY <1>3, <1>4, <1>5, <1>7, <1>8, EachSame DEF PairsOf

-----------------------------------------------------------------------------
(* The copies the passes make, when the entries of the counter have a      *)
(* signal at w's end.                                                      *)

\* The copies after i passes: one for every signal at the other end o among the
\* first i entries, and no two for the same.
CopiesAre(F, h, w, i, st, o) ==
  /\ \A e \in 1 .. i : F[e].counter = w.counter =>
       \E j \in h + 1 .. h + st.multi : st.list[j].signal[o] = F[e].signal[o]
  /\ \A j, k \in h + 1 .. h + st.multi : st.list[j].signal[o] = st.list[k].signal[o] => j = k

\* All entries of w's counter among the first h have a signal at its end.
Filled(F, h, w) ==
  \A e \in 1 .. h : F[e].counter = w.counter => F[e].signal[w.sigtyp] >= 0

\* An earlier entry of the counter has entry i's signal at the other end.
HasEarlier(F, w, i, o) ==
  \E e \in 1 .. i - 1 : F[e].counter = w.counter /\ F[e].signal[o] = F[i].signal[o]

\* x is hit b with v as its signal t.
SignalIn(x, b, t, v) ==
  /\ x \in Hits /\ x.counter = b.counter
  /\ x.signal[t] = v /\ \A u \in SigTypes \ {t} : x.signal[u] = b.signal[u]

\* A hit with one signal stored.
LEMMA SignalPut ==
  ASSUME NEW b \in Hits, NEW t \in SigTypes, NEW v \in Int
  PROVE  SignalIn([b EXCEPT !.signal[t] = v], b, t, v)
BY SignalSet, Zenon DEF SignalIn

\* What a stage says of filled entries and of the copies.
LEMMA StageFilled ==
  ASSUME NEW F \in Seq(Hits), NEW h \in 1 .. Len(F), NEW w, IsWord(w), Filled(F, h, w),
         NEW o \in SigTypes, o # w.sigtyp, NEW i \in Nat, i <= h, NEW st, Stage(F, h, w, i, st)
  PROVE  /\ st.list \in Seq(Hits) /\ st.multi \in Nat /\ Len(st.list) = Len(F) + st.multi
         /\ \A j \in 1 .. h : st.list[j] = F[j]
         /\ \A j \in h + 1 .. h + st.multi : \E e \in 1 .. i :
              /\ F[e].counter = w.counter /\ st.list[j].counter = w.counter
              /\ st.list[j].signal[o] = F[e].signal[o] /\ st.list[j].signal[w.sigtyp] = w.signal
         /\ \A j \in h + 1 .. Len(F) : st.list[j + st.multi] = F[j]
<1>1. /\ st.list \in Seq(Hits) /\ st.multi \in Nat /\ Len(st.list) = Len(F) + st.multi
      /\ \A j \in 1 .. h :
           st.list[j] = IF j <= i /\ F[j].counter = w.counter /\ F[j].signal[w.sigtyp] < 0
                        THEN [F[j] EXCEPT !.signal[w.sigtyp] = w.signal] ELSE F[j]
      /\ \A j \in h + 1 .. h + st.multi : \E e \in 1 .. i : CopyOf(st.list[j], F[e], w)
      /\ \A j \in h + 1 .. Len(F) : st.list[j + st.multi] = F[j]
  BY DEF Stage, Stages
<1>2. w.sigtyp \in SigTypes /\ w.signal \in Int
  BY DEF IsWord
<1>3. ASSUME NEW e \in 1 .. h
      PROVE  F[e] \in Hits /\ F[e].signal[w.sigtyp] \in Int
  BY <1>2, ListType
<1>4. ASSUME NEW j \in 1 .. h
      PROVE  st.list[j] = F[j]
  <2>1. ~(F[j].counter = w.counter /\ F[j].signal[w.sigtyp] < 0)
    BY <1>3 DEF Filled
  <2>2. QED
    BY <1>1, <2>1
<1>5. ASSUME NEW j \in h + 1 .. h + st.multi
      PROVE  \E e \in 1 .. i :
               /\ F[e].counter = w.counter /\ st.list[j].counter = w.counter
               /\ st.list[j].signal[o] = F[e].signal[o] /\ st.list[j].signal[w.sigtyp] = w.signal
  <2>1. PICK e \in 1 .. i : CopyOf(st.list[j], F[e], w)
    BY <1>1
  <2>2. e \in 1 .. h
    OBVIOUS
  <2> DEFINE x == [F[e] EXCEPT !.signal[w.sigtyp] = w.signal]
  <2>3. /\ x \in Hits /\ x.counter = F[e].counter
        /\ x.signal[w.sigtyp] = w.signal /\ \A u \in SigTypes \ {w.sigtyp} : x.signal[u] = F[e].signal[u]
    BY <1>2, <1>3, <2>2, SignalSet, ZenonT(40)
  <2>4. F[e].counter = w.counter /\ st.list[j] = x
    BY <2>1 DEF CopyOf
  <2> HIDE DEF x
  <2>5. QED
    BY <2>3, <2>4
<1>6. QED
  BY <1>1, <1>4, <1>5

\* One pass makes a copy just when the signal at the other end is new.
LEMMA PassCopies ==
  ASSUME NEW F \in Seq(Hits), NEW h \in 1 .. Len(F), NEW w, IsWord(w), Filled(F, h, w),
         NEW o \in SigTypes, o # w.sigtyp, NEW i \in 1 .. h, NEW st, Stage(F, h, w, i - 1, st),
         CopiesAre(F, h, w, i - 1, st, o), MaxHits \in Nat,
         F[i].counter = w.counter =>
           (Paired(st.list, i, w.sigtyp, st.multi) <=> HasEarlier(F, w, i, o)),
         Len(Pass(w, h, st.list, i, st.multi).list) < MaxHits
  PROVE  CopiesAre(F, h, w, i, Pass(w, h, st.list, i, st.multi), o)
<1> DEFINE L == st.list
           m == st.multi
           x == [L[i] EXCEPT !.signal[w.sigtyp] = w.signal]
           next == Pass(w, h, L, i, m)
<1>1. /\ L \in Seq(Hits) /\ m \in Nat /\ Len(L) = Len(F) + m
      /\ \A j \in 1 .. h : L[j] = F[j]
      /\ \A j \in h + 1 .. h + m : \E e \in 1 .. i - 1 :
           F[e].counter = w.counter /\ L[j].signal[o] = F[e].signal[o]
  <2>1. i - 1 \in Nat /\ i - 1 <= h
    OBVIOUS
  <2>2. QED
    BY <2>1, StageFilled
<1>2. L[i] = F[i] /\ F[i] \in Hits /\ F[i].signal[w.sigtyp] \in Int /\ w.sigtyp \in SigTypes
      /\ w.signal \in Int /\ Len(F) \in Nat /\ h \in Nat /\ i \in Nat
  <2>1. i \in 1 .. Len(F)
    OBVIOUS
  <2>2. QED
    BY <1>1, <2>1, ListType DEF IsWord
<1>3. \A e \in 1 .. i : e = i \/ e \in 1 .. i - 1
  BY <1>2
<1>4. ASSUME next = [list |-> L, multi |-> m], F[i].counter = w.counter => HasEarlier(F, w, i, o)
      PROVE  CopiesAre(F, h, w, i, next, o)
  <2>1. next.list = L /\ next.multi = m
    BY <1>4
  <2> HIDE DEF next, L, m
  <2>2. ASSUME NEW e \in 1 .. i, F[e].counter = w.counter
        PROVE  \E j \in h + 1 .. h + m : L[j].signal[o] = F[e].signal[o]
    BY <1>3, <1>4, <2>2 DEF CopiesAre, HasEarlier, L, m
  <2>3. QED
    BY <2>1, <2>2 DEF CopiesAre, L, m
<1>5. CASE F[i].counter # w.counter
  <2>1. next = [list |-> L, multi |-> m]
    BY <1>2, <1>5 DEF Pass
  <2>2. QED
    BY <1>4, <1>5, <2>1
<1>6. CASE F[i].counter = w.counter
  <2>1. ~(L[i].signal[w.sigtyp] < 0)
    BY <1>2, <1>6 DEF Filled
  <2>2. next = IF Len(L) >= MaxHits \/ Paired(L, i, w.sigtyp, m) THEN [list |-> L, multi |-> m]
               ELSE [list |-> InsertAt(L, h + m + 1, x), multi |-> m + 1]
    BY <1>2, <1>6, <2>1, Zenon DEF Pass
  <2>3. Len(next.list) < MaxHits /\ Len(L) \in Nat
    BY <1>1
  <2>4. Paired(L, i, w.sigtyp, m) <=> HasEarlier(F, w, i, o)
    BY <1>6
  <2> HIDE DEF next, L, m, x
  <2>5. CASE Len(L) >= MaxHits
    <3>1. next.list = L
      BY <2>2, <2>5
    <3>2. QED
      BY <2>3, <2>5, <3>1
  <2>6. CASE Paired(L, i, w.sigtyp, m)
    <3>1. next = [list |-> L, multi |-> m]
      BY <2>2, <2>6
    <3>2. QED
      BY <1>4, <2>4, <2>6, <3>1 DEF next, L, m
  <2>7. CASE ~(Len(L) >= MaxHits) /\ ~Paired(L, i, w.sigtyp, m)
    <3>1. next.list = InsertAt(L, h + m + 1, x) /\ next.multi = m + 1
      BY <2>2, <2>7
    <3>2. x \in Hits /\ x.signal[o] = F[i].signal[o]
      <4>1. /\ x \in Hits /\ x.counter = L[i].counter
            /\ x.signal[w.sigtyp] = w.signal
            /\ \A u \in SigTypes \ {w.sigtyp} : x.signal[u] = L[i].signal[u]
        <5>1. L[i] \in Hits /\ w.sigtyp \in SigTypes /\ w.signal \in Int
          BY <1>2
        <5>2. QED
          BY ONLY <5>1, SignalSet, ZenonT(40) DEF x
      <4>2. QED
        BY <1>2, <4>1
    <3>3. Inserted(next.list, Hits, L, h + m + 1, x)
      <4>1. h + m + 1 \in 1 .. Len(L) + 1
        BY <1>1, <1>2
      <4>2. QED
        BY <1>1, <3>1, <3>2, <4>1, InsertIs
    <3> DEFINE N == next.list
               p == h + m + 1
    <3>a. \A j \in 1 .. Len(L) + 1 :
            N[j] = IF j < p THEN L[j] ELSE IF j = p THEN x ELSE L[j - 1]
      BY <3>3 DEF Inserted
    <3> HIDE DEF N, p
    <3>b. p = h + m + 1 /\ h + m <= Len(L) /\ p \in 1 .. Len(L) + 1 /\ ~(p < p)
      BY <1>1, <1>2 DEF p
    <3>4. \A j \in h + 1 .. h + m : next.list[j] = L[j]
      <4>1. ASSUME NEW j \in h + 1 .. h + m
            PROVE  j \in 1 .. Len(L) + 1 /\ j < p
        BY <1>1, <1>2, <3>b
      <4>2. QED
        BY <3>a, <4>1 DEF N
    <3>5. next.list[h + m + 1] = x
      BY <3>a, <3>b DEF N
    <3>6. \A j \in h + 1 .. h + (m + 1) : j = h + m + 1 \/ j \in h + 1 .. h + m
      BY <1>1, <1>2
    <3>7. h + m + 1 \in h + 1 .. h + (m + 1) /\ \A j \in h + 1 .. h + m : j \in h + 1 .. h + (m + 1)
      BY <1>1, <1>2
    <3>8. ~HasEarlier(F, w, i, o)
      BY <2>4, <2>7
    <3>9. \A j \in h + 1 .. h + m : L[j].signal[o] # F[i].signal[o]
      BY <1>1, <3>8 DEF HasEarlier
    <3>10. ASSUME NEW e \in 1 .. i, F[e].counter = w.counter
           PROVE  \E j \in h + 1 .. h + (m + 1) : next.list[j].signal[o] = F[e].signal[o]
      <4>1. CASE e = i
        BY <3>2, <3>5, <3>7, <4>1
      <4>2. CASE e \in 1 .. i - 1
        <5>1. PICK j \in h + 1 .. h + m : L[j].signal[o] = F[e].signal[o]
          BY <3>10, <4>2 DEF CopiesAre, L, m
        <5>2. QED
          BY <3>4, <3>7, <5>1
      <4>3. QED
        BY <1>3, <4>1, <4>2
    <3>11. ASSUME NEW j \in h + 1 .. h + (m + 1), NEW k \in h + 1 .. h + (m + 1),
                  next.list[j].signal[o] = next.list[k].signal[o]
           PROVE  j = k
      <4>1. CASE j \in h + 1 .. h + m /\ k \in h + 1 .. h + m
        BY <3>4, <3>11, <4>1 DEF CopiesAre, L, m
      <4>2. QED
        BY <3>2, <3>4, <3>5, <3>6, <3>9, <3>11, <4>1
    <3>12. QED
      BY <3>1, <3>10, <3>11 DEF CopiesAre, next, L, m
  <2>8. QED
    BY <2>5, <2>6, <2>7
<1>7. QED
  BY <1>5, <1>6

\* All passes together: one copy for every signal at the other end.
LEMMA AllCopies ==
  ASSUME NEW F \in Seq(Hits), NEW h \in 1 .. Len(F), NEW w, IsWord(w), Filled(F, h, w),
         NEW o \in SigTypes, o # w.sigtyp, MaxHits \in Nat,
         NEW g, Passes(g, F, h, w), \A i \in 0 .. h : Stage(F, h, w, i, g[i]),
         \A i \in 1 .. h :
           F[i].counter = w.counter /\ CopiesAre(F, h, w, i - 1, g[i - 1], o) =>
             (Paired(g[i - 1].list, i, w.sigtyp, g[i - 1].multi) <=> HasEarlier(F, w, i, o)),
         Len(g[h].list) < MaxHits
  PROVE  CopiesAre(F, h, w, h, g[h], o)
<1> DEFINE S == {i \in Nat : i <= h /\ Len(g[i].list) < MaxHits => CopiesAre(F, h, w, i, g[i], o)}
<1>1. h \in Nat /\ Len(F) \in Nat
  OBVIOUS
<1>2. 0 \in S
  <2>1. g[0].multi = 0
    BY DEF Passes
  <2>2. \A j \in h + 1 .. h + 0 : FALSE
    BY <1>1
  <2>3. CopiesAre(F, h, w, 0, g[0], o)
    BY <2>1, <2>2 DEF CopiesAre
  <2>4. QED
    BY <2>3
<1>3. ASSUME NEW i \in S  PROVE i + 1 \in S
  <2>1. SUFFICES ASSUME i + 1 <= h, Len(g[i + 1].list) < MaxHits
                 PROVE  CopiesAre(F, h, w, i + 1, g[i + 1], o)
    OBVIOUS
  <2>2. i \in Nat /\ i + 1 \in 1 .. h /\ (i + 1) - 1 = i /\ i \in 0 .. h /\ i + 1 \in 0 .. h
    BY <1>1, <2>1
  <2> DEFINE st == g[i]
             next == Pass(w, h, st.list, i + 1, st.multi)
  <2>3. g[i + 1] = next
    BY <2>2 DEF Passes
  <2>4. Stage(F, h, w, (i + 1) - 1, st) /\ Stage(F, h, w, i + 1, next)
    BY <2>2, <2>3
  <2>5. Len(st.list) = Len(F) + st.multi /\ Len(next.list) = Len(F) + next.multi
        /\ st.multi \in Nat
    BY <2>4 DEF Stage, Stages
  <2>6. next.multi = st.multi \/ next.multi = st.multi + 1
    BY Zenon DEF Pass
  <2>7. Len(st.list) < MaxHits
    <3> HIDE DEF st, next
    <3>1. Len(next.list) < MaxHits
      BY <2>1, <2>3
    <3>2. QED
      BY <1>1, <2>5, <2>6, <3>1
  <2>8. CopiesAre(F, h, w, (i + 1) - 1, st, o)
    BY <2>2, <2>7
  <2>9. F[i + 1].counter = w.counter =>
          (Paired(st.list, i + 1, w.sigtyp, st.multi) <=> HasEarlier(F, w, i + 1, o))
    BY <2>2, <2>8
  <2>10. Len(next.list) < MaxHits
    BY <2>1, <2>3
  <2> HIDE DEF st
  <2>11. CopiesAre(F, h, w, i + 1, next, o)
    BY <2>2, <2>4, <2>8, <2>9, <2>10, PassCopies
  <2>12. QED
    BY <2>3, <2>11
<1> HIDE DEF S
<1>4. S = Nat
  BY <1>2, <1>3, SetInduction DEF S
<1>5. QED
  BY <1>1, <1>4 DEF S

\* For a + hit, when no - hit has come: the search finds the entry before, once
\* a copy has been made (g_decode_all_detector.f:662-681).
LEMMA PlusPaired ==
  ASSUME NEW F \in Seq(Hits), Sorted(F), NEW h \in 1 .. Len(F), NEW w, IsWord(w),
         w.sigtyp = 2, Filled(F, h, w), NEW i \in 1 .. h, NEW st, Stage(F, h, w, i - 1, st),
         CopiesAre(F, h, w, i - 1, st, 3), F[i].counter = w.counter,
         \A e \in 1 .. h : F[e].counter = w.counter => F[e].signal[3] = NoSignal
  PROVE  Paired(st.list, i, w.sigtyp, st.multi) <=> HasEarlier(F, w, i, 3)
<1> DEFINE L == st.list
           m == st.multi
<1>1. 3 \in SigTypes /\ 3 # w.sigtyp /\ i - 1 \in Nat /\ i - 1 <= h /\ h \in Nat /\ i \in Nat
      /\ Len(F) \in Nat /\ h <= Len(F)
  BY DEF SigTypes
<1>2. /\ m \in Nat /\ \A j \in 1 .. h : L[j] = F[j]
      /\ \A j \in h + 1 .. h + m : \E e \in 1 .. i - 1 : F[e].counter = w.counter
  BY <1>1, StageFilled
<1>3. Paired(L, i, w.sigtyp, m) <=>
        \E j \in i - m .. i - 1 : j > 0 /\ L[j].signal[3] = L[i].signal[3]
  BY Zenon DEF Paired
<1>4. ASSUME m = 0
      PROVE  ~Paired(L, i, w.sigtyp, m) /\ ~HasEarlier(F, w, i, 3)
  <2>1. \A j \in i - m .. i - 1 : FALSE
    BY <1>1, <1>4
  <2>2. \A j \in h + 1 .. h + m : FALSE
    BY <1>1, <1>4
  <2>3. \A e \in 1 .. i - 1 : F[e].counter # w.counter
    BY <2>2 DEF CopiesAre
  <2>4. QED
    BY <1>3, <2>1, <2>3 DEF HasEarlier
<1>5. ASSUME m > 0
      PROVE  Paired(L, i, w.sigtyp, m) /\ HasEarlier(F, w, i, 3)
  <2>1. h + 1 \in h + 1 .. h + m
    BY <1>1, <1>2, <1>5
  <2>2. PICK e \in 1 .. i - 1 : F[e].counter = w.counter
    BY <1>2, <2>1
  <2>3. F[i - 1].counter = w.counter
    <3>1. /\ e \in 1 .. Len(F) /\ i - 1 \in 1 .. Len(F) /\ i \in 1 .. Len(F)
          /\ e <= i - 1 /\ i - 1 < i
      BY <1>1
    <3>2. /\ DOMAIN F = 1 .. Len(F)
          /\ \A j \in 1 .. Len(F) : F[j].counter \in Nat
      BY ListType
    <3>3. F[i - 1].counter <= F[i].counter
      BY <3>1, <3>2 DEF Sorted
    <3>4. e = i - 1 \/ F[e].counter <= F[i - 1].counter
      BY <3>1, <3>2, SMTT(30) DEF Sorted
    <3>5. QED
      BY <2>2, <3>1, <3>2, <3>3, <3>4
  <2>4. i - 1 \in 1 .. i - 1 /\ i - 1 \in 1 .. h /\ i - 1 \in i - m .. i - 1 /\ i - 1 > 0
    BY <1>1, <1>2, <1>5
  <2>5. F[i].signal[3] = NoSignal /\ F[i - 1].signal[3] = NoSignal
    BY <2>3, <2>4
  <2>6. L[i] = F[i] /\ L[i - 1] = F[i - 1]
    BY <1>2, <2>4
  <2>7. QED
    BY <1>3, <2>3, <2>4, <2>5, <2>6 DEF HasEarlier
<1>6. QED
  BY <1>2, <1>4, <1>5

\* For a - hit: the search over all earlier entries finds one of the counter, as
\* other counters have other times (g_decode_all_detector.f:683-699).
LEMMA MinusPaired ==
  ASSUME NEW F \in Seq(Hits), NEW h \in 1 .. Len(F), NEW w, IsWord(w), w.sigtyp = 3,
         Filled(F, h, w), NEW i \in 1 .. h, NEW st, Stage(F, h, w, i - 1, st),
         F[i].signal[2] >= 0,
         \A e \in 1 .. h : F[e].signal[2] = F[i].signal[2] => F[e].counter = w.counter
  PROVE  Paired(st.list, i, w.sigtyp, st.multi) <=> HasEarlier(F, w, i, 2)
<1>1. 2 \in SigTypes /\ 2 # w.sigtyp /\ i - 1 \in Nat /\ i - 1 <= h
  BY DEF SigTypes
<1>2. \A j \in 1 .. h : st.list[j] = F[j]
  BY <1>1, StageFilled
<1>3. Paired(st.list, i, w.sigtyp, st.multi) <=>
        st.list[i].signal[2] >= 0 /\ \E j \in 1 .. (i - 1) : st.list[j].signal[2] = st.list[i].signal[2]
  BY DEF Paired
<1>4. \A j \in 1 .. i - 1 : j \in 1 .. h
  OBVIOUS
<1>5. QED
  BY <1>2, <1>3, <1>4 DEF HasEarlier

-----------------------------------------------------------------------------
(* The pairs after the passes.                                             *)

\* The first hit at its end goes to every entry of the counter.
LEMMA EmptyEach ==
  ASSUME NEW F \in Seq(Hits), NEW h \in 1 .. Len(F), NEW w, IsWord(w),
         \A j \in h + 1 .. Len(F) : F[j].counter # w.counter,
         NEW o \in SigTypes, o # w.sigtyp, NEW B,
         EachWithEach(F, w.counter, w.sigtyp, o, {NoSignal}, B),
         NEW st, Stage(F, h, w, h, st)
  PROVE  EachWithEach(st.list, w.counter, w.sigtyp, o, {w.signal}, B)
<1> DEFINE M == st.list
           m == st.multi
<1>1. /\ M \in Seq(Hits) /\ m \in Nat /\ Len(M) = Len(F) + m
      /\ \A j \in 1 .. h :
           M[j] = IF j <= h /\ F[j].counter = w.counter /\ F[j].signal[w.sigtyp] < 0
                  THEN [F[j] EXCEPT !.signal[w.sigtyp] = w.signal] ELSE F[j]
      /\ \A j \in h + 1 .. h + m : \E e \in 1 .. h : CopyOf(M[j], F[e], w)
      /\ \A j \in h + 1 .. Len(F) : M[j + m] = F[j]
  BY DEF Stage, Stages
<1>2. w.sigtyp \in SigTypes /\ w.signal \in Int /\ h \in Nat /\ Len(F) \in Nat /\ h <= Len(F)
  BY DEF IsWord
<1> DEFINE A == {NoSignal}
           N == {w.signal}
<1> HIDE DEF A, N
<1>3. /\ \A i \in 1 .. Len(F) : F[i].counter = w.counter =>
                                F[i].signal[w.sigtyp] \in A /\ F[i].signal[o] \in B
      /\ \A a \in A, b \in B : \E i \in 1 .. Len(F) :
           F[i].counter = w.counter /\ F[i].signal[w.sigtyp] = a /\ F[i].signal[o] = b
      /\ \A i, j \in 1 .. Len(F) :
           F[i].counter = w.counter /\ F[j].counter = w.counter
             /\ F[i].signal[w.sigtyp] = F[j].signal[w.sigtyp]
             /\ F[i].signal[o] = F[j].signal[o] => i = j
  <2>1. EachWithEach(F, w.counter, w.sigtyp, o, A, B)
    BY DEF A
  <2>2. QED
    BY <2>1, EachIs
<1> HIDE DEF M, m
<1>4. m = 0
  <2>1. SUFFICES ASSUME m # 0 PROVE FALSE
    OBVIOUS
  <2>2. h + 1 \in h + 1 .. h + m
    BY <1>1, <1>2, <2>1
  <2>3. PICK e \in 1 .. h : CopyOf(M[h + 1], F[e], w)
    BY <1>1, <2>2
  <2>4. F[e].counter = w.counter /\ F[e].signal[w.sigtyp] >= 0 /\ e \in 1 .. Len(F)
    BY <1>2, <2>3 DEF CopyOf
  <2>5. F[e].signal[w.sigtyp] = NoSignal
    BY <1>3, <2>4 DEF A
  <2>6. QED
    BY <2>4, <2>5 DEF NoSignal
<1>5. ASSUME NEW j \in 1 .. Len(F)
      PROVE  /\ M[j].counter = F[j].counter
             /\ F[j].counter = w.counter =>
                  M[j].signal[w.sigtyp] = w.signal /\ M[j].signal[o] = F[j].signal[o]
  <2>1. CASE j <= h /\ F[j].counter = w.counter
    <3> DEFINE x == [F[j] EXCEPT !.signal[w.sigtyp] = w.signal]
    <3>1. F[j] \in Hits
      BY ListType
    <3>2. SignalIn(x, F[j], w.sigtyp, w.signal)
      BY <1>2, <3>1, SignalPut
    <3> HIDE DEF x
    <3>3. j \in 1 .. h /\ F[j].signal[w.sigtyp] = NoSignal /\ NoSignal < 0
      BY <1>2, <1>3, <2>1 DEF NoSignal, A
    <3>4. M[j] = IF j <= h /\ F[j].counter = w.counter /\ F[j].signal[w.sigtyp] < 0
                 THEN x ELSE F[j]
      BY <1>1, <3>3 DEF x
    <3>5. M[j] = x
      BY <2>1, <3>3, <3>4
    <3>6. QED
      BY <3>2, <3>5 DEF SignalIn
  <2>2. CASE j <= h /\ F[j].counter # w.counter
    <3>1. j \in 1 .. h
      BY <1>2, <2>2
    <3>2. M[j] = F[j]
      BY <1>1, <2>2, <3>1
    <3>3. QED
      BY <2>2, <3>2
  <2>3. CASE j > h
    <3>1. j \in h + 1 .. Len(F) /\ j + m = j
      BY <1>2, <1>4, <2>3
    <3>2. M[j] = F[j]
      BY <1>1, <3>1
    <3>3. QED
      BY <3>1, <3>2
  <2>4. QED
    BY <1>2, <2>1, <2>2, <2>3
<1>6. Len(M) = Len(F)
  BY <1>1, <1>2, <1>4
<1>7. ASSUME NEW b \in B
      PROVE  \E i \in 1 .. Len(M) : M[i].counter = w.counter /\ M[i].signal[w.sigtyp] = w.signal
                                    /\ M[i].signal[o] = b
  <2>1. PICK i \in 1 .. Len(F) : F[i].counter = w.counter /\ F[i].signal[o] = b
    BY <1>3 DEF A
  <2>2. QED
    BY <1>5, <1>6, <2>1
<1>8. ASSUME NEW i \in 1 .. Len(M), NEW j \in 1 .. Len(M), M[i].counter = w.counter,
             M[j].counter = w.counter, M[i].signal[o] = M[j].signal[o]
      PROVE  i = j
  <2>1. /\ i \in 1 .. Len(F) /\ F[i].counter = w.counter
        /\ j \in 1 .. Len(F) /\ F[j].counter = w.counter /\ F[i].signal[o] = F[j].signal[o]
    BY <1>5, <1>6, <1>8
  <2>2. F[i].signal[w.sigtyp] = F[j].signal[w.sigtyp]
    BY <1>3, <2>1 DEF A
  <2>3. QED
    BY <1>3, <2>1, <2>2
<1>9. ASSUME NEW i \in 1 .. Len(M), M[i].counter = w.counter
      PROVE  M[i].signal[w.sigtyp] \in N /\ M[i].signal[o] \in B
  BY <1>3, <1>5, <1>6, <1>9 DEF N
<1>10. ASSUME NEW a \in N, NEW b \in B
       PROVE  \E i \in 1 .. Len(M) : M[i].counter = w.counter /\ M[i].signal[w.sigtyp] = a
                                     /\ M[i].signal[o] = b
  BY <1>7 DEF N
<1>11. EachWithEach(M, w.counter, w.sigtyp, o, N, B)
  <2>1. M \in Seq(Hits)
    BY <1>1
  <2>2. QED
    BY <2>1, <1>8, <1>9, <1>10, EachFrom
<1>12. QED
  BY <1>11 DEF M, N

\* A further hit makes one more pair with each at the other end.
LEMMA FilledEach ==
  ASSUME NEW F \in Seq(Hits), NEW h \in 1 .. Len(F), NEW w, IsWord(w), Filled(F, h, w),
         \A j \in h + 1 .. Len(F) : F[j].counter # w.counter,
         NEW o \in SigTypes, o # w.sigtyp, NEW A, NEW B, A # {}, w.signal \notin A,
         EachWithEach(F, w.counter, w.sigtyp, o, A, B),
         NEW st, Stage(F, h, w, h, st), CopiesAre(F, h, w, h, st, o)
  PROVE  EachWithEach(st.list, w.counter, w.sigtyp, o, A \union {w.signal}, B)
<1> DEFINE M == st.list
           m == st.multi
           s == w.sigtyp
           c == w.counter
<1>1. /\ M \in Seq(Hits) /\ m \in Nat /\ Len(M) = Len(F) + m
      /\ \A j \in 1 .. h : M[j] = F[j]
      /\ \A j \in h + 1 .. h + m : \E e \in 1 .. h :
           /\ F[e].counter = c /\ M[j].counter = c
           /\ M[j].signal[o] = F[e].signal[o] /\ M[j].signal[s] = w.signal
      /\ \A j \in h + 1 .. Len(F) : M[j + m] = F[j]
  <2>1. h \in Nat /\ h <= h
    OBVIOUS
  <2>2. /\ st.list \in Seq(Hits) /\ st.multi \in Nat /\ Len(st.list) = Len(F) + st.multi
        /\ \A j \in 1 .. h : st.list[j] = F[j]
        /\ \A j \in h + 1 .. h + st.multi : \E e \in 1 .. h :
             /\ F[e].counter = w.counter /\ st.list[j].counter = w.counter
             /\ st.list[j].signal[o] = F[e].signal[o] /\ st.list[j].signal[w.sigtyp] = w.signal
        /\ \A j \in h + 1 .. Len(F) : st.list[j + st.multi] = F[j]
    BY <2>1, StageFilled
  <2>3. QED
    BY <2>2, Zenon
<1>2. h \in Nat /\ Len(F) \in Nat /\ h <= Len(F) /\ h >= 1
  OBVIOUS
<1>3. /\ \A i \in 1 .. Len(F) : F[i].counter = c => F[i].signal[s] \in A /\ F[i].signal[o] \in B
      /\ \A a \in A, b \in B : \E i \in 1 .. Len(F) :
           F[i].counter = c /\ F[i].signal[s] = a /\ F[i].signal[o] = b
      /\ \A i, j \in 1 .. Len(F) :
           F[i].counter = c /\ F[j].counter = c /\ F[i].signal[s] = F[j].signal[s]
             /\ F[i].signal[o] = F[j].signal[o] => i = j
  BY EachIs
<1>4. /\ \A e \in 1 .. h : F[e].counter = c =>
           \E j \in h + 1 .. h + m : M[j].signal[o] = F[e].signal[o]
      /\ \A j, k \in h + 1 .. h + m : M[j].signal[o] = M[k].signal[o] => j = k
  BY DEF CopiesAre
<1> HIDE DEF M, m, s, c
<1>5. ASSUME NEW i \in 1 .. Len(F), F[i].counter = c
      PROVE  i \in 1 .. h
  <2>1. ~(i \in h + 1 .. Len(F))
    BY <1>5 DEF c
  <2>2. QED
    BY <1>2, <2>1
<1>6. ASSUME NEW i \in 1 .. Len(M), M[i].counter = c
      PROVE  i \in 1 .. h \/ i \in h + 1 .. h + m
  <2>1. SUFFICES ASSUME i > h + m PROVE FALSE
    BY <1>1, <1>2
  <2>2. i - m \in h + 1 .. Len(F) /\ (i - m) + m = i
    BY <1>1, <1>2, <2>1
  <2>3. M[i] = F[i - m]
    BY <1>1, <2>2
  <2>4. QED
    BY <1>6, <2>2, <2>3 DEF c
<1>7. ASSUME NEW j \in h + 1 .. h + m
      PROVE  M[j].counter = c /\ M[j].signal[s] = w.signal /\ M[j].signal[o] \in B
  <2>1. PICK e \in 1 .. h : /\ F[e].counter = c /\ M[j].counter = c
                            /\ M[j].signal[o] = F[e].signal[o] /\ M[j].signal[s] = w.signal
    BY <1>1
  <2>2. e \in 1 .. Len(F)
    BY <1>2
  <2>3. QED
    BY <1>3, <2>1, <2>2
<1>8. ASSUME NEW i \in 1 .. h
      PROVE  i \in 1 .. Len(F) /\ M[i] = F[i] /\ i \in 1 .. Len(M)
  BY <1>1, <1>2
<1>9. \A j \in h + 1 .. h + m : j \in 1 .. Len(M)
  BY <1>1, <1>2
<1>10. ASSUME NEW i \in 1 .. Len(M), M[i].counter = c
       PROVE  M[i].signal[s] \in A \union {w.signal} /\ M[i].signal[o] \in B
  <2>1. CASE i \in 1 .. h
    BY <1>3, <1>8, <1>10, <2>1
  <2>2. CASE i \in h + 1 .. h + m
    BY <1>7, <2>2
  <2>3. QED
    BY <1>6, <1>10, <2>1, <2>2
<1>11. ASSUME NEW a \in A \union {w.signal}, NEW b \in B
       PROVE  \E i \in 1 .. Len(M) : M[i].counter = c /\ M[i].signal[s] = a /\ M[i].signal[o] = b
  <2>1. CASE a \in A
    <3>1. PICK i \in 1 .. Len(F) : F[i].counter = c /\ F[i].signal[s] = a /\ F[i].signal[o] = b
      BY <1>3, <2>1
    <3>2. i \in 1 .. h
      BY <1>5, <3>1
    <3>3. QED
      BY <1>8, <3>1, <3>2
  <2>2. CASE a = w.signal
    <3>1. PICK x \in A : TRUE
      OBVIOUS
    <3>2. PICK i \in 1 .. Len(F) : F[i].counter = c /\ F[i].signal[o] = b
      BY <1>3, <3>1
    <3>3. i \in 1 .. h
      BY <1>5, <3>2
    <3>4. PICK j \in h + 1 .. h + m : M[j].signal[o] = F[i].signal[o]
      BY <1>4, <3>2, <3>3
    <3>5. QED
      BY <1>7, <1>9, <2>2, <3>2, <3>4
  <2>3. QED
    BY <2>1, <2>2
<1>12. ASSUME NEW i \in 1 .. Len(M), NEW j \in 1 .. Len(M), M[i].counter = c, M[j].counter = c,
              M[i].signal[s] = M[j].signal[s], M[i].signal[o] = M[j].signal[o]
       PROVE  i = j
  <2>1. CASE i \in 1 .. h /\ j \in 1 .. h
    BY <1>3, <1>8, <1>12, <2>1
  <2>2. CASE i \in h + 1 .. h + m /\ j \in h + 1 .. h + m
    BY <1>4, <1>12, <2>2
  <2>3. CASE i \in 1 .. h /\ j \in h + 1 .. h + m
    <3>1. M[i].signal[s] \in A /\ M[j].signal[s] = w.signal
      BY <1>3, <1>7, <1>8, <1>12, <2>3
    <3>2. QED
      BY <1>12, <3>1
  <2>4. CASE i \in h + 1 .. h + m /\ j \in 1 .. h
    <3>1. M[j].signal[s] \in A /\ M[i].signal[s] = w.signal
      BY <1>3, <1>7, <1>8, <1>12, <2>4
    <3>2. QED
      BY <1>12, <3>1
  <2>5. QED
    BY <1>6, <1>12, <2>1, <2>2, <2>3, <2>4
<1>13. EachWithEach(M, c, s, o, A \union {w.signal}, B)
  <2> DEFINE N == A \union {w.signal}
  <2> HIDE DEF N
  <2>1. \A i \in 1 .. Len(M) : M[i].counter = c => M[i].signal[s] \in N /\ M[i].signal[o] \in B
    BY <1>10 DEF N
  <2>2. \A a \in N, b \in B : \E i \in 1 .. Len(M) :
          M[i].counter = c /\ M[i].signal[s] = a /\ M[i].signal[o] = b
    BY <1>11 DEF N
  <2>3. EachWithEach(M, c, s, o, N, B)
    <3>1. M \in Seq(Hits)
      BY <1>1
    <3>2. QED
      BY <3>1, <1>12, <2>1, <2>2, EachFrom
  <2>4. QED
    BY <2>3 DEF N
<1>14. QED
  BY <1>13 DEF M, s, c

-----------------------------------------------------------------------------
(* The times of the words.                                                 *)

\* A word is only taken that may follow the others.
LEMMA WordFollows ==
  ASSUME NEW w \in det.words, WordTaken(w)
  PROVE  MayFollow(w)
BY DEF WordTaken, Ignore, Single, Multiple, TakeWord

\* Signals are not negative.
LEMMA SignalsNat ==
  ASSUME TypeOK, NEW c, NEW t
  PROVE  Signals(taken, c, t) \in SUBSET Nat
<1>1. det \in Detectors /\ \A k \in DOMAIN taken : taken[k] \in det.words
  BY ElementOfSeq DEF TypeOK
<1>2. \A k \in DOMAIN taken : taken[k].signal \in Nat
  BY <1>1, DetectorIs
<1>3. QED
  BY <1>2 DEF Signals

\* A time is on one counter only.
LEMMA TimeOfOne ==
  ASSUME TimesInv, det.ownTimes, NEW t \in Tdcs, NEW c, NEW d, NEW v,
         v \in Signals(taken, c, t), v \in Signals(taken, d, t)
  PROVE  c = d
<1>1. PICK k \in DOMAIN taken : taken[k].counter = c /\ taken[k].sigtyp = t /\ taken[k].signal = v
  BY DEF Signals
<1>2. PICK m \in DOMAIN taken : taken[m].counter = d /\ taken[m].sigtyp = t /\ taken[m].signal = v
  BY DEF Signals
<1>3. k = m
  BY <1>1, <1>2 DEF TimesInv
<1>4. QED
  BY <1>1, <1>2, <1>3

\* A word's time is new, no - hit has come before a + hit, and a + hit has
\* come before a - hit.
LEMMA TimeIsNew ==
  ASSUME NEW w, MayFollow(w), det.ownTimes, det.plusFirst, w.sigtyp \in Tdcs
  PROVE  /\ w.signal \notin Signals(taken, w.counter, w.sigtyp)
         /\ w.sigtyp = 2 => Signals(taken, w.counter, 3) = {}
         /\ w.sigtyp = 3 => Signals(taken, w.counter, 2) # {}
<1>1. w.signal \notin Signals(taken, w.counter, w.sigtyp)
  BY DEF MayFollow, Signals
<1>2. w.sigtyp = 2 => Signals(taken, w.counter, 3) = {}
  BY DEF MayFollow, Signals
<1>3. w.sigtyp = 3 => Signals(taken, w.counter, 2) # {}
  <2>1. SUFFICES ASSUME w.sigtyp = 3 PROVE Signals(taken, w.counter, 2) # {}
    OBVIOUS
  <2>2. PICK k \in DOMAIN taken : taken[k].counter = w.counter /\ taken[k].sigtyp = 2
    BY <2>1 DEF MayFollow
  <2>3. taken[k].signal \in Signals(taken, w.counter, 2)
    BY <2>2 DEF Signals
  <2>4. QED
    BY <2>3
<1>4. QED
  BY <1>1, <1>2, <1>3

\* The times of the words taken stay different.
LEMMA TimesStep ==
  ASSUME ListInv, TimesInv, NEW w \in det.words, WordTaken(w)
  PROVE  TimesInv'
<1>1. /\ Len(taken) \in Nat /\ DOMAIN taken = 1 .. Len(taken)
      /\ DOMAIN taken' = 1 .. Len(taken) + 1
      /\ taken'[Len(taken) + 1] = w /\ \A k \in 1 .. Len(taken) : taken'[k] = taken[k]
      /\ det' = det
  BY AppendProperties DEF ListInv, TypeOK, WordTaken
<1>2. SUFFICES ASSUME det.ownTimes, NEW k \in DOMAIN taken', NEW m \in DOMAIN taken',
                      taken'[k].sigtyp \in Tdcs, taken'[k].sigtyp = taken'[m].sigtyp,
                      taken'[k].signal = taken'[m].signal
               PROVE  k = m
  BY <1>1 DEF TimesInv
<1>3. ASSUME NEW n \in 1 .. Len(taken), w.sigtyp \in Tdcs, taken[n].sigtyp = w.sigtyp,
             taken[n].signal = w.signal
      PROVE  FALSE
  BY <1>1, <1>2, <1>3, WordFollows DEF MayFollow
<1>4. \A n \in DOMAIN taken' : n = Len(taken) + 1 \/ n \in 1 .. Len(taken)
  BY <1>1
<1>5. CASE k \in 1 .. Len(taken) /\ m \in 1 .. Len(taken)
  BY <1>1, <1>2, <1>5 DEF TimesInv
<1>6. CASE k = Len(taken) + 1 /\ m \in 1 .. Len(taken)
  BY <1>1, <1>2, <1>3, <1>6
<1>7. CASE m = Len(taken) + 1 /\ k \in 1 .. Len(taken)
  BY <1>1, <1>2, <1>3, <1>7
<1>8. QED
  BY <1>4, <1>5, <1>6, <1>7

\* The entries of the list with a hit of a counter in it are of counters taken
\* or of that one.
LEMMA FirstCounters ==
  ASSUME ListInv, CountersInv, NEW counter \in Nat
  PROVE  \A j \in 1 .. Len(WithHit(counter)) :
           WithHit(counter)[j].counter \in CountersTaken \union {counter}
<1> DEFINE L == WithHit(counter)
<1>1. TypeOK /\ Sorted(hits) /\ DOMAIN hits = 1 .. Len(hits)
  BY ListType DEF ListInv, TypeOK
<1>2. \A j \in 1 .. Len(L) : L[j] = NewHit(counter) \/ \E i \in 1 .. Len(hits) : L[j] = hits[i]
  BY <1>1, WithHitGrown
<1>3. NewHit(counter).counter = counter
  BY NewHitIs
<1> HIDE DEF L
<1>4. \A j \in 1 .. Len(L) : L[j].counter \in CountersTaken \union {counter}
  BY <1>1, <1>2, <1>3 DEF CountersInv
<1>5. QED
  BY <1>4 DEF L

-----------------------------------------------------------------------------
(* The pairs after a time.                                                 *)

\* The pairs of a counter, with the end of a hit first.
LEMMA EndsOf ==
  ASSUME NEW list \in Seq(Hits), NEW words, NEW c, PairsOf(list, words, c),
         NEW s, NEW o, (s = 2 /\ o = 3) \/ (s = 3 /\ o = 2)
  PROVE  EachWithEach(list, c, s, o, OrNone(Signals(words, c, s)), OrNone(Signals(words, c, o)))
BY EachSwapped DEF PairsOf

\* The search for an earlier pair finds one just when the counter has one.
LEMMA PairedIs ==
  ASSUME TypeOK, TimesInv, det.ownTimes, det.plusFirst, NEW w, IsWord(w), MayFollow(w),
         NEW o, (w.sigtyp = 2 /\ o = 3) \/ (w.sigtyp = 3 /\ o = 2),
         NEW F \in Seq(Hits), Sorted(F), NEW h \in 1 .. Len(F),
         \A j \in 1 .. Len(F) : PairsOf(F, taken, F[j].counter),
         Filled(F, h, w), NEW i \in 1 .. h, NEW st, Stage(F, h, w, i - 1, st),
         F[i].counter = w.counter, CopiesAre(F, h, w, i - 1, st, o)
  PROVE  Paired(st.list, i, w.sigtyp, st.multi) <=> HasEarlier(F, w, i, o)
<1>1. h \in Nat /\ Len(F) \in Nat /\ \A e \in 1 .. h : e \in 1 .. Len(F)
  OBVIOUS
<1>2. ASSUME NEW e \in 1 .. h
      PROVE  /\ F[e].signal[2] \in OrNone(Signals(taken, F[e].counter, 2))
             /\ F[e].signal[3] \in OrNone(Signals(taken, F[e].counter, 3))
  <2>1. PairsOf(F, taken, F[e].counter) /\ e \in 1 .. Len(F)
    BY <1>1
  <2>2. QED
    BY <2>1, EachIs DEF PairsOf
<1>3. 2 \in Tdcs /\ 3 \in Tdcs
  BY DEF Tdcs
<1>4. CASE w.sigtyp = 2 /\ o = 3
  <2>1. Signals(taken, w.counter, 3) = {}
    BY <1>3, <1>4, TimeIsNew
  <2>2. OrNone(Signals(taken, w.counter, 3)) = {NoSignal}
    BY <2>1 DEF OrNone
  <2>3. \A e \in 1 .. h : F[e].counter = w.counter => F[e].signal[3] = NoSignal
    BY <1>2, <2>2
  <2>4. QED
    BY <1>4, <2>3, PlusPaired
<1>5. CASE w.sigtyp = 3 /\ o = 2
  <2>1. Signals(taken, w.counter, 2) # {}
    BY <1>3, <1>5, TimeIsNew
  <2>2. OrNone(Signals(taken, w.counter, 2)) = Signals(taken, w.counter, 2)
    BY <2>1 DEF OrNone
  <2>3. F[i].signal[2] \in Signals(taken, w.counter, 2)
    BY <1>2, <2>2
  <2>4. F[i].signal[2] \in Nat
    BY <2>3, SignalsNat
  <2>5. ASSUME NEW e \in 1 .. h, F[e].signal[2] = F[i].signal[2]
        PROVE  F[e].counter = w.counter
    <3>1. F[e].signal[2] \in OrNone(Signals(taken, F[e].counter, 2)) /\ F[e].signal[2] # NoSignal
      BY <1>2, <2>4, <2>5 DEF NoSignal
    <3>2. F[e].signal[2] \in Signals(taken, F[e].counter, 2)
      BY <3>1 DEF OrNone
    <3>3. QED
      BY <1>3, <2>3, <2>5, <3>2, TimeOfOne
  <2>6. F[i].signal[2] >= 0
    BY <2>4
  <2>7. QED
    BY <1>5, <2>5, <2>6, MinusPaired
<1>6. QED
  BY <1>4, <1>5

\* The hit's own counter has the pairs with it.
LEMMA OwnPairs ==
  ASSUME TypeOK, TimesInv, det.ownTimes, det.plusFirst, NEW w, IsWord(w), MayFollow(w),
         NEW o, (w.sigtyp = 2 /\ o = 3) \/ (w.sigtyp = 3 /\ o = 2),
         NEW F \in Seq(Hits), Sorted(F), NEW h \in 1 .. Len(F),
         \A j \in h + 1 .. Len(F) : F[j].counter # w.counter,
         \A j \in 1 .. Len(F) : PairsOf(F, taken, F[j].counter), PairsOf(F, taken, w.counter),
         NEW g, Passes(g, F, h, w), \A i \in 0 .. h : Stage(F, h, w, i, g[i]),
         Len(g[h].list) < MaxHits, MaxHits \in Nat
  PROVE  EachWithEach(g[h].list, w.counter, w.sigtyp, o,
                      Signals(taken, w.counter, w.sigtyp) \union {w.signal},
                      OrNone(Signals(taken, w.counter, o)))
<1> DEFINE A == Signals(taken, w.counter, w.sigtyp)
           B == OrNone(Signals(taken, w.counter, o))
<1>1. o \in SigTypes /\ o # w.sigtyp /\ w.sigtyp \in Tdcs /\ w.sigtyp \in SigTypes
      /\ h \in Nat /\ Len(F) \in Nat /\ h \in 0 .. h
  BY DEF SigTypes, Tdcs
<1>2. EachWithEach(F, w.counter, w.sigtyp, o, OrNone(A), B)
  BY EndsOf
<1>3. A \in SUBSET Nat
  BY SignalsNat
<1>4. w.signal \notin A
  BY <1>1, TimeIsNew
<1>5. Stage(F, h, w, h, g[h])
  BY <1>1
<1> HIDE DEF B
<1>6. CASE A = {}
  <2>1. OrNone(A) = {NoSignal} /\ A \union {w.signal} = {w.signal}
    BY <1>6 DEF OrNone
  <2> HIDE DEF A
  <2>2. EachWithEach(F, w.counter, w.sigtyp, o, {NoSignal}, B)
    BY <1>2, <2>1
  <2>3. EachWithEach(g[h].list, w.counter, w.sigtyp, o, {w.signal}, B)
    BY <1>1, <1>5, <2>2, EmptyEach
  <2>4. EachWithEach(g[h].list, w.counter, w.sigtyp, o, A \union {w.signal}, B)
    BY <2>1, <2>3
  <2>5. QED
    BY <2>4 DEF A, B
<1>7. CASE A # {}
  <2>1. OrNone(A) = A
    BY <1>7 DEF OrNone
  <2> HIDE DEF A
  <2>2. EachWithEach(F, w.counter, w.sigtyp, o, A, B)
    BY <1>2, <2>1
  <2>3. Filled(F, h, w)
    <3>1. \A e \in 1 .. Len(F) : F[e].counter = w.counter => F[e].signal[w.sigtyp] \in A
      BY <2>2, EachIs
    <3>2. \A e \in 1 .. h : F[e].counter = w.counter => F[e].signal[w.sigtyp] \in A
      BY <1>1, <3>1
    <3>3. \A x \in A : x >= 0
      BY <1>3
    <3>4. QED
      BY <3>2, <3>3 DEF Filled
  <2>4. ASSUME NEW i \in 1 .. h,
               F[i].counter = w.counter, CopiesAre(F, h, w, i - 1, g[i - 1], o)
        PROVE  Paired(g[i - 1].list, i, w.sigtyp, g[i - 1].multi) <=> HasEarlier(F, w, i, o)
    <3>1. i - 1 \in 0 .. h
      BY <1>1
    <3>2. Stage(F, h, w, i - 1, g[i - 1])
      BY <3>1
    <3>3. QED
      BY <2>3, <2>4, <3>2, PairedIs
  <2>5. CopiesAre(F, h, w, h, g[h], o)
    BY <1>1, <2>3, <2>4, AllCopies
  <2>6. EachWithEach(g[h].list, w.counter, w.sigtyp, o, A \union {w.signal}, B)
    BY <1>1, <1>4, <1>5, <1>7, <2>2, <2>3, <2>5, FilledEach
  <2>7. QED
    BY <2>6 DEF A, B
<1>8. QED
  BY <1>6, <1>7

\* A time makes the pairs of its counter and leaves those of all others.
LEMMA TdcPairs ==
  ASSUME ListInv, CountersInv, TimesInv, PairsInv, det.multihit, det.ownTimes, det.plusFirst,
         NEW w \in det.words, WordTaken(w), w.sigtyp \in Tdcs, StoreTdc(w), Len(hits') < MaxHits,
         NEW c \in CountersTaken \union {w.counter}
  PROVE  PairsOf(hits', taken', c)
<1> DEFINE F == WithHit(w.counter)
           h == PlaceOf(F, w.counter)
<1>1. /\ TypeOK /\ Sorted(hits) /\ IsWord(w) /\ taken \in Seq(det.words)
      /\ taken' = Append(taken, w) /\ MayFollow(w) /\ det \in Detectors
  BY StepIs, WordFollows DEF ListInv, TypeOK, WordTaken
<1>2. w.counter \in Nat /\ MaxHits \in Nat /\ Routine # "fb"
  BY <1>1, DetectorIs DEF IsWord, MaxHits, Routine
<1>3. ~NoRoomFor(w.counter)
  BY <1>2 DEF NoRoomFor
<1>4. /\ hits' \in Seq(Hits) /\ GrownFrom(hits', F, w) /\ h \in 1 .. Len(F)
      /\ \E g : /\ Passes(g, F, h, w) /\ hits' = g[h].list
                /\ \A i \in 0 .. h : Stage(F, h, w, i, g[i])
  BY <1>1, <1>3, TdcStep
<1>5. F \in Seq(Hits) /\ Sorted(F) /\ Len(hits) <= Len(F) /\ Len(hits) \in Nat
  BY <1>1, <1>2, WithHitGrown
<1>6. Len(hits) < MaxHits
  <2> HIDE DEF F
  <2>1. Len(F) <= Len(hits') /\ Len(F) \in Nat /\ Len(hits') \in Nat
    BY <1>4, <1>5, LenProperties DEF GrownFrom
  <2>2. QED
    BY <1>2, <1>5, <2>1
<1>7. \A d \in CountersTaken \union {w.counter} : PairsOf(F, taken, d)
  BY <1>2, <1>6, FirstPairs
<1>8. \A j \in 1 .. Len(F) : F[j].counter \in CountersTaken \union {w.counter}
  BY <1>2, FirstCounters
<1> HIDE DEF F
<1>9. \A j \in h + 1 .. Len(F) : F[j].counter # w.counter
  <2>1. \A j \in 1 .. Len(F) : j > h => F[j].counter > w.counter
    BY <1>2, <1>5, PlaceIs
  <2> HIDE DEF h
  <2>2. ASSUME NEW j \in h + 1 .. Len(F)
        PROVE  F[j].counter # w.counter
    <3>1. j \in 1 .. Len(F) /\ j > h /\ F[j].counter \in Nat
      BY <1>4, <1>5, ListType
    <3>2. QED
      BY <1>2, <2>1, <3>1
  <2>3. QED
    BY <2>2
<1> HIDE DEF h
<1>10. PICK g : /\ Passes(g, F, h, w) /\ hits' = g[h].list
                /\ \A i \in 0 .. h : Stage(F, h, w, i, g[i])
  BY <1>4
<1>11. CASE c # w.counter
  <2>1. PairsOf(F, taken, c)
    BY <1>7
  <2>2. Shifted(hits', F, h, g[h].multi, w.counter)
    <3>1. h \in 0 .. h
      BY <1>4
    <3>2. Stage(F, h, w, h, g[h])
      BY <1>10, <3>1
    <3>3. QED
      BY <1>1, <1>4, <1>5, <1>10, <3>2, StageGrown
  <2>3. EachWithEach(hits', c, 2, 3, OrNone(Signals(taken, c, 2)), OrNone(Signals(taken, c, 3)))
    BY <1>2, <1>4, <1>5, <1>11, <2>1, <2>2, EachShifted DEF PairsOf
  <2>4. Signals(taken', c, 2) = Signals(taken, c, 2) /\ Signals(taken', c, 3) = Signals(taken, c, 3)
    BY <1>1, <1>11, SameSignals
  <2>5. QED
    BY <2>3, <2>4 DEF PairsOf
<1>12. CASE c = w.counter
  <2> DEFINE s == w.sigtyp
             o == IF s = 2 THEN 3 ELSE 2
             A == Signals(taken, c, s) \union {w.signal}
             B == OrNone(Signals(taken, c, o))
  <2>1. (s = 2 /\ o = 3) \/ (s = 3 /\ o = 2)
    BY DEF Tdcs
  <2> HIDE DEF o
  <2>2. PairsOf(F, taken, w.counter) /\ \A j \in 1 .. Len(F) : PairsOf(F, taken, F[j].counter)
    BY <1>7, <1>8
  <2>3. Len(g[h].list) < MaxHits
    BY <1>10
  <2>4. EachWithEach(g[h].list, w.counter, s, o, A, B)
    BY <1>1, <1>2, <1>4, <1>5, <1>9, <1>10, <1>12, <2>1, <2>2, <2>3, OwnPairs
  <2>5. Signals(taken', c, s) = A
    BY <1>1, <1>12, TakenGrows
  <2>6. Signals(taken', c, o) = Signals(taken, c, o)
    BY <1>1, <2>1, SameSignals
  <2>7. OrNone(Signals(taken', c, s)) = A /\ OrNone(Signals(taken', c, o)) = B
    BY <2>5, <2>6 DEF OrNone
  <2> HIDE DEF A, B
  <2>8. EachWithEach(hits', c, s, o, A, B)
    BY <1>10, <1>12, <2>4
  <2>9. EachWithEach(hits', c, o, s, B, A)
    BY <1>4, <2>8, EachSwapped
  <2>10. CASE s = 2 /\ o = 3
    BY <2>7, <2>8, <2>10 DEF PairsOf
  <2>11. CASE s = 3 /\ o = 2
    BY <2>7, <2>9, <2>11 DEF PairsOf
  <2>12. QED
    BY <2>1, <2>10, <2>11
<1>13. QED
  BY <1>11, <1>12

\* No pair is missed or made twice by a word.
LEMMA PairsStep ==
  ASSUME ListInv, CountersInv, TimesInv, PairsInv, Ordered(det), NEW w \in det.words, WordTaken(w)
  PROVE  PairsInv'
<1>1. ListInv' /\ TypeOK /\ TypeOK' /\ det' = det /\ det \in Detectors
  BY ListStep DEF ListInv, TypeOK, WordTaken
<1>2. MaxHits' = MaxHits /\ MaxHits \in Nat
  BY <1>1, DetectorIs DEF MaxHits
<1>3. SUFFICES ASSUME det.multihit, Len(hits') < MaxHits, NEW c \in CountersTaken'
               PROVE  PairsOf(hits', taken', c)
  BY <1>1, <1>2 DEF PairsInv, PairsOf
<1>4. Len(hits') \in Nat /\ Len(hits) \in Nat /\ hits \in Seq(Hits)
  BY <1>1, LenProperties DEF TypeOK
<1>5. Len(hits') <= MaxHits
  BY <1>2, <1>3, <1>4
<1>6. Multiple(w) /\ GrownFrom(hits', WithHit(w.counter), w)
  BY <1>3, <1>5, EntriesKept
<1>7. det.ownTimes /\ det.plusFirst
  BY <1>3 DEF Ordered
<1>8. c \in CountersTaken \union {w.counter}
  <2>1. PICK k \in DOMAIN taken' : c = taken'[k].counter
    BY DEF CountersTaken
  <2>2. taken'[k] = w \/ (k \in DOMAIN taken /\ taken'[k] = taken[k])
    BY CountersGrow
  <2>3. QED
    BY <2>1, <2>2 DEF CountersTaken
<1>9. CASE w.sigtyp \in Tdcs
  <2>1. StoreTdc(w)
    BY <1>3, <1>6, <1>9, Zenon DEF Multiple
  <2>2. QED
    BY <1>3, <1>7, <1>8, <1>9, <2>1, TdcPairs
<1>10. CASE w.sigtyp \notin Tdcs
  <2>1. StoreAdc(w)
    BY <1>3, <1>6, <1>10, Zenon DEF Multiple
  <2>2. Len(hits) < MaxHits
    <3>1. IsWord(w) /\ Sorted(hits)
      BY StepIs DEF ListInv
    <3> DEFINE F == WithHit(w.counter)
    <3>2. Len(hits) <= Len(F) /\ F \in Seq(Hits)
      BY <1>1, <3>1, WithHitGrown DEF IsWord
    <3> HIDE DEF F
    <3>3. Len(F) <= Len(hits') /\ Len(F) \in Nat
      BY <1>6, <3>2, LenProperties DEF GrownFrom, F
    <3>4. QED
      BY <1>2, <1>3, <1>4, <3>2, <3>3
  <2>3. QED
    BY <1>3, <1>8, <1>10, <2>1, <2>2, AdcPairs
<1>11. QED
  BY <1>9, <1>10

-----------------------------------------------------------------------------
(* The theorem.                                                            *)

\* What a step preserves for detectors with ordered channels.
PairsKept ==
  /\ ListInv
  /\ det.multihit =>
       /\ CountersInv /\ TimesInv /\ PairsInv
       /\ \A i \in 1 .. Len(hits) : OwnSignals(hits[i], taken)

\* The entries own of a list are the pairs, and as many.
ArePairs(list, own, pairs) ==
  /\ Cardinality(own) = Cardinality(pairs)
  /\ {<<list[i].signal[2], list[i].signal[3]>> : i \in own} = pairs

\* Entries that are each with each and once are as many as the pairs.
LEMMA PairsCounted ==
  ASSUME NEW list \in Seq(Hits), NEW c, NEW A, NEW B, EachWithEach(list, c, 2, 3, A, B)
  PROVE  ArePairs(list, {i \in DOMAIN list : list[i].counter = c}, A \X B)
<1> DEFINE own == {i \in DOMAIN list : list[i].counter = c}
           f == [i \in own |-> <<list[i].signal[2], list[i].signal[3]>>]
<1>1. /\ \A i \in own : list[i].signal[2] \in A /\ list[i].signal[3] \in B
      /\ \A a \in A, b \in B : \E i \in own : list[i].signal[2] = a /\ list[i].signal[3] = b
      /\ \A i, j \in own :
           list[i].signal[2] = list[j].signal[2] /\ list[i].signal[3] = list[j].signal[3] => i = j
  BY Zenon DEF EachWithEach
<1>2. IsFiniteSet(own)
  <2>1. IsFiniteSet(1 .. Len(list)) /\ own \in SUBSET (1 .. Len(list))
    BY CountTo, ListType
  <2>2. QED
    BY <2>1, FS_Subset
<1>3. f \in [own -> A \X B]
  BY <1>1
<1>4. ASSUME NEW p \in A \X B  PROVE \E i \in own : f[i] = p
  <2>1. PICK a \in A, b \in B : p = <<a, b>>
    OBVIOUS
  <2>2. PICK i \in own : list[i].signal[2] = a /\ list[i].signal[3] = b
    BY <1>1
  <2>3. f[i] = <<a, b>>
    BY <2>2
  <2>4. QED
    BY <2>1, <2>3
<1>5. \A i, j \in own : f[i] = f[j] => i = j
  BY <1>1
<1>6. {<<list[i].signal[2], list[i].signal[3]>> : i \in own} = {f[i] : i \in own}
  OBVIOUS
<1> HIDE DEF f, own
<1>7. {f[i] : i \in own} = A \X B
  BY <1>3, <1>4
<1>8. Cardinality(own) = Cardinality(A \X B)
  <2>1. f \in Bijection(own, A \X B)
    BY <1>3, <1>4, <1>5 DEF Bijection, Injection, IsInjective, Surjection
  <2>2. ExistsBijection(own, A \X B)
    BY <2>1 DEF ExistsBijection
  <2>3. QED
    BY <1>2, <2>2, FS_Bijection
<1>9. ArePairs(list, own, A \X B)
  BY <1>6, <1>7, <1>8 DEF ArePairs
<1>10. QED
  BY <1>9 DEF own

\* Before any word.
LEMMA PairsInit ==
  ASSUME Init
  PROVE  PairsKept
<1>1. hits = <<>> /\ taken = <<>>
  BY Zenon DEF Init
<1>2. SignalsInv /\ ListInv
  BY SignalsInit, ListInit
<1>3. DOMAIN taken = {} /\ CountersTaken = {} /\ \A i \in 1 .. Len(hits) : FALSE
  BY <1>1 DEF CountersTaken
<1>4. TimesInv /\ PairsInv
  BY <1>3 DEF TimesInv, PairsInv
<1>5. QED
  BY <1>2, <1>3, <1>4, Zenon DEF PairsKept, SignalsInv

\* Every word leaves the entries of all counters the pairs of their hits.
LEMMA PairsKeptStep ==
  ASSUME PairsKept, Ordered(det), NEW w \in det.words, WordTaken(w)
  PROVE  PairsKept'
<1>1. ListInv /\ ListInv'
  BY ListStep DEF PairsKept
<1>2. det' = det /\ det \in Detectors
  BY <1>1 DEF ListInv, TypeOK, WordTaken
<1>3. SUFFICES ASSUME det.multihit
               PROVE  /\ CountersInv' /\ TimesInv' /\ PairsInv'
                      /\ \A i \in 1 .. Len(hits') : OwnSignals(hits'[i], taken')
  BY <1>1, <1>2 DEF PairsKept
<1>4. CountersInv /\ TimesInv /\ PairsInv /\ \A i \in 1 .. Len(hits) : OwnSignals(hits[i], taken)
  BY <1>3 DEF PairsKept
<1>5. ~NoRoomFor(w.counter)
  BY <1>2, <1>3, DetectorIs DEF NoRoomFor, Routine
<1>6. EntriesFrom(hits', w)
  BY <1>1, <1>5, WordEntries
<1>7. CountersInv'
  BY <1>1, <1>4, <1>5, <1>6, CountersStep
<1>8. TimesInv'
  BY <1>1, <1>4, TimesStep
<1>9. PairsInv'
  BY <1>1, <1>4, PairsStep
<1>10. \A i \in 1 .. Len(hits') : OwnSignals(hits'[i], taken')
  BY <1>1, <1>4, <1>6, OwnStep
<1>11. QED
  BY <1>7, <1>8, <1>9, <1>10

\* The entries of the counters are their pairs, and as many.
LEMMA PairsAre ==
  ASSUME PairsKept
  PROVE  PairsComplete
<1>1. ASSUME det.multihit, Len(hits) < MaxHits, NEW c \in CountersTaken
      PROVE  ArePairs(hits, EntriesOf(c),
                      OrNone(Signals(taken, c, 2)) \X OrNone(Signals(taken, c, 3)))
  <2> DEFINE A == OrNone(Signals(taken, c, 2))
             B == OrNone(Signals(taken, c, 3))
  <2>1. EachWithEach(hits, c, 2, 3, A, B) /\ hits \in Seq(Hits)
    BY <1>1 DEF PairsKept, PairsInv, ListInv, TypeOK
  <2> HIDE DEF A, B
  <2>2. ArePairs(hits, EntriesOf(c), A \X B)
    BY <2>1, PairsCounted DEF EntriesOf
  <2>3. QED
    BY <2>2 DEF A, B
<1>2. QED
  BY <1>1, Zenon DEF PairsComplete, ArePairs

\* The hits on the two ends of a counter are paired each with each, and no pair
\* is listed twice, while there is room in the list
\* (g_decode_all_detector.f:549-719), in every detector whose + channels come
\* before its - channels and whose counters' times differ.
THEOREM PairsListed ==
  ASSUME \A d \in Detectors : Ordered(d)
  PROVE  Spec => []PairsComplete
<1>1. Init => PairsKept
  BY PairsInit
<1>2. PairsKept /\ [Next]_vars => PairsKept'
  <2> SUFFICES ASSUME PairsKept, [Next]_vars PROVE PairsKept'
    OBVIOUS
  <2>1. CASE UNCHANGED vars
    BY <2>1 DEF vars, PairsKept, ListInv, TypeOK, CountersInv, CountersTaken, TimesInv,
                PairsInv, SignalCount, MaxHits
  <2>2. Ordered(det)
    BY DEF PairsKept, ListInv, TypeOK
  <2>3. QED
    BY <2>1, <2>2, PairsKeptStep, NextIs, Zenon
<1>3. PairsKept => PairsComplete
  BY PairsAre
<1>4. QED
  BY <1>1, <1>2, <1>3, PTL DEF Spec
=============================================================================
