--------------------------- MODULE EventBanksProofs --------------------------
(***************************************************************************)
(* The scalers' counts and the charge are the true ones, for every range   *)
(* of the readings, every stream of events and every set of counters; a    *)
(* word becomes a hit at most once and of its own detector, whatever is in *)
(* the banks; the map is what its file says, for every file that fits; and *)
(* of banks of one crate, as the crates send them, no word is lost, and no *)
(* time is one of another event.                                           *)
(***************************************************************************)
EXTENDS EventBanks, Recursion, SequenceTheorems

\* A sum less than twice a number leaves itself or the difference.
LEMMA ModOnce ==
  ASSUME NEW m \in Nat \ {0}, NEW a \in Int, NEW b \in Int, a + b \in 0 .. 2 * m - 1
  PROVE  (a + b) % m = IF a + b < m THEN a + b ELSE a + b - m
OBVIOUS

\* A reading as integer*4: beyond half the range it is negative.
LEMMA SignedIs ==
  ASSUME NEW n \in 0 .. Full - 1
  PROVE  Signed(n) = IF n < Half THEN n ELSE n - Full
<1>1. Half \in Nat \ {0} /\ Full = 2 * Half
  BY ScalersAssumption DEF Full
<1>2. n + Half \in 0 .. 2 * Full - 1 /\ Full \in Nat \ {0} /\ n \in Int /\ Half \in Int
  BY <1>1
<1>3. (n + Half) % Full = IF n + Half < Full THEN n + Half ELSE n + Half - Full
  BY <1>1, <1>2, ModOnce, Zenon
<1>4. QED
  BY <1>1, <1>3 DEF Signed

\* What the hardware shows after a count of inc or a clear and that count.
NextReading(h, inc, clear) == IF clear THEN inc ELSE (h + inc) % Full

\* Without a clear no clear is seen, and a rollover is; with one that shows,
\* both the lost counts and the count make up for it.
LEMMA ReadingUnderstood ==
  ASSUME NEW s, NEW h, CounterOf(s, h), NEW inc \in 0 .. Jump, NEW clear \in BOOLEAN,
         clear => WeirdCorrect /\ Shows(h, inc)
  PROVE  LET r == NextReading(h, inc, clear)
             lost == IF Cleared(s, r) THEN s.lost + s.lastval ELSE s.lost
         IN  /\ r \in 0 .. Full - 1 /\ lost \in Int
             /\ \/ r + lost = h + s.lost + inc /\ r + lost >= h + s.lost
                \/ r + lost + Full = h + s.lost + inc /\ r + lost < h + s.lost
<1>1. Half \in Nat /\ Half > 1 /\ Full = 2 * Half /\ Full \in Nat /\ Jump \in 1 .. Half
  BY ScalersAssumption DEF Full
<1>2. h \in 0 .. Full - 1 /\ s.lost \in Int /\ s.lastval \in Int
      /\ (WeirdCorrect => s.lastval = Signed(h))
  BY DEF CounterOf, CounterRecords
<1>3. Signed(h) = IF h < Half THEN h ELSE h - Full
  BY <1>2, SignedIs
<1>4. CASE ~clear
  <2> DEFINE r == (h + inc) % Full
  <2>1. h + inc \in 0 .. 2 * Full - 1 /\ Full \in Nat \ {0} /\ h \in Int /\ inc \in Int
    BY <1>1, <1>2
  <2>2. r = IF h + inc < Full THEN h + inc ELSE h + inc - Full
    BY <2>1, ModOnce, Zenon DEF r
  <2> HIDE DEF r
  <2>3. r \in 0 .. Full - 1
    BY <1>1, <1>2, <2>2
  <2>4. Signed(r) = IF r < Half THEN r ELSE r - Full
    BY <2>3, SignedIs
  <2>5. ~Cleared(s, r)
    <3>1. SUFFICES ASSUME WeirdCorrect, Signed(r) > 0, s.lastval > Signed(r) \/
                          (s.lastval < 0 /\ Signed(Signed(r) - s.lastval) > Jump)
                   PROVE  FALSE
      BY DEF Cleared
    <3>2. r < Half /\ r > 0 /\ s.lastval = Signed(h)
      BY <1>1, <1>2, <2>3, <2>4, <3>1
    <3>3. CASE h < Half
      BY <1>1, <1>2, <1>3, <2>2, <2>4, <3>1, <3>2, <3>3
    <3>4. CASE h >= Half
      <4>1. h + inc >= Full /\ r = h + inc - Full /\ Signed(r) - s.lastval = inc
        BY <1>1, <1>2, <1>3, <2>2, <2>4, <3>2, <3>4
      <4>2. inc \in 0 .. Full - 1
        BY <1>1
      <4>3. Signed(inc) <= Jump
        BY <1>1, <4>2, SignedIs
      <4>4. s.lastval < 0 /\ Signed(r) > 0
        BY <1>1, <1>2, <1>3, <3>1, <3>2, <3>4
      <4>5. Signed(inc) \in Int
        BY <1>1, <4>2, SignedIs
      <4>6. QED
        <5>1. Signed(Signed(r) - s.lastval) = Signed(inc)
          BY <4>1
        <5>2. s.lastval < 0 /\ Signed(r) > 0 => ~(s.lastval > Signed(r))
          BY <1>1, <1>2, <2>3, <2>4
        <5>3. ~(Signed(inc) > Jump)
          BY <1>1, <4>3, <4>5
        <5>4. QED
          BY <3>1, <4>4, <5>1, <5>2, <5>3
    <3>5. QED
      BY <1>1, <1>2, <3>3, <3>4
  <2>6. NextReading(h, inc, clear) = r
    BY <1>4 DEF NextReading, r
  <2>7. QED
    BY <1>1, <1>2, <2>2, <2>3, <2>5, <2>6
<1>5. CASE clear
  <2>1. NextReading(h, inc, clear) = inc
    BY <1>5 DEF NextReading
  <2>2. WeirdCorrect /\ inc > 0 /\ s.lastval = Signed(h)
        /\ (IF h < Half THEN h > inc ELSE inc + Full - h > Jump /\ inc + Full - h < Half)
    BY <1>2, <1>5 DEF Shows
  <2>3. inc < Half /\ inc \in 0 .. Full - 1
    BY <1>1, <1>2, <2>2
  <2>4. Signed(inc) = inc
    BY <2>3, SignedIs
  <2>5. CASE h < Half
    <3>1. Cleared(s, inc) /\ s.lastval = h
      BY <1>2, <1>3, <2>2, <2>4, <2>5 DEF Cleared
    <3>2. QED
      BY <1>1, <1>2, <2>1, <2>2, <2>3, <2>5, <3>1
  <2>6. CASE h >= Half
    <3>1. s.lastval = h - Full
      BY <1>1, <1>2, <1>3, <2>2, <2>6
    <3>2. inc - s.lastval \in 0 .. Full - 1 /\ inc - s.lastval = inc + Full - h
      BY <1>1, <1>2, <2>2, <2>6, <3>1
    <3>3. Signed(inc - s.lastval) = inc + Full - h
      BY <1>1, <1>2, <2>2, <2>6, <3>2, SignedIs
    <3>4. Cleared(s, inc)
      BY <1>1, <1>2, <2>2, <2>4, <2>6, <3>1, <3>3 DEF Cleared
    <3>5. QED
      BY <1>1, <1>2, <2>1, <2>3, <3>1, <3>4
  <2>7. QED
    BY <1>1, <1>2, <2>5, <2>6
<1>6. QED
  BY <1>4, <1>5

\* A reading adds what was counted, through rollovers and clears that show
\* (g_analyze_scaler_bank.f:112-157).
LEMMA ReadingCounts ==
  ASSUME NEW s, NEW h, CounterOf(s, h), NEW inc \in 0 .. Jump, NEW clear \in BOOLEAN,
         clear => WeirdCorrect /\ Shows(h, inc)
  PROVE  LET r == NextReading(h, inc, clear)
         IN  /\ CounterOf(ReadCounter(s, r), r)
             /\ ReadCounter(s, r).value = s.value + inc
             /\ ReadCounter(s, r).change = inc
<1> DEFINE r == NextReading(h, inc, clear)
           lost == IF Cleared(s, r) THEN s.lost + s.lastval ELSE s.lost
           rolls == s.nroll * Full
           t == ReadCounter(s, r)
<1>1. /\ r \in 0 .. Full - 1 /\ lost \in Int
      /\ \/ r + lost = h + s.lost + inc /\ r + lost >= h + s.lost
         \/ r + lost + Full = h + s.lost + inc /\ r + lost < h + s.lost
  BY ReadingUnderstood
<1>2. s \in CounterRecords /\ h \in 0 .. Full - 1 /\ s.value = h + rolls + s.lost
      /\ s.nroll \in Int /\ s.lost \in Int /\ s.lastval \in Int /\ s.value \in Int
  BY DEF CounterOf, CounterRecords
<1>3. Full \in Int /\ Half \in Nat /\ inc \in Int
  BY ScalersAssumption DEF Full
<1>4. rolls \in Int /\ (s.nroll + 1) * Full = rolls + Full
  BY <1>2, <1>3
<1>5. Signed(r) \in Int
  BY <1>1, <1>3, SignedIs
<1> DEFINE nroll == IF r + rolls + lost < s.value THEN s.nroll + 1 ELSE s.nroll
<1>6. t = [value |-> r + nroll * Full + lost, change |-> (r + nroll * Full + lost) - s.value,
           nroll |-> nroll, lastval |-> IF WeirdCorrect THEN Signed(r) ELSE s.lastval,
           lost |-> lost]
  BY DEF ReadCounter, ExtendedReading
<1> HIDE DEF lost, rolls, t, r
<1>7. nroll \in Int /\ r + nroll * Full + lost = s.value + inc
  <2>1. CASE r + lost = h + s.lost + inc /\ r + lost >= h + s.lost
    <3>1. ~(r + rolls + lost < s.value)
      BY <1>1, <1>2, <1>3, <1>4, <2>1
    <3>2. nroll = s.nroll
      BY <3>1 DEF nroll
    <3>3. nroll * Full = rolls
      BY <3>2 DEF rolls
    <3>4. r + rolls + lost = s.value + inc
      BY <1>1, <1>2, <1>3, <1>4, <2>1
    <3>5. QED
      BY <1>2, <3>2, <3>3, <3>4
  <2>2. CASE r + lost + Full = h + s.lost + inc /\ r + lost < h + s.lost
    <3>1. r + rolls + lost < s.value
      BY <1>1, <1>2, <1>3, <1>4, <2>2
    <3>2. nroll = s.nroll + 1
      BY <3>1 DEF nroll
    <3>3. nroll * Full = rolls + Full
      BY <1>4, <3>2
    <3>4. r + (rolls + Full) + lost = s.value + inc
      <4>1. rolls \in Int
        BY <1>4
      <4>2. QED
        BY <1>1, <1>2, <1>3, <2>2, <4>1
    <3>5. nroll \in Int
      BY <1>2, <3>2
    <3>6. QED
      BY <3>3, <3>4, <3>5
  <2>3. QED
    BY <1>1, <2>1, <2>2
<1> HIDE DEF nroll
<1>8. t.value = s.value + inc /\ t.change = inc
  BY <1>2, <1>3, <1>6, <1>7
<1>9. t \in CounterRecords
  <2>1. (IF WeirdCorrect THEN Signed(r) ELSE s.lastval) \in Int
    BY <1>2, <1>5
  <2>2. r + nroll * Full + lost \in Int /\ (r + nroll * Full + lost) - s.value \in Int
    BY <1>2, <1>3, <1>7
  <2>3. QED
    BY <1>1, <1>6, <1>7, <2>1, <2>2 DEF CounterRecords
<1>10. CounterOf(t, r)
  <2>1. t.value = r + t.nroll * Full + t.lost /\ (WeirdCorrect => t.lastval = Signed(r))
    BY <1>6
  <2>2. QED
    BY <1>1, <1>9, <2>1 DEF CounterOf
<1>11. QED
  BY <1>8, <1>10 DEF t, r

-----------------------------------------------------------------------------
(* The charge of an interval.                                              *)

\* The charge added is what the increments earn, whether or not the interval is
\* one to be summed over (g_analyze_scaler_bank.f:177-225).
LEMMA ChargeEarned ==
  ASSUME NEW sc, DOMAIN sc = {"counter", "charge", "onTime", "onCharge", "events"},
         NEW charge \in [Monitors -> Int], sc.charge = charge,
         NEW inc, inc[Clock] \in Int, \A m \in Monitors : inc[m] \in Int,
         \A c \in {Clock} \union Monitors : sc.counter[c].change = inc[c]
  PROVE  LET t == SumCharge(sc)
         IN  /\ t.counter = sc.counter /\ DOMAIN t = DOMAIN sc
             /\ t.charge = [m \in Monitors |-> charge[m] + Earned(m, inc)]
<1> DEFINE time == sc.counter[Clock].change
           t == SumCharge(sc)
<1>1. time = inc[Clock] /\ time \in Int /\ Offset * time \in Int /\ MaxInterval \in Nat
  BY ScalersAssumption
<1>2. ASSUME NEW m \in Monitors
      PROVE  /\ Beam(sc, m, time) = inc[m] - Offset * time /\ inc[m] - Offset * time \in Int
             /\ charge[m] \in Int
  BY <1>1 DEF Beam
<1>3. ASSUME NEW m \in Monitors
      PROVE  Earned(m, inc) = IF time \in 1 .. (MaxInterval - 1) /\ Beam(sc, m, time) > 0
                              THEN Beam(sc, m, time) ELSE 0
  BY <1>1, <1>2 DEF Earned
<1>4. CASE time <= 0 \/ time >= MaxInterval
  <2>1. t = sc
    BY <1>4 DEF SumCharge
  <2>2. ASSUME NEW m \in Monitors PROVE charge[m] + Earned(m, inc) = charge[m]
    <3>1. Earned(m, inc) = 0
      BY <1>1, <1>3, <1>4
    <3>2. QED
      BY <1>2, <3>1
  <2>3. charge = [m \in Monitors |-> charge[m] + Earned(m, inc)]
    BY <2>2
  <2>4. QED
    BY <2>1, <2>3
<1>5. CASE ~(time <= 0 \/ time >= MaxInterval)
  <2> DEFINE summed == [m \in Monitors |-> IF Beam(sc, m, time) >= 0
                                           THEN sc.charge[m] + Beam(sc, m, time) ELSE sc.charge[m]]
  <2>1. t.counter = sc.counter /\ DOMAIN t = DOMAIN sc /\ t.charge = summed
    BY <1>5 DEF SumCharge
  <2>2. ASSUME NEW m \in Monitors
        PROVE  summed[m] = charge[m] + Earned(m, inc)
    <3> DEFINE beam == Beam(sc, m, time)
    <3>1. beam \in Int /\ charge[m] \in Int /\ time \in 1 .. (MaxInterval - 1)
      BY <1>1, <1>2, <1>5
    <3>2. summed[m] = IF beam >= 0 THEN charge[m] + beam ELSE charge[m]
      OBVIOUS
    <3>3. Earned(m, inc) = IF beam > 0 THEN beam ELSE 0
      BY <1>3, <3>1
    <3> HIDE DEF beam, summed
    <3>4. QED
      BY <3>1, <3>2, <3>3
  <2>3. summed = [m \in Monitors |-> charge[m] + Earned(m, inc)]
    BY <2>2
  <2>4. QED
    BY <2>1, <2>3
<1>6. QED
  BY <1>4, <1>5

-----------------------------------------------------------------------------
(* The steps.                                                              *)

\* Before the first event nothing has been counted, on either side.
LEMMA ScalersInit ==
  ASSUME WholeBanks, Init
  PROVE  ScalersInv
<1>1. stream \in Seq(Events) /\ event \in Events \union {NoEvent}
  BY EventBanksAssumption, Zenon DEF Init
<1>2. bankpointer \in Nat \ {0}
  BY DEF Init
<1>3. /\ scalers = NewScalers /\ hardware = [c \in Counters |-> 0]
      /\ truth = [count |-> [c \in Counters |-> 0], charge |-> [m \in Monitors |-> 0]]
  BY DEF Init
<1>4. Half \in Nat /\ Half > 1 /\ Full = 2 * Half /\ 0 * Full = 0
  BY ScalersAssumption DEF Full
<1>5. 0 \in 0 .. Full - 1 /\ Signed(0) = 0
  BY <1>4, SignedIs
<1>6. CounterOf(NewCounter, 0)
  BY <1>4, <1>5 DEF CounterOf, NewCounter, CounterRecords
<1>7. CountsInv
  BY <1>3, <1>6 DEF CountsInv, NewScalers
<1>8. ScalersTrue
  BY <1>3 DEF ScalersTrue, NewScalers, NewCounter
<1>9. QED
  BY <1>1, <1>2, <1>7, <1>8 DEF ScalersInv, EventsInv

\* The step of the scalers' banks: every counter of the bank is read once, and
\* the charge is summed where Bcm1 is among them.
LEMMA ScalersRead ==
  ASSUME WholeBanks, ClearsShow, ScalersInv, AnalyzeScalers
  PROVE  CountsInv' /\ ScalersTrue'
<1> DEFINE good == GoodModules(Bank.modules)
           read == CountersOf(good)
<1>1. PICK inc \in [read -> Increments], cleared \in SUBSET read :
        /\ cleared # {} => WeirdCorrect
        /\ ClearsShow => \A c \in cleared : Shows(hardware[c], inc[c])
        /\ hardware' = [c \in Counters |->
                          CASE c \notin read -> hardware[c]
                            [] c \in cleared -> inc[c]
                            [] OTHER -> (hardware[c] + inc[c]) % Full]
        /\ scalers' = AnalyzeBank(scalers, Bank.modules, hardware')
        /\ truth' = [count |-> [c \in Counters |->
                                  truth.count[c] + (IF c \in read THEN inc[c] ELSE 0)],
                     charge |-> [m \in Monitors |->
                                   truth.charge[m] + (IF Bcm1 \in read THEN Earned(m, inc) ELSE 0)]]
  BY Zenon DEF AnalyzeScalers
<1>2. /\ DOMAIN scalers = {"counter", "charge", "onTime", "onCharge", "events"}
      /\ DOMAIN scalers.counter = Counters
      /\ truth.count \in [Counters -> Int] /\ truth.charge \in [Monitors -> Int]
      /\ \A c \in Counters : CounterOf(scalers.counter[c], hardware[c])
      /\ \A c \in Counters : scalers.counter[c].value = truth.count[c]
      /\ scalers.charge = truth.charge
  BY DEF ScalersInv, CountsInv, ScalersTrue
<1>3. Bcm1 \in read => good = Bank.modules /\ {Clock} \union Monitors \subseteq read
  <2>1. /\ Whole(event) /\ event.kind = "scaler"
        /\ bankpointer \in Nat \ {0} /\ bankpointer <= Len(event.banks)
    <3>1. event # NoEvent
      BY DEF AnalyzeScalers, NoEvent
    <3>2. QED
      BY <3>1 DEF ScalersInv, EventsInv, AnalyzeScalers, More, WholeBanks
  <2>2. bankpointer \in 1 .. Len(event.banks)
    BY <2>1
  <2>3. QED
    BY <2>1, <2>2 DEF Whole, Bank
<1> DEFINE now == hardware'
           sc == ReadModules(scalers, good, now)
<1>4. ASSUME NEW c \in Counters, c \in read
      PROVE  now[c] = NextReading(hardware[c], inc[c], c \in cleared)
  BY <1>1, <1>4 DEF NextReading
<1>5. ASSUME NEW c \in Counters
      PROVE  /\ sc.counter[c] = IF c \in read THEN ReadCounter(scalers.counter[c], now[c])
                                ELSE scalers.counter[c]
             /\ c \notin read => now[c] = hardware[c]
  BY <1>1, <1>2 DEF ReadModules
<1>6. DOMAIN sc = DOMAIN scalers /\ DOMAIN sc.counter = Counters /\ sc.charge = scalers.charge
  BY <1>2 DEF ReadModules
<1>7. ASSUME NEW c \in Counters, c \in read
      PROVE  /\ CounterOf(sc.counter[c], now[c])
             /\ sc.counter[c].value = scalers.counter[c].value + inc[c]
             /\ sc.counter[c].change = inc[c]
  <2>1. inc[c] \in 0 .. Jump
    BY <1>7, EventBanksAssumption
  <2>2. c \in cleared => WeirdCorrect /\ Shows(hardware[c], inc[c])
    BY <1>1
  <2>3. (c \in cleared) \in BOOLEAN
    OBVIOUS
  <2>4. CounterOf(scalers.counter[c], hardware[c])
    BY <1>2
  <2> DEFINE clear == c \in cleared
             r == NextReading(hardware[c], inc[c], clear)
  <2>5. /\ CounterOf(ReadCounter(scalers.counter[c], r), r)
        /\ ReadCounter(scalers.counter[c], r).value = scalers.counter[c].value + inc[c]
        /\ ReadCounter(scalers.counter[c], r).change = inc[c]
    <3>1. clear \in BOOLEAN /\ (clear => WeirdCorrect /\ Shows(hardware[c], inc[c]))
      BY <2>2, <2>3
    <3> HIDE DEF clear
    <3>2. QED
      BY <2>1, <2>4, <3>1, ReadingCounts DEF r
  <2>6. now[c] = r /\ sc.counter[c] = ReadCounter(scalers.counter[c], now[c])
    BY <1>4, <1>5, <1>7
  <2> HIDE DEF r, now, sc
  <2>7. QED
    BY <2>5, <2>6
<1>8. ASSUME NEW c \in Counters
      PROVE  /\ CounterOf(sc.counter[c], now[c])
             /\ sc.counter[c].value = truth'.count[c]
  <2>1. truth'.count[c] = truth.count[c] + (IF c \in read THEN inc[c] ELSE 0)
    BY <1>1
  <2>2. CASE c \in read
    BY <1>2, <1>7, <2>1, <2>2
  <2>3. CASE c \notin read
    <3>1. sc.counter[c] = scalers.counter[c] /\ now[c] = hardware[c]
      BY <1>5, <2>3
    <3>2. truth'.count[c] = truth.count[c]
      BY <1>2, <2>1, <2>3
    <3> HIDE DEF sc, now
    <3>3. QED
      BY <1>2, <3>1, <3>2
  <2>4. QED
    BY <2>2, <2>3
<1>9. /\ scalers'.counter = sc.counter /\ DOMAIN scalers' = DOMAIN sc
      /\ scalers'.charge = truth'.charge
  <2> HIDE DEF read
  <2>1. CASE Bcm1 \in read
    <3>1. good = Bank.modules /\ {Clock} \union Monitors \subseteq read
      BY <1>3, <2>1
    <3>2. scalers' = SumCharge(sc)
      BY <1>1, <2>1, <3>1 DEF AnalyzeBank, read
    <3>3. \A c \in {Clock} \union Monitors : c \in Counters /\ inc[c] \in Int
                                             /\ sc.counter[c].change = inc[c]
      BY <1>7, <1>1, <3>1, ScalersAssumption, EventBanksAssumption
    <3>4. truth'.charge = [m \in Monitors |-> truth.charge[m] + Earned(m, inc)]
      BY <1>1, <2>1
    <3> HIDE DEF sc
    <3>5. QED
      BY <1>2, <1>6, <3>2, <3>3, <3>4, ChargeEarned
  <2>2. CASE Bcm1 \notin read
    <3>1. scalers' = sc
      BY <1>1, <2>2, Zenon DEF AnalyzeBank, read
    <3>2. truth'.charge = [m \in Monitors |-> truth.charge[m] + 0]
      BY <1>1, <2>2
    <3>3. truth'.charge = truth.charge
      BY <1>2, <3>2
    <3> HIDE DEF sc
    <3>4. QED
      BY <1>2, <1>6, <3>1, <3>3
  <2>3. QED
    BY <2>1, <2>2
<1>10. /\ DOMAIN hardware' = Counters /\ DOMAIN truth' = {"count", "charge"}
       /\ truth'.count \in [Counters -> Int] /\ truth'.charge \in [Monitors -> Int]
  <2>1. \A c \in read : inc[c] \in Int
    BY <1>1, EventBanksAssumption, ScalersAssumption
  <2>2. \A c \in Counters : truth.count[c] + (IF c \in read THEN inc[c] ELSE 0) \in Int
    BY <1>2, <2>1
  <2>3. ASSUME NEW m \in Monitors, Bcm1 \in read PROVE Earned(m, inc) \in Int
    BY <1>3, <2>1, <2>3, ScalersAssumption DEF Earned
  <2>4. \A m \in Monitors : truth.charge[m] + (IF Bcm1 \in read THEN Earned(m, inc) ELSE 0) \in Int
    BY <1>2, <2>3
  <2>5. QED
    BY <1>1, <2>2, <2>4
<1> HIDE DEF sc, now
<1>11. QED
  BY <1>2, <1>6, <1>8, <1>9, <1>10 DEF CountsInv, ScalersTrue, now

\* Only a scaler event changes the counts, the charge and what they should be.
LEMMA ScalersStep ==
  ASSUME WholeBanks, ClearsShow, ScalersInv, [Next]_vars
  PROVE  ScalersInv'
<1>1. CASE BeginEvent
  <2>1. event' = Head(stream) /\ stream' = Tail(stream) /\ stream # <<>> /\ bankpointer' = 1
        /\ UNCHANGED <<scalers, hardware, truth>>
    BY <1>1 DEF BeginEvent
  <2>2. stream \in Seq(Events)
    BY DEF ScalersInv, EventsInv
  <2>3. Head(stream) \in Events /\ Tail(stream) \in Seq(Events)
    BY <2>1, <2>2, HeadTailProperties
  <2>4. EventsInv'
    BY <2>1, <2>2, <2>3 DEF EventsInv
  <2>5. CountsInv' /\ ScalersTrue'
    BY <2>1 DEF ScalersInv, CountsInv, ScalersTrue
  <2>6. QED
    BY <2>4, <2>5 DEF ScalersInv
<1>2. CASE AnalyzeScalers
  <2>1. UNCHANGED <<stream, event>> /\ bankpointer' = bankpointer + 1
    BY <1>2 DEF AnalyzeScalers, NextBank
  <2>2. EventsInv'
    BY <2>1 DEF ScalersInv, EventsInv
  <2>3. QED
    BY <1>2, <2>2, ScalersRead DEF ScalersInv
<1>3. CASE /\ UNCHANGED <<stream, event, scalers, hardware, truth>>
            /\ bankpointer' \in {bankpointer, bankpointer + 1}
  BY <1>3 DEF ScalersInv, EventsInv, CountsInv, ScalersTrue
<1>4. CASE EndEvent \/ PassBank \/ BeginBank \/ EndBank \/ Turn \/ Unpack \/ EndDetector \/ PassScalers
  BY <1>3, <1>4, Zenon DEF EndEvent, PassBank, BeginBank, EndBank, NextBank, Turn, Unpack,
                           EndDetector, PassScalers
<1>5. CASE UNCHANGED vars
  BY <1>3, <1>5, Zenon DEF vars
<1>6. QED
  BY <1>1, <1>2, <1>4, <1>5, Zenon DEF Next

\* The counts kept are the true ones, through rollovers and random clears that
\* show, and the charge is what the beam brought in the intervals summed over
\* (g_analyze_scaler_bank.f:112-157 and :177-225), whatever the range of the
\* readings, the banks and the counters.
THEOREM ScalersCount == ASSUME WholeBanks, ClearsShow PROVE Spec => []ScalersTrue
<1>1. Init => ScalersInv
  BY ScalersInit
<1>2. ScalersInv /\ [Next]_vars => ScalersInv'
  BY ScalersStep
<1>3. ScalersInv => ScalersTrue
  BY DEF ScalersInv
<1>4. QED
  BY <1>1, <1>2, <1>3, PTL DEF Spec

-----------------------------------------------------------------------------
(* The hits an event's words become.                                       *)

\* A record with fields changed keeps its fields, and those not changed.
LEMMA AtMoved ==
  ASSUME DOMAIN at = {"pointer", "last_first", "roc", "lastslot", "vme"}, NEW p, NEW s
  PROVE  LET new == [at EXCEPT !.lastslot = s, !.pointer = p]
         IN  /\ DOMAIN new = DOMAIN at /\ new.pointer = p
             /\ new.roc = at.roc /\ new.last_first = at.last_first
OBVIOUS

\* Each header skipped moves the pointer by one, or not at all.
LEMMA SkippedOn ==
  ASSUME NEW p \in Nat \ {0}
  PROVE  SkipHeaders(p) \in Nat \ {0} /\ SkipHeaders(p) >= p
<1> DEFINE past(q, test) == IF test THEN q + 1 ELSE q
           q1 == past(p, Word(p).kind = "crate")
           q2 == past(q1, Bit24(Word(q1)))
           q3 == past(q2, Bit25(Word(q2)))
           q4 == past(q3, ~Bit23(Word(q3)))
<1>1. q1 \in Nat \ {0} /\ q1 >= p
  OBVIOUS
<1> HIDE DEF q1
<1>2. q2 \in Nat \ {0} /\ q2 >= p
  BY <1>1
<1> HIDE DEF q2
<1>3. q3 \in Nat \ {0} /\ q3 >= p
  BY <1>2
<1> HIDE DEF q3
<1>4. q4 \in Nat \ {0} /\ q4 >= p
  BY <1>3
<1>5. SkipHeaders(p) = q4
  BY Zenon DEF SkipHeaders, q1, q2, q3
<1> HIDE DEF q4
<1>6. QED
  BY <1>4, <1>5

\* The crate is kept where neither bank nor crate changes.
LEMMA RocStays ==
  ASSUME RocKept, UNCHANGED <<event, bankpointer>>, at'.roc = at.roc, at'.last_first = at.last_first
  PROVE  RocKept'
BY DEF RocKept, Word, Bank

\* A turn of the loop over a bank's words moves the pointer on by a word or
\* more, or hands it to the routine of a detector.
LEMMA TurnMoves ==
  ASSUME EventsInv, WalkInv, Turn
  PROVE  /\ WalkInv'
         /\ at'.pointer >= at.pointer
         /\ pc' = "bank" \/ (pc' = "detector" /\ call'.pointer = 1)
<1>1. /\ pc = "bank" /\ More /\ event.kind = "physics"
      /\ at.pointer \in Nat \ {0} /\ call.pointer \in Nat \ {0} /\ bankpointer \in Nat \ {0}
      /\ DOMAIN at = {"pointer", "last_first", "roc", "lastslot", "vme"}
      /\ DOMAIN call = {"did", "from", "length", "pointer"}
  BY DEF WalkInv, Turn
<1> DEFINE crate == Crate
           p == IF crate.vme THEN SkipHeaders(at.pointer) ELSE at.pointer
<1>2. DOMAIN crate = DOMAIN at
  BY DEF Crate
<1>3. p \in Nat \ {0} /\ p >= at.pointer
  BY <1>1, SkippedOn
<1> HIDE DEF crate, p
<1>4. PICK did, n, s :
        \/ /\ did \in Detectors
           /\ call' = [did |-> did, from |-> p, length |-> n, pointer |-> 1]
           /\ at' = [crate EXCEPT !.pointer = p]
           /\ pc' = "detector"
        \/ /\ at' = [crate EXCEPT !.pointer = p + 1]
           /\ UNCHANGED <<call, pc>>
        \/ /\ at' = [crate EXCEPT !.pointer = p + 1, !.lastslot = s]
           /\ UNCHANGED <<call, pc>>
  BY Zenon DEF Turn, crate, p
<1>5. UNCHANGED <<event, bankpointer>>
  BY DEF Turn
<1>6. More' /\ event'.kind = "physics"
  BY <1>1, <1>5 DEF More, Usable
<1>7. DOMAIN at' = DOMAIN at /\ at'.pointer \in {p, p + 1}
  BY <1>1, <1>2, <1>4
<1>r. RocKept'
  <2>1. SUFFICES ASSUME Word(2).roc \notin ParallelRocs
                 PROVE  at'.roc = Word(2).roc /\ at'.last_first = Len(Bank)
    BY <1>5 DEF RocKept, Word, Bank
  <2>2. at.roc = Word(2).roc /\ at.last_first = Len(Bank)
    BY <1>1, <2>1 DEF WalkInv, RocKept
  <2>3. at.pointer <= Len(Bank) /\ Len(Bank) \in Nat
    <3>1. event \in Events /\ bankpointer \in 1 .. Len(event.banks)
      BY <1>1 DEF EventsInv, NoEvent, More
    <3>2. QED
      BY <1>1, <3>1, EventBanksAssumption DEF Turn, Bank
  <2>4. crate.roc = at.roc /\ crate.last_first = Len(Bank)
    <3>1. ~(at.pointer = at.last_first + 1)
      BY <1>1, <2>2, <2>3
    <3> HIDE DEF Bank, Word
    <3>2. QED
      BY <1>1, <2>2, <3>1 DEF crate, Crate
  <2>5. at'.roc = crate.roc /\ at'.last_first = crate.last_first
    BY <1>1, <1>2, <1>4
  <2>6. QED
    BY <2>2, <2>4, <2>5
<1>8. CASE pc' = "detector"
  <2>1. /\ did \in Detectors /\ call' = [did |-> did, from |-> p, length |-> n, pointer |-> 1]
        /\ at' = [crate EXCEPT !.pointer = p]
    BY <1>1, <1>4, <1>8
  <2>2. call'.from = at'.pointer /\ call'.did \in Detectors /\ call'.pointer = 1
        /\ DOMAIN call' = DOMAIN call
    BY <1>1, <1>2, <2>1
  <2>3. QED
    BY <1>1, <1>3, <1>5, <1>6, <1>7, <1>r, <1>8, <2>2 DEF WalkInv
<1>9. CASE pc' # "detector"
  <2>1. UNCHANGED <<call, pc>>
    BY <1>4, <1>9
  <2>2. QED
    BY <1>1, <1>3, <1>5, <1>6, <1>7, <1>r, <2>1 DEF WalkInv
<1>10. QED
  BY <1>8, <1>9

\* A hit earlier than the word the walk was at is earlier than the one it is at,
\* if the walk has gone on.
LEMMA StillEarlier ==
  ASSUME NEW x \in HitWords, NEW y \in [bank : Nat, word : Nat], NEW z \in [bank : Nat, word : Nat],
         Earlier(x, y), y = z \/ Earlier(y, z)
  PROVE  Earlier(x, z)
BY DEF Earlier, HitWords

\* Where no word is taken and the walk does not go back, the hits stay as they
\* are to be.
LEMMA HitsStay ==
  ASSUME HitsInv, EventsInv', WalkInv', UNCHANGED <<event, taken>>, Place' = Place \/ Earlier(Place, Place')
  PROVE  HitsInv'
<1>1. taken \in Seq(HitWords) /\ \A i \in DOMAIN taken : taken[i] \in HitWords
  <2>1. taken \in Seq(HitWords)
    BY DEF HitsInv
  <2>2. QED
    BY <2>1
<1>2. Place \in [bank : Nat, word : Nat] /\ Place' \in [bank : Nat, word : Nat]
  BY DEF HitsInv, WalkInv, Place, Return
<1>3. \A i \in DOMAIN taken : Earlier(taken[i], Place)
  BY DEF HitsInv
<1>4. ASSUME NEW i \in DOMAIN taken  PROVE Earlier(taken[i], Place')
  <2> DEFINE there == Place'
  <2>1. there \in [bank : Nat, word : Nat] /\ (Place = there \/ Earlier(Place, there))
    BY <1>2
  <2> HIDE DEF there
  <2>2. Earlier(taken[i], there)
    BY <1>1, <1>2, <1>3, <2>1, StillEarlier
  <2>3. QED
    BY <2>2 DEF there
<1>5. WordsOnce'
  <2>1. WordsOnce
    BY DEF HitsInv
  <2>2. Usable' = Usable
    BY DEF Usable
  <2>3. \A h : OfItsDetector(h)' = OfItsDetector(h)
    BY Zenon DEF OfItsDetector, RocIn, WordIn
  <2>4. QED
    BY <2>1, <2>2, <2>3 DEF WordsOnce
<1>6. \A i \in DOMAIN taken' : Earlier(taken'[i], Place')
  BY <1>4
<1>7. QED
  BY <1>1, <1>5, <1>6 DEF HitsInv

\* A word taken is a hit behind all others.
LEMMA WordTaken ==
  ASSUME HitsInv, EventsInv', WalkInv', pc = "detector", pc' = "detector",
         UNCHANGED <<event, bankpointer>>, Place' = [Place EXCEPT !.word = @ + 1],
         NewDid = call.did,
         NEW f \in BOOLEAN,
         taken' = Append(taken, [bank |-> bankpointer, word |-> call.from + call.pointer - 1,
                                 did |-> call.did, f1 |-> f])
  PROVE  HitsInv'
<1> DEFINE x == [bank |-> bankpointer, word |-> call.from + call.pointer - 1,
                 did |-> call.did, f1 |-> f]
           n == Len(taken)
<1>1. /\ bankpointer \in Nat \ {0} /\ at.pointer \in Nat \ {0} /\ call.pointer \in Nat \ {0}
      /\ More /\ event.kind = "physics" /\ call.from = at.pointer /\ call.did \in Detectors
  BY DEF HitsInv, WalkInv
<1>2. x \in HitWords /\ x.bank = bankpointer /\ x.did \in Detectors
  BY <1>1 DEF HitWords
<1>3. Place = [bank |-> bankpointer, word |-> x.word] /\ x.word \in Nat
  BY <1>1 DEF Place, Return
<1>4. Place' = [bank |-> bankpointer, word |-> x.word + 1]
  BY <1>3
<1>5. taken \in Seq(HitWords) /\ taken' = Append(taken, x)
  BY DEF HitsInv
<1> HIDE DEF x
<1>6. /\ taken' \in Seq(HitWords) /\ Len(taken') = n + 1 /\ n \in Nat
      /\ taken'[n + 1] = x /\ \A i \in 1 .. n : taken'[i] = taken[i] /\ taken[i] \in HitWords
      /\ DOMAIN taken = 1 .. n /\ DOMAIN taken' = 1 .. n + 1
  BY <1>2, <1>5
<1>7. \A i \in 1 .. n : Earlier(taken[i], Place)
  BY <1>6 DEF HitsInv
<1>8. \A i \in 1 .. n : Earlier(taken[i], x) /\ Earlier(taken[i], Place')
  BY <1>1, <1>2, <1>3, <1>4, <1>6, <1>7 DEF Earlier, HitWords
<1>9. Earlier(x, Place')
  BY <1>2, <1>3, <1>4 DEF Earlier
<1>10. \A i \in DOMAIN taken' : Earlier(taken'[i], Place')
  BY <1>6, <1>8, <1>9, SMTT(30)
<1>11. bankpointer \in 1 .. Len(event.banks) /\ Usable
  BY <1>1 DEF More
<1>a. RocIn(x.bank) \notin ParallelRocs =>
        DidOf(WordIn(x.bank, x.word), RocIn(x.bank), x.did) = x.did
  <2>1. SUFFICES ASSUME RocIn(bankpointer) \notin ParallelRocs
                 PROVE  DidOf(W, at.roc, call.did) = call.did /\ RocIn(bankpointer) = at.roc
                        /\ WordIn(bankpointer, x.word) = W
    BY DEF x
  <2>2. \A i : WordIn(bankpointer, i) = Word(i)
    BY Zenon DEF WordIn, Word, Bank
  <2>3. RocIn(bankpointer) = at.roc
    BY <2>1, <2>2 DEF RocIn, HitsInv, WalkInv, RocKept
  <2>4. WordIn(bankpointer, x.word) = W
    BY <2>2 DEF W, x
  <2>5. DidOf(W, at.roc, call.did) = NewDid
    BY Zenon DEF DidOf, NewDid, WSlot, Routine
  <2>6. QED
    BY <2>3, <2>4, <2>5
<1>12. WordsOnce'
  <2>1. \A i, j \in DOMAIN taken' : i < j => Earlier(taken'[i], taken'[j])
    <3>1. \A i, j \in 1 .. n : i < j => Earlier(taken[i], taken[j])
      BY <1>6 DEF HitsInv, WordsOnce
    <3>2. QED
      BY <1>6, <1>8, <3>1
  <2>2. \A i \in DOMAIN taken' : OfItsDetector(taken[i])'
    <3>1. \A k \in 1 .. n : OfItsDetector(taken[k])
      BY <1>6 DEF HitsInv, WordsOnce
    <3>2. OfItsDetector(x)
      BY <1>a, <1>2, <1>11 DEF OfItsDetector
    <3>3. ASSUME NEW i \in DOMAIN taken'  PROVE OfItsDetector(taken'[i])
      <4>1. i = n + 1 \/ i \in 1 .. n
        BY <1>6
      <4>2. QED
        BY <1>6, <3>1, <3>2, <4>1
    <3>4. QED
      BY Zenon, <3>3 DEF OfItsDetector, RocIn, WordIn
  <2>3. Usable' /\ event'.kind = "physics"
    BY <1>1, <1>11 DEF Usable
  <2>4. QED
    BY <2>1, <2>2, <2>3 DEF WordsOnce
<1>13. QED
  BY <1>6, <1>10, <1>12 DEF HitsInv

\* The hits at the beginning of a run.
LEMMA HitsInit == Init => HitsInv
<1> SUFFICES ASSUME Init PROVE HitsInv
  OBVIOUS
<1>1. WalkInv /\ EventsInv /\ taken = <<>>
  <2>1. stream \in Streams /\ \A s \in Streams : s \in Seq(Events)
    BY EventBanksAssumption DEF Init
  <2>2. QED
    BY <2>1 DEF Init, WalkInv, EventsInv
<1>2. QED
  BY <1>1 DEF HitsInv, WordsOnce

\* The walk over the words of a detector: a word is taken or passed.
LEMMA UnpackKeepsHits ==
  ASSUME HitsInv, EventsInv', Unpack
  PROVE  HitsInv'
<1>1. /\ pc = "detector" /\ WalkInv
      /\ UNCHANGED <<event, bankpointer>>
      /\ at.pointer \in Nat \ {0} /\ call.pointer \in Nat \ {0} /\ bankpointer \in Nat \ {0}
      /\ DOMAIN at = {"pointer", "last_first", "roc", "lastslot", "vme"}
      /\ DOMAIN call = {"did", "from", "length", "pointer"}
      /\ call.from = at.pointer /\ call.did \in Detectors
      /\ More /\ event.kind = "physics" /\ RocKept
  BY DEF Unpack, HitsInv, WalkInv
<1>2. More' /\ event'.kind = "physics"
  BY <1>1 DEF More, Usable
<1>3. ASSUME NEW k \in {1, 3}, call' = [call EXCEPT !.pointer = @ + k], pc' = pc,
             at' \in {at, [at EXCEPT !.lastslot = WSlot]}
      PROVE  WalkInv' /\ Place' = [bank |-> bankpointer, word |-> Return + k]
                      /\ Place = [bank |-> bankpointer, word |-> Return]
  <2>1. at'.pointer = at.pointer /\ DOMAIN at' = DOMAIN at
        /\ at'.roc = at.roc /\ at'.last_first = at.last_first
    BY <1>1, <1>3
  <2>r. RocKept'
    BY <1>1, <2>1, RocStays
  <2>2. call'.pointer = call.pointer + k /\ call'.from = call.from /\ call'.did = call.did
        /\ DOMAIN call' = DOMAIN call
    BY <1>1, <1>3
  <2>3. WalkInv'
    BY <1>1, <1>2, <1>3, <2>1, <2>2, <2>r DEF WalkInv
  <2>4. Return' = Return + k
    BY <1>1, <2>1, <2>2 DEF Return
  <2>5. QED
    BY <1>1, <1>3, <2>3, <2>4 DEF Place
<1>4. Return \in Nat
  BY <1>1 DEF Return
<1>5. ASSUME NEW k \in {1, 3}, Proceed(k), at' \in {at, [at EXCEPT !.lastslot = WSlot]},
             UNCHANGED taken
      PROVE  HitsInv'
  <2>1. WalkInv' /\ Place' = [bank |-> bankpointer, word |-> Return + k]
        /\ Place = [bank |-> bankpointer, word |-> Return]
    BY <1>3, <1>5 DEF Proceed
  <2>2. Earlier(Place, Place')
    BY <1>1, <1>4, <2>1 DEF Earlier
  <2>3. QED
    BY <1>1, <1>5, <2>1, <2>2, HitsStay
<1>6. CASE TakeWord
  <2>1. Proceed(1) /\ at' \in {at, [at EXCEPT !.lastslot = WSlot]} /\ NewDid = call.did
    BY <1>6 DEF TakeWord
  <2>2. CASE UNCHANGED taken
    BY <1>5, <2>1, <2>2
  <2>3. CASE taken' = Append(taken, [bank |-> bankpointer, word |-> call.from + call.pointer - 1,
                                     did |-> call.did, f1 |-> Tag = "F1C"])
    <3>1. WalkInv' /\ Place' = [bank |-> bankpointer, word |-> Return + 1]
          /\ Place = [bank |-> bankpointer, word |-> Return] /\ pc' = "detector"
      BY <1>1, <1>3, <2>1 DEF Proceed
    <3>2. Place' = [Place EXCEPT !.word = @ + 1]
      BY <3>1
    <3> DEFINE f == Tag = "F1C"
    <3>3. f \in BOOLEAN
      OBVIOUS
    <3>4. taken' = Append(taken, [bank |-> bankpointer, word |-> call.from + call.pointer - 1,
                                  did |-> call.did, f1 |-> f])
      BY <2>3
    <3> HIDE DEF f
    <3>5. QED
      BY <1>1, <2>1, <3>1, <3>2, <3>3, <3>4, WordTaken
  <2>4. QED
    BY <1>6, <2>2, <2>3 DEF TakeWord
<1>7. CASE SkipVmeHeader \/ SkipModuleHeader
  <2>1. Proceed(1) /\ at' \in {at, [at EXCEPT !.lastslot = WSlot]} /\ UNCHANGED taken
    BY <1>7 DEF SkipVmeHeader, SkipModuleHeader
  <2>2. QED
    BY <1>5, <2>1
<1>8. CASE SkipPassed
  <2>1. UNCHANGED <<at, taken>> /\ (Proceed(1) \/ Proceed(3))
    BY <1>8 DEF SkipPassed
  <2>2. QED
    BY <1>5, <2>1
<1>9. CASE LeaveDetector
  <2>1. at' = [at EXCEPT !.lastslot = WSlot, !.pointer = Return] /\ pc' = "bank"
        /\ UNCHANGED <<call, taken>>
    BY <1>9 DEF LeaveDetector
  <2>2. at'.pointer = Return /\ DOMAIN at' = DOMAIN at
        /\ at'.roc = at.roc /\ at'.last_first = at.last_first
    BY <1>1, <2>1, AtMoved
  <2>r. RocKept'
    BY <1>1, <2>2, RocStays
  <2>3. Return \in Nat \ {0}
    BY <1>1 DEF Return
  <2>4. WalkInv' /\ Place' = Place
    BY <1>1, <1>2, <2>1, <2>2, <2>3, <2>r DEF WalkInv, Place
  <2>5. QED
    BY <1>1, <2>1, <2>4, HitsStay
<1>10. QED
  BY <1>6, <1>7, <1>8, <1>9 DEF Unpack

\* The events are those of the stream, and the banks are counted.
LEMMA EventsKept ==
  ASSUME EventsInv, [Next]_vars
  PROVE  EventsInv'
<1>1. CASE BeginEvent
  <2>1. event' = Head(stream) /\ stream' = Tail(stream) /\ stream # <<>> /\ bankpointer' = 1
    BY <1>1 DEF BeginEvent
  <2>2. stream \in Seq(Events)
    BY DEF EventsInv
  <2>3. Head(stream) \in Events /\ Tail(stream) \in Seq(Events)
    BY <2>1, <2>2, HeadTailProperties
  <2>4. QED
    BY <2>1, <2>2, <2>3 DEF EventsInv
<1>2. CASE UNCHANGED <<stream, event>> /\ bankpointer' \in {bankpointer, bankpointer + 1}
  BY <1>2 DEF EventsInv
<1>3. CASE EndEvent \/ PassBank \/ BeginBank \/ EndBank \/ Turn \/ Unpack \/ EndDetector
           \/ PassScalers \/ AnalyzeScalers
  BY <1>2, <1>3, Zenon DEF EndEvent, PassBank, BeginBank, EndBank, NextBank, Turn, Unpack,
                           EndDetector, PassScalers, AnalyzeScalers
<1>4. CASE UNCHANGED vars
  BY <1>2, <1>4, Zenon DEF vars
<1>5. QED
  BY <1>1, <1>3, <1>4, Zenon DEF Next

\* The hits are kept in order through the banks.
LEMMA HitsStep ==
  ASSUME HitsInv, [Next]_vars
  PROVE  HitsInv'
<1>1. /\ WalkInv /\ bankpointer \in Nat \ {0}
      /\ DOMAIN at = {"pointer", "last_first", "roc", "lastslot", "vme"} /\ at.pointer \in Nat \ {0}
      /\ DOMAIN call = {"did", "from", "length", "pointer"} /\ call.pointer \in Nat \ {0}
  BY DEF HitsInv, WalkInv
<1>e. EventsInv'
  BY EventsKept DEF HitsInv
<1>2. CASE BeginEvent
  <2>1. taken' = <<>> /\ bankpointer' = 1 /\ pc' = "walk" /\ UNCHANGED <<at, call>>
    BY <1>2 DEF BeginEvent
  <2>2. WalkInv'
    BY <1>1, <2>1 DEF WalkInv
  <2>3. WordsOnce'
    BY <2>1 DEF WordsOnce
  <2>4. QED
    BY <1>e, <2>1, <2>2, <2>3 DEF HitsInv
<1>3. CASE EndEvent
  <2>1. pc = "walk" /\ pc' = "event" /\ UNCHANGED <<event, bankpointer, at, call, taken>>
    BY <1>3 DEF EndEvent, decoding
  <2>2. WalkInv' /\ Place' = Place
    BY <1>1, <2>1 DEF WalkInv, Place
  <2>3. QED
    BY <1>e, <2>1, <2>2, HitsStay
<1>4. ASSUME UNCHANGED <<event, at, call, taken>>, bankpointer' = bankpointer + 1, pc' = "walk"
      PROVE  HitsInv'
  <2>1. WalkInv'
    BY <1>1, <1>4 DEF WalkInv
  <2>2. Place.bank = bankpointer /\ Place'.bank = bankpointer + 1
    BY <1>4 DEF Place
  <2>3. Earlier(Place, Place')
    BY <1>1, <2>2 DEF Earlier
  <2>4. QED
    BY <1>e, <1>4, <2>1, <2>3, HitsStay
<1>5. CASE PassBank \/ EndBank \/ PassScalers
  BY <1>4, <1>5 DEF PassBank, EndBank, PassScalers, NextBank, decoding
<1>6. CASE AnalyzeScalers
  <2>1. UNCHANGED <<event, at, call, taken>> /\ NextBank
    BY <1>6 DEF AnalyzeScalers, decoding
  <2>2. QED
    BY <1>4, <2>1 DEF NextBank
<1>7. CASE BeginBank
  <2>1. pc = "walk" /\ pc' = "bank" /\ More /\ event.kind = "physics"
        /\ UNCHANGED <<event, bankpointer, call, taken>>
    BY <1>7 DEF BeginBank
  <2>2. DOMAIN at' = DOMAIN at /\ at'.pointer \in {3, 5}
    BY <1>1, <1>7 DEF BeginBank
  <2>3. More' /\ event'.kind = "physics"
    BY <2>1 DEF More, Usable
  <2>4. WalkInv'
    <3>1. RocKept'
      BY <1>7 DEF BeginBank, RocKept, Word, Bank
    <3>2. QED
      BY <1>1, <2>1, <2>2, <2>3, <3>1 DEF WalkInv
  <2>5. Place = [bank |-> bankpointer, word |-> 0]
        /\ Place' = [bank |-> bankpointer, word |-> at'.pointer]
    BY <2>1 DEF Place
  <2>6. Earlier(Place, Place')
    BY <2>2, <2>5 DEF Earlier
  <2>7. QED
    BY <1>e, <2>1, <2>4, <2>6, HitsStay
<1>8. CASE Turn
  <2>1. pc = "bank" /\ UNCHANGED <<event, bankpointer, taken>>
    BY <1>8 DEF Turn
  <2>2. /\ WalkInv' /\ at'.pointer >= at.pointer
        /\ pc' = "bank" \/ (pc' = "detector" /\ call'.pointer = 1)
    BY <1>1, <1>8, TurnMoves DEF HitsInv
  <2>3. at'.pointer \in Nat
    BY <2>2 DEF WalkInv
  <2>4. Place = [bank |-> bankpointer, word |-> at.pointer]
        /\ Place' = [bank |-> bankpointer, word |-> at'.pointer]
    BY <2>1, <2>2, <2>3 DEF Place, Return
  <2>5. Place' = Place \/ Earlier(Place, Place')
    BY <1>1, <2>2, <2>3, <2>4 DEF Earlier
  <2>6. QED
    BY <1>e, <2>1, <2>2, <2>5, HitsStay
<1>9. CASE Unpack
  BY <1>9, <1>e, UnpackKeepsHits
<1>10. CASE EndDetector
  <2>1. pc = "detector" /\ pc' = "bank" /\ at' = [at EXCEPT !.pointer = Return]
        /\ UNCHANGED <<event, bankpointer, call, taken>> /\ More /\ event.kind = "physics"
    BY <1>1, <1>10 DEF EndDetector, WalkInv
  <2>2. at'.pointer = Return /\ DOMAIN at' = DOMAIN at /\ Return \in Nat \ {0}
        /\ at'.roc = at.roc /\ at'.last_first = at.last_first
    BY <1>1, <2>1 DEF Return
  <2>r. RocKept'
    BY <1>1, <2>1, <2>2, RocStays DEF WalkInv
  <2>3. More' /\ event'.kind = "physics"
    BY <2>1 DEF More, Usable
  <2>4. WalkInv' /\ Place' = Place
    BY <1>1, <2>1, <2>2, <2>3, <2>r DEF WalkInv, Place
  <2>5. QED
    BY <1>e, <2>1, <2>4, HitsStay
<1>11. CASE UNCHANGED vars
  <2>1. UNCHANGED <<event, taken, pc, bankpointer, at, call>>
    BY <1>11 DEF vars, decoding
  <2>2. RocKept' = RocKept
    BY <2>1 DEF RocKept, Word, Bank
  <2>3. WalkInv' /\ Place' = Place
    BY <1>1, <2>1, <2>2 DEF WalkInv, Place, Return, More, Usable
  <2>4. QED
    BY <1>e, <2>1, <2>3, HitsStay
<1>12. QED
  BY <1>2, <1>3, <1>5, <1>6, <1>7, <1>8, <1>9, <1>10, <1>11, Zenon DEF Next

\* No word becomes two hits, and the hits are in the order of the words, each of
\* the detector the map has for the crate of its bank, its slot and its channel,
\* in usable physics events only, whatever the banks hold and the map says
\* (g_decode_all_bank.f, g_decode_fb_detector.f, g_decode_all_detector.f).
THEOREM WordsTakenOnce == Spec => []WordsOnce
<1>1. Init => HitsInv
  BY HitsInit
<1>2. HitsInv /\ [Next]_vars => HitsInv'
  BY HitsStep
<1>3. HitsInv => WordsOnce
  BY DEF HitsInv
<1>4. QED
  BY <1>1, <1>2, <1>3, PTL DEF Spec

-----------------------------------------------------------------------------
(* The map the file makes.                                                 *)

Maps ==
  [roc : Int, slot : Int, det : Int, nsub : Nat, bsub : Nat, next : Nat \ {0},
   slotpointer : [Slots -> Int], subaddbit : [Slots -> Nat],
   didmap : [1 .. MaxMap -> Int], planemap : [1 .. MaxMap -> Int]]

\* A function with one value replaced is one still, wherever it is replaced.
LEMMA ReplacedIn ==
  ASSUME NEW S, NEW T, NEW f \in [S -> T], NEW x, NEW v \in T
  PROVE  [f EXCEPT ![x] = v] \in [S -> T]
OBVIOUS

\* A line of the file.
LEMMA LineIs ==
  ASSUME NEW n \in 1 .. Len(MapFile)
  PROVE  /\ MapFile[n] \in Lines
         /\ MapFile[n].key = "channel" => MapFile[n].sub \in Nat /\ MapFile[n].plane \in Nat
         /\ MapFile[n].key # "channel" => MapFile[n].key \in Keys /\ MapFile[n].value \in Nat
<1>1. MapFile[n] \in Lines
  BY DecodeMapAssumption
<1>2. \A l \in Lines : /\ l.key = "channel" => l.sub \in Nat /\ l.plane \in Nat
                       /\ l.key # "channel" => l.key \in Keys /\ l.value \in Nat
  BY DEF Lines, Keys
<1>3. QED
  BY <1>1, <1>2

\* A channel's line gives the slot its places if it has none yet.
LEMMA SlotGiven ==
  ASSUME NEW m \in Maps
  PROVE  /\ WithSlot(m) \in Maps
         /\ LET new == WithSlot(m)
                rs == <<m.roc, m.slot>>
            IN  /\ new.roc = m.roc /\ new.slot = m.slot /\ new.det = m.det /\ new.nsub = m.nsub
                /\ new.didmap = m.didmap /\ new.planemap = m.planemap
                /\ m.slotpointer[rs] >= 0 =>
                     new.slotpointer = m.slotpointer /\ new.next = m.next
                /\ ~(m.slotpointer[rs] >= 0) =>
                     /\ new.slotpointer = [m.slotpointer EXCEPT ![rs] = m.next]
                     /\ new.next = m.next + m.nsub
<1> DEFINE rs == <<m.roc, m.slot>>
           new == [m EXCEPT !.slotpointer[rs] = m.next, !.subaddbit[rs] = m.bsub,
                            !.next = @ + m.nsub]
           sp == [m.slotpointer EXCEPT ![rs] = m.next]
           sb == [m.subaddbit EXCEPT ![rs] = m.bsub]
<1>1. CASE m.slotpointer[rs] >= 0
  <2>1. WithSlot(m) = m
    BY <1>1, Zenon DEF WithSlot
  <2>2. QED
    BY <1>1, <2>1
<1>2. CASE ~(m.slotpointer[rs] >= 0)
  <2>1. WithSlot(m) = new
    BY <1>2, Zenon DEF WithSlot
  <2>2. sp \in [Slots -> Int] /\ sb \in [Slots -> Nat] /\ m.next + m.nsub \in Nat \ {0}
    <3>1. m.slotpointer \in [Slots -> Int] /\ m.subaddbit \in [Slots -> Nat]
          /\ m.next \in Nat \ {0} /\ m.next \in Int /\ m.nsub \in Nat /\ m.bsub \in Nat
      BY DEF Maps
    <3>2. sp \in [Slots -> Int] /\ sb \in [Slots -> Nat]
      BY <3>1, ReplacedIn, Zenon
    <3>3. QED
      BY <3>1, <3>2
  <2>3. new = [m EXCEPT !.slotpointer = sp, !.subaddbit = sb, !.next = m.next + m.nsub]
    BY DEF Maps
  <2> HIDE DEF sp, sb, new
  <2>4. new \in Maps
    BY <2>2, <2>3 DEF Maps
  <2>5. /\ new.roc = m.roc /\ new.slot = m.slot /\ new.det = m.det /\ new.nsub = m.nsub
        /\ new.didmap = m.didmap /\ new.planemap = m.planemap
        /\ new.slotpointer = sp /\ new.next = m.next + m.nsub
    BY <2>3 DEF Maps
  <2>6. QED
    BY <1>2, <2>1, <2>4, <2>5, Zenon DEF sp
<1>3. QED
  BY <1>1, <1>2

\* A channel's line gives the channel its detector and plane.
LEMMA ChannelGiven ==
  ASSUME NEW m \in Maps, NEW line, line.sub \in Nat, line.plane \in Nat
  PROVE  LET made == WithSlot(m)
             new == Channel(m, line)
             place == made.slotpointer[<<m.roc, m.slot>>] + line.sub
         IN  /\ new \in Maps
             /\ new.roc = m.roc /\ new.slot = m.slot /\ new.det = m.det /\ new.nsub = m.nsub
             /\ new.next = made.next /\ new.slotpointer = made.slotpointer
             /\ new.didmap = [m.didmap EXCEPT ![place] = m.det]
             /\ new.planemap = [m.planemap EXCEPT ![place] = line.plane]
<1> DEFINE made == WithSlot(m)
           place == made.slotpointer[<<m.roc, m.slot>>] + line.sub
           dm == [made.didmap EXCEPT ![place] = m.det]
           pm == [made.planemap EXCEPT ![place] = line.plane]
           new == [made EXCEPT !.didmap[place] = m.det, !.planemap[place] = line.plane]
<1>1. /\ made \in Maps
      /\ made.roc = m.roc /\ made.slot = m.slot /\ made.det = m.det /\ made.nsub = m.nsub
      /\ made.didmap = m.didmap /\ made.planemap = m.planemap
  BY SlotGiven
<1>2. Channel(m, line) = new
  BY Zenon DEF Channel
<1> HIDE DEF made
<1>3. new = [made EXCEPT !.didmap = dm, !.planemap = pm]
  BY <1>1 DEF Maps
<1> HIDE DEF place
<1>4. dm \in [1 .. MaxMap -> Int] /\ pm \in [1 .. MaxMap -> Int]
  <2>1. /\ made.didmap \in [1 .. MaxMap -> Int] /\ made.planemap \in [1 .. MaxMap -> Int]
        /\ m.det \in Int /\ line.plane \in Int
    BY <1>1 DEF Maps
  <2>2. QED
    BY <2>1, ReplacedIn, Zenon
<1> HIDE DEF dm, pm, new
<1>5. new \in Maps
  BY <1>1, <1>3, <1>4 DEF Maps
<1>6. /\ new.roc = made.roc /\ new.slot = made.slot /\ new.det = made.det /\ new.nsub = made.nsub
      /\ new.next = made.next /\ new.slotpointer = made.slotpointer
      /\ new.didmap = dm /\ new.planemap = pm
  BY <1>1, <1>3 DEF Maps
<1>7. QED
  BY <1>1, <1>2, <1>5, <1>6, Zenon DEF dm, pm, made, place

\* Each line makes a map of a map, and gives no place twice.
LEMMA LineRead ==
  ASSUME NEW m \in Maps, NEW n \in 1 .. Len(MapFile)
  PROVE  ReadLine(m, MapFile[n]) \in Maps /\ ReadLine(m, MapFile[n]).next >= m.next
<1> DEFINE line == MapFile[n]
<1>1. CASE line.key = "channel"
  <2>1. ReadLine(m, line) = Channel(m, line)
    BY <1>1 DEF ReadLine
  <2>2. QED
    <3>1. line.sub \in Nat /\ line.plane \in Nat
      BY <1>1, LineIs
    <3> HIDE DEF line
    <3>2. Channel(m, line) \in Maps /\ Channel(m, line).next = WithSlot(m).next
      BY <3>1, ChannelGiven
    <3>3. m.next \in Nat /\ m.nsub \in Nat
      BY DEF Maps
    <3>4. WithSlot(m).next >= m.next
      <4>1. WithSlot(m).next \in {m.next, m.next + m.nsub}
        BY SlotGiven, Zenon
      <4>2. QED
        BY <3>3, <4>1
    <3>5. QED
      BY <2>1, <3>2, <3>4 DEF line
<1>2. CASE line.key # "channel"
  <2>1. line.key \in Keys /\ line.value \in Nat
    BY <1>2, LineIs
  <2> HIDE DEF line
  <2> DEFINE v == line.value
  <2>2. v \in Nat /\ v \in Int
    BY <2>1
  <2>3. ReadLine(m, line) \in {[m EXCEPT !.roc = v], [m EXCEPT !.slot = v], [m EXCEPT !.det = v],
                              [m EXCEPT !.nsub = v], [m EXCEPT !.bsub = v]}
    BY <2>1 DEF ReadLine, Keys
  <2> HIDE DEF v
  <2>a. /\ [m EXCEPT !.roc = v] \in Maps /\ [m EXCEPT !.slot = v] \in Maps
        /\ [m EXCEPT !.det = v] \in Maps /\ [m EXCEPT !.nsub = v] \in Maps
        /\ [m EXCEPT !.bsub = v] \in Maps
    BY <2>2 DEF Maps
  <2>b. /\ [m EXCEPT !.roc = v].next = m.next /\ [m EXCEPT !.slot = v].next = m.next
        /\ [m EXCEPT !.det = v].next = m.next /\ [m EXCEPT !.nsub = v].next = m.next
        /\ [m EXCEPT !.bsub = v].next = m.next /\ m.next \in Nat
    BY DEF Maps
  <2> DEFINE new == ReadLine(m, line)
  <2>4. new \in Maps /\ new.next = m.next
    <3> HIDE DEF new
    <3>1. new \in {[m EXCEPT !.roc = v], [m EXCEPT !.slot = v], [m EXCEPT !.det = v],
                   [m EXCEPT !.nsub = v], [m EXCEPT !.bsub = v]}
      BY <2>3 DEF new
    <3>2. QED
      BY <2>a, <2>b, <3>1, Zenon
  <2>5. QED
    BY <2>4, <2>b DEF line
<1>3. QED
  BY <1>1, <1>2

\* What a map is before any line.
LEMMA ClearIs ==
  /\ ClearMap \in Maps
  /\ ClearMap.roc = -1 /\ ClearMap.slot = -1 /\ ClearMap.det = -1 /\ ClearMap.next = 1
  /\ \A rs \in Slots : ClearMap.slotpointer[rs] = -1
  /\ \A p \in 1 .. MaxMap : ClearMap.didmap[p] = -1
BY DEF ClearMap, Maps, UNINST_ID

\* r has the maps the lines make one by one.
ReadsLines(r) ==
  /\ r[0] = ClearMap
  /\ \A n \in 1 .. Len(MapFile) : r[n] = ReadLine(r[n - 1], MapFile[n])
  /\ \A n \in 0 .. Len(MapFile) : r[n] \in Maps

\* The lines are read one by one.
LEMMA LinesRead == \E r : ReadsLines(r) /\ DecodeConfig = r[Len(MapFile)]
<1> DEFINE N == Len(MapFile)
           Reads(f) == [n \in 0 .. N |-> IF n = 0 THEN ClearMap ELSE ReadLine(f[n - 1], MapFile[n])]
           F == [n \in 1 .. N |-> [m \in Maps |-> ReadLine(m, MapFile[n])]]
           r == CHOOSE f : f = Reads(f)
<1>1. N \in Nat
  BY DecodeMapAssumption
<1>2. F \in [1 .. N -> [Maps -> Maps]]
  BY LineRead
<1> HIDE DEF F
<1>3. PICK g : IsRecursionTo(g, N, Maps, ClearMap, F)
  <2> HIDE DEF N
  <2>1. QED
    BY <1>1, <1>2, ClearIs, RecursionTo
<1>4. g \in [0 .. N -> Maps] /\ g[0] = ClearMap /\ \A n \in 1 .. N : g[n] = F[n][g[n - 1]]
  BY <1>3 DEF IsRecursionTo
<1>5. ASSUME NEW n \in 1 .. N  PROVE g[n] = ReadLine(g[n - 1], MapFile[n])
  <2>1. g[n - 1] \in Maps
    <3>1. n - 1 \in 0 .. N
      BY <1>1
    <3>2. QED
      BY <1>4, <3>1
  <2>2. F[n][g[n - 1]] = ReadLine(g[n - 1], MapFile[n])
    BY <2>1 DEF F
  <2>3. QED
    BY <1>4, <2>2
<1>6. g = Reads(g)
  <2>1. ASSUME NEW n \in 0 .. N
        PROVE  g[n] = IF n = 0 THEN ClearMap ELSE ReadLine(g[n - 1], MapFile[n])
    <3>1. n = 0 \/ n \in 1 .. N
      BY <1>1
    <3>2. QED
      BY <1>4, <1>5, <3>1
  <2>2. g = [n \in 0 .. N |-> g[n]]
    BY <1>4
  <2>3. QED
    BY <2>1, <2>2
<1>7. DecodeConfig = r[N]
  BY Zenon DEF DecodeConfig
<1>8. r = Reads(r)
  <2> HIDE DEF Reads
  <2>1. QED
    BY <1>6, Zenon
<1> HIDE DEF r
<1>9. /\ r[0] = ClearMap
      /\ \A n \in 1 .. N : r[n] = ReadLine(r[n - 1], MapFile[n])
  <2>1. ASSUME NEW n \in 0 .. N
        PROVE  r[n] = IF n = 0 THEN ClearMap ELSE ReadLine(r[n - 1], MapFile[n])
    <3>1. Reads(r)[n] = IF n = 0 THEN ClearMap ELSE ReadLine(r[n - 1], MapFile[n])
      OBVIOUS
    <3> HIDE DEF Reads
    <3>2. QED
      BY <1>8, <3>1, Zenon
  <2>2. 0 \in 0 .. N /\ \A n \in 1 .. N : n \in 0 .. N /\ n # 0
    BY <1>1
  <2>3. QED
    BY <2>1, <2>2
<1>10. r \in [0 .. N -> Maps]
  <2>1. \A n \in 1 .. N : r[n - 1] \in Maps => r[n] \in Maps
    BY <1>9, LineRead
  <2>2. r = [n \in 0 .. N |-> r[n]]
    <3>1. r = [n \in 0 .. N |-> IF n = 0 THEN ClearMap ELSE ReadLine(r[n - 1], MapFile[n])]
      BY <1>8
    <3>2. QED
      BY <3>1
  <2>3. r[0] \in Maps
    BY <1>9, ClearIs
  <2> HIDE DEF N
  <2>4. QED
    BY <1>1, <2>1, <2>2, <2>3, RecursionTyped
<1>11. ReadsLines(r)
  BY <1>9, <1>10 DEF ReadsLines
<1>12. QED
  BY <1>7, <1>11

\* No map on the way has given more places than the last.
LEMMA RoomBefore ==
  ASSUME NEW r, ReadsLines(r)
  PROVE  \A n \in 0 .. Len(MapFile) : r[n].next <= r[Len(MapFile)].next
<1> DEFINE N == Len(MapFile)
           S == {d \in 0 .. N : r[N - d].next <= r[N].next}
<1>1. N \in Nat
  BY DecodeMapAssumption
<1>2. \A n \in 0 .. N : r[n] \in Maps /\ r[n].next \in Nat
  BY DEF ReadsLines, Maps
<1>3. 0 \in S
  BY <1>1, <1>2
<1>4. ASSUME NEW d \in 0 .. N - 1, d \in S  PROVE d + 1 \in S
  <2> DEFINE k == N - d
  <2>1. k \in 1 .. N /\ k - 1 = N - (d + 1) /\ d + 1 \in 0 .. N /\ k \in 0 .. N /\ k - 1 \in 0 .. N
    BY <1>1
  <2>2. r[k].next <= r[N].next
    BY <1>4
  <2> HIDE DEF k
  <2>3. r[k] = ReadLine(r[k - 1], MapFile[k]) /\ r[k - 1] \in Maps
    BY <1>2, <2>1 DEF ReadsLines
  <2>4. r[k].next >= r[k - 1].next
    BY <2>1, <2>3, LineRead
  <2>5. N \in 0 .. N
    BY <1>1
  <2>6. r[k - 1].next <= r[N].next
    BY <1>2, <2>1, <2>2, <2>4, <2>5
  <2>7. QED
    BY <2>1, <2>6
<1> HIDE DEF S
<1>5. 0 .. N \subseteq S
  BY <1>1, <1>3, <1>4, UpTo
<1>6. ASSUME NEW n \in 0 .. N  PROVE r[n].next <= r[N].next
  <2>1. N - n \in 0 .. N /\ N - (N - n) = n
    BY <1>1
  <2>2. QED
    BY <1>5, <2>1 DEF S
<1>7. QED
  BY <1>6

\* The setting in force behind a line is the line's, or the one before.
LEMMA InForceNext ==
  ASSUME NEW key \in Keys, NEW n \in 1 .. Len(MapFile)
  PROVE  InForce(key, n + 1) = IF MapFile[n].key = key THEN MapFile[n].value ELSE InForce(key, n)
<1> DEFINE S(k) == {j \in 1 .. k - 1 : MapFile[j].key = key}
           Latest(k) == CHOOSE j \in S(k) : \A i \in S(k) : i <= j
<1>1. \A k : InForce(key, k) = IF S(k) = {} THEN UNINST_ID ELSE MapFile[Latest(k)].value
  BY Zenon DEF InForce
<1>2. n \in Nat /\ n >= 1
  OBVIOUS
<1>3. CASE MapFile[n].key = key
  <2>1. n \in S(n + 1) /\ \A i \in S(n + 1) : i <= n /\ i \in Nat
    BY <1>2, <1>3
  <2> HIDE DEF S
  <2>2. \A j \in S(n + 1) : (\A i \in S(n + 1) : i <= j) => j = n
    BY <2>1, <1>2
  <2>3. Latest(n + 1) \in S(n + 1) /\ \A i \in S(n + 1) : i <= Latest(n + 1)
    <3>1. \E j \in S(n + 1) : \A i \in S(n + 1) : i <= j
      BY <2>1
    <3>2. QED
      BY <3>1, Zenon
  <2> HIDE DEF Latest
  <2>4. Latest(n + 1) = n /\ S(n + 1) # {}
    BY <2>1, <2>2, <2>3
  <2>5. QED
    BY <1>1, <1>3, <2>4
<1>4. CASE MapFile[n].key # key
  <2>1. S(n + 1) = S(n)
    BY <1>2, <1>4
  <2>2. Latest(n + 1) = Latest(n)
    <3> HIDE DEF S
    <3>1. QED
      BY <2>1, Zenon
  <2> HIDE DEF S, Latest
  <2>3. QED
    BY <1>1, <1>4, <2>1, <2>2
<1>5. QED
  BY <1>3, <1>4

\* Before the first line nothing is in force.
LEMMA InForceFirst ==
  ASSUME NEW key
  PROVE  InForce(key, 1) = -1
<1>1. {j \in 1 .. 1 - 1 : MapFile[j].key = key} = {}
  OBVIOUS
<1>2. QED
  BY <1>1 DEF InForce, UNINST_ID

\* Settings are numbers.
LEMMA InForceType ==
  ASSUME NEW key \in Keys
  PROVE  \A n \in 0 .. Len(MapFile) : InForce(key, n + 1) \in Nat \union {-1}
<1> DEFINE S == {n \in 0 .. Len(MapFile) : InForce(key, n + 1) \in Nat \union {-1}}
<1>1. Len(MapFile) \in Nat
  BY DecodeMapAssumption
<1>2. 0 \in S
  BY <1>1, InForceFirst
<1>3. ASSUME NEW n \in 0 .. Len(MapFile) - 1, n \in S  PROVE n + 1 \in S
  <2>1. n + 1 \in 1 .. Len(MapFile) /\ n + 1 \in 0 .. Len(MapFile)
    BY <1>1
  <2>2. InForce(key, (n + 1) + 1) =
          IF MapFile[n + 1].key = key THEN MapFile[n + 1].value ELSE InForce(key, n + 1)
    BY <2>1, InForceNext
  <2>3. MapFile[n + 1].key = key => MapFile[n + 1].value \in Nat
    BY <2>1, LineIs DEF Keys
  <2>4. InForce(key, n + 1) \in Nat \union {-1}
    BY <1>3
  <2>5. QED
    BY <2>1, <2>2, <2>3, <2>4
<1> HIDE DEF S
<1>4. 0 .. Len(MapFile) \subseteq S
  BY <1>1, <1>2, <1>3, UpTo
<1>5. QED
  BY <1>4 DEF S

\* The channels given by the first n lines, and where a map has the channel of a
\* line.
Given(n) == {k \in ChannelLines : k <= n}

PlaceIn(m, k) == m.slotpointer[SlotOf(k)] + MapFile[k].sub

\* The settings of a map that has read n lines.
SettingsRead(m, n) ==
  /\ m.roc = InForce("roc", n + 1) /\ m.slot = InForce("slot", n + 1)
  /\ m.det = InForce("det", n + 1)
  /\ InForce("nsub", n + 1) >= 0 => m.nsub = InForce("nsub", n + 1)

\* Two slots do not share places.
Apart(m, j, k) ==
  \/ m.slotpointer[SlotOf(j)] + ChannelsAt(j) <= m.slotpointer[SlotOf(k)]
  \/ m.slotpointer[SlotOf(k)] + ChannelsAt(k) <= m.slotpointer[SlotOf(j)]

\* Its slots.
SlotsPlaced(m, n) ==
  /\ \A rs \in Slots : m.slotpointer[rs] >= 0 => \E k \in Given(n) : SlotOf(k) = rs
  /\ \A k \in Given(n) : /\ m.slotpointer[SlotOf(k)] >= 1
                         /\ m.slotpointer[SlotOf(k)] + ChannelsAt(k) <= m.next
  /\ \A j, k \in Given(n) : SlotOf(j) # SlotOf(k) => Apart(m, j, k)

\* Its channels.
ChannelsPlaced(m, n) ==
  /\ \A k \in Given(n) : /\ m.didmap[PlaceIn(m, k)] = InForce("det", k)
                         /\ m.planemap[PlaceIn(m, k)] = MapFile[k].plane
  /\ \A p \in 1 .. MaxMap : m.didmap[p] = UNINST_ID \/ \E k \in Given(n) : p = PlaceIn(m, k)

Read(m, n) == SettingsRead(m, n) /\ SlotsPlaced(m, n) /\ ChannelsPlaced(m, n)

\* A line with a setting changes no places.
LEMMA SettingRead ==
  ASSUME NEW m \in Maps, NEW n \in 1 .. Len(MapFile), Read(m, n - 1), MapFile[n].key # "channel"
  PROVE  Read(ReadLine(m, MapFile[n]), n)
<1> DEFINE line == MapFile[n]
           new == ReadLine(m, line)
           v == line.value
<1>1. line.key \in Keys /\ v \in Nat
  BY LineIs
<1>2. \A key \in Keys : InForce(key, n + 1) = IF line.key = key THEN v ELSE InForce(key, (n - 1) + 1)
  <2>1. (n - 1) + 1 = n
    OBVIOUS
  <2>2. QED
    BY <2>1, InForceNext
<1>3. Given(n) = Given(n - 1)
  <2>1. \A k \in ChannelLines : k \in 1 .. Len(MapFile) /\ k # n
    BY DecodeMapAssumption DEF ChannelLines
  <2>2. QED
    BY <2>1 DEF Given
<1> HIDE DEF line
<1>4. /\ new.slotpointer = m.slotpointer /\ new.next = m.next
      /\ new.didmap = m.didmap /\ new.planemap = m.planemap
      /\ new.roc = (IF line.key = "roc" THEN v ELSE m.roc)
      /\ new.slot = (IF line.key = "slot" THEN v ELSE m.slot)
      /\ new.det = (IF line.key = "det" THEN v ELSE m.det)
      /\ new.nsub = (IF line.key = "nsub" THEN v ELSE m.nsub)
  <2>1. CASE line.key = "roc"
    <3>1. new = [m EXCEPT !.roc = v]
      BY <2>1 DEF ReadLine
    <3>2. QED
      BY <2>1, <3>1 DEF Maps
  <2>2. CASE line.key = "slot"
    <3>1. new = [m EXCEPT !.slot = v]
      BY <2>2 DEF ReadLine
    <3>2. QED
      BY <2>2, <3>1 DEF Maps
  <2>3. CASE line.key = "det"
    <3>1. new = [m EXCEPT !.det = v]
      BY <2>3 DEF ReadLine
    <3>2. QED
      BY <2>3, <3>1 DEF Maps
  <2>4. CASE line.key = "nsub"
    <3>1. new = [m EXCEPT !.nsub = v]
      BY <2>4 DEF ReadLine
    <3>2. QED
      BY <2>4, <3>1 DEF Maps
  <2>5. CASE line.key = "bsub"
    <3>1. new = [m EXCEPT !.bsub = v]
      BY <2>5 DEF ReadLine
    <3>2. QED
      BY <2>5, <3>1 DEF Maps
  <2>6. QED
    BY <1>1, <2>1, <2>2, <2>3, <2>4, <2>5 DEF Keys
<1> HIDE DEF new, v
<1>5. SettingsRead(new, n)
  <2>1. SettingsRead(m, n - 1)
    BY DEF Read
  <2>2. QED
    BY <1>2, <1>4, <2>1 DEF SettingsRead, Keys
<1>6. SlotsPlaced(new, n)
  <2>1. SlotsPlaced(m, n - 1)
    BY DEF Read
  <2>2. QED
    BY <1>3, <1>4, <2>1 DEF SlotsPlaced, Apart
<1>7. ChannelsPlaced(new, n)
  <2>1. ChannelsPlaced(m, n - 1)
    BY DEF Read
  <2>2. \A k : PlaceIn(new, k) = PlaceIn(m, k)
    BY <1>4 DEF PlaceIn
  <2>3. QED
    BY <1>3, <1>4, <2>1, <2>2 DEF ChannelsPlaced
<1>8. QED
  BY <1>5, <1>6, <1>7 DEF Read, new, line

\* A channel's line gives one channel more.
LEMMA GivenNext ==
  ASSUME NEW n \in ChannelLines
  PROVE  \A k : k \in Given(n) <=> k = n \/ k \in Given(n - 1)
<1>1. \A k \in ChannelLines : k \in Nat
  BY DecodeMapAssumption DEF ChannelLines
<1>2. \A k \in ChannelLines : k <= n <=> k = n \/ k <= n - 1
  BY <1>1
<1>3. \A k : (k \in Given(n) <=> k \in ChannelLines /\ k <= n)
             /\ (k \in Given(n - 1) <=> k \in ChannelLines /\ k <= n - 1)
  BY Zenon DEF Given
<1>4. QED
  BY <1>2, <1>3

\* A channel's line leaves the other slots their places, and gives its own, if it
\* is new, places of its own.
LEMMA SlotRead ==
  ASSUME MapFits, NEW m \in Maps, NEW n \in ChannelLines, Read(m, n - 1),
         NEW new \in Maps, new.next = WithSlot(m).next,
         new.slotpointer = WithSlot(m).slotpointer
  PROVE  /\ SlotsPlaced(new, n)
         /\ \A k \in Given(n - 1) : new.slotpointer[SlotOf(k)] = m.slotpointer[SlotOf(k)]
<1> DEFINE rs == SlotOf(n)
           sp == m.slotpointer
           np == new.slotpointer
<1>1. n \in 1 .. Len(MapFile) /\ n \in Nat /\ (n - 1) + 1 = n /\ Len(MapFile) \in Nat
  BY DecodeMapAssumption DEF ChannelLines
<1>2. rs \in Slots /\ MapFile[n].sub < ChannelsAt(n) /\ MapFile[n].sub \in Nat
  BY <1>1, LineIs DEF MapFits, ChannelLines
<1>3. \A k \in ChannelLines : SlotOf(k) \in Slots /\ ChannelsAt(k) \in Int /\ k \in Nat
  <2>1. ASSUME NEW k \in ChannelLines  PROVE ChannelsAt(k) \in Int
    <3>1. k - 1 \in 0 .. Len(MapFile) /\ (k - 1) + 1 = k
      BY <1>1, DecodeMapAssumption DEF ChannelLines
    <3>2. InForce("nsub", (k - 1) + 1) \in Nat \union {-1}
      BY <3>1, InForceType DEF Keys
    <3>3. QED
      BY <3>1, <3>2 DEF ChannelsAt
  <2>2. \A k \in ChannelLines : k \in Nat
    BY DecodeMapAssumption DEF ChannelLines
  <2>3. QED
    BY <2>1, <2>2 DEF MapFits
<1>4. \A k : k \in Given(n) <=> k = n \/ k \in Given(n - 1)
  BY GivenNext
<1>5. \A k \in Given(n - 1) : k \in ChannelLines
  BY DEF Given
<1>6. SettingsRead(m, n - 1) /\ SlotsPlaced(m, n - 1)
  BY DEF Read
<1>7. <<m.roc, m.slot>> = rs /\ m.nsub = ChannelsAt(n) /\ m.next \in Nat \ {0}
  <2>1. InForce("nsub", n) >= 0
    BY <1>2, <1>3 DEF ChannelsAt
  <2>2. QED
    BY <1>1, <1>6, <2>1 DEF SettingsRead, SlotOf, ChannelsAt, Maps
<1>8. sp \in [Slots -> Int]
  BY DEF Maps
<1>9. \A k \in ChannelLines : SlotOf(k) = rs => ChannelsAt(k) = ChannelsAt(n)
  BY DEF MapFits
<1>10. CASE sp[rs] >= 0
  <2>1. np = sp /\ new.next = m.next
    BY <1>7, <1>10, SlotGiven
  <2>2. PICK j \in Given(n - 1) : SlotOf(j) = rs
    BY <1>2, <1>6, <1>10 DEF SlotsPlaced
  <2>3. ChannelsAt(j) = ChannelsAt(n)
    BY <1>5, <1>9, <2>2
  <2>4. np[rs] >= 1 /\ np[rs] + ChannelsAt(n) <= new.next
    BY <1>6, <2>1, <2>2, <2>3 DEF SlotsPlaced
  <2>5. \A k \in Given(n - 1) : SlotOf(k) # rs => Apart(new, n, k) /\ Apart(new, k, n)
    BY <1>6, <2>1, <2>2, <2>3 DEF SlotsPlaced, Apart
  <2>6. SlotsPlaced(new, n)
    <3>1. \A s \in Slots : np[s] >= 0 => \E k \in Given(n) : SlotOf(k) = s
      BY <1>4, <1>6, <2>1 DEF SlotsPlaced
    <3>2. \A k \in Given(n) : np[SlotOf(k)] >= 1 /\ np[SlotOf(k)] + ChannelsAt(k) <= new.next
      BY <1>4, <1>6, <2>1, <2>4 DEF SlotsPlaced
    <3>3. \A j1, k \in Given(n) : SlotOf(j1) # SlotOf(k) => Apart(new, j1, k)
      BY <1>4, <1>6, <2>1, <2>5 DEF SlotsPlaced, Apart
    <3>4. QED
      BY <3>1, <3>2, <3>3 DEF SlotsPlaced
  <2>7. QED
    BY <2>1, <2>6
<1>11. CASE ~(sp[rs] >= 0)
  <2>1. np = [sp EXCEPT ![rs] = m.next] /\ new.next = m.next + ChannelsAt(n)
    BY <1>7, <1>11, SlotGiven
  <2>2. np[rs] = m.next /\ \A s \in Slots \ {rs} : np[s] = sp[s]
    BY <1>2, <1>8, <2>1
  <2>3. \A k \in Given(n - 1) : sp[SlotOf(k)] >= 1 /\ sp[SlotOf(k)] \in Int /\ SlotOf(k) \in Slots
                                /\ sp[SlotOf(k)] + ChannelsAt(k) <= m.next
    BY <1>3, <1>5, <1>6, <1>8 DEF SlotsPlaced
  <2>4. \A k \in Given(n - 1) : SlotOf(k) # rs /\ np[SlotOf(k)] = sp[SlotOf(k)]
    BY <1>11, <2>2, <2>3
  <2>5. ChannelsAt(n) >= 0 /\ ChannelsAt(n) \in Int
    BY <1>2, <1>3
  <2>6. SlotsPlaced(new, n)
    <3>1. \A s \in Slots : np[s] >= 0 => \E k \in Given(n) : SlotOf(k) = s
      BY <1>4, <1>6, <2>2 DEF SlotsPlaced
    <3>2. \A k \in Given(n) : np[SlotOf(k)] >= 1 /\ np[SlotOf(k)] + ChannelsAt(k) <= new.next
      <4>1. ASSUME NEW k \in Given(n - 1)
            PROVE  np[SlotOf(k)] >= 1 /\ np[SlotOf(k)] + ChannelsAt(k) <= new.next
        BY <1>3, <1>5, <1>7, <2>1, <2>3, <2>4, <2>5
      <4>2. np[rs] >= 1 /\ np[rs] + ChannelsAt(n) <= new.next
        BY <1>7, <2>1, <2>2, <2>5
      <4>3. QED
        BY <1>4, <4>1, <4>2
    <3>3. \A k \in Given(n - 1) : Apart(new, n, k) /\ Apart(new, k, n)
      BY <2>2, <2>3, <2>4 DEF Apart
    <3>4. \A j, k \in Given(n - 1) : SlotOf(j) # SlotOf(k) => Apart(new, j, k)
      BY <1>6, <2>4 DEF SlotsPlaced, Apart
    <3>5. \A j, k \in Given(n) : SlotOf(j) # SlotOf(k) => Apart(new, j, k)
      BY <1>4, <3>3, <3>4
    <3>6. QED
      BY <3>1, <3>2, <3>5 DEF SlotsPlaced
  <2>7. QED
    BY <2>4, <2>6
<1>12. QED
  BY <1>10, <1>11

\* No two lines have the same place, and all places are below the next to give.
LEMMA PlacesDiffer ==
  ASSUME MapFits, NEW m \in Maps, NEW n \in 0 .. Len(MapFile), SlotsPlaced(m, n)
  PROVE  /\ \A k \in Given(n) : PlaceIn(m, k) \in 1 .. m.next - 1
         /\ \A j, k \in Given(n) : j # k => PlaceIn(m, j) # PlaceIn(m, k)
         /\ \A rs \in Slots, sub \in Nat :
              (\E j \in Given(n) : SlotOf(j) = rs /\ sub < ChannelsAt(j)) =>
                \A k \in Given(n) : m.slotpointer[rs] + sub = PlaceIn(m, k) =>
                  SlotOf(k) = rs /\ MapFile[k].sub = sub
<1>1. \A k \in Given(n) : /\ k \in ChannelLines /\ k \in 1 .. Len(MapFile) /\ SlotOf(k) \in Slots
                          /\ MapFile[k].sub \in Nat /\ MapFile[k].sub < ChannelsAt(k)
  <2>1. ASSUME NEW k \in Given(n)
        PROVE  /\ k \in ChannelLines /\ k \in 1 .. Len(MapFile) /\ SlotOf(k) \in Slots
               /\ MapFile[k].sub \in Nat /\ MapFile[k].sub < ChannelsAt(k)
    <3>1. k \in ChannelLines
      BY DEF Given
    <3>2. k \in 1 .. Len(MapFile) /\ MapFile[k].key = "channel"
      BY <3>1, DecodeMapAssumption DEF ChannelLines
    <3>3. MapFile[k].sub \in Nat
      BY <3>2, LineIs
    <3>4. SlotOf(k) \in Slots /\ MapFile[k].sub < ChannelsAt(k)
      BY <3>1 DEF MapFits
    <3>5. QED
      BY <3>1, <3>2, <3>3, <3>4
  <2>2. QED
    BY <2>1
<1>2. \A k \in Given(n) : ChannelsAt(k) \in Int
  <2>1. ASSUME NEW k \in Given(n)  PROVE ChannelsAt(k) \in Int
    <3>1. k - 1 \in 0 .. Len(MapFile) /\ (k - 1) + 1 = k
      BY <1>1, DecodeMapAssumption
    <3>2. InForce("nsub", (k - 1) + 1) \in Nat \union {-1}
      BY <3>1, InForceType DEF Keys
    <3>3. QED
      BY <3>1, <3>2 DEF ChannelsAt
  <2>2. QED
    BY <2>1
<1>3. m.slotpointer \in [Slots -> Int] /\ m.next \in Nat
  BY DEF Maps
<1>4. \A k \in Given(n) : m.slotpointer[SlotOf(k)] >= 1
                          /\ m.slotpointer[SlotOf(k)] + ChannelsAt(k) <= m.next
  BY DEF SlotsPlaced
<1>5. \A k \in Given(n) : PlaceIn(m, k) \in 1 .. m.next - 1
  BY <1>1, <1>2, <1>3, <1>4 DEF PlaceIn
<1>6. ASSUME NEW j \in Given(n), NEW k \in Given(n), NEW sub \in Nat, sub < ChannelsAt(j),
             m.slotpointer[SlotOf(j)] + sub = PlaceIn(m, k)
      PROVE  SlotOf(k) = SlotOf(j) /\ MapFile[k].sub = sub
  <2>1. CASE SlotOf(j) = SlotOf(k)
    BY <1>1, <1>3, <1>6, <2>1 DEF PlaceIn
  <2>2. CASE SlotOf(j) # SlotOf(k)
    <3>1. Apart(m, j, k)
      BY <2>2 DEF SlotsPlaced
    <3>2. QED
      BY <1>1, <1>2, <1>3, <1>6, <3>1, SMTT(30) DEF PlaceIn, Apart
  <2>3. QED
    BY <2>1, <2>2
<1>7. ASSUME NEW j \in Given(n), NEW k \in Given(n), PlaceIn(m, j) = PlaceIn(m, k)
      PROVE  j = k
  <2>1. SlotOf(k) = SlotOf(j) /\ MapFile[k].sub = MapFile[j].sub
    BY <1>1, <1>6, <1>7 DEF PlaceIn
  <2>2. QED
    BY <1>1, <2>1 DEF MapFits
<1>8. QED
  BY <1>5, <1>6, <1>7

\* A channel's line gives the channel its place.
LEMMA ChannelRead ==
  ASSUME MapFits, NEW m \in Maps, NEW n \in ChannelLines, Read(m, n - 1),
         ReadLine(m, MapFile[n]).next <= MaxMap + 1
  PROVE  Read(ReadLine(m, MapFile[n]), n)
<1> DEFINE line == MapFile[n]
           new == ReadLine(m, line)
           place == new.slotpointer[SlotOf(n)] + line.sub
<1>1. /\ n \in 1 .. Len(MapFile) /\ n \in Nat /\ (n - 1) + 1 = n /\ Len(MapFile) \in Nat
      /\ n \in 0 .. Len(MapFile) /\ line.key = "channel"
  BY DecodeMapAssumption DEF ChannelLines
<1>2. line.sub \in Nat /\ line.plane \in Nat
  BY <1>1, LineIs
<1>3. new = Channel(m, line)
  BY <1>1 DEF ReadLine
<1>4. SettingsRead(m, n - 1) /\ SlotsPlaced(m, n - 1) /\ ChannelsPlaced(m, n - 1)
  BY DEF Read
<1>5. <<m.roc, m.slot>> = SlotOf(n) /\ m.det = InForce("det", n)
  BY <1>1, <1>4 DEF SettingsRead, SlotOf
<1>6. /\ new \in Maps
      /\ new.roc = m.roc /\ new.slot = m.slot /\ new.det = m.det /\ new.nsub = m.nsub
      /\ new.next = WithSlot(m).next /\ new.slotpointer = WithSlot(m).slotpointer
      /\ new.didmap = [m.didmap EXCEPT ![place] = m.det]
      /\ new.planemap = [m.planemap EXCEPT ![place] = line.plane]
  <2> DEFINE made == WithSlot(m)
             there == made.slotpointer[<<m.roc, m.slot>>] + line.sub
  <2>1. /\ new \in Maps
        /\ new.roc = m.roc /\ new.slot = m.slot /\ new.det = m.det /\ new.nsub = m.nsub
        /\ new.next = made.next /\ new.slotpointer = made.slotpointer
        /\ new.didmap = [m.didmap EXCEPT ![there] = m.det]
        /\ new.planemap = [m.planemap EXCEPT ![there] = line.plane]
    <3> HIDE DEF line, new
    <3>1. QED
      BY <1>2, <1>3, ChannelGiven, Zenon
  <2>2. there = place
    <3> HIDE DEF line, new, made
    <3>1. QED
      BY <1>5, <2>1
  <2> HIDE DEF there, place, new, line
  <2>3. QED
    BY <2>1, <2>2, Zenon
<1>7. SettingsRead(new, n)
  <2>1. \A key \in Keys : InForce(key, n + 1) = InForce(key, (n - 1) + 1)
    BY <1>1, InForceNext DEF Keys
  <2>2. QED
    BY <1>4, <1>6, <2>1 DEF SettingsRead, Keys
<1> HIDE DEF new, line
<1>8. /\ SlotsPlaced(new, n)
      /\ \A k \in Given(n - 1) : new.slotpointer[SlotOf(k)] = m.slotpointer[SlotOf(k)]
  BY <1>6, SlotRead
<1>9. \A k \in Given(n - 1) : PlaceIn(new, k) = PlaceIn(m, k)
  BY <1>8 DEF PlaceIn
<1>10. \A k : k \in Given(n) <=> k = n \/ k \in Given(n - 1)
  BY GivenNext
<1>11. \A k \in Given(n - 1) : k # n
  BY <1>1 DEF Given
<1>12. PlaceIn(new, n) = place
  BY DEF PlaceIn, line
<1>13. /\ \A k \in Given(n) : PlaceIn(new, k) \in 1 .. new.next - 1
       /\ \A j, k \in Given(n) : j # k => PlaceIn(new, j) # PlaceIn(new, k)
  BY <1>1, <1>6, <1>8, PlacesDiffer
<1>14. new.next <= MaxMap + 1 /\ new.next \in Nat /\ MaxMap \in Nat
  BY <1>6, DecodeMapAssumption DEF new, line, Maps
<1>15. \A k \in Given(n) : PlaceIn(new, k) \in 1 .. MaxMap
  BY <1>13, <1>14
<1> HIDE DEF place
<1>16. m.didmap \in [1 .. MaxMap -> Int] /\ m.planemap \in [1 .. MaxMap -> Int]
  BY DEF Maps
<1>17. ChannelsPlaced(new, n)
  <2>1. new.didmap[place] = InForce("det", n) /\ new.planemap[place] = line.plane
    BY <1>5, <1>6, <1>10, <1>12, <1>15, <1>16
  <2>2. \A p \in 1 .. MaxMap : p # place =>
          new.didmap[p] = m.didmap[p] /\ new.planemap[p] = m.planemap[p]
    BY <1>6, <1>16
  <2>3. ASSUME NEW k \in Given(n - 1)
        PROVE  /\ new.didmap[PlaceIn(new, k)] = InForce("det", k)
               /\ new.planemap[PlaceIn(new, k)] = MapFile[k].plane
    <3>1. PlaceIn(new, k) # place /\ PlaceIn(new, k) \in 1 .. MaxMap
      BY <1>10, <1>11, <1>12, <1>13, <1>15
    <3>2. m.didmap[PlaceIn(m, k)] = InForce("det", k) /\ m.planemap[PlaceIn(m, k)] = MapFile[k].plane
      BY <1>4 DEF ChannelsPlaced
    <3>3. PlaceIn(new, k) = PlaceIn(m, k)
      BY <1>9
    <3>4. QED
      BY <2>2, <3>1, <3>2, <3>3
  <2>4. ASSUME NEW p \in 1 .. MaxMap
        PROVE  new.didmap[p] = UNINST_ID \/ \E k \in Given(n) : p = PlaceIn(new, k)
    <3>1. m.didmap[p] = UNINST_ID \/ \E k \in Given(n - 1) : p = PlaceIn(m, k)
      BY <1>4 DEF ChannelsPlaced
    <3>2. QED
      BY <1>9, <1>10, <1>12, <2>2, <3>1
  <2>5. \A k \in Given(n) : /\ new.didmap[PlaceIn(new, k)] = InForce("det", k)
                            /\ new.planemap[PlaceIn(new, k)] = MapFile[k].plane
    BY <1>10, <1>12, <2>1, <2>3 DEF line
  <2>6. QED
    BY <2>4, <2>5 DEF ChannelsPlaced
<1>18. QED
  BY <1>7, <1>8, <1>17 DEF Read, new, line

\* The map after all lines.
LEMMA ConfigRead ==
  ASSUME MapFits
  PROVE  DecodeConfig \in Maps /\ Read(DecodeConfig, Len(MapFile))
<1>0. PICK r : ReadsLines(r) /\ DecodeConfig = r[Len(MapFile)]
  BY LinesRead
<1> DEFINE N == Len(MapFile)
           S == {n \in 0 .. N : Read(r[n], n)}
<1>1. N \in Nat
  BY DecodeMapAssumption
<1>2. 0 \in S
  <2>1. Given(0) = {}
    BY DecodeMapAssumption DEF Given, ChannelLines
  <2>2. \A key \in Keys : InForce(key, 0 + 1) = -1
    BY InForceFirst
  <2>3. SettingsRead(ClearMap, 0)
    BY <2>2, ClearIs DEF SettingsRead, Keys
  <2>4. SlotsPlaced(ClearMap, 0) /\ ChannelsPlaced(ClearMap, 0)
    BY <2>1, ClearIs DEF SlotsPlaced, ChannelsPlaced, UNINST_ID
  <2>5. QED
    BY <1>0, <1>1, <2>3, <2>4 DEF Read, ReadsLines
<1>3. ASSUME NEW n \in 0 .. N - 1, n \in S  PROVE n + 1 \in S
  <2> DEFINE m == r[n]
  <2>1. n + 1 \in 1 .. N /\ (n + 1) - 1 = n /\ n \in 0 .. N /\ n + 1 \in 0 .. N
    BY <1>1
  <2>2. m \in Maps /\ Read(m, (n + 1) - 1) /\ r[n + 1] = ReadLine(m, MapFile[n + 1])
        /\ r[n + 1] \in Maps /\ r[N] \in Maps
    BY <1>0, <1>1, <1>3, <2>1 DEF ReadsLines
  <2> HIDE DEF m
  <2>3. CASE MapFile[n + 1].key = "channel"
    <3>1. n + 1 \in ChannelLines
      BY <2>1, <2>3, DecodeMapAssumption DEF ChannelLines
    <3>2. ReadLine(m, MapFile[n + 1]).next <= MaxMap + 1
      <4>1. r[n + 1].next <= r[N].next
        BY <1>0, <2>1, RoomBefore
      <4>2. r[N].next <= MaxMap + 1
        BY <1>0 DEF MapFits
      <4>3. r[n + 1].next \in Nat /\ r[N].next \in Nat /\ MaxMap \in Nat
        BY <2>2, DecodeMapAssumption DEF Maps
      <4>4. QED
        BY <2>2, <4>1, <4>2, <4>3
    <3>3. QED
      BY <2>1, <2>2, <3>1, <3>2, ChannelRead
  <2>4. CASE MapFile[n + 1].key # "channel"
    BY <2>1, <2>2, <2>4, SettingRead
  <2>5. QED
    BY <2>3, <2>4
<1> HIDE DEF S
<1>4. 0 .. N \subseteq S
  BY <1>1, <1>2, <1>3, UpTo
<1>5. N \in 0 .. N
  BY <1>1
<1>6. QED
  BY <1>0, <1>4, <1>5 DEF S, ReadsLines

\* The map is what its file says, for every file the arrays have room for: slots
\* get their places with their first channel, whatever other slots the lines
\* between are for, and no channel of one is taken for one of another
\* (g_decode_config.f:91-220 and the places computed in g_decode_all_bank.f).
THEOREM MapRead == MapFits => MapAsWritten(DecodeConfig)
<1> SUFFICES ASSUME MapFits PROVE MapAsWritten(DecodeConfig)
  OBVIOUS
<1> DEFINE m == DecodeConfig
           N == Len(MapFile)
<1>1. m \in Maps /\ SettingsRead(m, N) /\ SlotsPlaced(m, N) /\ ChannelsPlaced(m, N)
      /\ N \in Nat /\ N \in 0 .. N
  BY ConfigRead, DecodeMapAssumption DEF Read
<1>2. \A k : k \in Given(N) <=> k \in ChannelLines
  BY DecodeMapAssumption DEF Given, ChannelLines
<1>3. m.next <= MaxMap + 1 /\ m.next \in Nat /\ MaxMap \in Nat
  BY <1>1, DecodeMapAssumption DEF MapFits, Maps
<1> HIDE DEF m
<1>4. /\ \A k \in Given(N) : PlaceIn(m, k) \in 1 .. m.next - 1
      /\ \A rs \in Slots, sub \in Nat :
           (\E j \in Given(N) : SlotOf(j) = rs /\ sub < ChannelsAt(j)) =>
             \A k \in Given(N) : m.slotpointer[rs] + sub = PlaceIn(m, k) =>
               SlotOf(k) = rs /\ MapFile[k].sub = sub
  BY <1>1, PlacesDiffer
<1>5. ASSUME NEW k \in ChannelLines
      PROVE  /\ DidAt(m, SlotOf(k)[1], SlotOf(k)[2], MapFile[k].sub) = InForce("det", k)
             /\ PlaneAt(m, SlotOf(k)[1], SlotOf(k)[2], MapFile[k].sub) = MapFile[k].plane
  <2>1. <<SlotOf(k)[1], SlotOf(k)[2]>> = SlotOf(k)
    BY DEF SlotOf
  <2>2. PlaceOf(m, SlotOf(k)[1], SlotOf(k)[2], MapFile[k].sub) = PlaceIn(m, k)
    BY <2>1, Zenon DEF PlaceOf, PlaceIn
  <2>3. PlaceIn(m, k) \in 1 .. MaxMap
    BY <1>2, <1>3, <1>4
  <2>4. m.slotpointer[SlotOf(k)] >= 1 /\ m.slotpointer[SlotOf(k)] \in Int
    BY <1>1, <1>2 DEF SlotsPlaced, MapFits, Maps
  <2>5. m.didmap[PlaceIn(m, k)] = InForce("det", k) /\ m.planemap[PlaceIn(m, k)] = MapFile[k].plane
    BY <1>1, <1>2 DEF ChannelsPlaced
  <2>6. QED
    BY <2>1, <2>2, <2>3, <2>4, <2>5 DEF DidAt, PlaneAt
<1>6. ASSUME NEW rs \in Slots, NEW sub \in 0 .. MaxMap, LinesFor(rs[1], rs[2], sub) = {},
             \A k \in ChannelLines : SlotOf(k) = rs => sub < ChannelsAt(k)
      PROVE  DidAt(m, rs[1], rs[2], sub) = UNINST_ID
  <2>1. <<rs[1], rs[2]>> = rs
    BY DEF Slots
  <2> DEFINE p == m.slotpointer[rs] + sub
  <2>2. DidAt(m, rs[1], rs[2], sub) =
          IF m.slotpointer[rs] > 0 /\ p \in 1 .. MaxMap THEN m.didmap[p] ELSE UNINST_ID
    BY <2>1 DEF DidAt, PlaceOf
  <2>3. SUFFICES ASSUME m.slotpointer[rs] > 0, p \in 1 .. MaxMap  PROVE m.didmap[p] = UNINST_ID
    BY <2>2
  <2>4. m.slotpointer[rs] \in Int
    BY <1>1 DEF Maps
  <2>5. PICK j \in Given(N) : SlotOf(j) = rs
    BY <1>1, <2>3, <2>4 DEF SlotsPlaced
  <2>6. sub < ChannelsAt(j) /\ sub \in Nat
    BY <1>2, <1>3, <1>6, <2>5
  <2>7. \A k \in ChannelLines : ~(SlotOf(k) = rs /\ MapFile[k].sub = sub)
    <3>1. SUFFICES ASSUME NEW k \in ChannelLines, SlotOf(k) = rs, MapFile[k].sub = sub
                   PROVE  k \in LinesFor(rs[1], rs[2], sub)
      BY <1>6
    <3>2. k \in DOMAIN MapFile /\ MapFile[k].key = "channel"
      BY <3>1 DEF ChannelLines
    <3>3. InForce("roc", k) = rs[1] /\ InForce("slot", k) = rs[2]
      BY <3>1 DEF SlotOf
    <3>4. QED
      BY <3>1, <3>2, <3>3, Zenon DEF LinesFor
  <2>8. \A k \in Given(N) : p # PlaceIn(m, k)
    BY <1>2, <1>4, <2>5, <2>6, <2>7
  <2>9. QED
    BY <1>1, <2>3, <2>8 DEF ChannelsPlaced
<1>7. QED
  BY <1>5, <1>6 DEF MapAsWritten, m

-----------------------------------------------------------------------------
(* Banks of one crate: every word for the decoding, and no other, is a hit. *)

\* What the map says of a word is what the walk finds in it.
LEMMA WordMeans ==
  ASSUME MapDecoded, NEW bank, AsSent(bank), Len(bank) \in Nat, DOMAIN bank = 1 .. Len(bank),
         NEW i \in DOMAIN bank
  PROVE  /\ Mapped(bank, i) <=> Wanted(bank, i)
         /\ IsReference(bank, i) <=> Wanted(bank, i) /\ Reference(bank, i)
         /\ Wanted(bank, i) => /\ DetOf(bank, i) = DidIn(bank, i) /\ CrateOf(bank, i) = RocOf(bank)
                               /\ i >= 3 /\ RocOf(bank) \in Crates
<1>1. MapFits /\ (\A k \in ChannelLines : SlotOf(k)[1] \in Crates) /\ MapAsWritten(map)
  BY MapRead DEF MapDecoded, map
<1>2. UNINST_ID \notin Detectors
  BY EventBanksAssumption DEF UNINST_ID
<1>3. CASE bank[i].kind # "data"
  <2>1. LinesOfWord(bank, i) = {}
    BY <1>3 DEF LinesOfWord
  <2>2. QED
    BY <1>3, <2>1, Zenon DEF Mapped, IsReference, Wanted
<1>4. CASE bank[i].kind = "data"
  <2> DEFINE roc == RocOf(bank)
             slot == SlotIn(bank, i)
             sub == bank[i].sub
             lines == LinesFor(roc, slot, sub)
  <2>1. i \in 3 .. Len(bank) /\ i \in Int
    <3>1. i # 1 /\ i # 2
      BY <1>4 DEF AsSent
    <3>2. QED
      BY <3>1
  <2>2. CrateOf(bank, i) = roc
    <3> DEFINE P(j) == bank[j].kind = "tag" /\ \A k \in (j + 1) .. i : bank[k].kind # "tag"
    <3>1. \A j \in 1 .. i : bank[j].kind = "tag" <=> j = 2
      BY <2>1 DEF AsSent
    <3>2. 2 \in 1 .. i /\ P(2)
      <4>1. \A k \in 3 .. i : k \in 1 .. i /\ k # 2
        BY <2>1
      <4>2. 2 \in 1 .. i
        BY <2>1
      <4>3. QED
        BY <3>1, <4>1, <4>2
    <3>3. \A j \in 1 .. i : P(j) => j = 2
      BY <3>1
    <3> HIDE DEF P
    <3>4. (CHOOSE j \in 1 .. i : P(j)) = 2
      BY <3>2, <3>3
    <3>5. CrateOf(bank, i) = bank[CHOOSE j \in 1 .. i : P(j)].roc
      BY Zenon DEF CrateOf, P
    <3>6. QED
      BY <3>4, <3>5 DEF RocOf
  <2>3. Sub(bank[i]) = sub /\ InModule(bank[i])
    BY <1>4 DEF Sub, InModule
  <2>4. LinesOfWord(bank, i) = lines
    BY <1>4, <2>2, Zenon DEF LinesOfWord, SlotIn
  <2>5. \A k \in lines : /\ k \in ChannelLines /\ SlotOf(k) = <<roc, slot>> /\ MapFile[k].sub = sub
    BY DEF LinesFor, ChannelLines, SlotOf
  <2> HIDE DEF lines
  <2>6. CASE roc \notin Crates
    <3>1. lines = {}
      <4>1. \A k \in lines : roc \in Crates
        BY <1>1, <2>5
      <4>2. QED
        BY <2>6, <4>1
    <3>2. DidIn(bank, i) = UNINST_ID
      BY <2>6 DEF DidIn
    <3>3. QED
      BY <1>2, <2>4, <3>1, <3>2, Zenon DEF Mapped, IsReference, Wanted
  <2>7. CASE roc \in Crates
    <3>1. WordAsSent(bank, i)
      BY <2>1, <2>7 DEF AsSent
    <3>2. slot \in 1 .. MaxSlots /\ sub \in 0 .. MaxMap
          /\ \A k \in ChannelLines : SlotOf(k) = <<roc, slot>> => sub < ChannelsAt(k)
      <4>1. MaxMap \in Nat
        BY DecodeMapAssumption
      <4>2. slot \in 1 .. MaxSlots /\ sub \in Nat /\ sub <= MaxMap
        BY <1>4, <2>3, <3>1 DEF WordAsSent, DataAsSent
      <4>3. \A k \in ChannelLines : SlotOf(k) = <<roc, slot>> => sub < ChannelsAt(k)
        BY <1>4, <2>3, <3>1 DEF WordAsSent, DataAsSent
      <4>4. QED
        BY <4>1, <4>2, <4>3
    <3>3. DidIn(bank, i) = DidAt(map, roc, slot, sub)
      BY <2>3, <2>7, <3>2, Zenon DEF DidIn
    <3>4. CASE lines = {}
      <4>1. <<roc, slot>> \in Slots
        BY <2>7, <3>2, DecodeMapAssumption DEF Crates, Slots
      <4>2. \A rs \in Slots, s \in 0 .. MaxMap :
              /\ LinesFor(rs[1], rs[2], s) = {}
              /\ \A k \in ChannelLines : SlotOf(k) = rs => s < ChannelsAt(k)
              => DidAt(map, rs[1], rs[2], s) = UNINST_ID
        BY <1>1, Zenon DEF MapAsWritten
      <4>3. LinesFor(<<roc, slot>>[1], <<roc, slot>>[2], sub) = {}
        BY <3>4 DEF lines
      <4>4. DidAt(map, roc, slot, sub) = UNINST_ID
        BY <3>2, <4>1, <4>2, <4>3
      <4>5. QED
        BY <1>2, <2>4, <3>3, <3>4, <4>4, Zenon DEF Mapped, IsReference, Wanted
    <3>5. CASE lines # {}
      <4> DEFINE c == CHOOSE k \in lines : TRUE
      <4>1. c \in lines
        BY <3>5
      <4>2. \A k \in lines : DidAt(map, roc, slot, sub) = InForce("det", k)
                             /\ PlaneAt(map, roc, slot, sub) = MapFile[k].plane
        <5>1. SUFFICES ASSUME NEW k \in lines
                       PROVE  DidAt(map, roc, slot, sub) = InForce("det", k)
                              /\ PlaneAt(map, roc, slot, sub) = MapFile[k].plane
          OBVIOUS
        <5>2. k \in ChannelLines /\ MapFile[k].sub = sub /\ SlotOf(k)[1] = roc /\ SlotOf(k)[2] = slot
          BY <2>5
        <5>3. /\ DidAt(map, SlotOf(k)[1], SlotOf(k)[2], MapFile[k].sub) = InForce("det", k)
              /\ PlaneAt(map, SlotOf(k)[1], SlotOf(k)[2], MapFile[k].sub) = MapFile[k].plane
          BY <1>1, <5>2, Zenon DEF MapAsWritten
        <5>4. QED
          BY <5>2, <5>3
      <4>3. DetOf(bank, i) = InForce("det", c)
        BY <2>4, Zenon DEF DetOf
      <4> HIDE DEF c
      <4>4. DetOf(bank, i) = DidIn(bank, i)
        BY <3>3, <4>1, <4>2, <4>3
      <4>5. Mapped(bank, i) <=> Wanted(bank, i)
        BY <1>4, <2>4, <3>5, <4>4, Zenon DEF Mapped, Wanted
      <4>6. (\A k \in lines : MapFile[k].plane \in ReferPlanes) <=> PlaneAt(map, roc, slot, sub) \in ReferPlanes
        BY <4>1, <4>2
      <4>7. IsReference(bank, i) <=> Wanted(bank, i) /\ Reference(bank, i)
        BY <2>3, <2>4, <4>4, <4>5, <4>6 DEF IsReference, Reference
      <4>8. QED
        BY <2>1, <2>2, <2>7, <4>4, <4>5, <4>7
    <3>6. QED
      BY <3>4, <3>5
  <2>8. QED
    BY <2>6, <2>7
<1>5. QED
  BY <1>3, <1>4

\* The banks of a physics event are as the crates send them.
LEMMA BankFacts ==
  ASSUME BanksAsSent, EventsInv, event.kind = "physics", NEW b \in DOMAIN event.banks
  PROVE  /\ Len(event.banks[b]) \in Nat /\ DOMAIN event.banks[b] = 1 .. Len(event.banks[b])
         /\ AsSent(event.banks[b]) /\ b \in Nat \ {0}
<1>1. event \in Events
  BY DEF EventsInv, NoEvent
<1>2. DOMAIN event.banks = 1 .. Len(event.banks) /\ Len(event.banks) \in Nat
      /\ Len(event.banks[b]) \in Nat /\ DOMAIN event.banks[b] = 1 .. Len(event.banks[b])
  BY <1>1, EventBanksAssumption
<1>3. AsSent(event.banks[b])
  BY <1>1 DEF BanksAsSent
<1>4. QED
  BY <1>2, <1>3

\* A word for the decoding is of a crate with times.
LEMMA WantedCrate ==
  ASSUME NEW bank, NEW i, Wanted(bank, i)
  PROVE  RocOf(bank) \in Crates /\ RocOf(bank) \in 1 .. MaxRocs
<1>1. UNINST_ID \notin Detectors
  BY EventBanksAssumption DEF UNINST_ID
<1>2. QED
  BY <1>1 DEF Wanted, DidIn, Crates

\* Whatever is done stays done, and what the walk comes past is done, or is not
\* for the decoding.
LEMMA RoutedStays ==
  ASSUME RoutedInv, HitsInv', UNCHANGED <<stream, event>>, event.kind = "physics",
         \A k \in DOMAIN taken : k \in DOMAIN taken' /\ taken'[k] = taken[k],
         \A k \in DOMAIN taken' : k \in DOMAIN taken \/ IsHit(taken'[k]),
         DOMAIN g_f1_refer_time' = 1 .. MaxRocs, DOMAIN g_f1_trigger_time' = 1 .. MaxRocs,
         \A r \in 1 .. MaxRocs : g_f1_refer_time'[r] \in {g_f1_refer_time[r], Now},
         \A r \in 1 .. MaxRocs : g_f1_trigger_time'[r] \in {g_f1_trigger_time[r], Now},
         \A b \in DOMAIN event.banks : \A i \in DOMAIN event.banks[b] :
           Past(b, i)' /\ ~Past(b, i) /\ Wanted(event.banks[b], i) => Done(b, i)',
         \A b \in DOMAIN event.banks : \A j \in 3 .. (Len(event.banks[b]) - 1) :
           Past(b, j + 1)' /\ ~Past(b, j + 1) /\ Trailer(event.banks[b], j) =>
             g_f1_trigger_time'[RocOf(event.banks[b])] = Now,
         pc' = "event" => ~More',
         pc' \in {"bank", "detector"} => BankInv(Bank, Place.word)'
  PROVE  RoutedInv'
<1>1. WordsDone /\ HitsWanted /\ TrailersDone
  BY DEF RoutedInv
<1>2. Now' = Now
  BY DEF Now
<1>3. ASSUME NEW b \in DOMAIN event.banks, NEW i \in DOMAIN event.banks[b],
             Wanted(event.banks[b], i), Done(b, i)
      PROVE  Done(b, i)'
  <2>1. RocOf(event.banks[b]) \in 1 .. MaxRocs
    BY <1>3, WantedCrate
  <2>2. CASE Reference(event.banks[b], i)
    <3>1. g_f1_refer_time[RocOf(event.banks[b])] = Now
      BY <1>3, <2>2, Zenon DEF Done
    <3>2. g_f1_refer_time'[RocOf(event.banks[b])] = Now
      BY <2>1, <3>1
    <3>3. QED
      BY <1>2, <2>2, <3>2, Zenon DEF Done
  <2>3. CASE ~Reference(event.banks[b], i)
    <3>1. PICK k \in DOMAIN taken : taken[k].bank = b /\ taken[k].word = i
      BY <1>3, <2>3, Zenon DEF Done
    <3>2. k \in DOMAIN taken' /\ taken'[k].bank = b /\ taken'[k].word = i
      BY <3>1
    <3>3. QED
      BY <2>3, <3>2, Zenon DEF Done
  <2>4. QED
    BY <2>2, <2>3
<1>4. WordsDone'
  <2>1. SUFFICES ASSUME NEW b \in DOMAIN event.banks, NEW i \in DOMAIN event.banks[b],
                        Past(b, i)', Wanted(event.banks[b], i)
                 PROVE  Done(b, i)'
    BY Zenon DEF WordsDone
  <2>2. CASE Past(b, i)
    <3>1. Done(b, i)
      BY <1>1, <2>1, <2>2 DEF WordsDone
    <3>2. QED
      BY <1>3, <2>1, <3>1
  <2>3. CASE ~Past(b, i)
    BY <2>1, <2>3
  <2>4. QED
    BY <2>2, <2>3
<1>5. HitsWanted'
  <2>1. SUFFICES ASSUME NEW k \in DOMAIN taken'  PROVE IsHit(taken'[k])
    BY Zenon DEF HitsWanted, IsHit
  <2>2. CASE k \in DOMAIN taken
    BY <1>1, <2>2 DEF HitsWanted
  <2>3. QED
    BY <2>2
<1>6. TrailersDone'
  <2>1. SUFFICES ASSUME NEW b \in DOMAIN event.banks, NEW j \in 3 .. (Len(event.banks[b]) - 1),
                        Past(b, j + 1)', Trailer(event.banks[b], j)
                 PROVE  g_f1_trigger_time'[RocOf(event.banks[b])] = Now
    BY <1>2, Zenon DEF TrailersDone
  <2>2. CASE Past(b, j + 1)
    <3>1. g_f1_trigger_time[RocOf(event.banks[b])] = Now
      BY <1>1, <2>1, <2>2 DEF TrailersDone
    <3>2. RocOf(event.banks[b]) \in 1 .. MaxRocs
      BY <2>1, WantedCrate DEF Trailer
    <3>3. QED
      BY <3>1, <3>2
  <2>3. QED
    BY <2>1, <2>2
<1>7. QED
  BY <1>4, <1>5, <1>6 DEF RoutedInv

\* The walk goes on in a bank, from the word p to the word q.
LEMMA WalkOn ==
  ASSUME RoutedInv, HitsInv', BanksAsSent, UNCHANGED <<stream, event, bankpointer>>, event.kind = "physics",
         pc \in {"bank", "detector"}, pc' \in {"bank", "detector"},
         NEW B, B = Bank, NEW here, here = bankpointer, NEW p \in Nat, NEW q \in Nat, Place.word = p, Place'.word = q,
         \A k \in DOMAIN taken : k \in DOMAIN taken' /\ taken'[k] = taken[k],
         \A k \in DOMAIN taken' : k \in DOMAIN taken \/ IsHit(taken'[k]),
         DOMAIN g_f1_refer_time' = 1 .. MaxRocs, DOMAIN g_f1_trigger_time' = 1 .. MaxRocs,
         \A r \in 1 .. MaxRocs : g_f1_refer_time'[r] \in {g_f1_refer_time[r], Now},
         \A r \in 1 .. MaxRocs : g_f1_trigger_time'[r] \in {g_f1_trigger_time[r], Now},
         \A i \in p .. q - 1 : i \in DOMAIN B /\ Wanted(B, i) => Done(here, i)',
         \A j \in 3 .. (Len(B) - 1) : j + 1 \in p .. q - 1 /\ Trailer(B, j) =>
           g_f1_trigger_time'[RocOf(B)] = Now,
         BankInv(B, q)'
  PROVE  RoutedInv'
<1>1. Place = [bank |-> here, word |-> p] /\ Place' = [bank |-> here, word |-> q] /\ here \in Nat
  BY DEF Place, RoutedInv, HitsInv, WalkInv
<1>2. B = event.banks[here]
  BY DEF Bank
<1>3. ASSUME NEW b \in DOMAIN event.banks, NEW i \in Nat, Past(b, i)', ~Past(b, i)
      PROVE  b = here /\ i \in p .. q - 1
  <2>1. b \in Nat
    BY <1>3, BankFacts DEF RoutedInv, HitsInv
  <2>2. b < here \/ (b = here /\ i < q)
    BY <1>1, <1>3 DEF Past, Earlier
  <2>3. ~(b < here \/ (b = here /\ i < p))
    BY <1>1, <1>3 DEF Past, Earlier
  <2>4. QED
    BY <1>1, <2>1, <2>2, <2>3
<1>4. ASSUME NEW b \in DOMAIN event.banks, NEW i \in DOMAIN event.banks[b],
             Past(b, i)', ~Past(b, i), Wanted(event.banks[b], i)
      PROVE  Done(b, i)'
  <2>1. i \in Nat
    BY BankFacts DEF RoutedInv, HitsInv
  <2>2. b = here /\ i \in p .. q - 1
    BY <1>3, <1>4, <2>1
  <2>3. QED
    BY <1>2, <1>4, <2>2
<1>5. ASSUME NEW b \in DOMAIN event.banks, NEW j \in 3 .. (Len(event.banks[b]) - 1),
             Past(b, j + 1)', ~Past(b, j + 1), Trailer(event.banks[b], j)
      PROVE  g_f1_trigger_time'[RocOf(event.banks[b])] = Now
  <2>1. j + 1 \in Nat
    OBVIOUS
  <2>2. b = here /\ j + 1 \in p .. q - 1
    BY <1>3, <1>5, <2>1
  <2>3. QED
    BY <1>2, <1>5, <2>2
<1>6. BankInv(Bank, Place.word)'
  <2>1. B = Bank' /\ q = Place'.word
    BY DEF Bank
  <2>2. QED
    BY <2>1
<1>7. pc' # "event"
  OBVIOUS
<1>8. QED
  BY <1>4, <1>5, <1>6, <1>7, RoutedStays

\* Where the walk is in a bank.
LEMMA InBank ==
  ASSUME RoutedInv, BanksAsSent, event.kind = "physics", pc \in {"bank", "detector"}, NEW B, B = Bank
  PROVE  /\ AsSent(B) /\ Len(B) \in Nat /\ DOMAIN B = 1 .. Len(B)
         /\ RocOf(B) \in Crates /\ RocOf(B) \in 1 .. MaxRocs
         /\ \A i \in 3 .. Len(B) : WordAsSent(B, i)
         /\ at.roc = RocOf(B) /\ at.last_first = Len(B)
         /\ bankpointer \in DOMAIN event.banks /\ B = event.banks[bankpointer]
         /\ BankInv(B, Place.word)
         /\ \A i : Word(i) = IF i \in 1 .. Len(B) THEN B[i] ELSE Beyond
<1>1. EventsInv /\ WalkInv /\ More /\ bankpointer \in Nat \ {0} /\ BankInv(B, Place.word)
  BY DEF RoutedInv, HitsInv, WalkInv
<1>2. bankpointer \in DOMAIN event.banks
  <2>1. event \in Events
    BY <1>1 DEF EventsInv, NoEvent
  <2>2. QED
    BY <1>1, <2>1, EventBanksAssumption DEF More
<1>3. B = event.banks[bankpointer]
  BY DEF Bank
<1>4. AsSent(B) /\ Len(B) \in Nat /\ DOMAIN B = 1 .. Len(B)
  BY <1>1, <1>2, <1>3, BankFacts
<1>5. RocOf(B) \in Crates /\ RocOf(B) \in 1 .. MaxRocs
  BY <1>1 DEF BankInv, Crates
<1>6. \A i \in 3 .. Len(B) : WordAsSent(B, i)
  BY <1>4, <1>5 DEF AsSent
<1>7. \A i : Word(i) = IF i \in 1 .. Len(B) THEN B[i] ELSE Beyond
  BY <1>4, Zenon DEF Word
<1>8. Word(2) = B[2] /\ RocOf(B) \notin ParallelRocs
  BY <1>4, <1>7 DEF AsSent
<1>9. at.roc = RocOf(B) /\ at.last_first = Len(B)
  BY <1>1, <1>8 DEF WalkInv, RocKept, RocOf
<1>10. QED
  BY <1>1, <1>2, <1>3, <1>4, <1>5, <1>6, <1>7, <1>9

\* What a word says of its slot and its detector, in a bank of the crates.
LEMMA SlotGood ==
  ASSUME NEW B, RocOf(B) \in Crates, NEW i
  PROVE  /\ SlotIn(B, i) \in 1 .. MaxSlots =>
              DidIn(B, i) = DidAt(map, RocOf(B), SlotIn(B, i), Sub(B[i]))
         /\ SlotIn(B, i) \notin 1 .. MaxSlots => DidIn(B, i) \notin Detectors
<1>1. UNINST_ID \notin Detectors
  BY EventBanksAssumption DEF UNINST_ID
<1>2. QED
  BY <1>1, Zenon DEF DidIn

\* Lengths have no slot of a detector.
LEMMA CountHasNoSlot ==
  ASSUME NEW B, NEW i \in 3 .. Len(B), Len(B) \in Nat, WordAsSent(B, i), B[i].kind = "count",
         \A j \in 3 .. Len(B) : WordAsSent(B, j)
  PROVE  SlotIn(B, i) = 0
<1>1. Slot(B[i]) = 0
  BY DEF Slot, InModule
<1>2. RocOf(B) \notin ShiftedRocs
  <2>1. CASE i > 3 /\ Mismatch(B[i - 1])
    <3>1. i - 1 \in 3 .. Len(B)
      BY <2>1
    <3>2. WordAsSent(B, i - 1)
      BY <3>1
    <3>3. QED
      BY <2>1, <3>2, Zenon DEF WordAsSent
  <2>2. CASE i > 4 /\ Mismatch(B[i - 2])
    <3>1. i - 2 \in 3 .. Len(B)
      BY <2>2
    <3>2. WordAsSent(B, i - 2)
      BY <3>1
    <3>3. QED
      BY <2>2, <3>2, Zenon DEF WordAsSent
  <2>3. QED
    BY <2>1, <2>2 DEF WordAsSent, CountAsSent
<1>3. QED
  BY <1>1, <1>2 DEF SlotIn, ShiftedSlot

\* The headers that a turn of the loop passes over are no words for the decoding.
LEMMA HeadersSkipped ==
  ASSUME NEW B, Len(B) \in Nat, \A i \in 3 .. Len(B) : WordAsSent(B, i), VmeBank(B),
         \A i : Word(i) = IF i \in 1 .. Len(B) THEN B[i] ELSE Beyond,
         NEW p \in 3 .. Len(B),
         p > 3 /\ Wanted(B, p - 1) => DidIn(B, p) # DidIn(B, p - 1)
  PROVE  /\ SkipHeaders(p) \in Nat /\ SkipHeaders(p) >= p
         /\ \A i \in p .. SkipHeaders(p) - 1 : i \in 1 .. Len(B) => ~Wanted(B, i)
         /\ SkipHeaders(p) \in 1 .. Len(B) => B[SkipHeaders(p)].kind # "crate"
<1> DEFINE past(q, test) == IF test THEN q + 1 ELSE q
           q1 == past(p, Word(p).kind = "crate")
           q2 == past(q1, Bit24(Word(q1)))
           q3 == past(q2, Bit25(Word(q2)))
           q4 == past(q3, ~Bit23(Word(q3)))
<1>1. SkipHeaders(p) = q4
  BY Zenon DEF SkipHeaders, q1, q2, q3
<1>2. ASSUME NEW i \in 3 .. Len(B)
      PROVE  /\ B[i].kind = "data" => B[i].module = "f1"
             /\ B[i].kind = "begin" => B[i].module = "f1"
             /\ B[i].kind = "crate" => i = 3
  BY DEF WordAsSent, DataAsSent
<1>3. q1 \in {p, p + 1} /\ (q1 = p + 1 => p = 3 /\ B[p].kind = "crate") /\ (q1 = p => B[p].kind # "crate")
  BY <1>2
<1> HIDE DEF q1
<1>4. q2 \in {q1, q1 + 1} /\ (q2 = q1 + 1 => q1 \in 1 .. Len(B) /\ B[q1].kind = "data" /\ B[q1].b24)
  BY <1>3 DEF Bit24, Beyond
<1> HIDE DEF q2
<1>5. q3 = q2
  <2>1. ~Bit25(Word(q2))
    <3>1. CASE q2 \in 1 .. Len(B)
      <4>1. q2 \in 3 .. Len(B)
        BY <1>3, <1>4, <3>1
      <4>2. QED
        BY <1>2, <3>1, <4>1 DEF Bit25
    <3>2. CASE q2 \notin 1 .. Len(B)
      BY <3>2 DEF Bit25, Beyond
    <3>3. QED
      BY <3>1, <3>2
  <2>2. QED
    BY <2>1
<1> HIDE DEF q3
<1>6. q4 \in {q3, q3 + 1} /\ (q4 = q3 + 1 => q3 \notin 1 .. Len(B) \/ B[q3].kind # "data")
  <2>1. CASE q3 \in 1 .. Len(B) /\ B[q3].kind = "data"
    <3>1. q3 \in 3 .. Len(B)
      BY <1>3, <1>4, <1>5, <2>1
    <3>2. Bit23(Word(q3))
      BY <1>2, <2>1, <3>1 DEF Bit23
    <3>3. QED
      BY <3>2
  <2>2. QED
    BY <2>1
<1> HIDE DEF q4
<1>7. q1 \in Nat /\ q2 \in Nat /\ q3 \in Nat /\ q4 \in Nat /\ q4 >= p
  BY <1>3, <1>4, <1>5, <1>6
<1>8. ASSUME NEW i \in p .. q4 - 1, i \in 1 .. Len(B), Wanted(B, i)
      PROVE  FALSE
  <2>1. B[i].kind = "data" /\ i \in 3 .. Len(B) /\ WordAsSent(B, i)
    BY <1>8 DEF Wanted
  <2>2. CASE i = q3 /\ q4 = q3 + 1
    BY <1>6, <1>8, <2>1, <2>2
  <2>3. CASE i = q1 /\ q2 = q1 + 1
    <3>1. i > 3 /\ B[i - 1].kind = "data" /\ DidIn(B, i - 1) = DidIn(B, i)
      BY <1>4, <1>8, <2>1, <2>3 DEF WordAsSent, DataAsSent
    <3>2. CASE q1 = p
      <4>1. Wanted(B, p - 1)
        BY <1>8, <2>3, <3>1, <3>2 DEF Wanted
      <4>2. QED
        BY <2>3, <3>1, <3>2, <4>1
    <3>3. CASE q1 = p + 1
      BY <1>3, <2>3, <3>1, <3>3
    <3>4. QED
      BY <1>3, <3>2, <3>3
  <2>4. CASE i = p /\ q1 = p + 1
    BY <1>3, <2>1, <2>4
  <2>5. QED
    BY <1>3, <1>4, <1>5, <1>6, <1>8, <2>2, <2>3, <2>4
<1>9. ASSUME q4 \in 1 .. Len(B), B[q4].kind = "crate"
      PROVE  FALSE
  <2>1. q4 \in 3 .. Len(B)
    BY <1>7, <1>9
  <2>2. q4 = 3 /\ p = 3
    BY <1>2, <1>7, <1>9, <2>1
  <2>3. q1 = p
    BY <1>3, <1>4, <1>5, <1>6, <2>2
  <2>4. QED
    BY <1>3, <1>9, <2>2, <2>3
<1>10. QED
  BY <1>1, <1>7, <1>8, <1>9

\* The last slot behind a word that leaves its own, and behind words that leave
\* none.
LEMMA SlotLeft ==
  ASSUME NEW B, NEW p \in 3 .. Len(B), Len(B) \in Nat, DOMAIN B = 1 .. Len(B),
         InModule(B[p]), at'.lastslot = SlotIn(B, p)
  PROVE  SlotSeen(B, p + 1)'
<1>1. \E i \in 3 .. p + 1 :
        /\ i \in DOMAIN B /\ InModule(B[i]) /\ at'.lastslot = SlotIn(B, i)
        /\ i = p + 1 /\ B[p + 1].kind = "header" => DidIn(B, p + 1) \notin Detectors
  <2>1. p \in 3 .. p + 1 /\ p \in DOMAIN B /\ p # p + 1
    OBVIOUS
  <2>2. QED
    BY <2>1
<1>2. ASSUME NEW j \in 3 .. p, \A k \in (j + 1) .. p : Silent(B[k])
      PROVE  at'.lastslot = SlotIn(B, j)
  <2>1. ~Silent(B[p])
    BY DEF Silent, InModule
  <2>2. ~(p \in (j + 1) .. p)
    BY <1>2, <2>1
  <2>3. j = p
    BY <2>2
  <2>4. QED
    BY <2>3
<1>3. (p + 1) - 1 = p
  OBVIOUS
<1>4. QED
  BY <1>1, <1>2, <1>3, Zenon DEF SlotSeen

LEMMA SlotStays ==
  ASSUME NEW B, NEW p \in 3 .. Len(B), NEW q \in Nat, q > p, Len(B) \in Nat, DOMAIN B = 1 .. Len(B),
         SlotSeen(B, p), at'.lastslot = at.lastslot,
         \A i \in p .. q - 1 : i \in 3 .. Len(B) /\
           (InModule(B[i]) => DidIn(B, i) \notin Detectors /\ ~(Sub(B[i]) >= InvalidSub))
  PROVE  SlotSeen(B, q)'
<1>1. \/ at'.lastslot = -1
      \/ \E i \in 3 .. q :
          /\ i \in DOMAIN B /\ InModule(B[i]) /\ at'.lastslot = SlotIn(B, i)
          /\ i = q /\ B[q].kind = "header" => DidIn(B, q) \notin Detectors
  <2>1. CASE at.lastslot = -1
    BY <2>1
  <2>2. CASE at.lastslot # -1
    <3>1. PICK i \in 3 .. p : i \in DOMAIN B /\ InModule(B[i]) /\ at.lastslot = SlotIn(B, i)
      BY <2>2, Zenon DEF SlotSeen
    <3>2. i \in 3 .. q /\ i # q
      BY <3>1
    <3>3. QED
      BY <3>1, <3>2
  <2>3. QED
    BY <2>1, <2>2
<1>2. ASSUME NEW j \in 3 .. (q - 1), InModule(B[j]), DidIn(B, j) \in Detectors \/ Sub(B[j]) >= InvalidSub,
             \A k \in (j + 1) .. (q - 1) : Silent(B[k])
      PROVE  at'.lastslot = SlotIn(B, j)
  <2>1. j \notin p .. q - 1
    BY <1>2
  <2>2. j \in 3 .. (p - 1) /\ p \in (j + 1) .. (q - 1) /\ \A k \in (j + 1) .. (p - 1) : k \in (j + 1) .. (q - 1)
    BY <2>1
  <2>3. ~InModule(B[p])
    BY <1>2, <2>2 DEF Silent, InModule
  <2>4. \/ at.lastslot = SlotIn(B, j)
        \/ p \in DOMAIN B /\ InModule(B[p]) /\ at.lastslot = SlotIn(B, p)
    <3>1. \A k \in (j + 1) .. (p - 1) : Silent(B[k])
      BY <1>2, <2>2
    <3>2. QED
      BY <1>2, <2>2, <3>1, Zenon DEF SlotSeen
  <2>5. QED
    BY <2>3, <2>4
<1>3. QED
  BY <1>1, <1>2, Zenon DEF SlotSeen

\* What a turn of the loop over a bank's words finds of its crate.
LEMMA CrateIs ==
  ASSUME NEW B, B = Bank, Len(B) \in Nat, DOMAIN B = 1 .. Len(B), \A i \in 3 .. Len(B) : WordAsSent(B, i),
         at.roc = RocOf(B), at.last_first = Len(B),
         \A i : Word(i) = IF i \in 1 .. Len(B) THEN B[i] ELSE Beyond,
         DOMAIN at = {"pointer", "last_first", "roc", "lastslot", "vme"}, at.pointer \in 3 .. Len(B),
         VmeBank(B) /\ at.pointer > 3 => at.vme /\ mask_vme2 = "F1C",
         ~VmeBank(B) => ~at.vme
  PROVE  /\ DOMAIN Crate = DOMAIN at /\ Crate.roc = RocOf(B) /\ Crate.last_first = Len(B)
         /\ Crate.lastslot = at.lastslot /\ (Crate.vme <=> VmeBank(B))
         /\ VmeBank(B) => ModuleKind(Crate) = "F1C"
<1> DEFINE p == at.pointer
<1>1. ~(p = at.last_first + 1) /\ Word(p) = B[p] /\ WordAsSent(B, p)
  OBVIOUS
<1>2. /\ DOMAIN Crate = DOMAIN at /\ Crate.roc = RocOf(B) /\ Crate.last_first = Len(B)
      /\ Crate.lastslot = at.lastslot
      /\ Crate.vme = (at.vme \/ B[p].kind = "crate" \/ RocOf(B) \in VmeRocs)
  BY <1>1 DEF Crate
<1>3. B[p].kind = "crate" => p = 3 /\ 3 \in DOMAIN B /\ B[p].tag = "F1C"
  BY <1>1 DEF WordAsSent
<1>4. Crate.vme <=> VmeBank(B)
  <2>1. CASE VmeBank(B) /\ p > 3
    BY <1>2, <2>1
  <2>2. CASE VmeBank(B) /\ p = 3
    BY <1>2, <2>2, Zenon DEF VmeBank
  <2>3. CASE ~VmeBank(B)
    BY <1>2, <1>3, <2>3, Zenon DEF VmeBank
  <2>4. QED
    BY <2>1, <2>2, <2>3
<1>5. ASSUME VmeBank(B)  PROVE ModuleKind(Crate) = "F1C"
  <2>1. CASE RocOf(B) \in VmeRocs
    BY <1>2, <2>1 DEF ModuleKind
  <2>2. CASE RocOf(B) \notin VmeRocs /\ B[p].kind = "crate"
    BY <1>1, <1>2, <1>3, <2>2 DEF ModuleKind
  <2>3. CASE RocOf(B) \notin VmeRocs /\ B[p].kind # "crate"
    <3>1. p > 3
      BY <1>5, <2>3 DEF VmeBank
    <3>2. QED
      BY <1>1, <1>2, <1>5, <2>3, <3>1 DEF ModuleKind
  <2>4. QED
    BY <2>1, <2>2, <2>3
<1>6. QED
  BY <1>2, <1>4, <1>5

\* A turn of the loop over a bank's words, from p: it comes to the word q, behind
\* headers that are not for the decoding, and gives it to its detector, or passes
\* it if it has none.
LEMMA TurnSees ==
  ASSUME RoutedInv, BanksAsSent, event.kind = "physics", Turn, NEW B, B = Bank
  PROVE  /\ at.pointer \in 3 .. Len(B)
         /\ VmeBank(B) => at'.vme /\ mask_vme2' = "F1C"
         /\ ~VmeBank(B) => ~at'.vme
         /\ \E q \in Nat :
              /\ q >= at.pointer /\ (~VmeBank(B) => q = at.pointer)
              /\ \A i \in at.pointer .. q - 1 : i \in 1 .. Len(B) => ~Wanted(B, i)
              /\ \/ /\ q <= Len(B) /\ SlotIn(B, q) \in 1 .. MaxSlots /\ DidIn(B, q) \in Detectors
                    /\ B[q].kind # "crate"
                    /\ call' = [did |-> DidIn(B, q), from |-> q, length |-> Len(B) - q + 1, pointer |-> 1]
                    /\ at'.pointer = q /\ at'.lastslot = at.lastslot /\ pc' = "detector"
                 \/ /\ at'.pointer = q + 1 /\ pc' = "bank"
                    /\ q \in 1 .. Len(B) => ~Wanted(B, q)
                    /\ \/ /\ at'.lastslot = at.lastslot
                          /\ q \in 1 .. Len(B) /\ InModule(B[q]) =>
                               DidIn(B, q) \notin Detectors /\ ~(Sub(B[q]) >= InvalidSub)
                       \/ q <= Len(B) /\ InModule(B[q]) /\ at'.lastslot = SlotIn(B, q)
<1>1. pc = "bank" /\ at.pointer <= Len(Bank) /\ mask_vme2' = ModuleKind(Crate)
  BY DEF Turn
<1> DEFINE L == Len(B)
           R == RocOf(B)
<1>2. /\ AsSent(B) /\ L \in Nat /\ DOMAIN B = 1 .. L
      /\ R \in Crates /\ R \in 1 .. MaxRocs
      /\ \A i \in 3 .. L : WordAsSent(B, i)
      /\ at.roc = R /\ at.last_first = L
      /\ BankInv(B, Place.word)
      /\ \A i : Word(i) = IF i \in 1 .. L THEN B[i] ELSE Beyond
  BY <1>1, InBank
<1>3. /\ DOMAIN at = {"pointer", "last_first", "roc", "lastslot", "vme"} /\ at.pointer \in Nat
  BY DEF RoutedInv, HitsInv, WalkInv
<1>4. Place.word = at.pointer
  BY <1>1 DEF Place
<1>5. /\ at.pointer \in 3 .. L
      /\ VmeBank(B) /\ at.pointer > 3 => at.vme /\ mask_vme2 = "F1C"
      /\ ~VmeBank(B) => ~at.vme
      /\ at.pointer > 3 /\ Wanted(B, at.pointer - 1) => DidIn(B, at.pointer) # DidIn(B, at.pointer - 1)
  <2>1. BankInv(B, at.pointer)
    BY <1>2, <1>4
  <2>2. at.pointer >= 3 /\ at.pointer <= L
    BY <1>1, <2>1 DEF BankInv
  <2>3. at.pointer \in 3 .. L /\ (at.pointer > 3 => at.pointer \in 4 .. L)
    BY <1>2, <1>3, <2>2
  <2>4. QED
    BY <1>1, <2>1, <2>3, Zenon DEF BankInv
<1>6. PICK c : c = Crate
  OBVIOUS
<1>7. /\ DOMAIN c = DOMAIN at /\ c.roc = R /\ c.last_first = L
      /\ c.lastslot = at.lastslot /\ (c.vme <=> VmeBank(B))
      /\ VmeBank(B) => mask_vme2' = "F1C"
  <2>1. /\ DOMAIN Crate = DOMAIN at /\ Crate.roc = R /\ Crate.last_first = L
        /\ Crate.lastslot = at.lastslot /\ (Crate.vme <=> VmeBank(B))
        /\ VmeBank(B) => ModuleKind(Crate) = "F1C"
    BY <1>2, <1>3, <1>5, CrateIs
  <2>2. QED
    BY <1>1, <1>6, <2>1
<1>8. PICK p : p = at.pointer
  OBVIOUS
<1>9. PICK q : q = IF c.vme THEN SkipHeaders(p) ELSE p
  OBVIOUS
<1>10. /\ q \in Nat /\ q >= p /\ (~VmeBank(B) => q = p)
       /\ \A i \in p .. q - 1 : i \in 1 .. L => ~Wanted(B, i)
       /\ q \in 1 .. L => B[q].kind # "crate"
  <2>1. CASE VmeBank(B)
    <3>1. q = SkipHeaders(p) /\ p \in 3 .. L /\ (p > 3 /\ Wanted(B, p - 1) => DidIn(B, p) # DidIn(B, p - 1))
      BY <1>5, <1>7, <1>8, <1>9, <2>1
    <3>2. /\ SkipHeaders(p) \in Nat /\ SkipHeaders(p) >= p
          /\ \A i \in p .. SkipHeaders(p) - 1 : i \in 1 .. L => ~Wanted(B, i)
          /\ SkipHeaders(p) \in 1 .. L => B[SkipHeaders(p)].kind # "crate"
      BY <1>2, <2>1, <3>1, HeadersSkipped
    <3>3. QED
      BY <2>1, <3>1, <3>2
  <2>2. CASE ~VmeBank(B)
    <3>1. q = p /\ p \in 3 .. L
      BY <1>5, <1>7, <1>8, <1>9, <2>2
    <3>2. B[p].kind # "crate"
      BY <1>2, <2>2, <3>1 DEF WordAsSent, VmeBank
    <3>3. QED
      BY <3>1, <3>2
  <2>3. QED
    BY <2>1, <2>2
<1> DEFINE slot == ShiftedSlot(Word(q), R)
           good == slot \in 1 .. MaxSlots /\ R \in 1 .. MaxRocs
           did == DidAt(map, R, slot, Sub(Word(q)))
<1>11. \/ /\ good /\ Sub(Word(q)) < InvalidSub /\ did \in Detectors
          /\ call' = [did |-> did, from |-> q, length |-> MaxWords(c, q), pointer |-> 1]
          /\ at' = [c EXCEPT !.pointer = q]
          /\ pc' = "detector"
       \/ /\ good /\ Sub(Word(q)) < InvalidSub /\ did \notin Detectors
          /\ at' = [c EXCEPT !.pointer = q + 1]
          /\ UNCHANGED <<call, pc>>
       \/ /\ good /\ Sub(Word(q)) >= InvalidSub
          /\ at' = [c EXCEPT !.pointer = q + 1, !.lastslot = slot]
          /\ UNCHANGED <<call, pc>>
       \/ /\ ~good
          /\ at' = [c EXCEPT !.pointer = q + 1]
          /\ UNCHANGED <<call, pc>>
  <2>1. c.roc = R
    BY <1>7
  <2>2. QED
    BY <1>6, <1>8, <1>9, <2>1, Zenon DEF Turn
<1>12. slot \in 1 .. MaxSlots => q \in 3 .. L
  <2>1. CASE q \notin 1 .. L
    <3>1. Word(q) = Beyond
      BY <1>2, <2>1
    <3>2. VmeBank(B)
      BY <1>5, <1>8, <1>10, <2>1
    <3>3. R \notin ShiftedRocs
      BY <1>2, <3>2 DEF AsSent
    <3>4. Slot(Beyond) = 0
      BY DEF Slot, InModule, Beyond
    <3>5. slot = 0
      BY <3>1, <3>3, <3>4, Zenon DEF ShiftedSlot
    <3>6. QED
      BY <3>5
  <2>2. QED
    BY <1>2, <1>5, <1>8, <1>10, <2>1
<1>13. ASSUME q \in 3 .. L
       PROVE  /\ slot = SlotIn(B, q) /\ Word(q) = B[q]
              /\ good => did = DidIn(B, q)
              /\ ~good => DidIn(B, q) \notin Detectors /\ ~InModule(B[q])
  <2>1. Word(q) = B[q] /\ slot = SlotIn(B, q) /\ WordAsSent(B, q)
    <3>1. Word(q) = B[q] /\ WordAsSent(B, q)
      BY <1>2, <1>13
    <3>2. QED
      BY <3>1, Zenon DEF SlotIn
  <2>2. good <=> SlotIn(B, q) \in 1 .. MaxSlots
    BY <1>2, <2>1
  <2>3. did = DidAt(map, R, SlotIn(B, q), Sub(B[q]))
    BY <2>1
  <2> HIDE DEF good, did, slot
  <2>4. QED
    BY <1>2, <2>1, <2>2, <2>3, SlotGood DEF WordAsSent
<1>14. MaxWords(c, q) = L - q + 1
  BY <1>7 DEF MaxWords
<1>15. at'.vme = c.vme
  <2> HIDE DEF slot, good, did
  <2>1. "vme" \in DOMAIN c
    BY <1>3, <1>7
  <2>2. at' \in {[c EXCEPT !.pointer = q], [c EXCEPT !.pointer = q + 1],
                 [c EXCEPT !.pointer = q + 1, !.lastslot = slot]}
    BY <1>11, Zenon
  <2>3. QED
    BY <2>1, <2>2
<1>16. \/ /\ q <= L /\ SlotIn(B, q) \in 1 .. MaxSlots /\ DidIn(B, q) \in Detectors
          /\ B[q].kind # "crate"
          /\ call' = [did |-> DidIn(B, q), from |-> q, length |-> L - q + 1, pointer |-> 1]
          /\ at'.pointer = q /\ at'.lastslot = at.lastslot /\ pc' = "detector"
       \/ /\ at'.pointer = q + 1 /\ pc' = "bank"
          /\ q \in 1 .. L => ~Wanted(B, q)
          /\ \/ /\ at'.lastslot = at.lastslot
                /\ q \in 1 .. L /\ InModule(B[q]) =>
                     DidIn(B, q) \notin Detectors /\ ~(Sub(B[q]) >= InvalidSub)
             \/ q <= L /\ InModule(B[q]) /\ at'.lastslot = SlotIn(B, q)
  <2>0. q \in 1 .. L => q \in 3 .. L
    BY <1>5, <1>8, <1>10
  <2>1. CASE /\ good /\ Sub(Word(q)) < InvalidSub /\ did \in Detectors
             /\ call' = [did |-> did, from |-> q, length |-> MaxWords(c, q), pointer |-> 1]
             /\ at' = [c EXCEPT !.pointer = q]
             /\ pc' = "detector"
    <3>1. q \in 3 .. L /\ slot = SlotIn(B, q) /\ did = DidIn(B, q)
      BY <1>12, <1>13, <2>1
    <3>2. at'.pointer = q /\ at'.lastslot = at.lastslot
      BY <1>3, <1>7, <2>1
    <3> HIDE DEF did, slot
    <3>3. q <= L /\ SlotIn(B, q) \in 1 .. MaxSlots /\ DidIn(B, q) \in Detectors /\ B[q].kind # "crate"
      BY <1>10, <2>1, <3>1
    <3>4. call' = [did |-> DidIn(B, q), from |-> q, length |-> L - q + 1, pointer |-> 1]
      BY <1>14, <2>1, <3>1
    <3>5. QED
      BY <2>1, <3>2, <3>3, <3>4
  <2>2. CASE /\ good /\ Sub(Word(q)) < InvalidSub /\ did \notin Detectors
             /\ at' = [c EXCEPT !.pointer = q + 1]
             /\ UNCHANGED <<call, pc>>
    <3>1. q \in 3 .. L /\ Word(q) = B[q] /\ did = DidIn(B, q)
      BY <1>12, <1>13, <2>2
    <3>2. at'.pointer = q + 1 /\ at'.lastslot = at.lastslot /\ pc' = "bank"
      BY <1>1, <1>3, <1>7, <2>2
    <3> HIDE DEF did, slot
    <3>3. DidIn(B, q) \notin Detectors /\ ~Wanted(B, q)
      BY <2>2, <3>1, Zenon DEF Wanted
    <3>4. InModule(B[q]) => ~(Sub(B[q]) >= InvalidSub)
      BY <1>2, <2>2, <3>1, EventBanksAssumption DEF WordAsSent
    <3>5. QED
      BY <3>2, <3>3, <3>4
  <2>3. CASE /\ good /\ Sub(Word(q)) >= InvalidSub
             /\ at' = [c EXCEPT !.pointer = q + 1, !.lastslot = slot]
             /\ UNCHANGED <<call, pc>>
    <3>1. q \in 3 .. L /\ Word(q) = B[q] /\ slot = SlotIn(B, q)
      BY <1>12, <1>13, <2>3
    <3>2. at'.pointer = q + 1 /\ at'.lastslot = slot /\ pc' = "bank"
      BY <1>1, <1>3, <1>7, <2>3
    <3> HIDE DEF did, slot
    <3>3. WordAsSent(B, q) /\ InvalidSub \in Nat \ {0} /\ B[q].kind # "tag"
      BY <1>2, <3>1, EventBanksAssumption DEF AsSent
    <3>4. InModule(B[q])
      BY <2>3, <3>1, <3>3 DEF Sub
    <3>5. ~Wanted(B, q)
      <4>1. SUFFICES ASSUME Wanted(B, q) PROVE FALSE
        OBVIOUS
      <4>2. Sub(B[q]) < InvalidSub /\ Sub(B[q]) \in Nat
        BY <3>3, <3>4, <4>1 DEF WordAsSent, DataAsSent, Wanted
      <4>3. QED
        BY <2>3, <3>1, <3>3, <4>2
    <3>6. QED
      BY <3>1, <3>2, <3>4, <3>5
  <2>4. CASE /\ ~good
             /\ at' = [c EXCEPT !.pointer = q + 1]
             /\ UNCHANGED <<call, pc>>
    <3>1. at'.pointer = q + 1 /\ at'.lastslot = at.lastslot /\ pc' = "bank"
      BY <1>1, <1>3, <1>7, <2>4
    <3>2. q \in 1 .. L => DidIn(B, q) \notin Detectors /\ ~InModule(B[q])
      BY <1>13, <2>0, <2>4
    <3>3. q \in 1 .. L => ~Wanted(B, q)
      BY <3>2, Zenon DEF Wanted
    <3>4. QED
      BY <3>1, <3>2, <3>3
  <2>5. QED
    BY <1>11, <2>1, <2>2, <2>3, <2>4
<1> HIDE DEF did, slot, good
<1>17. VmeBank(B) => at'.vme /\ mask_vme2' = "F1C"
  BY <1>7, <1>15
<1>18. ~VmeBank(B) => ~at'.vme
  BY <1>7, <1>15
<1>19. QED
  BY <1>5, <1>8, <1>10, <1>16, <1>17, <1>18

\* A turn of the loop over a bank's words loses none.
LEMMA TurnRouted ==
  ASSUME RoutedInv, HitsInv', BanksAsSent, event.kind = "physics", Turn
  PROVE  RoutedInv'
<1>1. /\ pc = "bank"
      /\ UNCHANGED <<stream, event, bankpointer, g_f1_trigger_time, g_f1_refer_time, taken>>
  BY DEF Turn
<1>2. PICK B, p, here : B = Bank /\ p = at.pointer /\ here = bankpointer
  OBVIOUS
<1> DEFINE L == Len(B)
<1>3. /\ L \in Nat /\ DOMAIN B = 1 .. L
      /\ RocOf(B) \in Crates
      /\ \A i \in 3 .. L : WordAsSent(B, i)
      /\ BankInv(B, Place.word)
  BY <1>1, <1>2, InBank
<1>4. Place.word = p
  BY <1>1, <1>2 DEF Place
<1>5. /\ p \in 3 .. L
      /\ VmeBank(B) => at'.vme /\ mask_vme2' = "F1C"
      /\ ~VmeBank(B) => ~at'.vme
  BY <1>2, TurnSees
<1>6. PICK q \in Nat :
        /\ q >= p /\ (~VmeBank(B) => q = p)
        /\ \A i \in p .. q - 1 : i \in 1 .. L => ~Wanted(B, i)
        /\ \/ /\ q <= L /\ SlotIn(B, q) \in 1 .. MaxSlots /\ DidIn(B, q) \in Detectors
              /\ B[q].kind # "crate"
              /\ call' = [did |-> DidIn(B, q), from |-> q, length |-> L - q + 1, pointer |-> 1]
              /\ at'.pointer = q /\ at'.lastslot = at.lastslot /\ pc' = "detector"
           \/ /\ at'.pointer = q + 1 /\ pc' = "bank"
              /\ q \in 1 .. L => ~Wanted(B, q)
              /\ \/ /\ at'.lastslot = at.lastslot
                    /\ q \in 1 .. L /\ InModule(B[q]) =>
                         DidIn(B, q) \notin Detectors /\ ~(Sub(B[q]) >= InvalidSub)
                 \/ q <= L /\ InModule(B[q]) /\ at'.lastslot = SlotIn(B, q)
  BY <1>2, TurnSees, Zenon
<1>7. /\ ~VmeBank(B) => SlotSeen(B, p)
      /\ p > 3 /\ Wanted(B, p - 1) => B[p].kind \notin {"begin", "end"}
  <2>1. p \in 4 .. L <=> p > 3
    BY <1>3, <1>5
  <2>2. QED
    BY <1>1, <1>3, <1>4, <2>1, Zenon DEF BankInv
<1>8. ASSUME NEW n \in Nat, Place'.word = n, BankInv(B, n)', pc' \in {"bank", "detector"}, n >= p,
             \A i \in p .. n - 1 : i \in 1 .. L => ~Wanted(B, i)
      PROVE  RoutedInv'
  <2>1. DOMAIN g_f1_refer_time = 1 .. MaxRocs /\ DOMAIN g_f1_trigger_time = 1 .. MaxRocs
    BY DEF RoutedInv
  <2>2. ASSUME NEW j \in 3 .. (L - 1), j + 1 \in p .. n - 1, Trailer(B, j)
        PROVE  FALSE
    <3>1. Wanted(B, j) /\ B[j + 1].kind \in {"begin", "end"} /\ j \in 1 .. L /\ j \in Nat
      BY <1>3, <2>2 DEF Trailer
    <3>2. j \notin p .. n - 1
      BY <1>8, <3>1
    <3>3. j + 1 = p
      BY <1>5, <2>2, <3>1, <3>2
    <3>4. QED
      BY <1>5, <1>7, <3>1, <3>3
  <2>3. \A i \in p .. n - 1 : i \in DOMAIN B /\ Wanted(B, i) => Done(here, i)'
    BY <1>3, <1>8
  <2>4. \A j \in 3 .. (Len(B) - 1) : j + 1 \in p .. n - 1 /\ Trailer(B, j) =>
          g_f1_trigger_time'[RocOf(B)] = Now
    BY <2>2
  <2>5. \A k \in DOMAIN taken : k \in DOMAIN taken' /\ taken'[k] = taken[k]
    BY <1>1
  <2>6. \A k \in DOMAIN taken' : k \in DOMAIN taken \/ IsHit(taken'[k])
    BY <1>1
  <2>7. p \in Nat
    BY <1>5
  <2>8. QED
    BY <1>1, <1>2, <1>4, <1>8, <2>1, <2>3, <2>4, <2>5, <2>6, <2>7, WalkOn
<1>9. CASE /\ q <= L /\ SlotIn(B, q) \in 1 .. MaxSlots /\ DidIn(B, q) \in Detectors
           /\ B[q].kind # "crate"
           /\ call' = [did |-> DidIn(B, q), from |-> q, length |-> L - q + 1, pointer |-> 1]
           /\ at'.pointer = q /\ at'.lastslot = at.lastslot /\ pc' = "detector"
  <2>1. q \in 3 .. L /\ WordAsSent(B, q)
    BY <1>3, <1>5, <1>6, <1>9
  <2>2. B[q].kind # "count"
    <3>1. SlotIn(B, q) # 0
      BY <1>9
    <3>2. QED
      BY <1>3, <2>1, <3>1, CountHasNoSlot
  <2>3. /\ call'.did = DidIn(B, q) /\ call'.from = q /\ call'.length = L + 1 - q /\ call'.pointer = 1
    BY <1>9, <2>1
  <2>4. CallInv(B, q)'
    <3>1. /\ DidIn(B, q) \in FbDetectors => ~VmeBank(B) /\ RocOf(B) < MaxRocs
          /\ DidIn(B, q) \in AllDetectors => RocOf(B) \notin ShiftedRocs
      BY <2>1, Zenon DEF WordAsSent
    <3>2. q <= L + 1 /\ ~(call'.from < q)
      BY <2>1, <2>3
    <3>3. B[q].kind \notin {"count", "crate"}
      BY <1>9, <2>2
    <3>4. QED
      BY <2>3, <3>1, <3>2, <3>3 DEF CallInv
  <2>5. ~VmeBank(B) => SlotSeen(B, q)'
    <3>1. SUFFICES ASSUME ~VmeBank(B) PROVE SlotSeen(B, p)'
      BY <1>6
    <3>2. at'.lastslot = at.lastslot /\ SlotSeen(B, p)
      BY <1>7, <1>9, <3>1
    <3>3. QED
      BY <3>2 DEF SlotSeen
  <2>6. BankInv(B, q)'
    <3>1. q >= 3 /\ q <= L + 1 /\ pc' = "detector" /\ pc' # "bank"
      BY <1>9, <2>1
    <3>2. QED
      BY <1>3, <1>5, <2>4, <2>5, <3>1 DEF BankInv
  <2>7. Place'.word = q
    BY <1>9, <2>1, <2>3 DEF Place, Return
  <2>8. QED
    BY <1>6, <1>8, <1>9, <2>6, <2>7
<1>10. CASE /\ at'.pointer = q + 1 /\ pc' = "bank"
            /\ q \in 1 .. L => ~Wanted(B, q)
            /\ \/ /\ at'.lastslot = at.lastslot
                  /\ q \in 1 .. L /\ InModule(B[q]) =>
                       DidIn(B, q) \notin Detectors /\ ~(Sub(B[q]) >= InvalidSub)
               \/ q <= L /\ InModule(B[q]) /\ at'.lastslot = SlotIn(B, q)
  <2>1. ~VmeBank(B) => SlotSeen(B, q + 1)'
    <3>1. SUFFICES ASSUME ~VmeBank(B) PROVE SlotSeen(B, p + 1)'
      BY <1>6
    <3>2. q = p /\ SlotSeen(B, p) /\ p \in 1 .. L
      BY <1>5, <1>6, <1>7, <3>1
    <3>3. CASE at'.lastslot = SlotIn(B, p) /\ InModule(B[p])
      BY <1>3, <1>5, <3>3, SlotLeft
    <3>4. CASE /\ at'.lastslot = at.lastslot
               /\ InModule(B[p]) => DidIn(B, p) \notin Detectors /\ ~(Sub(B[p]) >= InvalidSub)
      <4>1. p + 1 \in Nat /\ p + 1 > p /\ \A i \in p .. (p + 1) - 1 : i = p
        BY <1>5
      <4>2. QED
        BY <1>3, <1>5, <3>2, <3>4, <4>1, SlotStays
    <3>5. QED
      BY <1>10, <3>2, <3>3, <3>4
  <2>2. BankInv(B, q + 1)'
    <3>1. q + 1 >= 3 /\ (~VmeBank(B) => q + 1 <= L + 1) /\ pc' = "bank" /\ pc' # "detector"
      BY <1>3, <1>5, <1>6, <1>10
    <3>2. q + 1 \in 4 .. L => ~Wanted(B, (q + 1) - 1)
      BY <1>3, <1>10
    <3>3. QED
      BY <1>3, <1>5, <2>1, <3>1, <3>2 DEF BankInv
  <2>3. Place'.word = q + 1
    BY <1>10 DEF Place
  <2>4. \A i \in p .. (q + 1) - 1 : i \in 1 .. L => ~Wanted(B, i)
    <3>1. SUFFICES ASSUME NEW i \in p .. (q + 1) - 1, i \in 1 .. L PROVE ~Wanted(B, i)
      OBVIOUS
    <3>2. i \in p .. q - 1 \/ i = q
      BY <1>5
    <3>3. QED
      BY <1>6, <1>10, <3>1, <3>2
  <2>5. q + 1 \in Nat /\ q + 1 >= p
    BY <1>5, <1>6
  <2>6. QED
    BY <1>8, <1>10, <2>2, <2>3, <2>4, <2>5
<1>11. QED
  BY <1>6, <1>9, <1>10

\* The word a routine of a detector looks at.
LEMMA WordSeen ==
  ASSUME RoutedInv, BanksAsSent, event.kind = "physics", pc = "detector", call.pointer <= call.length,
         NEW B, B = Bank, NEW p, p = Place.word
  PROVE  /\ p \in 3 .. Len(B) /\ W = B[p] /\ WordAsSent(B, p) /\ CallInv(B, p)
         /\ p = call.from + call.pointer - 1 /\ call.from <= p /\ call.pointer \in Nat
         /\ call.did \in Detectors /\ at.roc = RocOf(B) /\ RocOf(B) \in 1 .. MaxRocs
         /\ WSlot = SlotIn(B, p)
         /\ call.did \in FbDetectors => RocOf(B) \in 1 .. (MaxRocs - 1)
<1>1. /\ Len(B) \in Nat /\ \A i \in 3 .. Len(B) : WordAsSent(B, i)
      /\ RocOf(B) \in Crates /\ RocOf(B) \in 1 .. MaxRocs /\ at.roc = RocOf(B)
      /\ BankInv(B, p)
      /\ \A i : Word(i) = IF i \in 1 .. Len(B) THEN B[i] ELSE Beyond
  BY InBank
<1>2. /\ at.pointer \in Nat \ {0} /\ call.pointer \in Nat \ {0}
      /\ call.from = at.pointer /\ call.did \in Detectors
  BY DEF RoutedInv, HitsInv, WalkInv
<1>3. p = call.from + call.pointer - 1
  BY <1>2 DEF Place, Return
<1>4. CallInv(B, p) /\ p >= 3
  BY <1>1 DEF BankInv
<1>5. call.length = Len(B) + 1 - call.from
  BY <1>4 DEF CallInv
<1>6. p \in 3 .. Len(B) /\ call.from <= p
  BY <1>1, <1>2, <1>3, <1>4, <1>5
<1>7. W = B[p] /\ WordAsSent(B, p)
  BY <1>1, <1>3, <1>6 DEF W
<1>8. WSlot = SlotIn(B, p)
  <2>1. CASE call.did \in FbDetectors
    BY <1>1, <1>7, <2>1, Zenon DEF WSlot, Routine, SlotIn
  <2>2. CASE call.did \notin FbDetectors
    <3>1. RocOf(B) \notin ShiftedRocs
      BY <1>2, <1>4, <2>2 DEF CallInv, Detectors
    <3>2. WSlot = Slot(W)
      BY <2>2 DEF WSlot, Routine
    <3>3. QED
      BY <1>7, <3>1, <3>2, Zenon DEF SlotIn, ShiftedSlot
  <2>3. QED
    BY <2>1, <2>2
<1>9. call.did \in FbDetectors => RocOf(B) \in 1 .. (MaxRocs - 1)
  BY <1>1, <1>4, DecodeMapAssumption DEF CallInv
<1>10. QED
  BY <1>1, <1>2, <1>3, <1>4, <1>6, <1>7, <1>8, <1>9

\* The words it passes over are of no module; all others have a slot.
LEMMA PassedWord ==
  ASSUME RoutedInv, BanksAsSent, event.kind = "physics", pc = "detector", call.pointer <= call.length,
         NEW B, B = Bank, NEW p, p = Place.word
  PROVE  /\ Passed => B[p].kind \in {"error", "filler"}
         /\ ~Passed => /\ B[p].kind \in {"data", "header", "begin", "end"} /\ InModule(B[p])
                       /\ SlotIn(B, p) \in 1 .. MaxSlots
                       /\ NewDid = DidIn(B, p)
<1>1. /\ p \in 3 .. Len(B) /\ W = B[p] /\ WordAsSent(B, p) /\ CallInv(B, p)
      /\ at.roc = RocOf(B) /\ RocOf(B) \in 1 .. MaxRocs
      /\ WSlot = SlotIn(B, p)
      /\ call.did \in FbDetectors => RocOf(B) \in 1 .. (MaxRocs - 1)
  BY WordSeen
<1>2. B[p].kind \in {"data", "header", "begin", "end", "error", "filler"}
  BY <1>1 DEF WordAsSent, CallInv
<1>3. CASE B[p].kind \in {"error", "filler"}
  <2>1. Passed
    BY <1>1, <1>3 DEF Passed, IsFiller
  <2>2. QED
    BY <1>3, <2>1
<1>4. CASE B[p].kind \in {"data", "header", "begin", "end"}
  <2>1. InModule(B[p])
    BY <1>4 DEF InModule
  <2>2. SlotIn(B, p) \in 1 .. MaxSlots
    BY <1>1, <2>1 DEF WordAsSent
  <2>3. InRange
    <3>1. SlotIn(B, p) \in 0 .. MaxSlots
      BY <2>2
    <3>2. CASE call.did \in FbDetectors
      BY <1>1, <3>1, <3>2, Zenon DEF InRange, Routine
    <3>3. CASE call.did \notin FbDetectors
      BY <1>1, <2>2, <3>3 DEF InRange, Routine
    <3>4. QED
      BY <3>2, <3>3
  <2>4. ~Passed
    BY <1>1, <1>4, <2>3 DEF Passed, IsFiller
  <2>5. NewDid = DidIn(B, p)
    <3>1. RocOf(B) \in Crates
      BY InBank
    <3>2. DidIn(B, p) = DidAt(map, RocOf(B), SlotIn(B, p), Sub(B[p]))
      BY <2>2, <3>1, SlotGood
    <3>3. QED
      BY <1>1, <3>2, Zenon DEF NewDid
  <2>6. QED
    BY <1>4, <2>1, <2>2, <2>4, <2>5
<1>5. QED
  BY <1>2, <1>3, <1>4

\* A word for the decoding is not taken for a header, and a header not for a word.
LEMMA HeadersTold ==
  ASSUME RoutedInv, BanksAsSent, event.kind = "physics", pc = "detector", call.pointer <= call.length,
         NEW B, B = Bank, NEW p, p = Place.word, ~Passed
  PROVE  /\ ModuleHeader => ~Wanted(B, p) /\ B[p].kind \notin {"begin", "end"}
         /\ VmeHeader => /\ ~Wanted(B, p) /\ Tag = "F1C" /\ VmeBank(B)
                         /\ B[p].kind \in {"begin", "end"} /\ B[p].module = "f1"
         /\ ~ModuleHeader /\ ~VmeHeader =>
              /\ B[p].kind \in {"data", "header"}
              /\ B[p].kind = "header" => DidIn(B, p) \notin Detectors
<1>1. /\ p \in 3 .. Len(B) /\ W = B[p] /\ WordAsSent(B, p) /\ CallInv(B, p)
      /\ at.roc = RocOf(B) /\ RocOf(B) \in 1 .. MaxRocs /\ call.did \in Detectors
      /\ WSlot = SlotIn(B, p)
  BY WordSeen
<1>2. /\ B[p].kind \in {"data", "header", "begin", "end"} /\ InModule(B[p])
      /\ SlotIn(B, p) \in 1 .. MaxSlots
  BY PassedWord
<1>3. BankInv(B, p) /\ Len(B) \in Nat /\ DOMAIN B = 1 .. Len(B)
  BY InBank
<1>4. /\ VmeBank(B) => at.vme /\ mask_vme2 = "F1C"
      /\ ~VmeBank(B) => ~at.vme /\ SlotSeen(B, p)
  BY <1>3 DEF BankInv
<1>5. map.subaddbit[<<at.roc, WSlot>>] = 17 <=> Bit17(B, p)
  BY <1>1, Zenon DEF Bit17
<1>6. ModuleHeader <=> WSlot # at.lastslot /\ Bit17(B, p) /\ LooksLikeHeader(B[p])
  BY <1>1, <1>5, Zenon DEF ModuleHeader
<1>7. Tag = mask_vme2
  BY <1>1, <1>2 DEF Tag
<1>8. ASSUME ModuleHeader
      PROVE  ~Wanted(B, p) /\ B[p].kind \notin {"begin", "end"}
  <2>1. B[p].kind \notin {"begin", "end"}
    BY <1>1, <1>6, <1>8 DEF WordAsSent
  <2>2. ASSUME Wanted(B, p) PROVE FALSE
    <3>1. B[p].kind = "data" /\ DataAsSent(B, p) /\ NotFirst(B, p)
      BY <1>1, <1>6, <1>8, <2>2 DEF WordAsSent, DataAsSent, Wanted
    <3>2. CASE VmeBank(B)
      <4>1. B[p].module = "f1"
        BY <3>1, <3>2 DEF DataAsSent
      <4>2. QED
        BY <1>6, <1>8, <3>1, <4>1 DEF LooksLikeHeader, Bit23
    <3>3. CASE ~VmeBank(B)
      <4>1. PICK j \in 3 .. (p - 1) :
              /\ InModule(B[j]) /\ SlotIn(B, j) = SlotIn(B, p)
              /\ DidIn(B, j) \in Detectors \/ Sub(B[j]) >= InvalidSub
              /\ \A k \in (j + 1) .. (p - 1) : Silent(B[k])
        BY <3>1, Zenon DEF NotFirst
      <4>2. \/ at.lastslot = SlotIn(B, j)
            \/ p \in DOMAIN B /\ InModule(B[p]) /\ at.lastslot = SlotIn(B, p)
        BY <1>4, <3>3, <4>1, Zenon DEF SlotSeen
      <4>3. QED
        BY <1>1, <1>6, <1>8, <4>1, <4>2
    <3>4. QED
      BY <3>2, <3>3
  <2>3. QED
    BY <2>1, <2>2
<1>9. B[p].kind \in {"begin", "end"} => VmeBank(B) /\ B[p].module = "f1" /\ ~Bit23(B[p])
  BY <1>1 DEF WordAsSent, Bit23
<1>10. VmeBank(B) => Routine = "all"
  <2>1. call.did \in FbDetectors => ~VmeBank(B)
    BY <1>1 DEF CallInv
  <2>2. QED
    BY <2>1 DEF Routine
<1>11. ASSUME VmeHeader
       PROVE  /\ ~Wanted(B, p) /\ Tag = "F1C" /\ VmeBank(B)
              /\ B[p].kind \in {"begin", "end"} /\ B[p].module = "f1"
  <2>1. VmeBank(B)
    BY <1>4, <1>11 DEF VmeHeader
  <2>2. ~Bit23(B[p])
    BY <1>1, <1>2, <1>4, <1>7, <1>11, <2>1 DEF VmeHeader
  <2>3. B[p].kind # "data"
    <3>1. B[p].kind = "data" => B[p].module = "f1"
      BY <1>1, <2>1 DEF WordAsSent, DataAsSent
    <3>2. QED
      BY <2>2, <3>1 DEF Bit23
  <2>4. B[p].kind # "header"
    BY <1>1, <2>1, Zenon DEF WordAsSent
  <2>5. ~Wanted(B, p)
    BY <2>3, Zenon DEF Wanted
  <2>6. QED
    BY <1>2, <1>4, <1>7, <1>9, <2>1, <2>3, <2>4, <2>5
<1>12. ASSUME ~ModuleHeader, ~VmeHeader
       PROVE  /\ B[p].kind \in {"data", "header"}
              /\ B[p].kind = "header" => DidIn(B, p) \notin Detectors
  <2>1. B[p].kind \notin {"begin", "end"}
    <3>1. SUFFICES ASSUME B[p].kind \in {"begin", "end"} PROVE VmeHeader
      BY <1>12
    <3>2. VmeBank(B) /\ ~Bit23(W) /\ Tag = "F1C" /\ Routine = "all" /\ at.vme
      BY <1>1, <1>4, <1>7, <1>9, <1>10, <3>1
    <3>3. QED
      BY <1>12, <3>2, Zenon DEF VmeHeader
  <2>2. ASSUME B[p].kind = "header", DidIn(B, p) \in Detectors  PROVE FALSE
    <3>1. /\ ~VmeBank(B) /\ Sub(B[p]) = 0 /\ Bit17(B, p)
          /\ \A j \in 3 .. (p - 1) : InModule(B[j]) => SlotIn(B, j) # SlotIn(B, p)
      BY <1>1, <2>2, Zenon DEF WordAsSent, HeaderAsSent
    <3>2. LooksLikeHeader(B[p])
      BY <2>2, <3>1 DEF LooksLikeHeader, Bit24, Bit23
    <3>3. at.lastslot = SlotIn(B, p)
      BY <1>1, <1>6, <1>12, <3>1, <3>2
    <3>4. at.lastslot # -1
      BY <1>2, <3>3
    <3>5. SlotSeen(B, p)
      BY <1>4, <3>1
    <3>6. PICK i \in 3 .. p :
            /\ i \in DOMAIN B /\ InModule(B[i]) /\ at.lastslot = SlotIn(B, i)
            /\ i = p /\ B[p].kind = "header" => DidIn(B, p) \notin Detectors
      BY <3>4, <3>5, Zenon DEF SlotSeen
    <3>7. i # p
      BY <2>2, <3>6
    <3>8. i \in 3 .. (p - 1)
      BY <1>1, <3>7
    <3>9. QED
      BY <3>1, <3>3, <3>6, <3>8
  <2>3. QED
    BY <1>2, <2>1, <2>2
<1>13. QED
  BY <1>8, <1>11, <1>12

\* Where the routine of a detector goes on behind a word or, with the lengths
\* that differ, behind three.
LEMMA CallGoesOn ==
  ASSUME RoutedInv, BanksAsSent, event.kind = "physics", pc = "detector", call.pointer <= call.length,
         NEW B, B = Bank, NEW p, p = Place.word, NEW n \in {1, 3}, Proceed(n), event' = event,
         at' \in {at, [at EXCEPT !.lastslot = WSlot]}, mask_vme2' = mask_vme2 \/ mask_vme2' = Tag,
         n = 1 => ~Mismatch(B[p]),
         n = 3 => Mismatch(B[p]),
         Wanted(B, p) => call.did = DidIn(B, p),
         ~VmeBank(B) => SlotSeen(B, p + n)'
  PROVE  /\ Place'.word = p + n /\ p + n \in Nat /\ BankInv(B, p + n)'
         /\ \A i \in p .. (p + n) - 1 : i \in 3 .. Len(B) /\ (i # p => B[i].kind = "count")
<1>1. /\ p \in 3 .. Len(B) /\ WordAsSent(B, p) /\ CallInv(B, p)
      /\ p = call.from + call.pointer - 1 /\ call.from <= p /\ call.pointer \in Nat
      /\ call.did \in Detectors
  BY WordSeen
<1>2. /\ DOMAIN at = {"pointer", "last_first", "roc", "lastslot", "vme"}
      /\ DOMAIN call = {"did", "from", "length", "pointer"} /\ call.from = at.pointer
      /\ at.pointer \in Nat
  BY DEF RoutedInv, HitsInv, WalkInv
<1>3. BankInv(B, p) /\ Len(B) \in Nat /\ DOMAIN B = 1 .. Len(B) /\ \A i \in 3 .. Len(B) : WordAsSent(B, i)
  BY InBank
<1>4. /\ pc' = "detector" /\ call'.pointer = call.pointer + n /\ call'.from = call.from
      /\ call'.length = call.length /\ call'.did = call.did
      /\ at'.pointer = at.pointer /\ at'.vme = at.vme
  BY <1>2 DEF Proceed
<1>5. Place'.word = p + n
  BY <1>1, <1>2, <1>4 DEF Place, Return
<1>6. /\ B[p].kind \notin {"count", "crate"}
      /\ n = 3 => p + 2 \in 3 .. Len(B) /\ B[p + 1].kind = "count" /\ B[p + 2].kind = "count"
  BY <1>1, <1>3 DEF CallInv, WordAsSent
<1>7. \A i \in p .. (p + n) - 1 : i \in 3 .. Len(B) /\ (i # p => B[i].kind = "count")
  <2>1. CASE n = 1
    BY <1>1, <2>1
  <2>2. CASE n = 3
    <3>1. \A i \in p .. (p + n) - 1 : i \in {p, p + 1, p + 2} /\ i \in 3 .. Len(B)
      BY <1>1, <1>6, <2>2
    <3>2. QED
      BY <1>6, <2>2, <3>1
  <2>3. QED
    BY <2>1, <2>2
<1>8. p + n <= Len(B) + 1 /\ p + n > 3 /\ call'.from < p + n /\ (p + n) - 1 \in p .. (p + n) - 1
      /\ p + n \in Nat
  <2>1. p + n <= Len(B) + 1
    BY <1>1, <1>3, <1>6
  <2>2. p \in Nat /\ call.from \in Nat /\ call'.from = call.from
    BY <1>1, <1>2, <1>4
  <2>3. QED
    BY <1>1, <2>1, <2>2
<1>9. p + n <= Len(B) => B[p + n].kind \notin {"count", "crate"}
  <2>1. SUFFICES ASSUME p + n <= Len(B) PROVE B[p + n].kind \notin {"count", "crate"}
    OBVIOUS
  <2>2. WordAsSent(B, p + n)
    BY <1>3, <1>8, <2>1
  <2>3. B[p + n].kind # "crate"
    BY <1>8, <2>2 DEF WordAsSent
  <2>4. ASSUME B[p + n].kind = "count"  PROVE FALSE
    <3>1. \/ Mismatch(B[(p + n) - 1])
          \/ Mismatch(B[(p + n) - 2]) /\ B[(p + n) - 1].kind = "count"
      BY <2>2, <2>4, Zenon DEF WordAsSent, CountAsSent
    <3>2. CASE n = 1
      <4>1. (p + n) - 1 = p
        BY <1>1, <3>2
      <4>2. QED
        BY <1>6, <3>1, <3>2, <4>1
    <3>3. CASE n = 3
      <4>1. (p + n) - 1 = p + 2 /\ (p + n) - 2 = p + 1
        BY <1>1, <3>3
      <4>2. QED
        BY <1>6, <3>1, <3>3, <4>1 DEF Mismatch
    <3>4. QED
      BY <3>2, <3>3
  <2>5. QED
    BY <2>3, <2>4
<1>10. Wanted(B, (p + n) - 1) => call'.did = DidIn(B, (p + n) - 1)
  <2>1. CASE (p + n) - 1 = p
    BY <1>4, <2>1
  <2>2. CASE (p + n) - 1 # p
    <3>1. B[(p + n) - 1].kind = "count"
      BY <1>7, <1>8, <2>2
    <3>2. QED
      BY <3>1 DEF Wanted
  <2>3. QED
    BY <2>1, <2>2
<1>11. CallInv(B, p + n)'
  <2>1. ~(call'.from = p + n)
    BY <1>1, <1>4, <1>8
  <2>2. QED
    BY <1>1, <1>4, <1>8, <1>9, <1>10, <2>1 DEF CallInv
<1>12. VmeBank(B) => at'.vme /\ mask_vme2' = "F1C"
  <2>1. VmeBank(B) => at.vme /\ mask_vme2 = "F1C"
    BY <1>3 DEF BankInv
  <2>2. B[p].kind # "crate" /\ W = B[p]
    BY <1>6, WordSeen
  <2>3. Tag = mask_vme2
    BY <2>2 DEF Tag
  <2>4. QED
    BY <1>4, <2>1, <2>3
<1>13. BankInv(B, p + n)'
  <2>1. ~VmeBank(B) => ~at'.vme
    BY <1>3, <1>4 DEF BankInv
  <2>2. RocOf(B) \in Crates /\ p + n >= 3 /\ pc' # "bank"
    BY <1>3, <1>4, <1>8 DEF BankInv
  <2>3. QED
    BY <1>8, <1>11, <1>12, <2>1, <2>2 DEF BankInv
<1>14. QED
  BY <1>5, <1>7, <1>8, <1>13

\* A step of the routine of a detector that goes on to its next word.
LEMMA RoutineGoesOn ==
  ASSUME RoutedInv, HitsInv', BanksAsSent, event.kind = "physics", Unpack,
         NEW B, B = Bank, NEW p, p = Place.word, NEW here, here = bankpointer,
         NEW n \in {1, 3}, Proceed(n),
         at' \in {at, [at EXCEPT !.lastslot = WSlot]}, mask_vme2' = mask_vme2 \/ mask_vme2' = Tag,
         n = 1 => ~Mismatch(B[p]),
         n = 3 => Mismatch(B[p]),
         ~VmeBank(B) => SlotSeen(B, p + n)',
         Wanted(B, p) => call.did = DidIn(B, p) /\ Done(here, p)',
         B[p].kind \in {"begin", "end"} => g_f1_trigger_time'[RocOf(B)] = Now,
         \A k \in DOMAIN taken : k \in DOMAIN taken' /\ taken'[k] = taken[k],
         \A k \in DOMAIN taken' : k \in DOMAIN taken \/ IsHit(taken'[k]),
         DOMAIN g_f1_refer_time' = 1 .. MaxRocs, DOMAIN g_f1_trigger_time' = 1 .. MaxRocs,
         \A r \in 1 .. MaxRocs : g_f1_refer_time'[r] \in {g_f1_refer_time[r], Now},
         \A r \in 1 .. MaxRocs : g_f1_trigger_time'[r] \in {g_f1_trigger_time[r], Now}
  PROVE  RoutedInv'
<1>1. pc = "detector" /\ call.pointer <= call.length /\ UNCHANGED <<stream, event, bankpointer>>
  BY DEF Unpack
<1>2. pc' = "detector"
  BY <1>1 DEF Proceed
<1>3. p \in 3 .. Len(B) /\ DOMAIN B = 1 .. Len(B)
  BY <1>1, WordSeen, InBank
<1>4. /\ Place'.word = p + n /\ p + n \in Nat /\ BankInv(B, p + n)'
      /\ \A i \in p .. (p + n) - 1 : i \in 3 .. Len(B) /\ (i # p => B[i].kind = "count")
  BY <1>1, CallGoesOn
<1>5. ASSUME NEW i \in p .. (p + n) - 1, Wanted(B, i)
      PROVE  Done(here, i)'
  <2>1. CASE i = p
    BY <1>5, <2>1
  <2>2. CASE i # p
    BY <1>4, <1>5, <2>2 DEF Wanted
  <2>3. QED
    BY <2>1, <2>2
<1>6. ASSUME NEW j \in 3 .. (Len(B) - 1), j + 1 \in p .. (p + n) - 1, Trailer(B, j)
      PROVE  g_f1_trigger_time'[RocOf(B)] = Now
  <2>1. B[j + 1].kind \in {"begin", "end"}
    BY <1>6 DEF Trailer
  <2>2. j + 1 = p
    BY <1>4, <1>6, <2>1
  <2>3. QED
    BY <2>1, <2>2
<1>7. p \in Nat /\ p + n >= p
  BY <1>3
<1>8. \A i \in p .. (p + n) - 1 : i \in DOMAIN B /\ Wanted(B, i) => Done(here, i)'
  BY <1>5
<1>9. \A j \in 3 .. (Len(B) - 1) : j + 1 \in p .. (p + n) - 1 /\ Trailer(B, j) =>
        g_f1_trigger_time'[RocOf(B)] = Now
  BY <1>6
<1>10. QED
  BY <1>1, <1>2, <1>4, <1>7, <1>8, <1>9, WalkOn

\* The walk over the words of a detector: each for the decoding becomes a hit or
\* the reference time, the trailers leave the trigger time.
LEMMA UnpackRouted ==
  ASSUME RoutedInv, HitsInv', BanksAsSent, event.kind = "physics", Unpack
  PROVE  RoutedInv'
<1>1. /\ pc = "detector" /\ call.pointer <= call.length /\ UNCHANGED <<stream, event, bankpointer>>
      /\ TakeWord \/ SkipVmeHeader \/ SkipModuleHeader \/ SkipPassed \/ LeaveDetector
  BY DEF Unpack
<1>2. PICK B, p, here : B = Bank /\ p = Place.word /\ here = bankpointer
  OBVIOUS
<1>3. /\ p \in 3 .. Len(B) /\ W = B[p] /\ WordAsSent(B, p) /\ CallInv(B, p)
      /\ p = call.from + call.pointer - 1 /\ call.from <= p /\ call.pointer \in Nat
      /\ call.did \in Detectors /\ at.roc = RocOf(B) /\ RocOf(B) \in 1 .. MaxRocs
      /\ WSlot = SlotIn(B, p)
  BY <1>1, <1>2, WordSeen
<1>4. /\ Len(B) \in Nat /\ DOMAIN B = 1 .. Len(B) /\ BankInv(B, p)
      /\ here \in DOMAIN event.banks /\ B = event.banks[here]
  BY <1>1, <1>2, InBank
<1>5. /\ DOMAIN g_f1_refer_time = 1 .. MaxRocs /\ DOMAIN g_f1_trigger_time = 1 .. MaxRocs
      /\ DOMAIN at = {"pointer", "last_first", "roc", "lastslot", "vme"} /\ at.pointer \in Nat
      /\ taken \in Seq(HitWords)
  BY DEF RoutedInv, HitsInv, WalkInv
<1>6. /\ Passed => B[p].kind \in {"error", "filler"}
      /\ ~Passed => /\ B[p].kind \in {"data", "header", "begin", "end"} /\ InModule(B[p])
                    /\ SlotIn(B, p) \in 1 .. MaxSlots
                    /\ NewDid = DidIn(B, p)
  BY <1>1, <1>2, PassedWord
<1>7. ~Passed => /\ ModuleHeader => ~Wanted(B, p) /\ B[p].kind \notin {"begin", "end"}
                 /\ VmeHeader => /\ ~Wanted(B, p) /\ Tag = "F1C" /\ VmeBank(B)
                                 /\ B[p].kind \in {"begin", "end"} /\ B[p].module = "f1"
                 /\ ~ModuleHeader /\ ~VmeHeader =>
                      /\ B[p].kind \in {"data", "header"}
                      /\ B[p].kind = "header" => DidIn(B, p) \notin Detectors
  BY <1>1, <1>2, HeadersTold
<1>8. ~Passed => ~Mismatch(B[p])
  BY <1>6 DEF Mismatch
<1>9. ASSUME at' = [at EXCEPT !.lastslot = WSlot], ~Passed
      PROVE  SlotSeen(B, p + 1)'
  <2>1. at'.lastslot = SlotIn(B, p)
    BY <1>3, <1>5, <1>9
  <2>2. QED
    BY <1>3, <1>4, <1>6, <1>9, <2>1, SlotLeft
<1>10. ASSUME UNCHANGED taken
       PROVE  /\ \A k \in DOMAIN taken : k \in DOMAIN taken' /\ taken'[k] = taken[k]
              /\ \A k \in DOMAIN taken' : k \in DOMAIN taken \/ IsHit(taken'[k])
  BY <1>10
<1>11. ASSUME NEW f, NEW f2, DOMAIN f = 1 .. MaxRocs, f2 = [f EXCEPT ![at.roc] = Now]
       PROVE  DOMAIN f2 = 1 .. MaxRocs /\ f2[RocOf(B)] = Now
              /\ \A r \in 1 .. MaxRocs : f2[r] \in {f[r], Now}
  BY <1>3, <1>11
<1>12. CASE TakeWord
  <2>1. ~Passed /\ ~ModuleHeader /\ ~VmeHeader /\ NewDid = call.did
        /\ at' = [at EXCEPT !.lastslot = WSlot] /\ Proceed(1) /\ UNCHANGED <<mask_vme2, g_f1_trigger_time>>
    BY <1>12 DEF TakeWord
  <2>2. B[p].kind = "data" /\ call.did = DidIn(B, p) /\ Wanted(B, p)
    BY <1>3, <1>6, <1>7, <2>1 DEF Wanted
  <2>3. Refers <=> Reference(B, p)
    <3>1. Refers <=> /\ Routine = "all" /\ call.did = GMISC_ID
                     /\ PlaneAt(map, RocOf(B), SlotIn(B, p), Sub(B[p])) \in ReferPlanes
      BY <1>3, Zenon DEF Refers
    <3>2. call.did = GMISC_ID => Routine = "all"
      BY EventBanksAssumption DEF Routine
    <3>3. QED
      BY <2>2, <3>1, <3>2, Zenon DEF Reference
  <2>4. CASE Reference(B, p)
    <3>1. g_f1_refer_time' = [g_f1_refer_time EXCEPT ![at.roc] = Now] /\ UNCHANGED taken
      BY <1>12, <2>3, <2>4, Zenon DEF TakeWord
    <3>2. /\ DOMAIN g_f1_refer_time' = 1 .. MaxRocs /\ g_f1_refer_time'[RocOf(B)] = Now
          /\ \A r \in 1 .. MaxRocs : g_f1_refer_time'[r] \in {g_f1_refer_time[r], Now}
      BY <1>3, <1>5, <3>1
    <3>3. Done(here, p)'
      <4>1. Now' = Now
        BY <1>1 DEF Now
      <4>2. event'.banks[here] = B
        BY <1>1, <1>4
      <4>3. QED
        BY <2>4, <3>2, <4>1, <4>2, Zenon DEF Done
    <3>4. ~(B[p].kind \in {"begin", "end"})
      BY <2>2
    <3>5. QED
      BY <1>1, <1>2, <1>5, <1>8, <1>9, <1>10, <2>1, <2>2, <3>1, <3>2, <3>3, <3>4, RoutineGoesOn
  <2>5. CASE ~Reference(B, p)
    <3> DEFINE x == [bank |-> bankpointer, word |-> call.from + call.pointer - 1,
                     did |-> call.did, f1 |-> Tag = "F1C"]
    <3>1. taken' = Append(taken, x) /\ UNCHANGED g_f1_refer_time
      BY <1>12, <2>3, <2>5, Zenon DEF TakeWord
    <3>2. x.bank = here /\ x.word = p /\ x.did = DidIn(B, p)
      BY <1>2, <1>3, <2>2
    <3> HIDE DEF x
    <3>3. /\ Len(taken) \in Nat /\ DOMAIN taken = 1 .. Len(taken)
          /\ DOMAIN taken' = 1 .. Len(taken) + 1
          /\ taken'[Len(taken) + 1] = x /\ \A k \in 1 .. Len(taken) : taken'[k] = taken[k]
      BY <1>5, <3>1
    <3>4. IsHit(x)
      <4>1. p \in DOMAIN event.banks[here]
        BY <1>3, <1>4
      <4>2. QED
        BY <1>4, <2>2, <2>5, <3>2, <4>1, Zenon DEF IsHit
    <3>5. /\ \A k \in DOMAIN taken : k \in DOMAIN taken' /\ taken'[k] = taken[k]
          /\ \A k \in DOMAIN taken' : k \in DOMAIN taken \/ IsHit(taken'[k])
      <4>1. \A k \in DOMAIN taken' : k \in DOMAIN taken \/ k = Len(taken) + 1
        BY <3>3
      <4>2. QED
        BY <3>3, <3>4, <4>1
    <3>6. Done(here, p)'
      <4>1. event'.banks[here] = B
        BY <1>1, <1>4
      <4>2. Len(taken) + 1 \in DOMAIN taken'
        BY <3>3
      <4>3. \E k \in DOMAIN taken' : taken'[k].bank = here /\ taken'[k].word = p
        BY <3>2, <3>3, <4>2
      <4>4. QED
        BY <2>5, <4>1, <4>3, Zenon DEF Done
    <3>7. ~(B[p].kind \in {"begin", "end"})
      BY <2>2
    <3>8. QED
      BY <1>1, <1>2, <1>5, <1>8, <1>9, <2>1, <2>2, <3>1, <3>5, <3>6, <3>7, RoutineGoesOn
  <2>6. QED
    BY <2>4, <2>5
<1>13. CASE SkipVmeHeader
  <2>1. ~Passed /\ ~ModuleHeader /\ VmeHeader /\ mask_vme2' = Tag
        /\ at' = [at EXCEPT !.lastslot = WSlot] /\ Proceed(1) /\ UNCHANGED <<g_f1_refer_time, taken>>
    BY <1>13 DEF SkipVmeHeader, VmeHeader
  <2>2. ~Wanted(B, p) /\ B[p].kind \in {"begin", "end"} /\ B[p].module = "f1"
    BY <1>7, <2>1
  <2>3. g_f1_trigger_time' = [g_f1_trigger_time EXCEPT ![at.roc] = Now]
    BY <1>3, <1>13, <2>2 DEF SkipVmeHeader
  <2>4. /\ DOMAIN g_f1_trigger_time' = 1 .. MaxRocs /\ g_f1_trigger_time'[RocOf(B)] = Now
        /\ \A r \in 1 .. MaxRocs : g_f1_trigger_time'[r] \in {g_f1_trigger_time[r], Now}
    BY <1>3, <1>5, <2>3
  <2>5. QED
    BY <1>1, <1>2, <1>5, <1>8, <1>9, <1>10, <2>1, <2>2, <2>4, RoutineGoesOn
<1>14. CASE SkipModuleHeader
  <2>1. ModuleHeader /\ ~Passed
        /\ at' = [at EXCEPT !.lastslot = WSlot] /\ Proceed(1)
        /\ UNCHANGED <<mask_vme2, g_f1_trigger_time, g_f1_refer_time, taken>>
    BY <1>14 DEF SkipModuleHeader, ModuleHeader
  <2>2. ~Wanted(B, p) /\ B[p].kind \notin {"begin", "end"}
    BY <1>7, <2>1
  <2>3. QED
    BY <1>1, <1>2, <1>5, <1>8, <1>9, <1>10, <2>1, <2>2, RoutineGoesOn
<1>15. CASE SkipPassed
  <2>1. Passed /\ UNCHANGED <<at, mask_vme2, g_f1_trigger_time, g_f1_refer_time, taken>>
        /\ Proceed(IF Mismatch(B[p]) THEN 3 ELSE 1)
    BY <1>3, <1>15, Zenon DEF SkipPassed, Mismatch
  <2>2. PICK n \in {1, 3} : Proceed(n) /\ (n = 1 => ~Mismatch(B[p])) /\ (n = 3 => Mismatch(B[p]))
    BY <2>1
  <2>3. B[p].kind \in {"error", "filler"} /\ ~Wanted(B, p)
    BY <1>6, <2>1 DEF Wanted
  <2>4. ~VmeBank(B) => SlotSeen(B, p + n)'
    <3>1. SUFFICES ASSUME ~VmeBank(B) PROVE SlotSeen(B, p + n)'
      OBVIOUS
    <3>2. SlotSeen(B, p)
      BY <1>4, <3>1 DEF BankInv
    <3>3. \A i \in p .. (p + n) - 1 : i \in 3 .. Len(B) /\ ~InModule(B[i])
      <4>1. CASE n = 1
        <5>1. \A i \in p .. (p + n) - 1 : i = p
          BY <1>3, <4>1
        <5>2. QED
          BY <1>3, <2>3, <5>1 DEF InModule
      <4>2. CASE n = 3
        <5>1. p + 2 <= Len(B) /\ B[p + 1].kind = "count" /\ B[p + 2].kind = "count"
          BY <1>3, <2>2, <4>2 DEF WordAsSent
        <5>2. \A i \in p .. (p + n) - 1 : i \in {p, p + 1, p + 2} /\ i \in 3 .. Len(B)
          BY <1>3, <1>4, <4>2, <5>1
        <5>3. QED
          BY <2>3, <5>1, <5>2, SMTT(30) DEF InModule
      <4>3. QED
        BY <4>1, <4>2
    <3>4. at'.lastslot = at.lastslot /\ p + n \in Nat /\ p + n > p
      BY <1>3, <2>1
    <3>5. QED
      BY <1>3, <1>4, <3>2, <3>3, <3>4, SlotStays
  <2>5. ~(B[p].kind \in {"begin", "end"})
    BY <2>3
  <2>6. QED
    BY <1>1, <1>2, <1>5, <1>10, <2>1, <2>2, <2>3, <2>4, <2>5, RoutineGoesOn
<1>16. CASE LeaveDetector
  <2>1. ~Passed /\ ~ModuleHeader /\ ~VmeHeader /\ NewDid # call.did /\ pc' = "bank"
        /\ at' = [at EXCEPT !.lastslot = WSlot, !.pointer = Return]
        /\ UNCHANGED <<call, mask_vme2, g_f1_trigger_time, g_f1_refer_time, taken>>
    BY <1>16 DEF LeaveDetector
  <2>2. at'.pointer = Return /\ at'.lastslot = SlotIn(B, p) /\ at'.vme = at.vme
    BY <1>3, <1>5, <2>1
  <2>3. Place'.word = p
    BY <1>1, <1>2, <2>1, <2>2 DEF Place
  <2>4. B[p].kind \in {"data", "header"} /\ (B[p].kind = "header" => DidIn(B, p) \notin Detectors)
        /\ InModule(B[p]) /\ DidIn(B, p) # call.did
    BY <1>6, <1>7, <2>1
  <2>5. SlotSeen(B, p)'
    <3>1. /\ p \in 3 .. p /\ p \in DOMAIN B /\ InModule(B[p]) /\ at'.lastslot = SlotIn(B, p)
          /\ p = p /\ B[p].kind = "header" => DidIn(B, p) \notin Detectors
      BY <1>3, <1>4, <2>2, <2>4
    <3>2. QED
      BY <3>1, Zenon DEF SlotSeen
  <2>6. Wanted(B, p - 1) => DidIn(B, p) # DidIn(B, p - 1)
    <3>1. call.from # p
      BY <1>3, <2>4 DEF CallInv
    <3>2. WalkInv
      BY DEF RoutedInv, HitsInv
    <3>3. call.from < p
      BY <1>1, <1>3, <3>1, <3>2 DEF WalkInv
    <3>4. QED
      BY <1>3, <2>4, <3>3 DEF CallInv
  <2>7. BankInv(B, p)'
    <3>1. /\ RocOf(B) \in Crates /\ p >= 3 /\ p <= Len(B) + 1 /\ pc' # "detector"
          /\ VmeBank(B) => at'.vme /\ mask_vme2' = "F1C"
          /\ ~VmeBank(B) => ~at'.vme
      BY <1>1, <1>3, <1>4, <2>1, <2>2 DEF BankInv
    <3>2. B[p].kind \notin {"begin", "end"}
      BY <2>4
    <3>3. QED
      BY <2>5, <2>6, <3>1, <3>2 DEF BankInv
  <2>8. p \in Nat /\ p >= p /\ \A i : i \notin p .. p - 1
    BY <1>3
  <2>9. /\ \A i \in p .. p - 1 : i \in DOMAIN B /\ Wanted(B, i) => Done(here, i)'
        /\ \A j \in 3 .. (Len(B) - 1) : j + 1 \in p .. p - 1 /\ Trailer(B, j) =>
             g_f1_trigger_time'[RocOf(B)] = Now
    BY <2>8
  <2>10. QED
    BY <1>1, <1>2, <1>5, <1>10, <2>1, <2>3, <2>7, <2>8, <2>9, WalkOn
<1>17. QED
  BY <1>1, <1>12, <1>13, <1>14, <1>15, <1>16

\* The routine of a detector comes to the end of the bank.
LEMMA EndDetectorRouted ==
  ASSUME RoutedInv, HitsInv', BanksAsSent, event.kind = "physics", EndDetector
  PROVE  RoutedInv'
<1>1. /\ pc = "detector" /\ call.pointer > call.length /\ pc' = "bank"
      /\ at' = [at EXCEPT !.pointer = Return]
      /\ UNCHANGED <<stream, event, bankpointer, mask_vme2, call, g_f1_trigger_time, g_f1_refer_time, taken>>
  BY DEF EndDetector
<1>2. PICK B, p, here : B = Bank /\ p = Place.word /\ here = bankpointer
  OBVIOUS
<1>3. /\ Len(B) \in Nat /\ DOMAIN B = 1 .. Len(B) /\ BankInv(B, p) /\ RocOf(B) \in Crates
  BY <1>1, <1>2, InBank
<1>4. /\ at.pointer \in Nat \ {0} /\ call.pointer \in Nat \ {0} /\ call.from = at.pointer
      /\ DOMAIN at = {"pointer", "last_first", "roc", "lastslot", "vme"}
      /\ DOMAIN g_f1_refer_time = 1 .. MaxRocs /\ DOMAIN g_f1_trigger_time = 1 .. MaxRocs
  BY <1>1 DEF RoutedInv, HitsInv, WalkInv
<1>5. p = at.pointer + call.pointer - 1 /\ p \in Nat
  BY <1>1, <1>2, <1>4 DEF Place, Return
<1>6. p = Len(B) + 1 /\ p >= 3
  <2>1. p <= Len(B) + 1 /\ call.length = Len(B) + 1 - call.from /\ p >= 3
    BY <1>1, <1>3 DEF BankInv, CallInv
  <2>2. QED
    BY <1>1, <1>3, <1>4, <1>5, <2>1
<1>7. at'.pointer = p /\ at'.lastslot = at.lastslot /\ at'.vme = at.vme
  BY <1>1, <1>4, <1>5 DEF Return
<1>8. Place'.word = p
  BY <1>1, <1>7 DEF Place
<1>9. BankInv(B, p)'
  <2>1. ~VmeBank(B) => SlotSeen(B, p)'
    <3>1. SUFFICES ASSUME ~VmeBank(B) PROVE SlotSeen(B, p)'
      OBVIOUS
    <3>2. SlotSeen(B, p)
      BY <1>3, <3>1 DEF BankInv
    <3>3. QED
      BY <1>7, <3>2 DEF SlotSeen
  <2>2. /\ VmeBank(B) => at'.vme /\ mask_vme2' = "F1C"
        /\ ~VmeBank(B) => ~at'.vme /\ p <= Len(B) + 1
    BY <1>1, <1>3, <1>7 DEF BankInv
  <2>3. p \notin 4 .. Len(B) /\ pc' # "detector"
    BY <1>1, <1>3, <1>6
  <2>4. QED
    BY <1>3, <1>6, <2>1, <2>2, <2>3 DEF BankInv
<1>10. p >= p /\ \A i : i \notin p .. p - 1
  BY <1>5
<1>11. /\ \A i \in p .. p - 1 : i \in DOMAIN B /\ Wanted(B, i) => Done(here, i)'
       /\ \A j \in 3 .. (Len(B) - 1) : j + 1 \in p .. p - 1 /\ Trailer(B, j) =>
            g_f1_trigger_time'[RocOf(B)] = Now
  BY <1>10
<1>12. /\ \A k \in DOMAIN taken : k \in DOMAIN taken' /\ taken'[k] = taken[k]
       /\ \A k \in DOMAIN taken' : k \in DOMAIN taken \/ IsHit(taken'[k])
  BY <1>1
<1>13. QED
  BY <1>1, <1>2, <1>4, <1>5, <1>8, <1>9, <1>10, <1>11, <1>12, WalkOn

\* Steps between the words: what they come past is of no crate that is decoded,
\* or no data.
LEMMA BetweenRouted ==
  ASSUME RoutedInv, HitsInv', BanksAsSent, event.kind = "physics",
         EndEvent \/ PassBank \/ BeginBank \/ EndBank
  PROVE  RoutedInv'
<1>1. UNCHANGED <<stream, event, g_f1_trigger_time, g_f1_refer_time, taken>>
  BY DEF EndEvent, PassBank, BeginBank, EndBank, decoding
<1>2. /\ bankpointer \in Nat \ {0} /\ EventsInv
      /\ DOMAIN g_f1_refer_time = 1 .. MaxRocs /\ DOMAIN g_f1_trigger_time = 1 .. MaxRocs
  BY DEF RoutedInv, HitsInv, WalkInv
<1>3. PICK here : here = bankpointer
  OBVIOUS
<1>4. \A b \in DOMAIN event.banks :
        /\ Len(event.banks[b]) \in Nat /\ DOMAIN event.banks[b] = 1 .. Len(event.banks[b])
        /\ AsSent(event.banks[b]) /\ b \in Nat \ {0}
  BY <1>2, BankFacts
<1>5. /\ \A k \in DOMAIN taken : k \in DOMAIN taken' /\ taken'[k] = taken[k]
      /\ \A k \in DOMAIN taken' : k \in DOMAIN taken \/ IsHit(taken'[k])
  BY <1>1
<1>6. ASSUME \A b \in DOMAIN event.banks : \A i \in DOMAIN event.banks[b] :
               Past(b, i)' /\ ~Past(b, i) => ~Wanted(event.banks[b], i),
             \A b \in DOMAIN event.banks : \A j \in 3 .. (Len(event.banks[b]) - 1) :
               Past(b, j + 1)' /\ ~Past(b, j + 1) => ~Wanted(event.banks[b], j),
             pc' = "event" => ~More',
             pc' \in {"bank", "detector"} => BankInv(Bank, Place.word)'
      PROVE  RoutedInv'
  <2>1. \A b \in DOMAIN event.banks : \A i \in DOMAIN event.banks[b] :
          Past(b, i)' /\ ~Past(b, i) /\ Wanted(event.banks[b], i) => Done(b, i)'
    BY <1>6
  <2>2. \A b \in DOMAIN event.banks : \A j \in 3 .. (Len(event.banks[b]) - 1) :
          Past(b, j + 1)' /\ ~Past(b, j + 1) /\ Trailer(event.banks[b], j) =>
            g_f1_trigger_time'[RocOf(event.banks[b])] = Now
    BY <1>6, Zenon DEF Trailer
  <2>3. QED
    BY <1>1, <1>2, <1>5, <1>6, <2>1, <2>2, RoutedStays
<1>7. CASE EndEvent
  <2>1. pc = "walk" /\ ~More /\ pc' = "event" /\ UNCHANGED bankpointer
    BY <1>7 DEF EndEvent
  <2>2. Place' = Place
    BY <2>1 DEF Place
  <2>3. \A b, i : Past(b, i)' <=> Past(b, i)
    BY <2>2, Zenon DEF Past, Earlier
  <2>4. ~More'
    BY <1>1, <2>1 DEF More, Usable
  <2>5. QED
    BY <1>6, <2>1, <2>3, <2>4
<1>8. ASSUME NextBank
      PROVE  \A b \in DOMAIN event.banks : \A i \in Nat \ {0} :
               Past(b, i)' /\ ~Past(b, i) => b = here /\ ~Earlier([bank |-> b, word |-> i], Place)
  <2>1. SUFFICES ASSUME NEW b \in DOMAIN event.banks, NEW i \in Nat \ {0}, Past(b, i)', ~Past(b, i)
                 PROVE  b = here
    BY Zenon DEF Past
  <2>2. Place'.bank = here + 1 /\ Place'.word = 0 /\ Place.bank = here
    BY <1>3, <1>8 DEF NextBank, Place
  <2>3. b < here + 1 \/ (b = here + 1 /\ i < 0)
    BY <2>1, <2>2 DEF Past, Earlier
  <2>4. ~(b < here)
    BY <2>1, <2>2 DEF Past, Earlier
  <2>5. b \in Nat /\ here \in Nat
    BY <1>2, <1>3, <1>4
  <2>6. QED
    BY <2>3, <2>4, <2>5
<1>9. \A b \in DOMAIN event.banks :
        /\ \A i \in DOMAIN event.banks[b] : i \in Nat \ {0}
        /\ \A j \in 3 .. (Len(event.banks[b]) - 1) :
             j + 1 \in Nat \ {0} /\ j \in DOMAIN event.banks[b] /\ j + 1 \in DOMAIN event.banks[b]
  BY <1>4
<1>10. CASE PassBank
  <2>1. pc = "walk" /\ NextBank /\ More
        /\ \/ Word(2).roc = TriggerRoc
           \/ Word(2).roc > MaxRocs /\ Word(2).roc \notin ParallelRocs
    BY <1>10 DEF PassBank
  <2>2. ASSUME here \in DOMAIN event.banks  PROVE RocOf(event.banks[here]) \notin Crates
    <3>1. Word(2).roc = RocOf(event.banks[here]) /\ RocOf(event.banks[here]) \in Nat
      BY <1>3, <1>4, <2>2 DEF Word, Bank, RocOf, AsSent
    <3>2. QED
      BY <2>1, <3>1, DecodeMapAssumption DEF Crates
  <2>3. ASSUME NEW b \in DOMAIN event.banks, b = here, NEW i  PROVE ~Wanted(event.banks[b], i)
    <3>1. RocOf(event.banks[b]) \notin Crates
      BY <2>2, <2>3
    <3>2. QED
      BY <3>1, WantedCrate
  <2>4. pc' = "walk"
    BY <2>1 DEF NextBank
  <2>5. QED
    BY <1>6, <1>8, <1>9, <2>1, <2>3, <2>4
<1>11. CASE EndBank
  <2>1. pc = "bank" /\ NextBank /\ at.pointer > Len(Bank)
    BY <1>11 DEF EndBank
  <2>2. Place.bank = here /\ Place.word = at.pointer /\ at.pointer \in Nat
    BY <1>3, <2>1 DEF Place, RoutedInv, HitsInv, WalkInv
  <2>3. ASSUME NEW b \in DOMAIN event.banks, b = here, NEW i \in DOMAIN event.banks[b]
        PROVE  Earlier([bank |-> b, word |-> i], Place)
    <3>1. event.banks[b] = Bank
      BY <1>3, <2>3 DEF Bank
    <3>2. Len(Bank) \in Nat /\ i \in 1 .. Len(Bank)
      BY <1>4, <2>3, <3>1
    <3>3. i < at.pointer
      BY <2>1, <2>2, <3>2
    <3>4. QED
      BY <2>2, <2>3, <3>3 DEF Earlier
  <2>4. pc' = "walk"
    BY <2>1 DEF NextBank
  <2>5. QED
    BY <1>6, <1>8, <1>9, <2>1, <2>3, <2>4
<1>12. CASE BeginBank
  <2>1. pc = "walk" /\ More /\ pc' = "bank" /\ UNCHANGED <<bankpointer, mask_vme2>>
        /\ Word(2).roc # TriggerRoc /\ (Word(2).roc <= MaxRocs \/ Word(2).roc \in ParallelRocs)
    BY <1>12 DEF BeginBank
  <2>2. PICK B : B = Bank
    OBVIOUS
  <2>3. here \in DOMAIN event.banks /\ B = event.banks[here]
    <3>1. event \in Events
      BY <1>2 DEF EventsInv, NoEvent
    <3>2. QED
      BY <1>2, <1>3, <2>1, <2>2, <3>1, EventBanksAssumption DEF More, Bank
  <2>4. AsSent(B) /\ Len(B) \in Nat /\ DOMAIN B = 1 .. Len(B)
    BY <1>4, <2>3
  <2>5. Word(2) = B[2] /\ 2 \in 1 .. Len(B)
    BY <2>2, <2>4 DEF Word, AsSent
  <2>6. RocOf(B) \in Crates /\ Word(2).roc \notin ParallelRocs
    BY <2>1, <2>4, <2>5, DecodeMapAssumption DEF AsSent, RocOf, Crates
  <2>7. at' = [pointer |-> 3, last_first |-> Len(B), roc |-> Word(2).roc, lastslot |-> -1, vme |-> FALSE]
    BY <1>12, <2>2, <2>6 DEF BeginBank
  <2>8. Place.bank = here /\ Place.word = 0 /\ Place'.bank = here /\ Place'.word = 3
    BY <1>3, <2>1, <2>7 DEF Place
  <2>9. ASSUME NEW b \in DOMAIN event.banks, NEW i \in Nat \ {0}, Past(b, i)', ~Past(b, i)
        PROVE  b = here /\ i \in {1, 2}
    <3>1. b < here \/ (b = here /\ i < 3)
      BY <2>8, <2>9 DEF Past, Earlier
    <3>2. ~(b < here)
      BY <2>8, <2>9 DEF Past, Earlier
    <3>3. QED
      BY <3>1, <3>2
  <2>10. B[1].kind # "data" /\ B[2].kind # "data"
    BY <2>4, <2>5 DEF AsSent
  <2>11. \A i \in {1, 2} : ~Wanted(B, i)
    BY <2>10 DEF Wanted
  <2>12. BankInv(Bank, Place.word)'
    <3>1. ~VmeBank(B) => 3 <= Len(B) + 1
      BY <2>4 DEF AsSent
    <3>2. SlotSeen(B, 3)'
      <4>1. at'.lastslot = -1 /\ ~(\E j : j \in 3 .. (3 - 1))
        BY <2>7
      <4>2. QED
        BY <4>1 DEF SlotSeen
    <3>3. BankInv(B, 3)'
      <4>1. ~(3 > 3) /\ 3 \notin 4 .. Len(B) /\ pc' # "detector" /\ ~at'.vme
        BY <2>1, <2>4, <2>7
      <4>2. QED
        BY <2>6, <3>1, <3>2, <4>1 DEF BankInv
    <3>4. B = Bank' /\ 3 = Place'.word
      BY <1>1, <2>1, <2>2, <2>8 DEF Bank
    <3>5. QED
      BY <3>3, <3>4
  <2>13. ASSUME NEW b \in DOMAIN event.banks, NEW j \in 3 .. (Len(event.banks[b]) - 1),
                Past(b, j + 1)', ~Past(b, j + 1)
         PROVE  FALSE
    <3>1. j + 1 \in {1, 2}
      BY <1>9, <2>9, <2>13
    <3>2. QED
      BY <3>1
  <2>14. \A b \in DOMAIN event.banks : \A i \in DOMAIN event.banks[b] :
           Past(b, i)' /\ ~Past(b, i) => ~Wanted(event.banks[b], i)
    BY <1>9, <2>3, <2>9, <2>11
  <2>15. QED
    BY <1>6, <2>1, <2>12, <2>13, <2>14
<1>13. QED
  BY <1>7, <1>10, <1>11, <1>12

\* An event begins with nothing passed.
LEMMA BeginEventRouted ==
  ASSUME RoutedInv, HitsInv', BanksAsSent, BeginEvent
  PROVE  RoutedInv'
<1>1. /\ taken' = <<>> /\ bankpointer' = 1 /\ pc' = "walk"
      /\ g_f1_trigger_time' = [r \in 1 .. MaxRocs |-> NoTime]
      /\ UNCHANGED g_f1_refer_time
  BY DEF BeginEvent
<1>2. DOMAIN g_f1_refer_time' = 1 .. MaxRocs /\ DOMAIN g_f1_trigger_time' = 1 .. MaxRocs
  BY <1>1 DEF RoutedInv
<1>3. SUFFICES ASSUME event'.kind = "physics"  PROVE WordsDone' /\ HitsWanted' /\ TrailersDone'
  BY <1>1, <1>2 DEF RoutedInv
<1>4. Place' = [bank |-> 1, word |-> 0]
  BY <1>1 DEF Place
<1>5. event' \in Events
  BY <1>3 DEF HitsInv, EventsInv, NoEvent
<1>6. \A b \in DOMAIN event'.banks :
        b \in Nat \ {0} /\ Len(event'.banks[b]) \in Nat /\ DOMAIN event'.banks[b] = 1 .. Len(event'.banks[b])
  BY <1>3, <1>5, EventBanksAssumption
<1>7. ASSUME NEW b \in Nat \ {0}, NEW i \in Nat, Past(b, i)'
      PROVE  FALSE
  <2>1. b < 1 \/ (b = 1 /\ i < 0)
    BY <1>4, <1>7 DEF Past, Earlier
  <2>2. QED
    BY <2>1
<1>8. WordsDone'
  <2>1. SUFFICES ASSUME NEW b \in DOMAIN event'.banks, NEW i \in DOMAIN event'.banks[b], Past(b, i)'
                 PROVE  FALSE
    BY Zenon DEF WordsDone
  <2>2. QED
    BY <1>6, <1>7, <2>1
<1>9. HitsWanted'
  BY <1>1 DEF HitsWanted
<1>10. TrailersDone'
  <2>1. SUFFICES ASSUME NEW b \in DOMAIN event'.banks, NEW j \in 3 .. (Len(event'.banks[b]) - 1),
                        Past(b, j + 1)'
                 PROVE  FALSE
    BY Zenon DEF TrailersDone
  <2>2. j + 1 \in Nat
    BY <1>6
  <2>3. QED
    BY <1>6, <1>7, <2>1, <2>2
<1>11. QED
  BY <1>8, <1>9, <1>10

\* Every step of the walk.
LEMMA RoutedStep ==
  ASSUME BanksAsSent, RoutedInv, [Next]_vars
  PROVE  RoutedInv'
<1>1. HitsInv /\ HitsInv' /\ WalkInv
  <2>1. HitsInv
    BY DEF RoutedInv
  <2>2. QED
    BY <2>1, HitsStep DEF HitsInv
<1>2. CASE BeginEvent
  BY <1>1, <1>2, BeginEventRouted
<1>3. CASE event.kind # "physics" /\ UNCHANGED <<event, g_f1_refer_time>>
           /\ DOMAIN g_f1_trigger_time' = 1 .. MaxRocs
  BY <1>1, <1>3 DEF RoutedInv
<1>4. CASE EndEvent
  <2>1. UNCHANGED <<event, g_f1_refer_time, g_f1_trigger_time>>
    BY <1>4 DEF EndEvent, decoding
  <2>2. QED
    BY <1>1, <1>3, <1>4, <2>1, BetweenRouted DEF RoutedInv
<1>5. CASE PassBank \/ BeginBank
  <2>1. event.kind = "physics"
    BY <1>5 DEF PassBank, BeginBank
  <2>2. QED
    BY <1>1, <1>5, <2>1, BetweenRouted
<1>6. CASE EndBank \/ Turn \/ Unpack \/ EndDetector
  <2>1. pc \in {"bank", "detector"}
    BY <1>6 DEF EndBank, Turn, Unpack, EndDetector
  <2>2. event.kind = "physics"
    BY <1>1, <2>1 DEF WalkInv
  <2>3. QED
    BY <1>1, <1>6, <2>2, BetweenRouted, TurnRouted, UnpackRouted, EndDetectorRouted
<1>7. CASE PassScalers \/ AnalyzeScalers
  <2>1. event.kind = "scaler" /\ UNCHANGED <<event, g_f1_refer_time, g_f1_trigger_time>>
    BY <1>7 DEF PassScalers, AnalyzeScalers, decoding
  <2>2. event.kind # "physics"
    BY <2>1
  <2>3. QED
    BY <1>3, <2>1, <2>2 DEF RoutedInv
<1>8. CASE UNCHANGED vars
  <2>1. UNCHANGED <<stream, event, pc, bankpointer, at, mask_vme2, call, g_f1_trigger_time,
                    g_f1_refer_time, taken>>
    BY <1>8 DEF vars, decoding
  <2>2. CASE event.kind # "physics"
    BY <1>3, <2>1, <2>2 DEF RoutedInv
  <2>3. CASE event.kind = "physics"
    <3>1. Place' = Place /\ Now' = Now /\ Bank' = Bank
      BY <2>1 DEF Place, Return, Now, Bank
    <3>2. \A b, i : (Past(b, i)' <=> Past(b, i))
      BY <3>1, Zenon DEF Past, Earlier
    <3>3. More' <=> More
      BY <2>1 DEF More, Usable
    <3>4. BankInv(Bank, Place.word) => BankInv(Bank, Place.word)'
      <4>1. PICK B, p : B = Bank /\ p = Place.word
        OBVIOUS
      <4>2. SlotSeen(B, p)' <=> SlotSeen(B, p)
        BY <2>1, Zenon DEF SlotSeen
      <4>3. CallInv(B, p)' <=> CallInv(B, p)
        BY <2>1, Zenon DEF CallInv
      <4>4. BankInv(B, p)' <=> BankInv(B, p)
        BY <2>1, <4>2, <4>3, Zenon DEF BankInv
      <4>5. B = Bank' /\ p = Place'.word
        BY <3>1, <4>1
      <4>6. QED
        BY <4>1, <4>4, <4>5
    <3>5. pc' = "event" => ~More'
      BY <2>1, <2>3, <3>3 DEF RoutedInv
    <3>6. pc' \in {"bank", "detector"} => BankInv(Bank, Place.word)'
      BY <2>1, <2>3, <3>4 DEF RoutedInv
    <3>7. /\ \A k \in DOMAIN taken : k \in DOMAIN taken' /\ taken'[k] = taken[k]
          /\ \A k \in DOMAIN taken' : k \in DOMAIN taken \/ IsHit(taken'[k])
          /\ DOMAIN g_f1_refer_time' = 1 .. MaxRocs /\ DOMAIN g_f1_trigger_time' = 1 .. MaxRocs
          /\ \A r \in 1 .. MaxRocs : g_f1_refer_time'[r] \in {g_f1_refer_time[r], Now}
          /\ \A r \in 1 .. MaxRocs : g_f1_trigger_time'[r] \in {g_f1_trigger_time[r], Now}
      BY <2>1 DEF RoutedInv
    <3>8. QED
      BY <1>1, <2>1, <2>3, <3>2, <3>5, <3>6, <3>7, RoutedStays
  <2>4. QED
    BY <2>2, <2>3
<1>9. QED
  BY <1>2, <1>4, <1>5, <1>6, <1>7, <1>8, Zenon DEF Next

LEMMA RoutedInit == Init => RoutedInv
<1> SUFFICES ASSUME Init PROVE RoutedInv
  OBVIOUS
<1>1. HitsInv
  BY HitsInit
<1>2. event.kind # "physics" /\ DOMAIN g_f1_refer_time = 1 .. MaxRocs /\ DOMAIN g_f1_trigger_time = 1 .. MaxRocs
  BY DEF Init, NoEvent
<1>3. QED
  BY <1>1, <1>2 DEF RoutedInv

\* When a usable event is decoded all its words are passed.
LEMMA AllPassed ==
  ASSUME RoutedInv, BanksAsSent, Decoded, Usable
  PROVE  \A b \in DOMAIN event.banks : \A i \in DOMAIN event.banks[b] :
           Past(b, i) /\ (Wanted(event.banks[b], i) => Done(b, i))
<1>1. event.kind = "physics" /\ pc = "event" /\ ~More /\ EventsInv /\ bankpointer \in Nat
  BY DEF Decoded, RoutedInv, HitsInv, WalkInv
<1>2. event \in Events
  BY <1>1 DEF EventsInv, NoEvent
<1>3. bankpointer > Len(event.banks) /\ DOMAIN event.banks = 1 .. Len(event.banks)
      /\ Len(event.banks) \in Nat
  BY <1>1, <1>2, EventBanksAssumption DEF More
<1>4. Place.bank = bankpointer
  BY DEF Place
<1>5. ASSUME NEW b \in DOMAIN event.banks, NEW i \in DOMAIN event.banks[b]
      PROVE  Past(b, i)
  BY <1>1, <1>3, <1>4 DEF Past, Earlier
<1>6. WordsDone
  BY <1>1 DEF RoutedInv
<1>7. QED
  BY <1>5, <1>6 DEF WordsDone

\* From banks of one crate, as the crates send them, exactly the data words of
\* channels in the map become hits, each once, in the order of the banks and for
\* the detector the map file says, whatever headers, trailers, fillers and error
\* words lie between them; an event that is not usable leaves none
\* (g_decode_event_by_banks, g_decode_all_bank.f:220-742, g_decode_fb_detector,
\* g_decode_all_detector).
THEOREM WordsAllRouted == ASSUME MapDecoded, BanksAsSent PROVE Spec => []WordsRouted
<1>1. ASSUME RoutedInv, Decoded
      PROVE  WordsRouted
  <2>1. HitsInv /\ EventsInv /\ WordsOnce /\ HitsWanted /\ event.kind = "physics"
    BY <1>1 DEF RoutedInv, HitsInv, Decoded
  <2>2. \A b \in DOMAIN event.banks :
          /\ Len(event.banks[b]) \in Nat /\ DOMAIN event.banks[b] = 1 .. Len(event.banks[b])
          /\ AsSent(event.banks[b])
    BY <2>1, BankFacts
  <2> DEFINE got == {[bank |-> taken[j].bank, word |-> taken[j].word, did |-> taken[j].did] : j \in DOMAIN taken}
             want == IF Usable THEN UNION {HitsOf(b) : b \in DOMAIN event.banks} ELSE {}
  <2>3. ASSUME ~Usable  PROVE got = want
    <3>1. taken = <<>>
      BY <2>1, <2>3 DEF WordsOnce
    <3>2. QED
      BY <2>3, <3>1
  <2>4. ASSUME Usable, NEW x \in got  PROVE x \in want
    <3>1. PICK j \in DOMAIN taken : x = [bank |-> taken[j].bank, word |-> taken[j].word, did |-> taken[j].did]
      OBVIOUS
    <3> DEFINE b == taken[j].bank
               i == taken[j].word
    <3>2. /\ b \in DOMAIN event.banks /\ i \in DOMAIN event.banks[b]
          /\ Wanted(event.banks[b], i) /\ ~Reference(event.banks[b], i)
          /\ taken[j].did = DidIn(event.banks[b], i)
      BY <2>1 DEF HitsWanted, IsHit
    <3>3. x = [bank |-> b, word |-> i, did |-> DidIn(event.banks[b], i)]
      BY <3>1, <3>2
    <3> HIDE DEF b, i
    <3>4. /\ Mapped(event.banks[b], i) /\ ~IsReference(event.banks[b], i)
          /\ DetOf(event.banks[b], i) = DidIn(event.banks[b], i)
      BY <2>2, <3>2, WordMeans
    <3>5. x \in HitsOf(b)
      BY <3>2, <3>3, <3>4 DEF HitsOf
    <3>6. QED
      BY <2>4, <3>2, <3>5
  <2>5. ASSUME Usable, NEW x \in want  PROVE x \in got
    <3>1. PICK b \in DOMAIN event.banks : x \in HitsOf(b)
      BY <2>5
    <3>2. PICK i \in DOMAIN event.banks[b] :
            /\ Mapped(event.banks[b], i) /\ ~IsReference(event.banks[b], i)
            /\ x = [bank |-> b, word |-> i, did |-> DetOf(event.banks[b], i)]
      BY <3>1 DEF HitsOf
    <3>3. /\ Wanted(event.banks[b], i) /\ ~Reference(event.banks[b], i)
          /\ DetOf(event.banks[b], i) = DidIn(event.banks[b], i)
      BY <2>2, <3>2, WordMeans
    <3>4. Done(b, i)
      BY <1>1, <2>5, <3>3, AllPassed
    <3>5. PICK k \in DOMAIN taken : taken[k].bank = b /\ taken[k].word = i
      BY <3>3, <3>4, Zenon DEF Done
    <3>6. taken[k].did = DidIn(event.banks[b], i)
      BY <2>1, <3>5 DEF HitsWanted, IsHit
    <3>7. x = [bank |-> taken[k].bank, word |-> taken[k].word, did |-> taken[k].did]
      BY <3>2, <3>3, <3>5, <3>6
    <3>8. QED
      BY <3>7
  <2>6. got = want
    BY <2>3, <2>4, <2>5
  <2>7. \A j, k \in DOMAIN taken : j < k => Earlier(taken[j], taken[k])
    BY <2>1 DEF WordsOnce
  <2>8. QED
    BY <2>6, <2>7, Zenon DEF WordsRouted
<1>2. RoutedInv => WordsRouted
  BY <1>1 DEF WordsRouted
<1>3. Init => RoutedInv
  BY RoutedInit
<1>4. RoutedInv /\ [Next]_vars => RoutedInv'
  BY RoutedStep
<1>5. QED
  BY <1>2, <1>3, <1>4, PTL DEF Spec

\* Where such an event has a hit of an F1 TDC, the trigger time of the hit's crate
\* is one of this event, if a trailer of the crate is right behind words of a
\* detector; and no reference time in the event is lost
\* (g_decode_all_detector.f:304 and :383, g_decode_all_bank.f:518).
THEOREM TimesAllCurrent ==
  ASSUME MapDecoded, BanksAsSent, ModulesTrailed
  PROVE  Spec => []TimesCurrent
<1>1. ASSUME RoutedInv, Decoded
      PROVE  TimesCurrent
  <2>1. /\ HitsInv /\ EventsInv /\ WordsOnce /\ HitsWanted /\ TrailersDone /\ event.kind = "physics"
    BY <1>1 DEF RoutedInv, HitsInv, Decoded
  <2>2. \A b \in DOMAIN event.banks :
          /\ Len(event.banks[b]) \in Nat /\ DOMAIN event.banks[b] = 1 .. Len(event.banks[b])
          /\ AsSent(event.banks[b]) /\ Trailed(event.banks[b])
    <3>1. event \in Events
      BY <2>1 DEF EventsInv, NoEvent
    <3>2. QED
      BY <2>1, <3>1, BankFacts DEF ModulesTrailed
  <2>3. ASSUME NEW j \in DOMAIN taken,
               event.banks[taken[j].bank][taken[j].word].module = "f1"
        PROVE  g_f1_trigger_time[CrateOf(event.banks[taken[j].bank], taken[j].word)] = Now
    <3> DEFINE b == taken[j].bank
               i == taken[j].word
               bank == event.banks[b]
    <3>1. b \in DOMAIN event.banks /\ i \in DOMAIN bank /\ Wanted(bank, i)
      BY <2>1 DEF HitsWanted, IsHit
    <3>2. Usable
      BY <2>1, <2>3 DEF WordsOnce
    <3>3. bank[i].module = "f1"
      BY <2>3
    <3> HIDE DEF b, i
    <3>4. CrateOf(bank, i) = RocOf(bank) /\ i \in 3 .. Len(bank)
      BY <2>2, <3>1, WordMeans
    <3>5. PICK k \in 3 .. (Len(bank) - 1) : Wanted(bank, k) /\ bank[k + 1].kind \in {"begin", "end"}
      BY <2>2, <3>1, <3>3, <3>4 DEF Trailed
    <3>6. k + 1 \in DOMAIN bank
      BY <2>2, <3>1
    <3>7. Past(b, k + 1)
      BY <1>1, <3>1, <3>2, <3>6, AllPassed
    <3>8. g_f1_trigger_time[RocOf(bank)] = Now
      BY <2>1, <3>1, <3>5, <3>7 DEF TrailersDone, Trailer
    <3>9. QED
      BY <3>4, <3>8 DEF b, i
  <2>4. ASSUME Usable, NEW b \in DOMAIN event.banks, NEW i \in DOMAIN event.banks[b],
               IsReference(event.banks[b], i)
        PROVE  g_f1_refer_time[CrateOf(event.banks[b], i)] = Now
    <3>1. Wanted(event.banks[b], i) /\ Reference(event.banks[b], i)
          /\ CrateOf(event.banks[b], i) = RocOf(event.banks[b])
      BY <2>2, <2>4, WordMeans
    <3>2. Done(b, i)
      BY <1>1, <2>4, <3>1, AllPassed
    <3>3. QED
      BY <3>1, <3>2, Zenon DEF Done
  <2>5. QED
    BY <2>3, <2>4, Zenon DEF TimesCurrent
<1>2. RoutedInv => TimesCurrent
  BY <1>1 DEF TimesCurrent
<1>3. Init => RoutedInv
  BY RoutedInit
<1>4. RoutedInv /\ [Next]_vars => RoutedInv'
  BY RoutedStep
<1>5. QED
  BY <1>2, <1>3, <1>4, PTL DEF Spec
=============================================================================
