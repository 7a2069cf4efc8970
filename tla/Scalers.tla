------------------------------- MODULE Scalers --------------------------------
(***************************************************************************)
(* The counts of the hardware scalers, as g_analyze_scaler_bank makes them *)
(* of the readings in the banks of scaler events: readings are 32 bits     *)
(* wide and roll over, and some channels clear themselves now and then     *)
(* ("For Gen (7/1998) it is noticed").  From the changes of the counts     *)
(* between scaler events the charge of the beam is summed.                 *)
(*                                                                         *)
(* Times are in units of the clock (gclock_rate = 1).  A bank is a         *)
(* sequence of modules, each with the address of its first counter and     *)
(* the number of its readings.  Left out: gscal_lastevnum,                 *)
(* gscalweird_nclears and the mean charge, which nothing in the code looks *)
(* at again, g_run_time, which is the clock's count, and the file of       *)
(* charges.                                                                *)
(***************************************************************************)
EXTENDS Integers, Sequences, SequencesExt

CONSTANTS
  Half,           \* half the range of a reading, 2^31 in the code
  Jump,           \* the most a counter counts between two readings, 2^25 in the code
  MaxCount,       \* the most readings a module may have, 32 in the code
  Counters,       \* indices of counters
  Clock,          \* gclock_index
  Monitors,       \* gbcm1_index, gbcm2_index, gbcm3_index, gunser_index
  Bcm1,           \* gbcm1_index, the first of them
  Offset,         \* counts of a monitor per unit of time without beam
  Threshold,      \* g_beam_on_thresh_cur
  MaxInterval,    \* the longest interval charge is summed over, 3 s
  WeirdCorrect    \* gscalweirdcorrect_flag

ASSUME ScalersAssumption ==
  /\ Half \in Nat \ {0, 1} /\ Jump \in 1 .. Half /\ MaxCount \in Nat
  /\ Clock \in Counters /\ Monitors \subseteq Counters /\ Bcm1 \in Monitors
  /\ Offset \in Nat /\ Threshold \in Int /\ MaxInterval \in Nat
  /\ WeirdCorrect \in BOOLEAN

Full == 2 * Half

\* A reading as an integer*4 of the code.
Signed(n) == ((n + Half) % Full) - Half

\* What the code keeps of a counter: gscaler, gscaler_change, gscaler_nroll,
\* gscalweird_lastval and gscalweird_lostcounts.
NewCounter == [value |-> 0, change |-> 0, nroll |-> 0, lastval |-> 0, lost |-> 0]

\* g_scaler_reset_event, at the beginning of the run.
NewScalers ==
  [counter |-> [c \in Counters |-> NewCounter],
   charge |-> [m \in Monitors |-> 0],
   onTime |-> 0, onCharge |-> 0, events |-> 0]

\* (NeverCleared: a mutant, the correction is left out.
\* ClearedIfLess: a mutant, any reading below the last one is a clear.)
NeverCleared(s, r) == FALSE
ClearedIfLess(s, r) == WeirdCorrect /\ r < (s.lastval % Full)

\* Whether the counter seems to have been cleared since its last reading.
\* The difference of two integer*4 may overflow.
Cleared(s, r) ==
  /\ WeirdCorrect
  /\ Signed(r) > 0
  /\ \/ s.lastval > Signed(r)
     \/ s.lastval < 0 /\ Signed(Signed(r) - s.lastval) > Jump

\* The reading extended beyond its range: a count below the last one
\* has rolled over, once.
ExtendedReading(s, r, lost) ==
  LET nroll == IF r + s.nroll * Full + lost < s.value THEN s.nroll + 1 ELSE s.nroll
      value == r + nroll * Full + lost
  IN  [value |-> value, change |-> value - s.value, nroll |-> nroll,
       lastval |-> IF WeirdCorrect THEN Signed(r) ELSE s.lastval, lost |-> lost]

\* The lost counts of a counter beyond half the range are negative: the
\* comparison for the rollover makes up for it.
ReadCounter(s, r) ==
  ExtendedReading(s, r, IF Cleared(s, r) THEN s.lost + s.lastval ELSE s.lost)

\* The modules up to the first with too many readings, which ends the routine.
GoodModules(bank) ==
  LET bad == SelectInSeq(bank, LAMBDA module : module.n > MaxCount)
  IN  IF bad = 0 THEN bank ELSE SubSeq(bank, 1, bad - 1)

CountersOf(bank) ==
  UNION {{bank[j].address + k : k \in 1 .. bank[j].n} : j \in DOMAIN bank}

\* No counter is in two modules.
ReadModules(sc, bank, reading) ==
  [sc EXCEPT !.counter = [c \in Counters |->
     IF c \in CountersOf(bank) THEN ReadCounter(@[c], reading[c]) ELSE @[c]]]

\* Counts of a monitor above its offset in an interval: current times time.
Beam(sc, m, time) == sc.counter[m].change - Offset * time

\* (SumAlways: a mutant, the length of the interval is not looked at.)
SumAlways(sc) ==
  LET time == sc.counter[Clock].change IN
  [sc EXCEPT !.charge = [m \in Monitors |-> @[m] + Beam(sc, m, time)]]

\* The charge between this scaler event and the last one, if the interval is
\* neither empty nor too long.
SumCharge(sc) ==
  LET time == sc.counter[Clock].change
      on == Beam(sc, Bcm1, time) >= Threshold * time
  IN  IF time <= 0 \/ time >= MaxInterval THEN sc
      ELSE [sc EXCEPT
              !.charge = [m \in Monitors |-> IF Beam(sc, m, time) >= 0
                                             THEN @[m] + Beam(sc, m, time) ELSE @[m]],
              !.onTime = IF on THEN @ + time ELSE @,
              !.onCharge = IF on THEN @ + Beam(sc, Bcm1, time) ELSE @,
              !.events = @ + 1]

\* A module with too many readings ends the routine without an ABORT and before
\* the charge is summed, behind what the modules before it did.
AnalyzeBank(sc, bank, reading) ==
  LET read == ReadModules(sc, GoodModules(bank), reading) IN
  IF GoodModules(bank) = bank /\ Bcm1 \in CountersOf(bank) THEN SumCharge(read) ELSE read
=============================================================================
