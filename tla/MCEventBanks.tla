---------------------------- MODULE MCEventBanks ------------------------------
(***************************************************************************)
(* Model values for EventBanks: a map of four crates, banks as the crates  *)
(* send them, with and without errors, and streams of events of them.      *)
(***************************************************************************)
EXTENDS EventBanks

Line(key, value) == [key |-> key, value |-> value]
Chan(sub, plane) == [key |-> "channel", sub |-> sub, plane |-> plane]

\* Crate 1: Fastbus ADCs of a scintillator (2); crate 13: its F1 TDCs, and the
\* reference time (6); crate 7: chambers (1); crate 11: chambers (11), with slots
\* that count from 0; crate 10: ADCs of VME.
MCMapFile ==
  <<Line("nsub", 4), Line("bsub", 17), Line("roc", 1),
    Line("det", 2), Line("slot", 3), Chan(0, 1), Chan(1, 1),
    Line("slot", 5), Chan(1, 2),
    Line("roc", 13), Line("bsub", 16), Line("slot", 5), Chan(0, 1), Chan(1, 1),
    Line("slot", 7), Chan(1, 2), Line("det", 6), Chan(2, 3),
    Line("roc", 7), Line("det", 1), Line("bsub", 17),
    Line("slot", 2), Chan(0, 1), Chan(1, 1), Line("slot", 5), Chan(0, 2),
    Line("det", 11), Line("roc", 11), Line("slot", 1), Chan(0, 1), Chan(2, 1),
    Line("roc", 10), Line("bsub", 16), Line("det", 2), Line("slot", 3), Chan(2, 1), Chan(3, 1)>>

Count(n) == [kind |-> "count", n |-> n]
TagOf(roc) == [kind |-> "tag", roc |-> roc]
Header(slot, sub) == [kind |-> "header", slot |-> slot, sub |-> sub]
CrateWord(tag) == [kind |-> "crate", tag |-> tag]
Around(kind, module, slot) == [kind |-> kind, module |-> module, slot |-> slot, sub |-> 0]
Data(module, slot, sub, b24) ==
  [kind |-> "data", module |-> module, slot |-> slot, sub |-> sub, b24 |-> b24]
Fb(slot, sub) == Data("fb", slot, sub, FALSE)
F1(slot, sub) == Data("f1", slot, sub, FALSE)
Error(form) == [kind |-> "error", form |-> form]
Filler == [kind |-> "filler"]

BankOf(roc, words) == <<Count(Len(words) + 1), TagOf(roc)>> \o words

\* Two slots, each with the header of an 1881M or 1877, an unknown channel, zeros.
Fastbus == BankOf(1, <<Header(3, 0), Fb(3, 0), Fb(3, 1), Header(5, 0), Fb(5, 2), Fb(5, 1), Filler>>)

\* Errors before and between the words, and a channel 0 in the middle of a slot.
Errors == BankOf(1, <<Error("other"), Header(3, 0), Fb(3, 1), Error("mismatch"), Count(5), Count(7),
                      Fb(3, 0), Filler, Fb(5, 1)>>)

\* Headers of an 1881 or 1876, and an event buffer number in bit 24.
Chambers == BankOf(7, <<Header(2, 5), Fb(2, 0), Data("fb", 2, 1, TRUE), Header(5, 5), Fb(5, 0)>>)

ShiftedSlots == BankOf(11, <<Header(0, 0), Fb(0, 0), Fb(0, 1), Fb(0, 2), Filler>>)

\* Two modules, the second with the reference time between the others' words.
F1Crate == BankOf(13, <<CrateWord("F1C"), Around("begin", "f1", 5), F1(5, 0),
                        Data("f1", 5, 1, TRUE), Around("end", "f1", 5),
                        Around("begin", "f1", 7), F1(7, 2), F1(7, 1), Around("end", "f1", 7)>>)

\* No crate word, a module without data.
F1Plain == BankOf(13, <<Around("begin", "f1", 5), Around("end", "f1", 5),
                        Around("begin", "f1", 7), F1(7, 1), Around("end", "f1", 7)>>)

F1Empty == BankOf(13, <<CrateWord("F1C")>>)

SubBank(roc, words) == <<Count(Len(words) + 1), TagOf(roc)>> \o words

Parallel == BankOf(8, SubBank(1, <<Header(3, 0), Fb(3, 1)>>)
                      \o SubBank(7, <<Header(2, 0), Fb(2, 1), Fb(2, 0)>>))

\* Of two crates the first sends nothing.
ParallelEmpty == BankOf(9, SubBank(1, <<>>) \o SubBank(7, <<Fb(2, 1)>>))

TriggerBank == BankOf(20, <<Filler, Fb(3, 0)>>)
BadRoc == BankOf(21, <<Fb(3, 0)>>)

MCBanks == {Fastbus, Errors, Chambers, ShiftedSlots, F1Crate, F1Plain, F1Empty, Parallel,
            ParallelEmpty, TriggerBank, BadRoc}

Event(banks) == [kind |-> "physics", header |-> TRUE, idBank |-> TRUE, long |-> FALSE,
                 banks |-> banks]

Unusable == {[Event(<<Fastbus, F1Crate>>) EXCEPT !.header = FALSE],
             [Event(<<Fastbus, F1Crate>>) EXCEPT !.idBank = FALSE],
             [Event(<<Fastbus, F1Crate>>) EXCEPT !.long = TRUE]}

\* All pairs of banks in one event and in two, and events that are not usable.
PhysicsStreams ==
  {<<Event(<<a, b>>)>> : a \in MCBanks, b \in MCBanks}
  \union {<<Event(<<a>>), Event(<<b>>)>> : a \in MCBanks, b \in MCBanks}
  \union {<<Event(<<F1Crate>>), u, Event(<<F1Plain>>)>> : u \in Unusable}
  \union {<<Event(<<F1Crate, Fastbus, Chambers>>), Event(<<>>), Event(<<F1Plain>>)>>}

Module(address, n) == [address |-> address, n |-> n]
ScalerBank(roc, modules) == [roc |-> roc, modules |-> modules]
ScalerEvent(banks) == [Event(banks) EXCEPT !.kind = "scaler"]

\* The clock (1) and the monitor (2) are in one crate, another counter (3) is in
\* the other, once before and behind a module with too many readings.
Crate13 == ScalerBank(13, <<Module(0, 1), Module(1, 1)>>)
Crate14 == ScalerBank(14, <<Module(2, 1)>>)
CutShort == ScalerBank(14, <<Module(2, 1), Module(3, 5), Module(2, 1)>>)
OtherRoc == ScalerBank(12, <<Module(2, 1)>>)
NoModules == ScalerBank(13, <<>>)

ScalerStreams ==
  {<<ScalerEvent(<<Crate13>>), ScalerEvent(<<Crate13>>), ScalerEvent(<<Crate13, OtherRoc>>),
     ScalerEvent(<<NoModules, Crate13>>)>>,
   <<ScalerEvent(<<Crate14>>), ScalerEvent(<<CutShort>>), ScalerEvent(<<Crate14>>),
     ScalerEvent(<<Crate14>>), ScalerEvent(<<Crate14>>), ScalerEvent(<<Crate14>>),
     ScalerEvent(<<Crate14>>), ScalerEvent(<<Crate14>>)>>,
   <<ScalerEvent(<<Crate13, Crate14>>), ScalerEvent(<<Crate14, Crate13>>)>>}

MCStreams == PhysicsStreams \union ScalerStreams

\* The scaler banks are as ScalersCount asks.
ASSUME MCStreamsAssumption == \A s \in MCStreams : \A e \in ToSet(s) : Whole(e)

\* The map file is as MapRead asks.
ASSUME MCMapAssumption == MapDecoded

\* The banks of one crate are as WordsAllRouted and TimesAllCurrent ask, by a map
\* that is as the file says (it is, by MapRead).
OneCrateBanks == MCBanks \ {Parallel, ParallelEmpty}
ASSUME MCBanksAssumption ==
  MapAsWritten(map) => \A bank \in OneCrateBanks : AsSent(bank) /\ Trailed(bank)

-----------------------------------------------------------------------------
(* What the code does not stand: one bank, one event each.                 *)

\* The last datum is of a channel that is not in the map.
LostTime == BankOf(13, <<Around("begin", "f1", 5), F1(5, 0), F1(5, 3), Around("end", "f1", 5)>>)

\* The first datum of another detector has the overflow bit.
Overflow == BankOf(13, <<Around("begin", "f1", 7), F1(7, 2), Data("f1", 7, 1, TRUE),
                         Around("end", "f1", 7)>>)

\* A crate of ADCs.
Adcs == BankOf(10, <<CrateWord("ADC"), Around("begin", "adc", 3), Data("adc", 3, 2, FALSE),
                     Data("adc", 3, 3, FALSE), Around("end", "adc", 3)>>)

\* The second crate begins with the slot the first one ended with.
SameSlot == BankOf(8, SubBank(1, <<Header(5, 0), Fb(5, 1)>>)
                      \o SubBank(7, <<Header(5, 0), Fb(5, 0)>>))

\* A VME crate in the first half, its last word passed in g_decode_all_bank.
VmeParallel == BankOf(8, SubBank(13, <<F1(5, 3), Around("end", "f1", 5)>>)
                         \o SubBank(13, <<Around("begin", "f1", 5), F1(5, 0)>>))

\* Too many readings behind the monitor.
CutCharge == ScalerBank(13, <<Module(0, 1), Module(1, 1), Module(2, 5)>>)

DoubtfulStreams ==
  {<<Event(<<bank>>)>> :
     bank \in {LostTime, Overflow, Adcs, SameSlot, VmeParallel}}
  \union {<<ScalerEvent(<<CutCharge>>)>>}
=============================================================================
