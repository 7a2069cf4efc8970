------------------------------ MODULE EventBanks ------------------------------
(***************************************************************************)
(* From the banks of an event to the routines of the detectors: the walk   *)
(* over the banks of a physics event (g_decode_event_by_banks), over the   *)
(* words of a bank (g_decode_all_bank) and over the words of one detector  *)
(* (g_decode_fb_detector, g_decode_all_detector, up to the place where a   *)
(* word becomes a hit, which is module HitList), and the walk over the     *)
(* banks of a scaler event (g_analyze_scalers_by_banks), with the scalers  *)
(* themselves as far as their readings tell.                               *)
(*                                                                         *)
(* A word is a record with what the tests of its bits see:                 *)
(*   [kind |-> "count", n]           the length of a bank or sub-bank      *)
(*   [kind |-> "tag", roc]           the second word, with the crate       *)
(*   [kind |-> "header", slot, sub]  a Fastbus module's header             *)
(*   [kind |-> "crate", tag]         DA00ADC0, DA00DDC0, DA00F1C0          *)
(*   [kind |-> "begin", module, slot, sub], [kind |-> "end", ...]          *)
(*                                   around the data of a VME module, of   *)
(*                                   the kind "f1" or "adc"                *)
(*   [kind |-> "data", module, slot, sub, b24]  module "fb", "f1", "adc";  *)
(*                                   b24: its bit 24 (overflow, buffer)    *)
(*   [kind |-> "error", form]        DCAA.... "mismatch", others "other"   *)
(*   [kind |-> "filler"]             0 or 1                                *)
(* The first word of a bank is its length, the second its tag.             *)
(***************************************************************************)
EXTENDS DecodeMap, Scalers, FiniteSets

CONSTANTS
  Streams,         \* the sequences of events a run may have
  FbDetectors,     \* detectors g_decode_fb_detector is called for
  AllDetectors,    \* detectors g_decode_all_detector is called for
  GMISC_ID,        \* the one of the latter with the reference times
  ReferPlanes,     \* its planes 3 and 4
  VmeRocs,         \* HR_VME_ROCID and LR_VME_ROCID
  ParallelRocs,    \* 8 and 9, with the banks of two crates in one
  ShiftedRocs,     \* 11, whose slots count from 0
  TriggerRoc,      \* 20, scalers and the trigger pattern
  ScalerRocs,      \* 13, 14 and 20
  InvalidSub,      \* Z'7F'
  Increments,      \* what a counter may count between two readings
  ClearsShow       \* whether counters clear themselves only where it shows

Detectors == FbDetectors \union AllDetectors

Events == UNION {ToSet(s) : s \in Streams}

ASSUME EventBanksAssumption ==
  /\ \A s \in Streams : s \in Seq(Events)
  /\ \A e \in Events : /\ Len(e.banks) \in Nat /\ DOMAIN e.banks = 1 .. Len(e.banks)
                       /\ e.kind = "physics" =>
                            \A b \in DOMAIN e.banks : /\ Len(e.banks[b]) \in Nat
                                                     /\ DOMAIN e.banks[b] = 1 .. Len(e.banks[b])
  /\ FbDetectors \intersect AllDetectors = {} /\ Detectors \subseteq Nat
  /\ GMISC_ID \in AllDetectors
  /\ VmeRocs \union ShiftedRocs \subseteq 1 .. MaxRocs
  /\ InvalidSub \in Nat \ {0}
  /\ Increments \subseteq 0 .. Jump /\ ClearsShow \in BOOLEAN

VARIABLES
  stream,      \* the events to come
  event,       \* the event under way, the last one at stage "event"
  pc,          \* "event", "walk" (between banks), "bank", "detector"
  bankpointer, \* the place of the bank among the event's
  at,          \* variables of g_decode_all_bank: pointer, last_first, roc,
               \* lastslot, and whether mask_vme1 is DA
  mask_vme2,   \* kept from one event to the next
  call,        \* the detector routine's: did, the word it began at, length, pointer
  g_f1_trigger_time, \* by crate, the event it is from
  g_f1_refer_time,   \* the same
  taken,       \* the words that became hits of this event, in order
  scalers,     \* see Scalers
  hardware,    \* the hardware scalers, modulo Full
  truth        \* the counts the readings show, and the charge, for the properties

decoding == <<at, mask_vme2, call, g_f1_trigger_time, g_f1_refer_time, taken>>
vars == <<stream, event, pc, bankpointer, decoding, scalers, hardware, truth>>

\* The map, read when the program starts.
map == DecodeConfig

\* Number of the event under way, counted from the end of the stream.
Now == Len(stream)

NoTime == -1
BadTime == -2

NoEvent == [kind |-> "none", banks |-> <<>>]

Beyond == [kind |-> "beyond"]

Init ==
  /\ stream \in Streams /\ event = NoEvent /\ pc = "event" /\ bankpointer = 1
  /\ at = [pointer |-> 1, last_first |-> 0, roc |-> 0, lastslot |-> -1, vme |-> FALSE]
  /\ mask_vme2 = "none"
  /\ call = [did |-> UNINST_ID, from |-> 1, length |-> 0, pointer |-> 1]
  /\ g_f1_trigger_time = [r \in 1 .. MaxRocs |-> NoTime]
  /\ g_f1_refer_time = [r \in 1 .. MaxRocs |-> NoTime]
  /\ taken = <<>>
  /\ scalers = NewScalers
  /\ hardware = [c \in Counters |-> 0]
  /\ truth = [count |-> [c \in Counters |-> 0], charge |-> [m \in Monitors |-> 0]]

-----------------------------------------------------------------------------
(* What the code sees in a word.                                           *)

Bank == event.banks[bankpointer]

\* What lies beyond the bank's end is never decoded: the loop ends there.
Word(i) == IF i \in DOMAIN Bank THEN Bank[i] ELSE Beyond

IsFiller(w) ==
  \/ w.kind = "filler"
  \/ w.kind = "count" /\ w.n <= 1

InModule(w) == w.kind \in {"header", "begin", "end", "data"}

\* The top five bits: of DA...... and DC...... they are 27.
Slot(w) ==
  CASE InModule(w) -> w.slot
    [] w.kind \in {"crate", "error"} -> 27
    [] OTHER -> 0

ShiftedSlot(w, roc) == IF roc \in ShiftedRocs THEN Slot(w) + 1 ELSE Slot(w)

\* The channel of a tag, should its slot count, is part of the crate's number.
Sub(w) ==
  CASE InModule(w) -> w.sub
    [] w.kind = "tag" -> w.roc \div 2
    [] OTHER -> 0

Bit24(w) == w.kind = "data" /\ w.b24

Bit25(w) == w.kind = "begin" /\ w.module = "adc"

\* Set in the data of F1 TDCs (and in some words whose bit nothing asks for).
Bit23(w) == w.kind = "data" /\ w.module = "f1"

\* Channel 0, and the bits beside it clear, too.  One of these is set in all
\* words around the data of an ADC, and in those of the crate; none in a length.
LooksLikeHeader(w) ==
  /\ Sub(w) = 0 /\ ~Bit24(w) /\ ~Bit23(w)
  /\ w.kind \notin {"crate", "error", "tag"}
  /\ w.kind \in {"begin", "end"} => w.module = "f1"

-----------------------------------------------------------------------------
(* The walk over the banks.                                                *)

\* g_clear_event before the event is read.  The reference times stay.
BeginEvent ==
  /\ pc = "event" /\ stream # <<>>
  /\ event' = Head(stream) /\ stream' = Tail(stream)
  /\ taken' = <<>>
  /\ g_f1_trigger_time' = [r \in 1 .. MaxRocs |-> NoTime]
  /\ bankpointer' = 1
  /\ pc' = "walk"
  /\ UNCHANGED <<at, mask_vme2, call, g_f1_refer_time, scalers, hardware, truth>>

\* A header that is not that of a physics event, a first bank that is not the
\* event ID's: ABORT.  Too long an event is passed over.
Usable == event.header /\ event.idBank /\ (event.kind = "physics" => ~event.long)

More == Usable /\ bankpointer <= Len(event.banks)

EndEvent ==
  /\ pc = "walk" /\ ~More
  /\ pc' = "event"
  /\ UNCHANGED <<stream, event, bankpointer, decoding, scalers, hardware, truth>>

NextBank == bankpointer' = bankpointer + 1 /\ pc' = "walk"

\* The trigger's bank, and those of crates out of range.
PassBank ==
  /\ pc = "walk" /\ More /\ event.kind = "physics"
  /\ \/ Word(2).roc = TriggerRoc
     \/ Word(2).roc > MaxRocs /\ Word(2).roc \notin ParallelRocs
  /\ NextBank
  /\ UNCHANGED <<stream, event, decoding, scalers, hardware, truth>>

\* mask_vme2 stays as it was.
BeginBank ==
  /\ pc = "walk" /\ More /\ event.kind = "physics"
  /\ Word(2).roc # TriggerRoc /\ (Word(2).roc <= MaxRocs \/ Word(2).roc \in ParallelRocs)
  /\ at' = IF Word(2).roc \in ParallelRocs
           THEN [pointer |-> 5, last_first |-> 3 + Word(3).n, roc |-> Word(4).roc,
                 lastslot |-> -1, vme |-> FALSE]
           ELSE [pointer |-> 3, last_first |-> Len(Bank), roc |-> Word(2).roc,
                 lastslot |-> -1, vme |-> FALSE]
  /\ pc' = "bank"
  /\ UNCHANGED <<stream, event, bankpointer, mask_vme2, call, g_f1_trigger_time,
                 g_f1_refer_time, taken, scalers, hardware, truth>>

EndBank ==
  /\ pc = "bank" /\ at.pointer > Len(Bank)
  /\ NextBank
  /\ UNCHANGED <<stream, event, decoding, scalers, hardware, truth>>

-----------------------------------------------------------------------------
(* The walk over the words of a bank.                                      *)

\* (KeepsCrate: a mutant, the second crate of a bank is taken for the first.)
KeepsCrate ==
  LET second == at.pointer = at.last_first + 1 IN
  [at EXCEPT !.last_first = IF second THEN Len(Bank) ELSE @,
             !.vme = @ \/ Word(at.pointer).kind = "crate" \/ at.roc \in VmeRocs]

\* The crate and the kind of its modules, as of the present word.  The second
\* crate of a bank begins with words that count as bad slots; lastslot stays.
Crate ==
  LET second == at.pointer = at.last_first + 1
      roc == IF second THEN Word(at.pointer + 1).roc ELSE at.roc
  IN  [at EXCEPT !.last_first = IF second THEN Len(Bank) ELSE @,
                 !.roc = roc,
                 !.vme = @ \/ Word(at.pointer).kind = "crate" \/ roc \in VmeRocs]

ModuleKind(crate) ==
  CASE crate.roc \in VmeRocs -> "F1C"
    [] crate.roc \notin VmeRocs /\ Word(at.pointer).kind = "crate" -> Word(at.pointer).tag
    [] OTHER -> mask_vme2

\* (SkipTwo: a mutant, the last test is the wrong way round.)
SkipTwo(p) ==
  LET past(q, test) == IF test THEN q + 1 ELSE q
      q1 == past(p, Word(p).kind = "crate")
  IN  past(q1, Bit23(Word(q1)))

\* Beyond the headers of VME, each tested for once.
SkipHeaders(p) ==
  LET past(q, test) == IF test THEN q + 1 ELSE q
      q1 == past(p, Word(p).kind = "crate")
      q2 == past(q1, Bit24(Word(q1)))
      q3 == past(q2, Bit25(Word(q2)))
  IN  past(q3, ~Bit23(Word(q3)))

\* (OneWordShort: a mutant, the last word of the bank is left out.)
OneWordShort(crate, p) == crate.last_first - p

MaxWords(crate, p) == crate.last_first - p + 1

\* One turn of the loop: the word goes to the routine of its detector, together
\* with all words behind it; or it is passed over.
Turn ==
  /\ pc = "bank" /\ at.pointer <= Len(Bank)
  /\ LET crate == Crate
         p == IF crate.vme THEN SkipHeaders(at.pointer) ELSE at.pointer
         w == Word(p)
         slot == ShiftedSlot(w, crate.roc)
         good == slot \in 1 .. MaxSlots /\ crate.roc \in 1 .. MaxRocs
         did == DidAt(map, crate.roc, slot, Sub(w))
     IN  /\ mask_vme2' = ModuleKind(crate)
         /\ \/ /\ good /\ Sub(w) < InvalidSub /\ did \in Detectors
               /\ call' = [did |-> did, from |-> p, length |-> MaxWords(crate, p), pointer |-> 1]
               /\ at' = [crate EXCEPT !.pointer = p]
               /\ pc' = "detector"
            \/ /\ good /\ Sub(w) < InvalidSub /\ did \notin Detectors
               /\ at' = [crate EXCEPT !.pointer = p + 1]
               /\ UNCHANGED <<call, pc>>
            \/ /\ good /\ Sub(w) >= InvalidSub
               /\ at' = [crate EXCEPT !.pointer = p + 1, !.lastslot = slot]
               /\ UNCHANGED <<call, pc>>
            \/ /\ ~good
               /\ at' = [crate EXCEPT !.pointer = p + 1]
               /\ UNCHANGED <<call, pc>>
  /\ UNCHANGED <<stream, event, bankpointer, g_f1_trigger_time, g_f1_refer_time, taken,
                 scalers, hardware, truth>>

-----------------------------------------------------------------------------
(* The walk over the words of a detector.                                  *)

Routine == IF call.did \in FbDetectors THEN "fb" ELSE "all"

W == Word(call.from + call.pointer - 1)

WSlot == IF Routine = "fb" THEN ShiftedSlot(W, at.roc) ELSE Slot(W)

\* (Slot 0 has no place in the map; no word of slot 0 gets to g_decode_fb_detector
\* but a filler or what a mismatch has skipped.)
InRange ==
  IF Routine = "fb" THEN WSlot \in 0 .. MaxSlots /\ at.roc \in 1 .. (MaxRocs - 1)
  ELSE WSlot \in 1 .. MaxSlots /\ at.roc \in 1 .. MaxRocs

Passed == W.kind = "error" \/ IsFiller(W) \/ ~InRange

\* (HeaderInAnySlot: a mutant, a header is looked for in the words of the same
\* slot, too.)
HeaderInAnySlot ==
  /\ ~Passed
  /\ map.subaddbit[<<at.roc, WSlot>>] = 17
  /\ LooksLikeHeader(W)

\* The first word of a slot, with channel 0 and all other bits clear, is a
\* header, where channels begin at bit 17.
ModuleHeader ==
  /\ ~Passed
  /\ WSlot # at.lastslot
  /\ map.subaddbit[<<at.roc, WSlot>>] = 17
  /\ LooksLikeHeader(W)

Tag == IF W.kind = "crate" THEN W.tag ELSE mask_vme2

VmeHeader ==
  /\ ~Passed /\ ~ModuleHeader
  /\ Routine = "all" /\ at.vme
  /\ \/ W.kind = "crate"
     \/ Tag \in {"ADC", "DDC"} /\ W.kind \in {"begin", "end"} /\ W.module = "adc"
     \/ Tag = "F1C" /\ ~Bit23(W)

NewDid == DidAt(map, at.roc, WSlot, Sub(W))

Proceed(words) == call' = [call EXCEPT !.pointer = @ + words] /\ UNCHANGED pc

\* Back in g_decode_all_bank, the pointer moved by the words processed.
Return == at.pointer + call.pointer - 1

Refers == Routine = "all" /\ call.did = GMISC_ID /\ PlaneAt(map, at.roc, WSlot, Sub(W)) \in ReferPlanes

\* A word of this detector becomes a hit, or the crate's reference time.
TakeWord ==
  /\ ~Passed /\ ~ModuleHeader /\ ~VmeHeader /\ NewDid = call.did
  /\ IF Refers
     THEN g_f1_refer_time' = [g_f1_refer_time EXCEPT ![at.roc] = Now] /\ UNCHANGED taken
     ELSE /\ taken' = Append(taken, [bank |-> bankpointer, word |-> call.from + call.pointer - 1,
                                     did |-> call.did, f1 |-> Tag = "F1C"])
          /\ UNCHANGED g_f1_refer_time
  /\ at' = [at EXCEPT !.lastslot = WSlot]
  /\ Proceed(1)
  /\ UNCHANGED <<mask_vme2, g_f1_trigger_time>>

\* (SilentHeader: a mutant, the trigger time is not stored.)
SilentHeader ==
  /\ VmeHeader
  /\ mask_vme2' = Tag
  /\ at' = [at EXCEPT !.lastslot = WSlot]
  /\ Proceed(1)
  /\ UNCHANGED <<g_f1_trigger_time, g_f1_refer_time, taken>>

\* The trigger time is stored from the header and the trailer of a module, and
\* from other words taken for such.
SkipVmeHeader ==
  /\ VmeHeader
  /\ mask_vme2' = Tag
  /\ g_f1_trigger_time' = [g_f1_trigger_time EXCEPT ![at.roc] =
                             IF W.kind \in {"begin", "end"} /\ W.module = "f1" THEN Now ELSE BadTime]
  /\ at' = [at EXCEPT !.lastslot = WSlot]
  /\ Proceed(1)
  /\ UNCHANGED <<g_f1_refer_time, taken>>

SkipModuleHeader ==
  /\ ModuleHeader
  /\ at' = [at EXCEPT !.lastslot = WSlot]
  /\ Proceed(1)
  /\ UNCHANGED <<mask_vme2, g_f1_trigger_time, g_f1_refer_time, taken>>

\* The lengths that differ follow in two words.
SkipPassed ==
  /\ Passed
  /\ Proceed(IF W.kind = "error" /\ W.form = "mismatch" THEN 3 ELSE 1)
  /\ UNCHANGED <<at, mask_vme2, g_f1_trigger_time, g_f1_refer_time, taken>>

\* The caller will call again, for another detector.
LeaveDetector ==
  /\ ~Passed /\ ~ModuleHeader /\ ~VmeHeader /\ NewDid # call.did
  /\ at' = [at EXCEPT !.lastslot = WSlot, !.pointer = Return]
  /\ pc' = "bank"
  /\ UNCHANGED <<call, mask_vme2, g_f1_trigger_time, g_f1_refer_time, taken>>

EndDetector ==
  /\ pc = "detector" /\ call.pointer > call.length
  /\ at' = [at EXCEPT !.pointer = Return]
  /\ pc' = "bank"
  /\ UNCHANGED <<stream, event, bankpointer, mask_vme2, call, g_f1_trigger_time,
                 g_f1_refer_time, taken, scalers, hardware, truth>>

Unpack ==
  /\ pc = "detector" /\ call.pointer <= call.length
  /\ \/ TakeWord
     \/ SkipVmeHeader
     \/ SkipModuleHeader
     \/ SkipPassed
     \/ LeaveDetector
  /\ UNCHANGED <<stream, event, bankpointer, scalers, hardware, truth>>

-----------------------------------------------------------------------------
(* The banks of a scaler event: [roc, modules], a module [address, n].     *)

\* Whether a clear shows in the reading r behind the last one: the counter goes
\* down, by what cannot be a rollover, and it does so in integer*4.
Shows(last, r) ==
  /\ r > 0
  /\ IF last < Half THEN last > r
     ELSE r + Full - last > Jump /\ r + Full - last < Half

Earned(m, inc) ==
  LET beam == inc[m] - Offset * inc[Clock] IN
  IF inc[Clock] \in 1 .. (MaxInterval - 1) /\ beam > 0 THEN beam ELSE 0

\* Banks of other crates.
PassScalers ==
  /\ pc = "walk" /\ More /\ event.kind = "scaler" /\ Bank.roc \notin ScalerRocs
  /\ NextBank
  /\ UNCHANGED <<stream, event, decoding, scalers, hardware, truth>>

AnalyzeScalers ==
  /\ pc = "walk" /\ More /\ event.kind = "scaler" /\ Bank.roc \in ScalerRocs
  /\ LET read == CountersOf(GoodModules(Bank.modules)) IN
     \E inc \in [read -> Increments], cleared \in SUBSET read :
       LET now == [c \in Counters |->
                     CASE c \notin read -> hardware[c]
                       [] c \in cleared -> inc[c]
                       [] OTHER -> (hardware[c] + inc[c]) % Full]
       IN  /\ cleared # {} => WeirdCorrect
           /\ ClearsShow => \A c \in cleared : Shows(hardware[c], inc[c])
           /\ hardware' = now
           /\ scalers' = AnalyzeBank(scalers, Bank.modules, now)
           /\ truth' = [count |-> [c \in Counters |->
                                     truth.count[c] + (IF c \in read THEN inc[c] ELSE 0)],
                        charge |-> [m \in Monitors |->
                                      truth.charge[m] + (IF Bcm1 \in read THEN Earned(m, inc) ELSE 0)]]
  /\ NextBank
  /\ UNCHANGED <<stream, event, decoding>>

Next ==
  \/ BeginEvent \/ EndEvent
  \/ PassBank \/ BeginBank \/ EndBank
  \/ Turn \/ Unpack \/ EndDetector
  \/ PassScalers \/ AnalyzeScalers

Spec == Init /\ [][Next]_vars

\* One program, which goes on.
FairSpec == Spec /\ WF_vars(Next)

-----------------------------------------------------------------------------
(* What the banks say, by the map file.                                    *)

\* The crate of a word: that of the last tag before it.
CrateOf(bank, i) ==
  bank[CHOOSE j \in 1 .. i : /\ bank[j].kind = "tag"
                             /\ \A k \in (j + 1) .. i : bank[k].kind # "tag"].roc

\* The lines with the channel of a word, one at most.
LinesOfWord(bank, i) ==
  IF bank[i].kind # "data" THEN {}
  ELSE LinesFor(CrateOf(bank, i), ShiftedSlot(bank[i], CrateOf(bank, i)), bank[i].sub)

DetOf(bank, i) == InForce("det", CHOOSE k \in LinesOfWord(bank, i) : TRUE)

Mapped(bank, i) == LinesOfWord(bank, i) # {} /\ DetOf(bank, i) \in Detectors

IsReference(bank, i) ==
  /\ Mapped(bank, i) /\ DetOf(bank, i) = GMISC_ID
  /\ \A k \in LinesOfWord(bank, i) : MapFile[k].plane \in ReferPlanes

\* The words of a bank that are to become hits.
HitsOf(b) ==
  LET bank == event.banks[b] IN
  {[bank |-> b, word |-> i, did |-> DetOf(bank, i)] :
     i \in {i \in DOMAIN bank : Mapped(bank, i) /\ ~IsReference(bank, i)}}

Decoded == pc = "event" /\ event.kind = "physics"

\* Words of the banks in the order the walk comes to them.
Earlier(x, y) == x.bank < y.bank \/ (x.bank = y.bank /\ x.word < y.word)

\* After a usable physics event exactly the data words of channels in the map
\* have become hits, each once, in the order of the banks and for the detector
\* the map file says, whatever headers, fillers, error words and second crates
\* lie between them (g_decode_all_bank, g_decode_fb_detector,
\* g_decode_all_detector); an event that is not usable leaves none.
WordsRouted ==
  Decoded =>
    /\ \A j, k \in DOMAIN taken : j < k => Earlier(taken[j], taken[k])
    /\ {[bank |-> taken[j].bank, word |-> taken[j].word, did |-> taken[j].did] : j \in DOMAIN taken}
         = IF Usable THEN UNION {HitsOf(b) : b \in DOMAIN event.banks} ELSE {}

\* Times of F1 TDCs are corrected for the rollover by the trigger time of their
\* crate, and by its reference time: wherever an event has such a hit, the
\* trigger time is one of this event, though headers are skipped in two places
\* and only one stores it; and a reference time in the event is not lost
\* (g_decode_all_detector.f:304 and :383, g_clear_event.f:88).
TimesCurrent ==
  Decoded =>
    /\ \A j \in DOMAIN taken :
         LET bank == event.banks[taken[j].bank] IN
         bank[taken[j].word].module = "f1" =>
           g_f1_trigger_time[CrateOf(bank, taken[j].word)] = Now
    /\ Usable =>
         \A b \in DOMAIN event.banks : \A i \in DOMAIN event.banks[b] :
           IsReference(event.banks[b], i) => g_f1_refer_time[CrateOf(event.banks[b], i)] = Now

\* Whatever the banks hold, all events are decoded in the end: the loops over
\* banks, words and words of a detector, which hand the pointer to each other,
\* end.
DecodingEnds == <>(stream = <<>> /\ pc = "event")

\* The counts kept are the true ones, through rollovers and random clears that
\* show (g_analyze_scaler_bank.f:112-155), and the charge is what the beam brought
\* in the intervals between scaler events that are neither empty nor too long,
\* none counted twice (lines 177-225).
ScalersTrue ==
  /\ \A c \in Counters : scalers.counter[c].value = truth.count[c]
  /\ scalers.charge = truth.charge

-----------------------------------------------------------------------------
(* What every step preserves, from which ScalersTrue follows.              *)

\* A scaler bank with the first monitor is not cut short by a module with too
\* many readings, and has the clock and the other monitors.
Whole(e) ==
  e.kind = "scaler" =>
    \A b \in 1 .. Len(e.banks) :
      LET modules == e.banks[b].modules IN
      Bcm1 \in CountersOf(GoodModules(modules)) =>
        GoodModules(modules) = modules /\ {Clock} \union Monitors \subseteq CountersOf(modules)

WholeBanks == \A e \in Events : Whole(e)

EventsInv ==
  /\ stream \in Seq(Events) /\ event \in Events \union {NoEvent}
  /\ bankpointer \in Nat \ {0}

CounterRecords == [value : Int, change : Int, nroll : Int, lastval : Int, lost : Int]

\* A count is the hardware's, the rollovers and what was lost; the last reading
\* is kept as the hardware's, with its sign.
CounterOf(s, h) ==
  /\ s \in CounterRecords
  /\ h \in 0 .. Full - 1
  /\ s.value = h + s.nroll * Full + s.lost
  /\ WeirdCorrect => s.lastval = Signed(h)

CountsInv ==
  /\ DOMAIN scalers = {"counter", "charge", "onTime", "onCharge", "events"}
  /\ DOMAIN scalers.counter = Counters /\ DOMAIN hardware = Counters
  /\ truth.count \in [Counters -> Int] /\ truth.charge \in [Monitors -> Int]
  /\ DOMAIN truth = {"count", "charge"}
  /\ \A c \in Counters : CounterOf(scalers.counter[c], hardware[c])

ScalersInv == EventsInv /\ CountsInv /\ ScalersTrue

-----------------------------------------------------------------------------
(* What every step preserves of the hits, whatever is in the banks.        *)

\* The word of a hit, and the crate of its bank.
WordIn(b, i) == IF i \in DOMAIN event.banks[b] THEN event.banks[b][i] ELSE Beyond

RocIn(b) == WordIn(b, 2).roc

\* The detector the map has for a word in a crate, looked up with the slot that
\* the routine of the detector takes it to be in.
DidOf(w, roc, did) ==
  DidAt(map, roc, IF did \in FbDetectors THEN ShiftedSlot(w, roc) ELSE Slot(w), Sub(w))

\* The hit is of a decoded detector, the one the map has for the crate of the
\* bank, the slot and the channel of the word, unless the bank is of two crates.
OfItsDetector(h) ==
  /\ h.did \in Detectors /\ h.bank \in 1 .. Len(event.banks)
  /\ RocIn(h.bank) \notin ParallelRocs => DidOf(WordIn(h.bank, h.word), RocIn(h.bank), h.did) = h.did

\* The three loops hand the pointer to each other, and each moves it on: no
\* word becomes two hits, the hits are in the order of the words, each of the
\* detector the map has for its word, in usable physics events only, even if the
\* words are not what a crate should send (g_decode_all_bank.f:220-742,
\* g_decode_fb_detector, g_decode_all_detector).
WordsOnce ==
  /\ \A i, j \in DOMAIN taken : i < j => Earlier(taken[i], taken[j])
  /\ \A i \in DOMAIN taken : OfItsDetector(taken[i])
  /\ taken # <<>> => Usable /\ event.kind = "physics"

HitWords == [bank : Nat, word : Nat, did : Detectors, f1 : BOOLEAN]

\* The word the walk has come to.
Place ==
  [bank |-> bankpointer,
   word |-> CASE pc = "bank" -> at.pointer
              [] pc = "detector" -> Return
              [] OTHER -> 0]

\* The crate a bank of one crate is from, while it is decoded.
RocKept == Word(2).roc \notin ParallelRocs => at.roc = Word(2).roc /\ at.last_first = Len(Bank)

WalkInv ==
  /\ pc \in {"event", "walk", "bank", "detector"}
  /\ bankpointer \in Nat \ {0}
  /\ DOMAIN at = {"pointer", "last_first", "roc", "lastslot", "vme"} /\ at.pointer \in Nat \ {0}
  /\ DOMAIN call = {"did", "from", "length", "pointer"} /\ call.pointer \in Nat \ {0}
  /\ pc \in {"bank", "detector"} => More /\ event.kind = "physics"
  /\ pc = "detector" => call.from = at.pointer /\ call.did \in Detectors
  /\ pc \in {"bank", "detector"} => RocKept

HitsInv ==
  /\ EventsInv
  /\ WalkInv
  /\ taken \in Seq(HitWords)
  /\ \A i \in DOMAIN taken : Earlier(taken[i], Place)
  /\ WordsOnce

-----------------------------------------------------------------------------
(* What does not hold of the code: see the README.                         *)

\* The times a hit has not got are marked as those of an F1 TDC, whatever event
\* was before (h_trans_scin.f:216 "-70000 is initial value").
MarksIndependent ==
  Decoded => \A j \in DOMAIN taken : taken[j].did \in AllDetectors => taken[j].f1

\* The reference time of a crate is of this event, or there is none.
ReferencesCurrent ==
  Decoded => \A r \in VmeRocs : g_f1_refer_time[r] \in {Now, NoTime}

-----------------------------------------------------------------------------
(* Banks of one crate, as the crates send them: no word of these is lost.  *)

RocOf(bank) == bank[2].roc

Crates == (1 .. MaxRocs) \ {TriggerRoc}

SlotIn(bank, i) == ShiftedSlot(bank[i], RocOf(bank))

\* The detector the map has for a word, and whether the word is for the decoding.
DidIn(bank, i) ==
  IF RocOf(bank) \in Crates /\ SlotIn(bank, i) \in 1 .. MaxSlots
  THEN DidAt(map, RocOf(bank), SlotIn(bank, i), Sub(bank[i])) ELSE UNINST_ID

Wanted(bank, i) == bank[i].kind = "data" /\ DidIn(bank, i) \in Detectors

\* The crates of F1 TDCs.
VmeBank(bank) == RocOf(bank) \in VmeRocs \/ (3 \in DOMAIN bank /\ bank[3].kind = "crate")

Mismatch(w) == w.kind = "error" /\ w.form = "mismatch"

Silent(w) == w.kind \in {"error", "filler", "count"}

Bit17(bank, i) == map.subaddbit[<<RocOf(bank), SlotIn(bank, i)>>] = 17

\* Of a Fastbus module a word with channel 0 is taken for its header, if it is
\* the first of the slot that is seen.
HeaderAsSent(bank, i) ==
  DidIn(bank, i) \in Detectors =>
    /\ Sub(bank[i]) = 0 /\ Bit17(bank, i)
    /\ \A j \in 3 .. (i - 1) : InModule(bank[j]) => SlotIn(bank, j) # SlotIn(bank, i)

NotFirst(bank, i) ==
  \E j \in 3 .. (i - 1) :
    /\ InModule(bank[j]) /\ SlotIn(bank, j) = SlotIn(bank, i)
    /\ DidIn(bank, j) \in Detectors \/ Sub(bank[j]) >= InvalidSub
    /\ \A k \in (j + 1) .. (i - 1) : Silent(bank[k])

\* Of a VME module a word with the overflow bit is skipped where a detector's
\* words begin.
DataAsSent(bank, i) ==
  /\ \A k \in ChannelLines : SlotOf(k) = <<RocOf(bank), SlotIn(bank, i)>> => Sub(bank[i]) < ChannelsAt(k)
  /\ Sub(bank[i]) <= MaxMap
  /\ bank[i].module = "f1" <=> VmeBank(bank)
  /\ Wanted(bank, i) =>
       /\ Sub(bank[i]) < InvalidSub
       /\ VmeBank(bank) /\ bank[i].b24 =>
            i > 3 /\ bank[i - 1].kind = "data" /\ DidIn(bank, i - 1) = DidIn(bank, i)
       /\ LooksLikeHeader(bank[i]) /\ Bit17(bank, i) => NotFirst(bank, i)

\* A mismatch is followed by the two lengths that differ.
CountAsSent(bank, i) ==
  \/ i > 3 /\ Mismatch(bank[i - 1])
  \/ i > 4 /\ Mismatch(bank[i - 2]) /\ bank[i - 1].kind = "count"

WordAsSent(bank, i) ==
  /\ bank[i].kind \in {"data", "header", "begin", "end", "crate", "error", "filler", "count"}
  /\ InModule(bank[i]) => Sub(bank[i]) \in Nat /\ SlotIn(bank, i) \in 1 .. MaxSlots
  /\ bank[i].kind = "data" => DataAsSent(bank, i)
  /\ bank[i].kind = "header" => ~VmeBank(bank) /\ HeaderAsSent(bank, i)
  /\ bank[i].kind \in {"begin", "end"} =>
       VmeBank(bank) /\ bank[i].module = "f1" /\ ~Bit17(bank, i)
  /\ bank[i].kind = "crate" => i = 3 /\ bank[i].tag = "F1C"
  /\ bank[i].kind = "error" => DidIn(bank, i) \notin Detectors
  /\ bank[i].kind = "count" => CountAsSent(bank, i)
  /\ Mismatch(bank[i]) => /\ RocOf(bank) \notin ShiftedRocs /\ i + 2 <= Len(bank)
                         /\ bank[i + 1].kind = "count" /\ bank[i + 2].kind = "count"
  /\ DidIn(bank, i) \in FbDetectors => ~VmeBank(bank) /\ RocOf(bank) < MaxRocs
  /\ DidIn(bank, i) \in AllDetectors => RocOf(bank) \notin ShiftedRocs

AsSent(bank) ==
  /\ Len(bank) >= 2 /\ bank[1].kind = "count"
  /\ \A i \in DOMAIN bank : bank[i].kind = "tag" <=> i = 2
  /\ RocOf(bank) \in (Nat \ {0}) \ ParallelRocs
  /\ RocOf(bank) \in Crates =>
       /\ VmeBank(bank) => RocOf(bank) \notin ShiftedRocs
       /\ \A i \in 3 .. Len(bank) : WordAsSent(bank, i)

\* Hits of F1 TDCs come with the trailer of a module right behind words of a
\* detector.
Trailed(bank) ==
  (\E i \in 3 .. Len(bank) : Wanted(bank, i) /\ bank[i].module = "f1") =>
    \E j \in 3 .. (Len(bank) - 1) : Wanted(bank, j) /\ bank[j + 1].kind \in {"begin", "end"}

BanksAsSent ==
  \A e \in Events : e.kind = "physics" => \A b \in DOMAIN e.banks : AsSent(e.banks[b])

ModulesTrailed ==
  \A e \in Events : e.kind = "physics" => \A b \in DOMAIN e.banks : Trailed(e.banks[b])

\* The crates of the map are decoded.
MapDecoded == MapFits /\ \A k \in ChannelLines : SlotOf(k)[1] \in Crates

\* A word for the decoding that brings the reference time.
Reference(bank, i) ==
  /\ DidIn(bank, i) = GMISC_ID
  /\ PlaneAt(map, RocOf(bank), SlotIn(bank, i), Sub(bank[i])) \in ReferPlanes

\* The words the walk is past.
Past(b, i) == Earlier([bank |-> b, word |-> i], Place)

\* What of the banks the walk has passed has become hits or reference times.
Done(b, i) ==
  IF Reference(event.banks[b], i) THEN g_f1_refer_time[RocOf(event.banks[b])] = Now
  ELSE \E k \in DOMAIN taken : taken[k].bank = b /\ taken[k].word = i

WordsDone ==
  \A b \in DOMAIN event.banks : \A i \in DOMAIN event.banks[b] :
    Past(b, i) /\ Wanted(event.banks[b], i) => Done(b, i)

\* Nothing else has become hits.
IsHit(h) ==
  /\ h.bank \in DOMAIN event.banks /\ h.word \in DOMAIN event.banks[h.bank]
  /\ Wanted(event.banks[h.bank], h.word) /\ ~Reference(event.banks[h.bank], h.word)
  /\ h.did = DidIn(event.banks[h.bank], h.word)

HitsWanted == \A k \in DOMAIN taken : IsHit(taken[k])

\* The trailer right behind a word of a detector has left the trigger time.
Trailer(bank, j) == Wanted(bank, j) /\ bank[j + 1].kind \in {"begin", "end"}

TrailersDone ==
  \A b \in DOMAIN event.banks : \A j \in 3 .. (Len(event.banks[b]) - 1) :
    Past(b, j + 1) /\ Trailer(event.banks[b], j) => g_f1_trigger_time[RocOf(event.banks[b])] = Now

\* The last slot in a Fastbus bank is that of a word seen before, or of the
\* present one, should it be no header of a detector; and it is that of the last
\* word that leaves its slot, if only silent ones follow, or of the present one.
SlotSeen(bank, p) ==
  /\ \/ at.lastslot = -1
     \/ \E i \in 3 .. p :
          /\ i \in DOMAIN bank /\ InModule(bank[i]) /\ at.lastslot = SlotIn(bank, i)
          /\ i = p /\ bank[p].kind = "header" => DidIn(bank, p) \notin Detectors
  /\ \A j \in 3 .. (p - 1) :
       /\ InModule(bank[j]) /\ (DidIn(bank, j) \in Detectors \/ Sub(bank[j]) >= InvalidSub)
       /\ \A k \in (j + 1) .. (p - 1) : Silent(bank[k])
       => \/ at.lastslot = SlotIn(bank, j)
          \/ p \in DOMAIN bank /\ InModule(bank[p]) /\ at.lastslot = SlotIn(bank, p)

\* What a detector was called for.
CallInv(bank, p) ==
  /\ p <= Len(bank) + 1 /\ call.length = Len(bank) + 1 - call.from
  /\ call.did \in FbDetectors => ~VmeBank(bank) /\ RocOf(bank) < MaxRocs
  /\ call.did \in AllDetectors => RocOf(bank) \notin ShiftedRocs
  /\ p <= Len(bank) => bank[p].kind \notin {"count", "crate"}
  /\ call.from = p => call.did = DidIn(bank, p)
  /\ call.from < p /\ Wanted(bank, p - 1) => call.did = DidIn(bank, p - 1)

\* What the walk through a bank leaves at the word it has come to.
BankInv(bank, p) ==
  /\ RocOf(bank) \in Crates /\ p >= 3
  /\ VmeBank(bank) /\ (p > 3 \/ pc = "detector") => at.vme /\ mask_vme2 = "F1C"
  /\ ~VmeBank(bank) => ~at.vme /\ p <= Len(bank) + 1 /\ SlotSeen(bank, p)
  /\ pc = "bank" /\ p \in 4 .. Len(bank) /\ Wanted(bank, p - 1) =>
       bank[p].kind \notin {"begin", "end"} /\ DidIn(bank, p) # DidIn(bank, p - 1)
  /\ pc = "detector" => CallInv(bank, p)

RoutedInv ==
  /\ HitsInv
  /\ DOMAIN g_f1_refer_time = 1 .. MaxRocs /\ DOMAIN g_f1_trigger_time = 1 .. MaxRocs
  /\ event.kind = "physics" =>
       /\ WordsDone /\ HitsWanted /\ TrailersDone
       /\ pc = "event" => ~More
       /\ pc \in {"bank", "detector"} => BankInv(Bank, Place.word)
=============================================================================
