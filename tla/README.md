# Verification of the E05-115 replay

The repository holds the replay ("analyzer") of the hypernuclear experiment
E05-115 at Jefferson Lab: a Fortran program with a C library under it that reads
the events the data acquisition wrote, decodes them into hits, finds tracks in
the two spectrometers HKS and HES, and fills histograms and ntuples, while other
programs (the event displays) may look at its variables over RPC.

This directory has TLA+ models of the parts with control flow worth getting
right - the event loop, the event files, the decoding of banks, the hit lists, the
space points, the scalers, the CTP library of parameters, tests and histograms,
remote access to variables -, the
TLC configurations that check them, and proofs, for every value of their
parameters, about the event loop and its source, the hit lists, the scalers and
remote access. Paths below are relative to `src/`.

Contents: 1 the system, 2 the modules, 3 what is checked and with which bounds,
4 where the code does something else than it says, 5 what is proved, 6 what is
not modelled, 7 the plan.

## 1. The system

| Component | Where | State it keeps | Operations |
|---|---|---|---|
| Event loop | `e05115replay/SRC/engine.f`, `ENGINE/g_reconstruction.f` and the routines it calls | flags ABORT, problems, EoF; type and ID of the event; recorded, analyzed, skipped counts; update_peds; rpc_pend | one iteration: clear, get, count, dispatch by type, scalers / control / trigger, pedestals, keep results, preprocess, serve RPC, test the limits |
| Event source | `ENGINE/g_open_source.f`, `g_get_next_event.f` | whether the source is open, segment number | open a file or segment 0, read, move to the next segment |
| CODA event files | `CODA/evio.c`, `swap_util.c` | the file of blocks; per handle a block buffer, a pointer into it, words left, block number; the containers around a place in an event whose bytes are swapped | evOpen, evRead, evWrite, evFlush, evGetNewBuffer, evIoctl, evClose; evOpenSearch, evSearch; swapped_memcpy |
| Bank decoding | `ENGINE/g_decode_event_by_banks.f`, `g_decode_fb_bank.f`, `g_decode_all_bank.f` | pointers into event, bank and words of a detector; last slot, kind of crate; the map by crate, slot and channel; trigger and reference times | read the map; walk the banks and sub-banks, skip headers, send each word to its detector |
| Hit lists | `ENGINE/g_decode_fb_detector.f`, `g_decode_all_detector.f` | sorted arrays of one detector and their length | insert a hit, pair hits on the two ends of a counter |
| Tracking of the HKS | `HTRACKING/h_pattern_recognition.f` ... `h_link_tracks.f` | hits, test points, combinations, space points, stubs, tracks | find and limit space points, choose hits, resolve left and right, link |
| Tracking of the HES | `ETRACKING/` | the same for two other chambers | numerical fits, relatives of the above |
| Detectors, physics | `h_trans_*`, `h_tof*`, `h_physics*`, the same for the HES, `c_*` | arrays of one event | arithmetic, hit by hit |
| Pedestals | `g_analyze_pedestal.f`, `g_calc_pedestal.f` | sums per channel | sum, compute, reset |
| Scalers | `g_analyze_scaler*.f` | 32-bit readings, extended counts, charges | extend over rollover and clear, sum the charge |
| CTP registry | `CTP/daVarRegister.c`, `daVarHashLib.c`, `daVarHandlers.c`, `thHandlers.c` | hash table of names, each with type, size, place, handlers | register, look up, list, read and write by name |
| CTP blocks | `CTP/th*.c` | blocks (title, counter, opaque data), groups, code of tests, histograms by name and ID | load files, book, execute, clear, count, report; compile and evaluate expressions |
| Remote access | `CTP/daVarRpcProc.c`, `daVarServ.c`, `thClient.c` | list of pending requests; client's pending flag, result, list of names | read, write, list and import at once; request, call back, time out |
| Run database, EPICS, run info | `g_ctp_database.f`, `g_examine_*` | parameters | look a run up |
| Start and end | `g_initialize.f`, `g_proper_shutdown.f`, `g_dump_*` | - | sequences of calls |
| Utilities, wrappers, displays, build, setup | `UTILS`, `PORT`, `EVDISPLAY`, `ONEEV`, `makereg`, `e05115replay/*` | - | - |

`PROJECT.json` lists them in full, with the files of each and whether they are
modelled.

**How they interact.** The analyzer is one sequential program. The event loop
calls the source, which calls `evRead`; hands the event in `craw` to the decoding,
which fills the hit lists; hands these to the tracking code; and lets CTP execute
tests and fill histograms. CTP knows the variables of the analyzer by address: the
routines that make registrations are generated from comments in the Fortran
include files, the blocks are read from text files when the analyzer starts, and
after each event `g_keep_results` executes the gethits, tests and histograms of one
group, in this order. Errors travel upward in a flag `ABORT` with a text
`err`; every routine clears the flag on entry, which makes the order of calls
matter. Two kinds of other programs take part: whoever writes a CODA file that is
read on line, with only the file between them, and RPC clients, which send a
request, become servers themselves, and wait to be called back after an event
that passes a test.

**What is hard.**

- *Order of flags and counters in the loop.* Events are skipped, counted,
  limited, kept and written in a dozen places of a body of 400 lines; an error
  in the middle must not upset the counts.
- *Segments.* A failed read closes one file and opens another within a read.
- *Blocks.* Events run over block boundaries; headers have to describe that; a
  reader may be ahead of the writer, and a writer may die.
- *Bytes of the other order.* What has to be swapped with what says a header that
  has to be swapped first.
- *Order of words.* The hit lists must not depend on which crate came first.
- *Words that say what they are by a few bits.* Three loops hand a pointer to each
  other and skip headers, each by tests of its own.
- *Counters that roll over, or clear themselves.*
- *Fixed arrays*, everywhere, each with its own hand-written test.
- *Late messages.* RPC time-outs on both sides, without request IDs.
- *State kept between events*: pedestals, segment numbers, pending requests,
  flags that are never cleared.
- *Text compiled at run time*: tests become the code of a stack machine that
  carries the types of its operands in the instructions; booking a block twice,
  growing an array, a variable registered again leave pointers to what was there.
- *Names*: spelled in either case, made by the program, by a file or by a client.

**What makes each part correct.** Loop: every trigger is accounted for, limits are
honoured, results are kept and written once, pedestals are current, the run ends
and for a reason. Source: it delivers one stream, in order, nothing passed over.
Files: what is read is what was written, each item with
its own bytes swapped. Hit lists: sorted, complete, own signals
only, within the arrays. Banks: each data word in the map goes to its detector once,
times are of the present event, the loops end. Scalers: extended counts are true,
no charge is counted twice. RPC: each request answered at most once and in time, an
answer belongs to its call. Space points: no hit twice, no combination lost, the
earliest hit kept, all choices made, only points fit for tracking go on. Search:
an event that is in the file is found. Expressions: the code computes what the
line says. Blocks: groups, parameters, scalers, histograms are what the files say,
and an event counts for itself alone. Registry: a dictionary without regard to
case; a call that says it worked has worked. `PROJECT.json` lists the individual
hazards by line with the properties aimed at each. Beside those: the test for a
digit in `g_open_source.f:80` and the pedestals left alone in `engine.f:404`
(section 4); the walk over banks whose length words are believed
(`g_decode_event_by_banks.f:112`), which a bank with a wrong length leads astray.

## 2. The modules

    EventStream  <--implements--  Engine  EXTENDS  EventSource
                                    ^  ^
                         MCEngine --+  +-- EngineProofs
    EventLog     <--implements--  EvBlockFile  <-- EvSearch  <-- MCEvSearch
                                     ^-- EvBlockFileProofs
                                  ByteSwap
                                  HitList      <-- MCHitList
                                     ^-- HitListProofs
                    DecodeMap, Scalers  <-- EventBanks  <-- MCEventBanks
                                               ^-- EventBanksProofs
                                  Rpc          <-- MCRpc
                                   ^-- RpcProofs
                         Lists <- SpacePoints  <-- MCSpacePoints
                                     ^-- SpacePointsProofs
    Dictionary   <--implements--  RegistryCalls EXTENDS Registry;  <-- MCRegistry
                                     ^-- RegistryProofs
                                  TestCode  <-- TestExpr  <-- MCTestExpr
                                     ^
                                  CtpVars
                                     ^
      CtpLoad, CtpParm, CtpTest, CtpGethit, CtpHist, CtpReport
                                     ^
                                  CtpGroup  <-- Ctp  <-- MCCtp

All modules of proofs but RpcProofs extend Recursion, the
lemmas on induction and on lists; Lists has the lists of SpacePoints (what of a
sequence lies in a set, a list extended in several ways).

Names follow the code: a constant, variable or action has the name of the
Fortran or C variable or routine it stands for when there is one. An operator
whose comment says "a mutant" is not part of the model: it is one of the
model's own operators changed the way a slip in the code would change it, and
each property has been seen to fail with one of them in place.

**EventSource** - `files` is the disk: the unsegmented file (-1) and segments
0, 1, ..., each absent (`NoFile`) or a sequence of records, some of which evRead
cannot read (`Bad`). `G_open_source` and `G_get_next_event(abort)` have one
disjunct per way through the routine: read the current file; fail in an
unsegmented one; move to the next segment and read there; find it unreadable;
find none. What the name of the file ends in (`NameEnd`) matters because only
some endings make the code try segments.

**Engine** - the whole loop. `pc` is the stage of the loop body; one action per
stage: `OpenSource`, `ClearEvent`, `GetEvent`, `Dispatch` (count the event, copy
it, choose the branch), `AnalyzeScalers`, `DumpHistograms`, `ExamineControl`,
`ExaminePhysics` (with the test of the starting event), `Decode`, `Pedestals`,
`Arms` (the reconstruction of the spectrometers), `Account`, `KeepResults`,
`Preprocess`, `ServiceRPC`, `EndIteration`, `LeaveLoop`, `Shutdown`. An event is
a tag, a type, an ID and a body; the body says which way the routines that look
into it go (first bank an event ID or not, too long to be decoded, empty, a SYNC event
out of step). Calls outside the model that can fail do so as they like, as far as
`Faults` names them: writing an event, writing a report, the HKS code, keeping
results. History variables (`failed`, `newPeds`, `skippedTypes`, `idless`,
`kept`, `written`) only serve the properties.

**EventStream** - the abstract promise of loop and source: a stream of events,
delivered in order, one at a time, until the replay stops. `Engine` maps `todo`
to what is still to come from the present file and the segments after it,
`current` to `craw`.

**EvBlockFile** - `evio.c` word by word: a word is (event, place in it). The
writer's actions are `EvWrite` (start of an event, with its length word), `CopyIn`
(copy what fits, flush the block when it is full, give up if that fails), `EvIoctl`,
`EvClose` and its end, `FileClosed`; the reader's are `EvOpen`, `EvOpenStale`,
`EvRead`, `NewBuffer`, `CopyOut`, `NextBlock`. What fwrite took is not at once in the
file: blocks come there one by one (`Arrive`), and of the first one a part may be
there before, which evOpen reads as if it were the whole (`Cut`: the rest of the
buffer is garbage; without a header it goes by what the stack holds, `EvOpenStale`).
A part of a later block reads like none, as evGetNewBuffer compares what fread
returns. A write may fail (`EvFlushFails`, if `Faulty`): then the same block is written
again from its beginning with the next flush, behind whatever part of it got into the
file - none, so that the blocks go on (`fault = "aligned"`), or some words, so
that no later block begins where a reader looks for one (`"astray"`); `behind` holds
what comes after a failed write. Between any two a `Crash` may end the writer (in files
read on line); what has not arrived then never does. Between writing and reading
`LoseBlock` may take up to `MaxLost` blocks out of the file. `Arrive`, `Crash` and
`LoseBlock` are the environment's; everything else is the code's. A reader that looks
at a word at the wrong place sees whatever that word holds as a length. `sure` says
that the reader found the first block whole and has come to no block written after a
failure; `got` is what it reads while that is so, and `garbage` whether an event it
read otherwise had words that never were in a file.

**EventLog** - what a user of `evio.c` expects: a log of events, delivered whole
and in order.

**ByteSwap** - `swapped_memcpy`, which evRead calls for a file of the other
endianness. An event is a sequence of halfwords that know the size of the item they
are part of; the code does not know it, it goes by the headers. `Begin` is the
header of the event; `BankHeader`, `SegmentHeader`, `PacketHeader` and
`DataUpToHeader` are the turns of the loop, each of which first takes the containers
that end there off the stack (`Popped`); `buffer` tells with which others each
halfword was swapped. The events (`Events`) are what the data acquisition may write.

**HitList** - one detector's list during one event. `Ignore`, `Single` (one
signal per hit) and `Multiple` (ADCs and TDCs on both ends) are the three ways a
word can go; `Pass` is one turn of the loop over the entries of a counter
that pairs a new hit with those of the other end, `AfterPasses` the whole loop. Both routines are modelled, as
`det.routine`: their guards against full arrays differ.

**DecodeMap** - the map file line by line: each line sets the crate, the slot,
the detector, the number of channels or their place in a word for the lines behind
it, or gives a channel; a slot gets its part of one array with its first channel.
Beside it `InForce` and `LinesFor` say what the file means, by the last line of each
kind, without the arrays.

**EventBanks** - from the banks of an event to the words that become hits. `pc` is
the loop under way: between banks (`BeginEvent`, `PassBank`, `BeginBank`,
`EndBank`, `EndEvent`), over the words of a bank (`Turn`, a turn of the loop of
g_decode_all_bank, with one disjunct per way: to a detector's routine, unknown
detector, bad subaddress, bad slot), over the words of a detector (`Unpack`: take
the word, skip a header of VME or of Fastbus, skip errors and fillers, leave for
another detector). A word is a record of a kind, of which `Slot`, `Sub`, `Bit23` and
so on say what the tests of its bits see; the order of skipping, the pointers and
the last slot are the code's. What HitList does with a word is here one action: it
is noted in `taken`. Scaler events go to `AnalyzeScalers`, with the hardware
counting on between two of them (`hardware`); `truth` is the history of what it
counted.

**Scalers** - g_analyze_scaler_bank as functions of the counts: a reading against
the last one (`Cleared`, `ExtendedReading`), the modules of a bank, the charge.

**Rpc** - the analyzer between events (`TakeRequest`, `TakeOther`), its scan of the
list after each event (`BeginScan`, `CallBack`, `EndScan`), the end of the run,
and any number of clients (`Call`, `Acknowledged`, `CallFails`,
`ServeCallback`, `Return`, `TimeOut`). Messages are in `net` (requests), `acked`
and `inbox` (call backs) and may arrive after either side gave up. `held` is the
history: which test conditions each event satisfied; the value of a variable is
its name and the event it is from, so that a mix of events shows.

**SpacePoints** - `h_pattern_recognition` for the chambers of one event in turn:
`SkipChamber`, `FindEasySpacePoint` (the short cut for clean events) or
`FindCombos` and then `TakeCombo` for one combination after the other,
`LimitPoints`, `ChooseSingleHit`, `SelectSpacePoints`, `NextChamber`. Geometry is
exact: wire positions are even integers, wires point in directions (1,1), (1,0),
(1,-1), so crossing points are integers; positions of combinations are kept
doubled. Times are integers in a given `Unit`, because one variable of the code
is an integer where the others are real. Left out: printing, histograms, and a
spare hit with a drift time of exactly -5, which one place counts and
another does not enumerate.

**EvSearch** - the search for an event by its number in a finished file, on a
handle of its own over the file EvBlockFile leaves. `EvOpenSearch` finds the
last block and the last event number in it; `Search` is one call of evSearch: the
range left by the previous search (`Resume`), the bisection (`Bisect`), the scan
within a block (`SearchWithinBlock`) with its wandering to a block that has a
physics event (`FindEventBlockNum`), the copy (`CopySingleEvent`). A word that is
read as something it is not, or lies beyond the file, is chosen from `Junk`.
The analyzer itself reads events in order and calls none of this; the search is
part of the library's interface.

**TestCode, TestExpr** - the compiler of test lines (`thBookaTest`, operator
precedence with a stack, types converted as operands meet, indices and functions as
brackets), the executor (`thExecuteCode`, one operation code after the other on a
stack of typed values) and the immediate evaluation (`thEvalImed`). A line is a
sequence of lexemes, a number a fraction. TestExpr writes a tree down with as few
parentheses as the precedences allow, has it booked, executed step by step and
evaluated at once, and compares with the tree's meaning.

**CtpVars, CtpLoad, CtpParm, CtpTest, CtpGethit, CtpHist, CtpReport,
CtpGroup** - one module per package of the library, as functions of its
state `lib`: the variables, the blocks with title and counter, the groups, the
histograms, what HBOOK (external) holds, and `ok`, which turns false where the code
would use freed or unset memory. CtpLoad reads files with includes; the modules of
the classes book (from the lines in the title) and execute; CtpGroup has what is
done to a group or to all blocks of a class.

**Ctp** - the library in use: `Start` is g_initialize, `Analyze` an event (the
data put into the variables, then g_keep_results), `WriteValue` and
`WriteTitleOf` what clients write, `PrintReport` a report; `StartBlocks` and the
calls by blocks are a second program that uses the rest of the interface (thOBook,
thtstexe and so on), which the analyzer leaves alone. `base` is the same library
without the events: what an event should add is what it adds to that.

**Registry, RegistryCalls** - a program's table of variables (buckets chosen by a
hash function, names compared without case, a second registration that changes
the entry in place), the memory behind it, the handlers that read and write by
name and attribute, with those of histograms and blocks. RegistryCalls has a client
and the analyzer: `RegisterOwn`, `Event`, `AddToList`, `RemoveFromList`,
`GetList`, `ImportVars`, `Read`, `Write`. **Dictionary** is the promise: one
meaning per name however it is spelled, nothing lost, each listed once. What a step
was asked to register (`asked`) is part of the steps it allows: the meaning after is the
one before with just these definitions, so that a registration without effect is a
violation and no stuttering.

## 3. What is checked

| Run | Shows | Instance |
|---|---|---|
| `engine_run` | Accounting, StartHonoured, StopHonoured, ResultsKept, PedestalsCurrent, WrittenOnce, LeftForAReason, Inductive, RunEnds, DeliversStream | all sequences of at most 4 triggers, of at most 3 of all kinds of events (types 0, 1, 15, EPICS, info, GO, SYNC good and bad, END, wrong tag), and segments of at most 2 records, good or bad or missing; start and stop at 2; preprocessor, dumps and RPC on; HKS code, results, writes and reports may fail |
| `evfile_online` | ReadsWhatWasWritten | 3 events of 1 or 5 words in blocks of 4 (2 of them header), or of 6 if evIoctl allows it, which no reader opens; blocks that arrive late and the first one in part, crash, writes that fail in any place, a block lost, reader and writer interleaved |
| `evfile_closed` | ReadsAll, EventFound | 4 events of 3, 4, 6 or 7 words in blocks of 7 (3 of them header), the block size changed to 6 if evIoctl allows it, a buffer of 7; at most one event that is not a physics event; 2 searches for any number, one after the other |
| `hits_lists` | PairsComplete, SignalsOwn, WireHits | 5 words in any order on chamber wires, counters with sums, counters with multihit TDCs |
| `banks` | WordsRouted, TimesCurrent, ScalersTrue, DecodingEnds | 11 banks - Fastbus crates with headers of both kinds, a crate whose slots count from 0, errors and fillers, F1 TDCs with crate words and without, empty, two crates in one bank, banks to be passed -, all pairs of them in one event and in two; events that are not usable; 4 scaler events of 1 crate or 8 of another, counts of 4 bits that grow by 0, 1, 2 or 4, clears that show, a module with too many readings |
| `byte_swap` | EventSwapped | two banks in an event, in banks or not, with data of 4, 2 or 1 bytes, packets, segments, segments in segments, of length 0, 1 or 2, containers with nothing in them; events without a wrapper with 2 or 3 words |
| `rpc_displays` | InTime, WaitsForFirst, OneEvent | 2 clients, 3 events, 3 variables of which one is unknown, waits of 0 or 1 events |
| `space_points` | CombosUsed, FitForTracking, KeepsEarliest, ChoicesComplete | 2 chambers of 6 layers, one or two tracks with layers missing, up to two noise hits |
| `ctp_expr` | LineAsWritten, ImmediateAgrees, CodeFits | every operator on operands of all types; all pairs of operators nested both ways; unary operators, functions and indices in one another; results new, known, and elements of arrays |
| `ctp_blocks` | Sound, GroupsAsWritten, ParmsAsWritten, HistsFollowFlags, ReportsAddUp, EventsIndependent | a block of every class, two test blocks, three ways to group them; 3 events of 3 kinds, one write of a title or a value between any two |
| `ctp_registry` | CallsDeliver, HistCurrent, IsDictionary | the analyzer with 7 registrations, one of them a name again in another case, type and size; a client with 3 of the variables in other types and sizes; 2 calls of any kind, 1 event at any moment |

One more run, `hits_overrun`, checks a claim of the code's own comments that does
not hold (section 4). The type invariants `TypeOK` of Ctp, EvBlockFile, Rpc and SpacePoints are
not among the runs' properties; they hold when added to the configurations above.
Engine's is part of `Inductive`. HistsFollowFlags contains OneIdEach, WireHits
that the lists are sorted, CombosUsed contains HitsDistinct.

**Why the bounds are enough.** *Loop*: what one iteration leaves for the next is
the flags, update_peds, the counts relative to the two limits, the RPC state; with
limits of 2, four triggers reach both limits, with pedestals before, between or
after; the proofs then do away with the bound for all but three properties.
*Segments*: three segments with two records have a first, a middle and a last one,
and a record before and after a damaged one. *Blocks*: with 2 data words per
block, lengths 1 and 5 end before and at a block's end, start in its last word and fill
blocks without a start; 3 events make up to 8 blocks, any of which may be the one whose
write fails or that is lost from the middle; a second one lost is a matter of the same
comparison of numbers, and of the proof. *Hit lists*: five words give three hits on
one end of a counter and two on the other, a neighbouring counter, whose words may
come in between, and ADCs before and after; within a counter the (+) end comes
first, as the channels of a crate are read in order. *Banks*: what one word leaves
for the next is the pointer, the last slot, the kind of crate and of module; what one
bank leaves for the next is the kind of module; all pairs of kinds are there. Of
scalers a reading depends on the last one alone: 4 bits with jumps of 4 give every
last reading with every jump, on both sides of the sign, and eight readings roll
over twice. *RPC*: the list is long
enough for taking out its head and its tail, one client calls again after a
time-out, and three events outlast the longest wait. *Space points*: a full track
with two other hits has tens of combinations; the limits on points, choices and
kept points are small enough (4, 3, 2; in the code 500, 10, 200) to be reached,
those on pairs and combinations are tested by no run that passes. *Search*: with 4
words of data in a block the files have up to 6 blocks, enough for two halvings
and a step to a neighbour; the second search starts from wherever the first one
ended. *Bytes*: what a turn of the loop
leaves for the next is the stack, the next header and the type; with banks in
banks and segments in segments up to five containers end at one place, before the
next header of any kind and before the end. *Expressions*: precedence is a matter of two neighbouring operators, types
one of their operands, and all pairs of either are there. *CTP blocks*: two events
show whether the first leaves something for the second, a third one comes after a
write between them. *Registry*: two buckets, one of them with three names and
more; a call depends on the tables and memory only, which one call and one event
change in every way there is; all pairs of calls are there.

**Bounds by name.** MaxEvents, MaxSegments (Engine); MaxEvents, MaxLost
(EvBlockFile); MaxSearches (EvSearch); MaxEvents, MaxWrites (Ctp), MaxOpen
(CtpLoad, the number of files a process may have open, a limit of the system);
MaxEvents, MaxCalls, MaxList (RegistryCalls); MaxWords (HitList); MaxCalls,
MaxEvents (Rpc); Half and
Jump (Scalers: 2^31 and 2^25 in the code), MaxCount (32 there), Increments, Streams
(EventBanks; InvalidSub is 7F there); Lengths, BareLengths (ByteSwap); MaxPoints, MaxKept, MaxChoices, MaxPairs, MaxCombos (SpacePoints;
those are limits of the code itself).

**Fairness.** `Engine!FairSpec` says that the program, one thread, goes on
with its next step; not so only in the wait of `rpc_control = 0` for a client that
may never come, which `RunEnds` allows for (`Blocked`). `EvBlockFile!FairSpec` has
weak fairness for the writer and for the reader apart: two programs, each
scheduled; neither is promised anything of the crash and loss actions, which
need not happen. `ReadsAll` needs it because a reader alone in the world may never
look again. `EventBanks!FairSpec` is that of one thread again, for `DecodingEnds`,
and so is `ByteSwap!FairSpec`, for `EventSwapped`.
The other modules are about safety (CTP's loops are folds over lists, and end).

**Deadlock** is checked for Engine (a finished run repeats `Finished`). The
others process a bounded input and stop, hence `CHECK_DEADLOCK FALSE`.

## 4. Where the code and its word differ

Found by a run that TLC must end with a counterexample:

| Run | Claim | What happens |
|---|---|---|
| `hits_overrun` | g_decode_all_detector.f:410 "Don't overwrite arrays" (WithinArrays) | The tests are `signalcount .ge. 1` and `hitcount .le. maxhits`: one hit more than fits is stored. |

The same models show more of the kind. The property and the configuration are
here. All but the first are configurations of the runs (section 3) in which some
constants and the property are changed as said; `<-` is a definition of the MC
module:

| Configuration | Property | What happens |
|---|---|---|
| MCEngineDoubtful (with MCEngine) | ErrorEndsRun | engine.f:67 "Loops through data until it encounters an error.": the scaler branch does not keep ABORT in `problems`; writing the event and dumping histograms reset it, and the loop goes on. |
| - for file names, as said there | DigitNotSegmented | g_open_source.f:76-80 means to try ".0" when a name does *not* end in a digit; its comparison lets 0 and 9 pass for non-digits. |
| - for pedestals, as said there | PedestalsNotSkipped | engine.f:404 "always analyze peds" tests for type 4; type 8 are pedestals, too, and are skipped. |
| MCRpcDisplays with `Clients = {"display"}`, `Conditions = {"hit", "track"}`, `Vars`, `Registered = {"x", "y"}`, `Lists <- OneList`, `Waits = {1}` | OneEvent | thClient.c:426 "Returns 0 for total success": a call back has no request ID; after a time-out, the late answer is taken for that of the next call. |
| MCEvBlockFileOnline with `BlkSiz = 5`, `Lengths = {2, 3}`, `BufLen = 8`, `MaxLost = 0`, `Faulty = FALSE` | EndsInFile | evfile_msg.h:16 "Unexpected end of file while reading event": evOpen does not look at what fread returns for the first block (evio.c:274-280; line 248 has "update: check nbytes return"). Opened while that block is on its way, the file gives events whose words were never in it, with S_SUCCESS. A writer that died in the middle of its first block leaves such a file for good. |
| MCEvBlockFileOnline with `Lengths = {1, 2}`, `BufLen = 9`, `NewSizes = {4, 6}`, `MaxEvents = 2`, `Online = FALSE`, `MaxLost = 0`, `Faulty = FALSE`, and -continue | StartMarks, HeaderSize | evio.c:133 "first start of event in this block": evIoctl frees the block buffer but keeps `a->next` into it, so that later writes go to freed memory and start mark and used count are wrong; and it leaves the old size in the header of the first block. |
| ByteSwap with `BareLengths = {1}` | EventSwapped | swap_util.c:198 "swapped memory copy": of an event without a wrapper that has one word of data the loop (line 245) ends before that word. |
| - `Wrappers = {32}` | EventSwapped | ev_size counts the word itself only for type 10 (hexadecimal, line 235): of an event of segments the last word is left out if a header or a single word of data ends it. |
| - `IntTypes = {11}` | EventSwapped | line 366 "Wrong datatype": of a type the switch does not know nothing is copied and the loop stays where it is. |
| MCEvSearch with `INIT SearchInit`, `NEXT SearchNext` | SearchEnds | evFindEventBlockNum, which looks for a block with a physics event, goes on to the last block of the file, beyond the range that is searched; the range then does not shrink, and evSearch never returns. Two neighbouring blocks without the beginning of a physics event, or a number that is not in the file, are enough. |
| MCCtp with `Disks <- MixedDisks` | GroupsOfOneType | thLoad.c:540 "groups can only contain a single block type": a token of a begin line that does not start with "group" leaves the group name of an earlier line in place, of whatever class; e05115replay/CTP/hist.HES_dec:1 has such a line ("gsoup=both"). |
| MCRegistry | Confined | daVarHandlers.c:59 "If the write would go past the end of the array, nothing is written": lines 385-388 write the NUL of a C string behind an array it fills, as after a thImportVars of a string that has grown by one. |
| MCHitListLists with `Detectors <- Full` | SignalsOwn | g_decode_fb_detector.f:364 reports a full list and stores the signal all the same, with the counter found last or nowhere. |
| - `Detectors <- EqualTimes` | EveryHitUnpacked | g_decode_all_detector.f:664 compares times with entries of other counters; two counters with one time lose a hit. |
| - `Detectors <- MinusOnly` | PairsOnce | the same routine, line 670: the test against duplicates knows the (+) time only; three hits on the (-) end of a counter whose (+) end has none list one of them twice. |
| MCEventBanks with `Streams <- DoubtfulStreams` and -continue, bank `LostTime` | TimesCurrent | g_decode_all_detector.f:301 "trigger time definition": of a module whose last word is of a channel that is not in the map, g_decode_all_bank skips header and trailer, and no trigger time is stored for the hits before. |
| - `Overflow`, `Adcs` | WordsRouted | g_decode_all_bank.f:290 "looking for header/trailer data": bit 24 is the mark of an ADC's header and the overflow of an F1 TDC, bit 23 is set in the data of the latter and in none of the former, so that a datum with an overflow that begins a detector, and data of ADCs, are skipped as headers. |
| - `SameSlot` | WordsRouted | g_decode_all_bank.f:219 sets lastslot to -1 for a bank, but not for the second crate in it: if that begins with the slot the first one ended with, its header is taken for data. |
| - `VmeParallel` | DecodingEnds | g_decode_all_bank.f:222 tests for the first word of the second crate by equality, before headers are skipped: passed by two words, the end of the first crate stays behind the pointer, the next call gets a length below 1 and processes nothing, and the loop never ends. |
| - `CutCharge` | ScalersTrue | g_analyze_scaler_bank.f:92-100: a module with too many readings ends the routine after the monitors were read and before their charge is summed; the charge of that interval is lost. |
| MCEventBanks with `ClearsShow = FALSE` | ScalersTrue | g_analyze_scaler_bank.f:109 "detect and correct this random clearing": a clear whose next reading looks like a count or a rollover is not corrected (the comment at 119-128 says as much for some), and the difference of two integer*4 may overflow. |
| MCEventBanks with MarksIndependent | MarksIndependent | mask_vme2 is set by nothing but a crate word or the crate's number and is kept from one bank, and one event, to the next: g_decode_all_detector marks missing times by it also for Fastbus (h_trans_scin.f:216 "-70000 is initial value"). |
| MCEventBanks with ReferencesCurrent | ReferencesCurrent | g_clear_event.f:84 "for F1TDC" clears the trigger times only; the reference time of a crate without one in the event is that of an earlier event. |
| MCSpacePointsEvents with `Unit = 10`, `MaxChoices = 10`, `MaxCombos = 200`, `Events <- CloseTimes` | KeepsEarliest | h_choose_single_hit.f:71 declares the smallest drift time an integer: with times less than one unit apart, a later hit may be kept. |

The passing runs are set up so that these do not hide everything behind them:
`hits_lists` gives every detector the room it needs (but for the wires, which have
a proper test), keeps times of different counters apart and has a (+) hit come
first at every counter; `space_points` has times in whole units; `rpc_displays`
has clients that always ask for the same; `evfile_closed` demands success of files
that are `Searchable` (the last event is a physics event with its number in the
last block, no event begins in the last word of a block, of two neighbouring
blocks one has the beginning of a physics event); `ctp_blocks` has begin lines
with nothing but groups; `byte_swap` has events of banks with types of data
that the switch knows, and bare ones of 2 words or more; `banks` has no bank of the `DoubtfulStreams`, and clears
that show in the readings; `ctp_registry` compares strings without what lies behind
them.

Reading the code for the models showed more, for which no configuration is kept:

- *evio.c*: physicsEventsInsideBlock returns 0 where its comment (about line 1160)
  says -1, so that evOpenSearch always settles for the last block; a block with
  start mark 0 has its header read as an event; an event too long for the buffer
  counts as one in an upper block and is reported as not found; copySingleEvent
  may write beyond the caller's length; after a write that failed in the middle of a
  block (lines 494-496) the file is out of step with its blocks, and evWrite, called
  again, reports success: nothing behind that place can be read; evOpen without a
  header (an empty file) judges by what is on the stack (line 248).
- *swap_util.c*: data of 8 bytes (line 353) are copied as halfwords into a variable
  that is half as long; swapped_memcpy ignores its argument `size` and goes by the
  length of the event, also where evRead has cut it (evio.c:409).
- *Banks*: the test `subadd .lt. 255` (g_decode_all_detector.f:337, "Skips headers
  for 1881 and 1876") lets 7F pass, and with it a place of the map behind the
  slot's; the ABORT of a scaler event is that of its last bank; runs below 50000
  are decoded twice (g_decode_event_by_banks.f:113); scalers are "read out every 5
  seconds" (g_analyze_scaler_bank.f:124), but charge is summed for intervals of less
  than 3 (line 192) only; the last bank of an event is not looked at if it is
  nothing but length and tag (g_decode_event_by_banks.f:112).
- *Expressions*: `CodeFits` rests on pointers of the size of an integer
  (`PointerWords = 1`); with 2 TLC finds lines whose code is longer than the room
  for it (thTestParse.c:743), and the -m32 of the Makefile is commented out.
- *Blocks*: booking a histogram block again with a title that has no line to
  book leaves its freed list in place, to be walked again if it is booked once more; two files with a block of one name silently
  have the later one only (hist.HES_rawadctdc and hist.HES_hodoraw both have
  hes_scin_raw); two blocks that book a name share its ID; a result array that
  grows after its scaler was made outgrows the scaler.
- *Registry*: thClient.c:529 says "Don't do anything if it already exists", but the
  value is written and, where that fails, the name is registered anew, which parts
  the client from its own variable; a look-up before the first registration
  crashes (thClient.c:513); indices of reads, and negative ones of writes, are not
  checked; READONLY is never enforced; too many reals are reported as a wrong type
  and the other way round; patterns with wildcards heed case, plain ones do not.

## 5. What is proved

Machine-checked, for *every* value of the constants that satisfies the modules'
assumptions and the hypotheses named here - any events, files, words, detectors,
clients, counters, and any number of them:

| Theorem (module) | Property | Under |
|---|---|---|
| EngineInductive (EngineProofs) | Inductive | |
| EngineTypeOK | TypeOK | |
| EveryTriggerAccountedFor | Accounting | |
| StartingEventHonoured | StartHonoured | |
| StoppingEventHonoured | StopHonoured | |
| EveryResultKept | ResultsKept | |
| EventWrittenOnce | WrittenOnce | |
| PedestalsRecalculated | PedestalsCurrent | |
| RunLeftForAReason | LeftForAReason | |
| ReplayDeliversStream | DeliversStream: Engine implements EventStream | |
| HitsSorted (HitListProofs) | TypeOK and Sorted | |
| SignalsStored | SignalsOwn | Roomy |
| WiresInOrder | WireHits | |
| PairsListed | PairsComplete | Ordered |
| ScalersCount (EventBanksProofs) | ScalersTrue | WholeBanks, ClearsShow |
| WordsTakenOnce | WordsOnce (in no run) | |
| MapRead | MapAsWritten(DecodeConfig) (in no run) | MapFits |
| WordsAllRouted | WordsRouted | MapDecoded, BanksAsSent |
| TimesAllCurrent | TimesCurrent | MapDecoded, BanksAsSent, ModulesTrailed |
| Preserved (RpcProofs) | Inductive | |
| TypeCorrect | TypeOK | |
| RequestsInTime | InTime | |
| NeverWaitsWithOnePending | WaitsForFirst | |
| SuccessIsOneEvent | OneEvent | OneQuestion |
| FileDeliversLog (EvBlockFileProofs) | ReadsWhatWasWritten: EvBlockFile implements EventLog, for a reader that found the first block whole, up to the first failed write | OtherSizes |
| SpacePointTypes (SpacePointsProofs) | TypeOK | |
| CombinationsUsed | CombosUsed | |
| PointsFit | FitForTracking | |
| EarliestKept | KeepsEarliest | WholeTimes |
| ChoicesAllMade | ChoicesComplete | NoneAtMinTime |
| TablesAreDictionaries (RegistryProofs) | IsDictionary: each program's table implements Dictionary | |
| HistogramsCurrent | HistCurrent | |

**Assumptions on the constants.** `SourceAssumption`: the files hold events or bad
records, there may be at least one segment. `EngineAssumption`: constants have their
types; events of trigger type (0 to 15) carry the tag of a trigger, as the data
acquisition writes them; type 0 is not among the enabled types, since it is a scaler
event. `HitListAssumption`: words have the fields of a word; a detector with one
signal per counter has words of that signal only; multihit TDCs go with four
signals and g_decode_all_detector, whose arguments say so. `ScalersAssumption`: half
the range of a reading is at least 2, and what counts as a jump is no more than that
(2^31 and 2^25 in the code). `DecodeMapAssumption`: the map
file is lines of the kinds there are; `EventBanksAssumption`: streams are of events,
physics events have banks. `RpcAssumption`: lists are of variables, waits are
natural numbers. `BlockAssumption`: blocks are larger than their header, also those
evIoctl asks for, and events have at least their length word. `SpacePointAssumption`:
the wires of a layer run in one of the geometry's directions, y of them is 0 in the x
layers only; limits are natural numbers and there is room for a point; hits come sorted
by layer (`HitsSorted`, for HitList), wire centres in even units. `HitsPerPointAssumption`:
no chamber has more than 50 hits, the room h_choose_single_hit has for those of a point
and does not test for (hmax_pr_hits lets up to 99 through). `RegistryAssumption`:
lower case of lower case is the same, names are not empty, and the hash of a name in
lower case is one of the buckets. `CallsAssumption`: what each program registers has a
name of those and a place among its arrays.

**Hypotheses.** But for MapFits, which the file has to keep to since nothing tests it,
and for what BanksAsSent says of what hardware sends, they are exactly where section 4
shows the code to fail, and the runs' instances satisfy them (stated with ASSUME in
MCHitList, MCEventBanks, MCRpc, MCEvSearch and MCSpacePoints, so that TLC evaluates them):

- `Roomy(d)`: a detector without multihit TDCs read by g_decode_fb_detector has no
  more counters than entries. Otherwise that routine stores the signal of a counter
  it has no room for with another one (line 364). Nothing is asked of chambers and
  of g_decode_all_detector, whose overrun keeps each signal with its counter.
- `Ordered(d)`: the (+) channels of a counter come before its (-) channels and
  times on different counters differ. Without the one, pairs appear twice (line 670);
  without the other, hits are lost (line 664).
- `WholeBanks`: a scaler bank with the beam monitor has the clock and the other
  monitors, and no module with too many readings cuts it short. `ClearsShow`: a
  counter clears itself only where the next reading cannot be taken for a count or a
  rollover.
- `MapFits`: the lines' crates and slots are ones there are, the lines of a slot agree on
  how many channels it has and stay below that number, no channel is given twice, and all
  slots together have room in the array. g_decode_config tests none of it. `MapDecoded`:
  besides, its crates are such as g_decode_all_bank decodes, 1 to 15 but not the trigger's.
- `BanksAsSent`: the banks are of one crate each, and are what crates and the data
  acquisition send (`AsSent`, with a definition for each kind of word, in EventBanks).
  Whose word one is, they take from the map in memory, which is the file's by MapRead.
  Of these, what the walk could go wrong without: F1 TDCs are in the crates the code
  takes for theirs and nowhere else, no ADCs of VME (`Adcs` of section 4); a datum with the
  overflow bit is not the first of its detector's (`Overflow`); of a Fastbus module that
  has a header only the header can look like one, unless a word of the slot is before
  it (`HeaderAsSent`, `NotFirst`); a mismatch error is followed by two lengths, and
  lengths are nowhere else; slots of headers and trailers are ones there are. Banks
  may have any number of words, modules, fillers and errors, channels that are not in
  the map, modules without header or without data, and detectors may take turns in
  them. Crates out of range may send anything.
- `ModulesTrailed`: in a bank with hits of F1 TDCs, behind one of them, or behind
  the reference time, comes a header or trailer (`LostTime` has none there).
- `OneQuestion`: a client keeps to one test, and its lists are of different lengths.
  Without request IDs in the answers a late one is told from the awaited one by its
  length only.
- `OtherSizes`: evIoctl is not asked for the block size there is already. It frees the
  buffer all the same and keeps `a->next` into it, so that the block in the file has
  whatever the new buffer held, which no header tells and which the model does not
  have. After another size the first header does not agree with the blocks; such a
  file is not read here.
- `WholeTimes`: drift times are whole units. h_choose_single_hit keeps the smallest
  in an integer, which cuts a time in between, and the hit with it is passed over for a
  later one.
- `NoneAtMinTime`: no drift time is exactly -5, where the window begins. Where
  h_choose_single_hit counts the choices (line 316) such a hit is in the window, where it
  makes them (line 373) it is not, so that fewer are made than were counted.

### The event loop

The properties mostly speak of the moment between two events (`pc = "clear"`), or of
one stage; none of them is inductive. `Inductive` extends each to every stage of
the loop body, in a conjunct of its own:

- `StageInv`: which stage can see which event - an open source is an existing
  file, an event in a branch has the type of that branch, and no event is under way
  once `problems` is set. Everything else needs this.
- `WriteInv`: in the branch of triggers of types below 14 nothing has been
  written yet, and before the scaler branch nothing has; so the one write in each
  of the three places is the first.
- `CountInv`: the event between `Dispatch` and `Account` is the one recorded
  but not yet analyzed. It has to be followed through both exits of decoding.
- `KeepInv`: between `Account` and `KeepResults` one result is outstanding, unless
  there are problems.
- `PedestalInv`: pedestal events not yet computed mean that update_peds is set.
- `StartInv`: beyond the test of the starting event, with skipping not yet
  finished, only type 4 remains.
- `StopInv`: an iteration begins strictly below the limit, but for the
  analyzed events without an ID, after which the limit is not tested.

`InductiveInit` and `InductiveStep` (one step per action, under it one per conjunct)
give `EngineInductive`; most theorems follow from it. RunLeftForAReason needs
`ReasonInv` besides: what each flag stands for at each stage.

**The refinement.** `ReplayDeliversStream` maps the state before the next read to the
stream of what is still to come: the readable records of the present file, then those
of the segments behind it, as long as there are any. This is the recursive function
`SegmentStream`; the proof unfolds it record by record, and shows that each step of
the replay takes the stream's head or leaves the stream. `StreamInv` is what it needs of
the source: a segment that is open and unread has failed, and the run ends.

### The hit lists

`ListInv` (types, sorted) is inductive by itself, given where `InsertAt` puts what it
inserts and where the search from the end of the list stops (`InsertIs`, `PlaceIs`).
With multihit TDCs a word makes a loop over a list that grows under it;
`AfterPasses` is a recursive function, and what holds of its result is
proved by induction over the entries passed: entries at and below the one
under way keep their places, and what has been added stands behind the last entry
of the counter (`Shifted`). Then

- SignalsStored needs `CountersInv`: each entry's counter had a word; where there are
  no multihit TDCs a counter has one entry, which with `Roomy` leaves a place for
  a new one; where there are, every counter with a word has an entry as long as none
  has been ignored. The ADCs common to all entries follow, since entries
  are added as copies.
- PairsListed needs `PairsInv`: signals on the one end with signals on the other,
  each with each and once (`EachWithEach`, which is symmetric, so that one proof serves
  both ends), with `NoSignal` for an end without hits, and `TimesInv`. The first hit on
  an end completes the entries there are; each further one adds a copy of those
  entries that have, at the other end, a time no earlier entry has - with the pairs
  complete before, this is each time at the other end exactly once.
- WiresInOrder needs `WiresInv`: there is a map `from` from the hits to the words they
  come from, increasing in counter and then in order, that leaves out a word in the
  window only if the list is full and all the words in it came before. The words
  `Kept` and the `Rank` of each among them, by which WireHits says it, follow by
  counting.

### The scalers

`CountsInv` says of each counter that value = reading + rollovers * 2^32 + lost, and
that the last reading is kept with the sign it has as integer*4. Two lemmas carry
the theorem: `ReadingCounts`, that a reading adds what was counted, whether the counter
went on, rolled over or was cleared so that it shows (`ReadingUnderstood`), and
`ChargeEarned`, that the charge added is what the counts earn, for intervals that
are summed and for others. A bank reads each of its counters once. The theorem is for
counters of any width.

### From banks to hits

`HitsInv` is inductive for any words at all: `taken` goes on behind the place the walk has
come to (`Place`, by which of the loops is under way), each way through the three loops
moves that place on, and what a detector's routine is called with is at the pointer of the
loop around it (`WalkInv`). So no word is taken twice. That a hit's detector is the
map's for its word needs `RocKept`: the crate, read from the bank's second word, stays
that of the bank, but for the two crates whose banks are merged. `HitsInv` was also checked
by TLC on the streams of MCEventBanks and on DoubtfulStreams, before it was proved;
WordsOnce is not among the runs' properties, since WordsRouted, which is, says all of it
and more of banks as the crates send them.

That no word is lost is `RoutedInv`: all words behind the place of the walk that are
`Wanted` have become hits or the reference time (`WordsDone`), nothing else has
(`HitsWanted`), and each trailer right behind one of them has left the trigger time
(`TrailersDone`). What the walk must find at its place for this to go on is `BankInv`. Of
a VME crate: the routines know it for one, once a word is read. Of a Fastbus crate: the
last slot is that of a word before, or of the present one if this is not a header of a
detector, so that a header is never taken for data; and it is that of the last word that
leaves one, so that data of channel 0 are never taken for a header (`SlotSeen`). Of the loop
over the bank: where it goes on behind a detector's words, what comes is no trailer and
not of that detector, since its routine would have gone on itself; this is why an
overflow there is no datum that would be skipped as header. Of a
routine: the first word it is called with is of its detector, so that it moves on
(`CallInv`). There is a lemma for each loop (`TurnSees` and `TurnRouted`, `WordSeen`,
`PassedWord`, `HeadersTold` and `UnpackRouted`, `BetweenRouted`), and one for what they all
rest on, that what is passed stays done (`RoutedStays`). The properties speak of the map
file, the invariant of the map in memory: `WordMeans`, from MapRead, is between the two.
`RoutedInv` was checked by TLC first, on the banks of one crate of MCEventBanks and five
others with errors, fillers and unknown channels in all places.

MapRead is an induction over the lines: `Read` says of the map after some of them
that the settings are those in force, that the slots with a channel so far have places
which are apart from each other (`SlotsPlaced`, `Apart`) and end before the next free one,
that every channel read is at its place, and that all other places are empty. A slot is given
its place by its first channel, so slots may take turns in the file; that a channel
of one is not at the place of another is `Apart`, and needs the lines of a slot to agree
on how many channels there are.

### Remote access

`Inductive` has one conjunct per place a request can be in: in the network (`NetInv`:
in the order of the calls, not yet accepted), in the list (`IdInv`: once, and not
answered), under the scan (`ScanInv`: the place in the list and the number kept so
far agree, though elements are taken out on the way), and counts the events it has
waited (`LimitInv`) and what an answer may hold (`AnswerInv`: values of one event,
one that satisfied the test). OneEvent is then `DeliveryInv`: what a client that is
about to return 0 has stored is what one such answer brought.

### The event file

A word is a pair of event and place, and each has one that comes behind it
(`NextWord`). `BlockFileInv` says that the words go on in that order from any word
to its neighbour, across three seams: from a block to the one numbered after it
(`FileInv`), from the file to the writer's buffer and from there to the word evWrite
copies next (`WriterInv`), and from what evRead has to the word it is at
(`ReaderInv`). Being about neighbours only, it survives the loss of a block: the
numbers of its neighbours then no longer follow on each other, and evGetNewBuffer
refuses the second. An event grows out of this by induction (`EventGoesOn`) and is
handed out with its last word (`CopyOutKeeps`). Two cases need care: a file closed
without an event has a block whose start mark is 0, so that evRead takes its header
for an event, one longer than the file, which is never complete (`AtHeader`); and a
reader may stand at the end of a block to which the writer adds nothing more, while
the next one is not yet in the file. `SizeInv` confines the reader to files whose
blocks have the size of the first header. All of this is about `file`, the blocks
written before any write failed, and about the reader while it is `sure`: it has
`EvOpen` find the first block whole as what makes it so, and evGetNewBuffer's
comparison of counts as what keeps it so while blocks arrive. The log it delivers is
`got`. Of a reader that is not sure nothing is claimed, as nothing holds: that is
`EndsInFile`, which section 4 shows to be false.

### The space points

`SpaceInv` is the types, CombosUsed itself and two parts more. `WorkInv`: test points are
pairs of different hits of the chamber under way, combinations pairs of test points, and
the hits of a point are hits of that chamber - what makes the next step's sums and look-ups
mean anything. `FitInv`: what each stage leaves to the next, which FitForTracking is
the end of. The core of it is `Reduced`: after h_choose_single_hit no two hits
of a point are in one layer, neither in the point nor in a choice, and every choice has a
hit in each layer the point has one in, so that what SelectSpacePoints asks of the
point holds of its choices too.

- CombosUsed goes through the three ways a combination can take (`JoinsPoint`,
  `MakesPoint`, `PassedBy`): a point is never moved and never loses hits, so what was
  said of earlier combinations stays (`UsedKept`). That a combination
  that neither joins nor makes a point lies in the ring between 4 and 12 times the
  criterion, or the list is full, is `PassedBy`. Hits are added one by one, and `AddIs`
  keeps them apart.
- FitForTracking: of several hits in a layer at most one is kept, since the loop over them
  ends with one number (`KeptReduced`); the choices grow layer by layer (`ChoiceGoesOn`,
  an induction over the layers).
- KeepsEarliest: the loop of h_choose_single_hit is a recursive function whose
  minimum, with `WholeTimes`, is the time of the hit it holds (`BestGoesOn`).
- ChoicesComplete compares three things the code has separately: the list made by the
  loop nests, the count made before them, and the ways there are. The hits to choose from
  in a layer are the usable ones, and they are one more than those to spare, if there are
  any (`CandidatesUsable`; the one more is the one kept, which `KeptWhich` finds). `IsAll`
  says that a list has the ways up to a layer, each once; one more layer
  puts every usable hit behind every way (`AllGoesOn`, with `Grid` for the rows and columns
  of such a list), and multiplies the count by as many.

### The registry

`TableInv` says of a program's table: every entry is in the bucket of its name, names are
those of the instance, and no two entries have one name, in whatever spelling. A look-up
by bucket then finds what is registered under a name and nothing else (`Found`), so
that a table stands for the function from names in lower case to variables that
Dictionary has. A registration is `Define` of Dictionary, also in the order of several, and every
step registers what it was asked to (`asked` is in the subscript of Dictionary's
next-state relation; a step that was asked for nothing keeps every meaning); writes and
titles change variables under the names there are; an import, which asks the
server for its list and registers one name after the other, is as many definitions in
turn, and the refinement's step is their composition (an induction over the list,
`ImportAllDefines`). `HistInv` is the remembered part of the histogram handler:
what it holds is what it booked with, unless booking has made it forget; from it follows
HistCurrent.

### Induction

The library's induction theorems take operators as parameters, which the provers
cannot instantiate. `Recursion` states induction for a set of numbers instead
(`SetInduction`) and has the existence and uniqueness of functions defined by
recursion over the natural numbers, with a function `F[n][x]` for the step
(`RecursionExists`, `FollowsUnique`; `RecursionTo` up to a limit). The proofs about
`SegmentStream` and `AfterPasses` rest on it, the one about the words of an event, and
those about the loops of h_choose_single_hit and over the lines of the map file, and of
reads, writes and imports over lists of names. It also says what the lists of Lists and FlattenSeq hold.

### Only model-checked

- `RunEnds`, `ReadsAll`, `DecodingEnds` and `EventSwapped` are liveness properties
  under fairness, for which the proof system has no support.
- `WordsRouted` and `TimesCurrent` for banks with two crates in one: the last slot is
  not reset between them (`SameSlot`), so that an invariant would have to say how the
  first crate ends. TLC checks them on two such banks, with all others.
- `EventFound` is a bisection over what a damaged reader may see. It has no proof.
- `CallsDeliver` compares the answers of calls, each a loop over lists in two programs,
  with what the calls promise. It has no proof.
- TestCode and TestExpr, and with them the CTP modules, declare RECURSIVE operators
  or use Bitwise, which the proof system does not take: no theorem can be there.

## 6. What is not modelled, and why

- *Numbers*: detector calibration, time of flight, least squares fits, transfer
  matrices, physics. They are real arithmetic, one hit after the other, without
  state that outlives an event; the loop sees at most an error flag, which Engine
  has as an outcome.
- *Generated code*: RPC stubs, registration routines. The network in `Rpc` stands
  for the former.
- *Output*: printing, ntuples, drawings, and what HBOOK makes of the histograms.
- *Setup*: parameter, map and test files, which appear as constants.
- *Old copies* of source files kept beside the current ones (suffixes `mine`,
  `r459`, dates): they are not built.
- *Of modelled parts*: the swapping of block headers, word by word, and of data of 8
  bytes, whose copying is undefined (ByteSwap); the conversion of a
  data word into plane, counter and signal (HitList has its outcome as input, and
  EventBanks ends with the word that is to be converted); g_decode_fb_bank, which
  only runs of the first years use, Monte Carlo banks, words of the trigger; the
  attributes of variables for their type and flag and the making of lists of
  variables for others (RegistryCalls); indices that are expressions (there; in
  CtpVars they are modelled); the evaluation of the test a request comes
  with (Rpc has its outcome as input, TestExpr the evaluation).
- *Of CTP*: strings as values; limits and titles of histograms; lines with brackets
  or braces left open; tests of the old style (thTestExecute.c:657-712,
  thTestParse.c:890-1064); the limit of 100 operators
  on the stack of the compiler; a file's name in the environment; names that are
  used both for a result and for something else. thParmLineSet keeps pointer and type
  of the variable it fills from line to line; the model looks them up each time, and
  so with the pointers that the code of tests and the lists of gethits keep: one gone
  stale when an array was moved would not show.
- *Of the choices of hits*: the seven loop nests of h_choose_single_hit (line 361 on)
  are one product in SpacePoints (`AllChoices`); a slip in one of them would not show.
- *Of the words of banks*: error words and the second crate word of a VME crate have bit
  23 or 25 set in memory but not in EventBanks, where no outcome depends on it.

## 7. The plan

Done, in this order: EventSource, Engine with EventStream, EngineProofs,
EvBlockFile with EventLog, HitList, Rpc, SpacePoints; TestCode and TestExpr, the
CTP modules, EvSearch, Registry and RegistryCalls with Dictionary; DecodeMap and
Scalers with EventBanks; ByteSwap. To come, most important first:

1. `LinkStubs`, then the search over left and right and the selection of
   tracks - the flags never cleared between events, the full track list.
2. `Pedestals` - sums and limits, in step with Engine's update_peds.
3. EventBanks composed with HitList: the words of `taken` as its input.
4. `RunDatabase` - the line-by-line search for a run's parameters.
5. The second chamber of the HES as another instance of SpacePoints.

Runs come to one per module with its properties together; where two modules ask
one question, their runs become one.

A theorem to come: CallsDeliver of RegistryCalls, from the lemmas on single calls there
are in RegistryProofs.
