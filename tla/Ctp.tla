--------------------------------- MODULE Ctp ---------------------------------
(***************************************************************************)
(* The CTP library in use.  Two programs use it: "replay", this analyzer,  *)
(* which books groups (g_initialize) and executes those of each event      *)
(* (g_keep_results), and "blocks", with the calls that go by blocks, which *)
(* the library offers beside: thOBook, after which a client may write the  *)
(* title of a block to book it anew.                                       *)
(***************************************************************************)
EXTENDS CtpGroup

CONSTANTS
  Call(_, _),  \* what a call makes of the library: LibraryCall
  Junk,        \* what fresh memory holds
  MaxEvents,   \* bound: events analyzed
  MaxWrites    \* bound: writes by clients

CONSTANTS
  Registered,  \* the variables of the program
  Disks,       \* the CTP files each program may have: functions from names to lines
  CommandLine, \* the assignments on the command line
  Events,      \* [group, vals]: what an event sets among the variables
  Titles,      \* <<key, title>>: what clients write into blocks
  Values       \* <<name, value>>: what clients write into parameters

VARIABLES
  program,     \* which of the two it is
  disk,        \* its files
  phase,       \* "start" | "run"
  lib,         \* the library
  base,        \* the library as it would be had there been no event
  seen,        \* the events analyzed
  writes,      \* the blocks written, each with the number of events before
  printed      \* what the last report printed, and after how many events

vars == <<program, disk, phase, lib, base, seen, writes, printed>>

(***************************************************************************)
(* What the programs do with the library: the calls they make, in order    *)
(***************************************************************************)
After(l, calls) == FoldLeft(LAMBDA s, call : Call(s, call), l, calls)

FileOrder == <<"parm", "test", "more", "hist", "report">>
LoadFile(files, file) == [do |-> "load", disk |-> files, file |-> file]
OnGroup(op, class, name) == [do |-> "group", op |-> op, class |-> class, name |-> name]

\* g_initialize, with the assignments of the command line (thpset).
Initialize(files) ==
  <<LoadFile(files, "parm"), [do |-> "book"], LoadFile(files, "test")>>
  \o [k \in DOMAIN CommandLine |-> [do |-> "set", line |-> CommandLine[k]]]
  \o <<LoadFile(files, "hist"), LoadFile(files, "report"), [do |-> "book"],
       OnGroup("clear", "test", "default"), OnGroup("clearScalers", "test", "default")>>

\* A program that goes by blocks, with the same files.
InitializeBlocks(files, order) ==
  <<LoadFile(files, "parm"), LoadFile(files, "test"), LoadFile(files, "hist"), LoadFile(files, "report"),
    [do |-> "obook", order |-> order]>>

\* g_keep_results, and by blocks.
KeepResults(group) ==
  <<OnGroup("execute", "gethit", group), OnGroup("execute", "test", group),
    OnGroup("incrementScalers", "test", group), OnGroup("execute", "hist", group)>>
KeepBlocks ==
  <<[do |-> "gethits"], [do |-> "tests", entry |-> "thtstexe"],
    [do |-> "tests", entry |-> "thtstins"], [do |-> "hists"]>>

\* An event's data, which the rest of the analyzer leaves in its variables.
WithData(l, event) ==
  [l EXCEPT !.dict = [n \in DOMAIN @ |-> IF n \in DOMAIN event.vals THEN [@[n] EXCEPT !.val = event.vals[n]]
                                         ELSE @[n]]]
Analyzed(l, event) ==
  After(WithData(l, event), IF program = "replay" THEN KeepResults(event.group) ELSE KeepBlocks)

(***************************************************************************)
(* The behaviours                                                          *)
(***************************************************************************)
NothingPrinted == [out |-> <<>>, after |-> 0]

Init ==
  /\ program \in {"replay", "blocks"}
  /\ disk \in Disks[program]
  /\ phase = "start"
  /\ lib = NewLibrary(Registered, Junk)
  /\ base = lib
  /\ seen = <<>>
  /\ writes = <<>>
  /\ printed = NothingPrinted

Begun(started) ==
  /\ phase = "start"
  /\ phase' = "run"
  /\ lib' = started
  /\ base' = started
  /\ UNCHANGED <<program, disk, seen, writes, printed>>
Start == program = "replay" /\ Begun(After(lib, Initialize(disk)))
\* The order thOBook finds the blocks in is that of a hash table; two are
\* tried, the one they are read in and its reverse.
InOrder(files) ==
  LET begins == SelectSeq(FlattenSeq([k \in DOMAIN FileOrder |-> files[FileOrder[k]]]),
                          LAMBDA line : line.l = "begin")
  IN [k \in DOMAIN begins |-> <<begins[k].kind, begins[k].name>>]
StartBlocks ==
  /\ program = "blocks"
  /\ \E order \in {InOrder(disk), Reverse(InOrder(disk))} :
       Begun(After(lib, InitializeBlocks(disk, order)))

Analyze(event) ==
  /\ phase = "run"
  /\ lib.ok
  /\ Len(seen) < MaxEvents
  /\ lib' = Analyzed(lib, event)
  /\ seen' = Append(seen, event)
  /\ UNCHANGED <<program, disk, phase, base, writes, printed>>

Writes(what) ==
  /\ phase = "run"
  /\ lib.ok
  /\ Len(writes) < MaxWrites
  /\ writes' = Append(writes, [what |-> what, at |-> Len(seen)])

\* A client writes a parameter.
WriteValue(name, value) ==
  LET Set(l) == [l EXCEPT !.dict[name].val[1] = value]
  IN /\ program = "replay"
     /\ Writes(<<"parm", name>>)
     /\ lib' = Set(lib)
     /\ base' = Set(base)
     /\ UNCHANGED <<program, disk, phase, seen, printed>>

\* A client writes a title.  base is then the library of a program that was
\* started with that title.
Restarted(files, key, title) ==
  LET New(file) ==
        LET at == {k \in DOMAIN file : file[k].l = "begin" /\ <<file[k].kind, file[k].name>> = key}
            first == Min(at)
            last == Min({k \in first .. Len(file) : file[k].l = "end"})
        IN IF at = {} THEN file ELSE SubSeq(file, 1, first - 1) \o title \o SubSeq(file, last + 1, Len(file))
  IN [f \in DOMAIN files |-> New(files[f])]
WriteTitleOf(key, title) ==
  /\ program = "blocks"
  /\ Writes(key)
  /\ lib' = Call(lib, [do |-> "title", key |-> key, title |-> title])
  /\ disk' = Restarted(disk, key, title)
  /\ base' = After(NewLibrary(Registered, Junk), InitializeBlocks(disk', InOrder(disk')))
  /\ UNCHANGED <<program, phase, seen, printed>>

\* g_report_rates and the reports at the end of the run.
PrintReport ==
  /\ phase = "run"
  /\ lib.ok
  /\ printed.after < Len(seen)
  /\ lib' = Call(lib, [do |-> "report", name |-> "r", append |-> FALSE])
  /\ printed' = [out |-> lib'.out, after |-> Len(seen)]
  /\ UNCHANGED <<program, disk, phase, base, seen, writes>>

Next ==
  \/ Start
  \/ StartBlocks
  \/ \E event \in Events : Analyze(event)
  \/ \E v \in Values : WriteValue(v[1], v[2])
  \/ \E t \in Titles : WriteTitleOf(t[1], t[2])
  \/ PrintReport

Spec == Init /\ [][Next]_vars

(***************************************************************************)
(* Properties                                                              *)
(***************************************************************************)
TypeOK ==
  /\ phase \in {"start", "run"}
  /\ \A n \in DOMAIN lib.dict :
       /\ lib.dict[n].type \in Types
       /\ \A k \in DOMAIN lib.dict[n].val :
            /\ lib.dict[n].val[k][2] > 0
            /\ lib.dict[n].type = 0 => lib.dict[n].val[k][2] = 1
  /\ DOMAIN lib.hbook \subseteq 1 .. lib.maxid
  /\ Len(seen) <= MaxEvents /\ Len(writes) <= MaxWrites

\* Booking and executing never leave what C defines: no block is executed
\* that is not booked, no list read that was freed, no element taken beyond
\* the end of an array (the scalers of a result, the lists of hits, the
\* source of a histogram).
Sound == lib.ok

\* Every block is in the groups its begin line names, "default" when it names
\* none, and in "all"; and a group has its blocks in the order in which they
\* are read, which is the order they are executed in: a test may use what an
\* earlier one left.
Written(begin) ==
  {<<begin.kind, "all">>} \union
  (IF begin.toks = <<>> THEN {<<begin.kind, "default">>}
   ELSE {<<begin.kind, t.eq>> : t \in ToSet(begin.toks)})
Begins(files) == UNION {{line \in ToSet(files[f]) : line.l = "begin"} : f \in DOMAIN files}
GroupsAsWritten ==
  /\ phase = "run" /\ writes = <<>> =>
       \A begin \in Begins(disk) :
         {g \in DOMAIN lib.groups : Contains(lib.groups[g], <<begin.kind, begin.name>>)} = Written(begin)
  /\ \A g \in DOMAIN lib.groups :
       lib.groups[g] = SelectSeq(lib.groups[<<g[1], "all">>], LAMBDA key : Contains(lib.groups[g], key))

\* The elements of parameters have the values the lines give them (in the
\* instance, single numbers), the last one where there are several, over
\* lines that are continued, arrays that grow and arrays that turn from
\* integers to reals on the way; those of the program's own, as far as they
\* go and converted to their type.
ParmsAsWritten ==
  LET lines == SelectSeq(disk["parm"] \o CommandLine, LAMBDA line : line.l = "parm")
      From(i) == Max({k \in 1 .. i : lines[k].name # ""})
      Count(i) == Len(Arguments(lines[i]))
      ElementOf(a) == [name |-> lines[From(a[1])].name,
                   k |-> lines[From(a[1])].offset + a[2]
                         + MapThenSumSet(Count, From(a[1]) .. a[1] - 1)]
      all == UNION {{<<i, j>> : j \in 1 .. Count(i)} : i \in DOMAIN lines}
      Before(a, b) == a[1] < b[1] \/ (a[1] = b[1] /\ a[2] < b[2])
      Holds(a) ==
        LET v == lib.dict[ElementOf(a).name]
            k == ElementOf(a).k
            x == lines[a[1]].args[a[2]][1].val
        IN IF v.dynamic THEN k \in DOMAIN v.val /\ v.val[k] = x
           ELSE k \in DOMAIN v.val => v.val[k] = Converted(v.type, x)
  IN phase = "run" /\ program = "replay" =>
       \A a \in all :
         \/ \E b \in all : Before(a, b) /\ ElementOf(b) = ElementOf(a)
         \/ \E w \in ToSet(writes) : w.what = <<"parm", ElementOf(a).name>>
         \/ Holds(a)

\* What an event adds to the scalers and the histograms.
Results(l) == UNION {Flags(l, key) : key \in ToSet(l.tests)}
Histograms(l) == UNION {ToSet(HistList(l, key)) : key \in ToSet(l.hblocks)}
Gains(before, after) ==
  LET Of(l, s) == IF s \in DOMAIN l.dict THEN l.dict[s].val ELSE <<>>
  IN [scalers |-> [n \in Results(after) |->
                     LET s == ScalerOf(n)
                     IN [k \in DOMAIN Of(after, s) |-> Plus(Of(after, s)[k], Neg(Of(before, s)[k]))]],
      fills |-> [h \in Histograms(after) |->
                   after.hbook[after.hists[h].id] (-) before.hbook[before.hists[h].id]]]

\* What an event adds depends on that event alone: as much as it would add
\* if it were the first one, and after a title was written as much as it
\* would in a program started with that title.  No flag, value, code or list
\* of an earlier event or of an earlier title has a part in it.
EventsIndependent ==
  [][\A event \in Events :
       seen' = Append(seen, event) /\ lib'.ok => Gains(lib, lib') = Gains(base, Analyzed(base, event))]_vars

BlockOf(n) == CHOOSE key \in ToSet(lib.tests) : n \in Flags(lib, key)
GroupsOf(key) == {g[2] : g \in {h \in DOMAIN lib.groups : Contains(lib.groups[h], key)}}
EntriesAsScalers ==
  program = "replay" /\ lib.ok =>
    \A key \in ToSet(lib.hblocks) : \A h \in ToSet(HistList(lib, key)) :
      LET pars == lib.hists[h].pars
      IN pars # NoPars =>
           (pars.test.name \in Results(lib) =>
              (GroupsOf(key) = GroupsOf(BlockOf(pars.test.name)) =>
                 Whole(BagCardinality(lib.hbook[lib.hists[h].id]))
                   = lib.dict[ScalerOf(pars.test.name)].val[pars.test.k]))

BookedAt(key) == LET mine == SelectSeq(writes, LAMBDA w : w.what = key)
                 IN IF mine = <<>> THEN 0 ELSE Last(mine).at
NoMoreThanEvents ==
  /\ \A key \in ToSet(lib.tests) : \A n \in Flags(lib, key) :
       \A k \in DOMAIN lib.dict[ScalerOf(n)].val :
         ~ Less(Whole(Len(seen) - BookedAt(key)), lib.dict[ScalerOf(n)].val[k])
  /\ \A key \in ToSet(lib.hblocks) : \A h \in ToSet(HistList(lib, key)) :
       BagCardinality(lib.hbook[lib.hists[h].id]) <= Len(seen) - BookedAt(key)

\* Every histogram of HBOOK is the one of the name it was booked under, as
\* the alias file and the displays (thGetHistID) take it to be: the file
\* never has two names of one histogram, or two histograms of one name, and
\* lists all there are.
OneIdEach ==
  LET aliases == ToSet(AliasWrite(lib))
  IN /\ \A a, b \in aliases : (a.name = b.name) = (a.id = b.id)
     /\ DOMAIN lib.hbook = {GetHistID(lib, a.name) : a \in aliases}

\* Scalers and histograms count from when their block was last booked, no
\* more than the events since; and a histogram whose test is a result of a
\* block in the same groups has as many entries as the scaler of the test
\* counts, in a program that never clears one without the other.  No two names
\* have one id, and HBOOK has no others (OneIdEach).
HistsFollowFlags == EntriesAsScalers /\ NoMoreThanEvents /\ OneIdEach
=============================================================================
