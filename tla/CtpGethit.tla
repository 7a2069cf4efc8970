------------------------------ MODULE CtpGethit ------------------------------
(***************************************************************************)
(* Gethit blocks: single detectors taken out of the lists of raw hits.     *)
(* The lines: [l |-> "key", key, var], "hitcount=", "matchlist=",          *)
(* "valuelist=" before the first definition, and [l |-> "gethit", dest,    *)
(* flag, source, coords], "dest,flag:source,coord,...", source "" for the  *)
(* default.  "missing_value=" is kept and never used; coordinates are      *)
(* integers.                                                               *)
(***************************************************************************)
EXTENDS CtpVars

\* thGethitPreamble: the arrays the keys name, those of events only.  An array
\* that is not found leaves the ones after it one place early.
Keys(lib, preamble, key) ==
  LET known(line) == /\ line.l = "key" /\ line.key = key
                     /\ LookupPWithClass(lib, line.var, <<"event">>)
                     /\ key # "valuelist" => lib.dict[line.var].type = 0
      found == SelectSeq(preamble, known)
  IN [k \in DOMAIN found |-> found[k].var]
LastKey(lib, preamble, key) ==
  LET found == Keys(lib, preamble, key) IN IF found = <<>> THEN "" ELSE Last(found)

\* thBookaGethit: an entry for a definition, or none.  A source of its own
\* goes through a pointer nobody has set, as does a default that is missing.
BookaGethit(lib, opaque, line) ==
  LET type == lib.dict[opaque.srcdefault].type
      dest == VarResolve(lib, line.dest, 2, type)
      test == IF line.flag = NoRef THEN [dest EXCEPT !.k = 0]
              ELSE VarResolve(dest.lib, line.flag, 3, 0)
      At(i) == Evaluate(lib, line.coords[i])
      good == \A i \in 1 .. opaque.ncoord : At(i).status = "S_SUCCESS"
  IN IF Len(line.coords) < opaque.ncoord THEN [lib |-> lib, entry |-> <<>>]
     ELSE IF line.source # "" \/ opaque.srcdefault = "" THEN [lib |-> Undefined(lib), entry |-> <<>>]
     ELSE IF dest.status # "S_SUCCESS" THEN [lib |-> dest.lib, entry |-> <<>>]
     ELSE IF test.status # "S_SUCCESS" \/ ~ good THEN [lib |-> test.lib, entry |-> <<>>]
     ELSE [lib |-> test.lib,
           entry |-> <<[coord |-> [i \in 1 .. opaque.ncoord |-> At(i).d],
                        dest |-> line.dest.name, destindex |-> dest.k,
                        test |-> line.flag.name, testindex |-> test.k]>>]

\* thBookGethits: from the first definition on a line that is none, the end,
\* leaves no place for the entry of the next line.
BookGethits(lib, key) ==
  LET title == SelectSeq(lib.blocks[key].title, LAMBDA line : line.l # "blank")
      first == Min({k \in DOMAIN title : title[k].l = "gethit"} \union {Len(title) + 1})
      preamble == SubSeq(title, 1, first - 1)
      opaque == [made |-> TRUE, vnhits |-> LastKey(lib, preamble, "hitcount"),
                 ncoord |-> Len(SelectSeq(preamble, LAMBDA line : line.l = "key" /\ line.key = "matchlist")),
                 coords |-> Keys(lib, preamble, "matchlist"),
                 srcdefault |-> LastKey(lib, preamble, "valuelist"), hlist |-> <<>>]
      Line(s, line) ==
        LET r == BookaGethit(s.lib, s.opaque, line)
        IN IF line.l # "gethit" THEN [s EXCEPT !.lib = Require(s.place, s.lib), !.place = FALSE]
           ELSE [s EXCEPT !.lib = Require(s.place \/ r.entry = <<>>, r.lib), !.opaque.hlist = @ \o r.entry]
      end == FoldLeft(Line, [lib |-> lib, opaque |-> opaque, place |-> TRUE],
                      SubSeq(title, first, Len(title)))
  IN [end.lib EXCEPT !.blocks[key].opaque = end.opaque,
                     !.gethits = IF Contains(@, key) THEN @ ELSE Append(@, key)]

\* thExecuteaGethitBlock: each definition takes the value of the first hit at
\* its coordinates; without one its destination keeps what it had.
\* (Unflagged: a mutant, the flag is not taken back first.)
Unflagged(lib, get) == lib
FlagDown(lib, get) ==
  IF get.test = "" THEN lib ELSE [lib EXCEPT !.dict[get.test].val[get.testindex] = Whole(0)]
TakeHit(lib, opaque, get, ihit) ==
  LET value == lib.dict[opaque.srcdefault].val[ihit]
      type == lib.dict[get.dest].type
      up == IF get.test = "" THEN lib
            ELSE [lib EXCEPT !.dict[get.test].val[get.testindex] = Whole(1)]
  IN [up EXCEPT !.dict[get.dest].val[get.destindex] = Converted(type, value)]
ExecuteaGethit(lib, opaque, get) ==
  LET down == FlagDown(lib, get)
      At(i, ihit) == lib.dict[opaque.coords[i]].val[ihit]
      nhits == lib.dict[opaque.vnhits].val[1][1]
      matched == {ihit \in 1 .. nhits : \A i \in 1 .. opaque.ncoord : At(i, ihit) = get.coord[i]}
  IN IF matched = {} THEN down ELSE TakeHit(down, opaque, get, Min(matched))

\* The lists are there and as long as the number of hits says.
ListsHold(lib, opaque) ==
  LET nhits == lib.dict[opaque.vnhits].val[1][1]
  IN /\ opaque.made
     /\ opaque.vnhits # ""
     /\ nhits > 0 => /\ Len(opaque.coords) = opaque.ncoord
                     /\ \A a \in ToSet(opaque.coords) \union {opaque.srcdefault} : Inside(lib, a, nhits)
ExecuteaGethitBlock(lib, key) ==
  LET opaque == lib.blocks[key].opaque
      Get(s, get) == ExecuteaGethit(s, opaque, get)
  IN IF ~ ListsHold(lib, opaque) THEN Undefined(lib) ELSE FoldLeft(Get, lib, opaque.hlist)

\* thExecuteGethits: the block of that name, all for ""; each counts.
ExecuteGethits(lib, name) ==
  LET Do(s, key) ==
        LET r == ExecuteaGethitBlock(s, key) IN [r EXCEPT !.blocks[key].count = @ + 1]
  IN FoldLeft(Do, lib, SelectSeq(lib.gethits, LAMBDA key : name = "" \/ key[2] = name))
=============================================================================
