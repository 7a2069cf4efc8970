------------------------------- MODULE CtpHist -------------------------------
(***************************************************************************)
(* Histogram blocks, "hist" and "uhist".  A line is [l |-> "hist", name,   *)
(* nargs, x, y, test, weight]: how many arguments it has decides what they *)
(* are, and for a histogram that the user fills, with neither source nor   *)
(* test, the references are not looked at.  HBOOK, external, holds under   *)
(* each id the bag of what it was filled with, the values and the weight;  *)
(* titles and limits are left out.                                         *)
(***************************************************************************)
EXTENDS CtpVars

NoPars == [nd |-> 0]   \* a null opaque pointer: filled by the user
UserFilled(line) == line.nargs \in {4, 7}
Dimensions(line) == IF line.nargs \in 4 .. 6 THEN 1 ELSE IF line.nargs \in {7, 9, 10} THEN 2 ELSE 0
WithTest(line) == line.nargs \in {6, 10}

\* What a line reads, looked up: each [name, k], name "" where the line has
\* none, and whether all of it could be.
Reads(lib, line) ==
  LET nd == Dimensions(line)
      user == UserFilled(line)
      Find(used, ref, datatest) ==
        LET r == VarResolve(lib, ref, datatest, 0)
        IN IF ~ used THEN [good |-> TRUE, at |-> [name |-> "", k |-> 0]]
           ELSE [good |-> r.status = "S_SUCCESS", at |-> [name |-> ref.name, k |-> r.k]]
      x == Find(~ user, line.x, 0)
      y == Find(~ user /\ nd = 2, line.y, 0)
      t == Find(WithTest(line), line.test, 1)
      w == Find(line.weight # NoRef, line.weight, 0)
  IN [good |-> /\ nd > 0 /\ x.good /\ y.good /\ t.good /\ w.good
               /\ WithTest(line) => lib.dict[line.test.name].type = 0,
      pars |-> IF user THEN NoPars
               ELSE [nd |-> nd, x |-> x.at, y |-> y.at, test |-> t.at, weight |-> w.at]]

\* thBookaHist: the variable "hist.name" and the id it holds, a new one as
\* long as HBOOK has a histogram under it.  The variable may be there from
\* another line: its opaque stays what it was, null or not.
BookaHist(lib, line) ==
  LET r == Reads(lib, line)
      known == line.name \in DOMAIN lib.hists
      fresh == CHOOSE n \in lib.maxid + 1 .. lib.maxid + 1 + Cardinality(DOMAIN lib.hbook) :
                 /\ n \notin DOMAIN lib.hbook
                 /\ \A m \in lib.maxid + 1 .. n - 1 : m \in DOMAIN lib.hbook
      keeps == known /\ lib.hists[line.name].id \notin DOMAIN lib.hbook
      id == IF keeps THEN lib.hists[line.name].id ELSE fresh
      old == IF known THEN lib.hists[line.name].pars ELSE r.pars
      hist == [id |-> id, pars |-> IF UserFilled(line) THEN old ELSE r.pars]
  IN Require(UserFilled(line) \/ old # NoPars,
       [lib EXCEPT !.maxid = IF keeps THEN @ ELSE id,
                   !.hists = (line.name :> hist) @@ @,
                   !.hbook = (id :> EmptyBag) @@ @])

Freed(lib, key) == lib.blocks[key].opaque.made /\ lib.blocks[key].opaque.freed

\* thRemoveHists: the first block on the list with that name, whatever its
\* class; its histograms go and its list is freed.  Walking a list freed
\* before is undefined.
RemoveHists(lib, name) ==
  LET at == {k \in DOMAIN lib.hblocks : lib.hblocks[k][2] = name}
      key == lib.hblocks[Min(at)]
      list == lib.blocks[key].opaque.list
      ids == {lib.hists[n].id : n \in ToSet(list)}
  IN IF at = {} THEN lib
     ELSE Require(~ Freed(lib, key),
            [lib EXCEPT !.hblocks = RemoveAt(@, Min(at)),
                        !.blocks[key].opaque.freed = TRUE,
                        !.hbook = [id \in DOMAIN @ \ ids |-> @[id]]])

\* thBookHists: the block's list is taken from the first line that books;
\* until then the old one stays, freed or not.
\* (BookAgain: a mutant, the histograms there are stay.)
BookLines(lib, key) ==
  LET Line(s, line) ==
        IF line.l # "hist" \/ ~ Reads(s.lib, line).good THEN s
        ELSE [lib |-> BookaHist(s.lib, line),
              opaque |-> [made |-> TRUE, freed |-> FALSE,
                          list |-> Append(IF s.booked THEN s.opaque.list ELSE <<>>, line.name)],
              booked |-> TRUE]
      end == FoldLeft(Line, [lib |-> lib, opaque |-> lib.blocks[key].opaque, booked |-> FALSE],
                      Body(lib.blocks[key].title))
  IN [end.lib EXCEPT !.blocks[key].opaque = end.opaque,
                     !.hblocks = IF Contains(@, key) THEN @ ELSE Append(@, key)]
BookAgain(lib, key) == BookLines(lib, key)
BookHists(lib, key) ==
  BookLines(IF lib.blocks[key].opaque.made THEN RemoveHists(lib, key[2]) ELSE lib, key)

\* thExecuteaHist.
Readable(lib, pars) ==
  \A at \in {pars.x, pars.y, pars.test, pars.weight} : at.name # "" => Inside(lib, at.name, at.k)
ExecuteaHist(lib, name) ==
  LET hist == lib.hists[name]
      pars == hist.pars
      Value(at) == ValueAt(lib, at.name, at.k)
      fill == [at |-> IF pars.nd = 1 THEN <<Value(pars.x)>> ELSE <<Value(pars.x), Value(pars.y)>>,
               weight |-> IF pars.weight.name = "" THEN Whole(1) ELSE Value(pars.weight)]
      passed == pars.test.name = "" \/ Value(pars.test) # Whole(0)
  IN IF pars = NoPars THEN lib
     ELSE IF ~ Readable(lib, pars) THEN Undefined(lib)
     ELSE IF passed /\ hist.id \in DOMAIN lib.hbook
     THEN [lib EXCEPT !.hbook[hist.id] = @ (+) SetToBag({fill})] ELSE lib

\* The histograms of a block; reading a list that was freed is undefined.
HistList(lib, key) ==
  LET opaque == lib.blocks[key].opaque IN IF opaque.made THEN opaque.list ELSE <<>>

ExecuteHistsV(lib, key) ==
  Require(~ Freed(lib, key),
    [FoldLeft(ExecuteaHist, lib, HistList(lib, key)) EXCEPT !.blocks[key].count = @ + 1])
ClearHistsV(lib, key) ==
  LET ids == {lib.hists[n].id : n \in ToSet(HistList(lib, key))}
  IN Require(~ Freed(lib, key),
       [lib EXCEPT !.hbook = [id \in DOMAIN @ |-> IF id \in ids THEN EmptyBag ELSE @[id]],
                   !.blocks[key].count = 0])

\* thExecuteHists, thClearHists: on the first block of that name, on all for
\* "".  The executions leave "uhist" blocks alone.
ExecuteHists(lib, name) ==
  LET blocks == SelectSeq(lib.hblocks, LAMBDA key : key[1] = "hist" /\ (name = "" \/ key[2] = name))
  IN FoldLeft(ExecuteHistsV, lib, IF name = "" \/ blocks = <<>> THEN blocks ELSE <<blocks[1]>>)
ClearHists(lib, name) ==
  LET blocks == SelectSeq(lib.hblocks, LAMBDA key : name = "" \/ key[2] = name)
  IN FoldLeft(ClearHistsV, lib, IF name = "" \/ blocks = <<>> THEN blocks ELSE <<blocks[1]>>)

\* thHistAliasWrite: the names and ids of the histograms of all blocks.
AliasWrite(lib) ==
  LET Aliases(key) == [k \in DOMAIN HistList(lib, key) |->
                         [name |-> HistList(lib, key)[k], id |-> lib.hists[HistList(lib, key)[k]].id]]
  IN FlattenSeq([b \in DOMAIN lib.hblocks |-> Aliases(lib.hblocks[b])])

\* thGetHistID: 0 for a name that is no histogram.
GetHistID(lib, name) == IF name \in DOMAIN lib.hists THEN lib.hists[name].id ELSE 0
=============================================================================
