------------------------------- MODULE CtpTest -------------------------------
(***************************************************************************)
(* Test blocks.  A line is [l |-> "test", toks], the lexemes of TestCode.  *)
(* The opaque data of a block: its code and the list of its results.       *)
(***************************************************************************)
EXTENDS CtpVars

\* thBookTests: the lines are compiled in order, each with what the lines
\* before it made; a block booked again starts with no code and no list.
BookTests(lib, key) ==
  LET start == [lib |-> lib, code |-> <<>>, vlist |-> <<>>]
      Compiled(s, line) ==
        BookaTest([dict |-> s.lib.dict, vlist |-> s.vlist, code |-> s.code,
                   lasttoktype |-> s.lib.lasttoktype, lastop |-> s.lib.lastop],
                  line.toks, FALSE, s.lib.junk)
      Take(s, r) ==
        [lib |-> [s.lib EXCEPT !.dict = r.dict, !.lasttoktype = r.lasttoktype, !.lastop = r.lastop],
         code |-> r.code, vlist |-> r.vlist]
      Line(s, line) ==
        IF line.l = "decl" THEN [s EXCEPT !.lib = Special(s.lib, line, "test")]
        ELSE IF line.l = "test" THEN Take(s, Compiled(s, line)) ELSE s
      end == FoldLeft(Line, start, Body(lib.blocks[key].title))
  IN [end.lib EXCEPT !.blocks[key].opaque = [made |-> TRUE, code |-> end.code, vlist |-> end.vlist],
                     !.tests = IF Contains(@, key) THEN @ ELSE Append(@, key)]

\* The integer results of a block, those that have scalers.
Flags(lib, key) == {n \in ToSet(lib.blocks[key].opaque.vlist) : lib.dict[n].type = 0}

\* A loop over the elements of the results: what each leaves in its flag
\* and in its scaler.  An array that grew after its scaler was made takes the
\* loop past the end of the scaler.
EachFlag(lib, key, Flag(_), Scaler(_, _)) ==
  LET flags == Flags(lib, key)
      New(n) ==
        CASE n \in flags ->
               [lib.dict[n] EXCEPT !.val = [k \in DOMAIN @ |-> Flag(@[k])]]
          [] \E f \in flags : n = ScalerOf(f) ->
               LET f == CHOOSE g \in flags : n = ScalerOf(g)
               IN [lib.dict[n] EXCEPT
                     !.val = [k \in DOMAIN @ |->
                                IF k \in DOMAIN lib.dict[f].val THEN Scaler(@[k], lib.dict[f].val[k])
                                ELSE @[k]]]
          [] OTHER -> lib.dict[n]
  IN [lib EXCEPT !.dict = [n \in DOMAIN @ |-> New(n)]]

ScalersCover(lib, key) ==
  \A f \in Flags(lib, key) : Len(lib.dict[ScalerOf(f)].val) >= Len(lib.dict[f].val)
Kept(x) == x
KeptScaler(s, x) == s

ClearTestFlagsV(lib, key) ==
  LET Zero(x) == Whole(0) IN EachFlag(lib, key, Zero, KeptScaler)
ClearTestScalersV(lib, key) ==
  LET Zero(s, x) == Whole(0)
  IN Require(ScalersCover(lib, key), EachFlag(lib, key, Kept, Zero))
\* (CountAll: a mutant, every flag counts.)
CountAll(lib, key) ==
  LET More(s, x) == Plus(s, Whole(1))
  IN Require(ScalersCover(lib, key), EachFlag(lib, key, Kept, More))
IncTestScalersV(lib, key) ==
  LET More(s, x) == Plus(s, Truth(x # Whole(0)))
  IN Require(ScalersCover(lib, key), EachFlag(lib, key, Kept, More))

\* The code of a block run on the variables: [lib, status].
RunBlock(lib, key) ==
  LET m == ExecuteCode(lib.dict, lib.blocks[key].opaque.code)
  IN [lib |-> Require(m.ok, [lib EXCEPT !.dict = m.dict]), status |-> m.status]

Counted(lib, key) == [lib EXCEPT !.blocks[key].count = @ + 1]

\* thExecuteTestsV: the block counts when its code ran to its end.
ExecuteTestsV(lib, key) ==
  LET r == RunBlock(lib, key)
  IN IF r.status = "S_SUCCESS" THEN Counted(r.lib, key) ELSE r.lib

\* thWalkTree: the operation done on the block of that name, on all for "";
\* an execution counts whatever its status.
WalkTree(lib, name, op) ==
  LET Do(s, key) ==
        CASE op = "WALK_EXECUTE" -> Counted(RunBlock(s, key).lib, key)
          [] op = "WALK_CLEAR_SCALERS" -> ClearTestScalersV(s, key)
          [] op = "WALK_INCREMENT_SCALERS" -> IncTestScalersV(s, key)
          [] op = "WALK_CLEAR_FLAGS" -> ClearTestFlagsV(s, key)
          [] op = "WALK_REMOVE" -> [s EXCEPT !.tests = Remove(@, key)]
      walked == SelectSeq(lib.tests, LAMBDA key : name = "" \/ key[2] = name)
  IN [lib |-> FoldLeft(Do, lib, walked),
      status |-> IF name # "" /\ lib.tests # <<>> /\ walked = <<>> THEN "S_FAILURE" ELSE "S_SUCCESS"]

\* The calls that walk the blocks, each with its own operation.
WalkOp(entry) ==
  CASE entry \in {"thtstexe", "thExecuteTests"} -> "WALK_EXECUTE"
    [] entry \in {"thtstclr", "thClearTestFlags"} -> "WALK_CLEAR_FLAGS"
    [] entry \in {"thtstins", "thIncTestScalers"} -> "WALK_INCREMENT_SCALERS"
    [] entry \in {"thtstcls", "thClearTestScalers"} -> "WALK_CLEAR_SCALERS"
=============================================================================
