------------------------------- MODULE CtpParm -------------------------------
(***************************************************************************)
(* Parameter blocks.  A line is [l |-> "parm", name, offset, args]: the    *)
(* variable and the offset of its first element to be set, or name = ""    *)
(* where there is no "="; args are expressions, the last empty where the   *)
(* line ends in a comma.                                                   *)
(***************************************************************************)
EXTENDS CtpVars

\* thIDToken: what looks like an integer, like a real number.
Numeric(arg) == \A k \in DOMAIN arg : arg[k].lex \in {"int", "float"} \/ arg[k].id \in {"+", "-"}
TokFloat(arg) == Numeric(arg) /\ \E k \in DOMAIN arg : arg[k].lex = "float"
TokInt(arg) == Numeric(arg) /\ ~ TokFloat(arg)

Arguments(line) ==
  IF line.args # <<>> /\ Last(line.args) = <<>> THEN Front(line.args) ELSE line.args

\* The variable of a line: an unregistered one is made as long as the line
\* needs, of integers.
Target(lib, line, nargs) ==
  LET unset == [k \in 1 .. line.offset + nargs |-> Whole(lib.junk)]
      new == [Variable("parm", 0, unset) EXCEPT !.dynamic = TRUE]
      there == IF LookupPWithClass(lib, line.name, <<"parm">>) THEN lib
               ELSE [lib EXCEPT !.dict = @ @@ (line.name :> new)]
  IN IF line.name = "" THEN lib
     ELSE [there EXCEPT !.parm = [name |-> line.name, index |-> line.offset]]

\* Room for the element an argument goes to: a variable CTP made becomes as
\* long as the rest of the line (left) needs; its doubles are taken for floats.
Room(lib, left) ==
  LET v == lib.dict[lib.parm.name]
  IN IF lib.parm.index < Len(v.val) THEN lib
     ELSE Require(v.type # 2, Resized(lib, lib.parm.name, lib.parm.index + left))

\* One argument stored; integers that CTP made become floats where they must.
\* One that cannot be evaluated counts as 0.
\* (StoreTruncated: a mutant, the elements before stay integers.)
StoreTruncated(lib, arg) ==
  LET p == lib.parm
      v == lib.dict[p.name]
      d == Evaluate(lib, arg).d
  IN [lib EXCEPT !.dict[p.name].val[p.index + 1] = Converted(v.type, d), !.parm.index = @ + 1]
Store(lib, arg) ==
  LET p == lib.parm
      v == lib.dict[p.name]
      d == Evaluate(lib, arg).d
      floats == v.type = 0 /\ v.dynamic /\ (TokFloat(arg) \/ (~ TokInt(arg) /\ d[2] # 1))
      type == IF floats THEN 1 ELSE v.type
  IN [lib EXCEPT !.dict[p.name].type = type,
                 !.dict[p.name].val[p.index + 1] = Converted(type, d),
                 !.parm.index = @ + 1]

\* thParmLineSet: a line without a "=" goes on where the last one, of
\* whatever block, ended; the line ends at the end of an array that is not
\* CTP's.
ParmLineSet(lib, line) ==
  LET args == Arguments(line)
      Fits(s) ==
        LET v == s.dict[s.parm.name] IN s.parm.index < Len(v.val) \/ v.dynamic
      Set(s, i) ==
        IF s.parm.name = "" \/ ~ s.ok \/ ~ Fits(s) THEN s
        ELSE Store(Room(s, Len(args) - i + 1), args[i])
  IN FoldLeft(Set, Target(lib, line, Len(args)), [i \in DOMAIN args |-> i])

\* thLoadParameters: a block is booked once.
LoadParameters(lib, key) ==
  LET Line(s, line) ==
        IF line.l = "decl" THEN Special(s, line, "parm")
        ELSE IF line.l = "parm" THEN ParmLineSet(s, line) ELSE s
  IN IF lib.blocks[key].count # 0 THEN lib
     ELSE FoldLeft(Line, [lib EXCEPT !.blocks[key].count = 1], Body(lib.blocks[key].title))
=============================================================================
