------------------------------- MODULE TestCode -------------------------------
(***************************************************************************)
(* One line of a test block: thBookaTest compiles it to the code of a      *)
(* stack machine, thExecuteCode runs the code on every event.  A line is   *)
(* the sequence of its lexemes; a variable is its class, its type, its     *)
(* elements and whether CTP may resize it; a number is a fraction <<n, d>>, *)
(* of which an integer variable holds those with d = 1.  The names of      *)
(* variables are distinct across the classes.                              *)
(***************************************************************************)
EXTENDS Integers, Sequences, SequencesExt, FiniteSetsExt, TLC
LOCAL INSTANCE Bitwise

CONSTANT
  PointerWords   \* words of code a pointer takes: 1, or 2 where pointers have 64 bits

\* Operand types: OPRINT, OPRFLOAT, OPRDOUBLE.
Types == 0 .. 2

(***************************************************************************)
(* Numbers                                                                 *)
(***************************************************************************)
Magnitude(n) == IF n < 0 THEN -n ELSE n
Gcd(a, b) == Max({k \in 1 .. Max({a, b}) : a % k = 0 /\ b % k = 0})
Fraction(n, d) ==
  IF n = 0 THEN <<0, 1>>
  ELSE LET g == Gcd(Magnitude(n), Magnitude(d))
           s == IF d < 0 THEN -1 ELSE 1
       IN <<s * (IF n < 0 THEN -(Magnitude(n) \div g) ELSE n \div g), Magnitude(d) \div g>>
Whole(n) == <<n, 1>>
Truth(b) == IF b THEN Whole(1) ELSE Whole(0)
Neg(x) == <<-x[1], x[2]>>
Plus(x, y) == Fraction(x[1] * y[2] + y[1] * x[2], x[2] * y[2])
Times(x, y) == Fraction(x[1] * y[1], x[2] * y[2])
Over(x, y) == Fraction(x[1] * y[2], x[2] * y[1])
Less(x, y) == x[1] * y[2] < y[1] * x[2]
Truncated(x) == IF x[1] < 0 THEN -(Magnitude(x[1]) \div x[2]) ELSE x[1] \div x[2]

\* floatToLong: to the nearest integer, halves away from zero.
FloatToLong(x) ==
  Truncated(IF Less(Whole(0), x) THEN Plus(x, <<1, 2>>) ELSE Plus(x, <<-1, 2>>))

\* A value stored as an operand of type t.
Converted(t, x) == IF t = 0 THEN Whole(FloatToLong(x)) ELSE x

(***************************************************************************)
(* Lexemes                                                                 *)
(***************************************************************************)
Op(s) == [lex |-> "op", id |-> s, val |-> Whole(0)]
Name(s) == [lex |-> "name", id |-> s, val |-> Whole(0)]
Number(s, x) == [lex |-> IF x[2] = 1 THEN "int" ELSE "float", id |-> s, val |-> x]
Chars(line) == MapThenSumSet(LAMBDA i : Len(line[i].id), DOMAIN line)
NextIs(line, i, s) == i \in DOMAIN line /\ line[i] = Op(s)

\* optable: what the characters of an operator mean where no operand is due.
OpTable ==
  "(" :> "OPLP" @@ (")" :> "OPRP") @@ ("[" :> "OPLINDEXB") @@ ("]" :> "OPRP")
  @@ ("-" :> "OPSUB") @@ ("+" :> "OPADD") @@ ("<" :> "OPISLT") @@ ("<<" :> "OPSHL")
  @@ ("<=" :> "OPISLE") @@ (">" :> "OPISGT") @@ (">>" :> "OPSHR") @@ (">=" :> "OPISGE")
  @@ ("=" :> "OPEQUAL") @@ ("==" :> "OPISEQUAL") @@ ("!" :> "OPNOT") @@ ("!=" :> "OPISNOTEQUAL")
  @@ ("&" :> "OPBITAND") @@ ("&&" :> "OPLOGAND") @@ ("|" :> "OPBITOR") @@ ("||" :> "OPLOGOR")
  @@ ("^" :> "OPBITXOR") @@ ("^^" :> "OPLOGXOR") @@ ("*" :> "OPTIMES") @@ ("/" :> "OPDIV")
  @@ ("//" :> "OPIDIV") @@ ("%" :> "OPMOD") @@ ("~" :> "OPCOMP") @@ ("," :> "OPCOMMA")

Intrinsics == <<"abs", "sqrt">>   \* the first of intrinsic_functions

LIndexGroup == {"OPLINDEX", "OPLINDEXB", "OPLINDEXP", "OPLINDEXPB", "OPLFARG"}
Unary == {"OPNEG", "OPNOT", "OPCOMP"}
Comparisons == {"OPISEQUAL", "OPISNOTEQUAL", "OPISLT", "OPISLE", "OPISGT", "OPISGE"}

\* The precedence byte of an operator (OPPRECMASK); none is below "(".
Prec(op) ==
  CASE op = "none" -> 0 [] op = "OPLP" -> 1 [] op = "OPRP" -> 9
    [] op \in LIndexGroup \ {"OPLFARG"} -> 26 [] op = "OPLFARG" -> 27
    [] op = "OPEOL" -> 46 [] op = "OPCOMMA" -> 47 [] op = "OPEQUAL" -> 64
    [] op = "OPLOGOR" -> 131 [] op = "OPLOGXOR" -> 132 [] op = "OPLOGAND" -> 133
    [] op = "OPBITOR" -> 134 [] op = "OPBITXOR" -> 135 [] op = "OPBITAND" -> 136
    [] op \in {"OPISEQUAL", "OPISNOTEQUAL"} -> 169 [] op \in Comparisons -> 170
    [] op \in {"OPSHL", "OPSHR"} -> 187 [] op \in {"OPADD", "OPSUB"} -> 192
    [] op \in {"OPTIMES", "OPDIV", "OPIDIV", "OPMOD"} -> 208 [] op \in Unary -> 224

\* typetable and intrinsic_functions: the type of a result; 0 also for
\* operand types out of range.
ResultType(op, left, right) ==
  IF op = "OPLFARG" THEN IF left = 0 THEN right ELSE 2
  ELSE IF ~ {left, right} \subseteq Types THEN 0
  ELSE CASE op \in LIndexGroup \union {"OPEQUAL"} -> left
         [] op \in {"OPADD", "OPSUB", "OPTIMES", "OPMOD"} -> IF left = 0 /\ right = 0 THEN 0 ELSE 2
         [] op = "OPDIV" -> 2
         [] op = "OPNEG" -> right
         [] OTHER -> 0

(***************************************************************************)
(* The compiler.  Its state: the variables (dict), the results of the      *)
(* block (vlist), what thGetTok keeps from one token, and from one line,   *)
(* to the next (lasttoktype: 0 after an operator, 1 an operand, 2 a right  *)
(* bracket, 3 a function; lastop), the operators and the types pending     *)
(* (opstack, typstack), the code, the index in it of the last operator     *)
(* (codelastop), and the status of the line.                               *)
(***************************************************************************)
\* What is read below typstack: zeros, unless something was left there.
TypBase == <<0, 0>>

Fresh(env) ==
  env @@ [opstack |-> <<>>, typstack |-> TypBase, codelastop |-> 0, status |-> "S_SUCCESS"]

TopOf(stack) == IF stack = <<>> THEN "none" ELSE Last(stack)
Pending(cs) == TopOf(cs.opstack)
Emit(cs, instruction) == [cs EXCEPT !.code = Append(@, instruction)]

\* A code word: the operator with its operand types and that of the result.
OpCode(op, left, right, result) == [op |-> op, l |-> left, r |-> right, res |-> result]
Push(op, type, arg) == [op |-> op, res |-> type, arg |-> arg]

\* The bracket that closes the one before line[i]; 0: none does.
\* (WrongClosing: a mutant, the first bracket of the kind.)
WrongClosing(line, i, close) ==
  Min({0} \union {p \in i .. Len(line) : line[p] = Op(close)})
Closing(line, i, close) ==
  LET Nest(p, a, b) == Cardinality({k \in i .. p - 1 : line[k] = Op(a)})
                       - Cardinality({k \in i .. p - 1 : line[k] = Op(b)})
      at == {p \in i .. Len(line) : /\ line[p] = Op(close)
                                    /\ Nest(p, "(", ")") = 0 /\ Nest(p, "[", "]") = 0}
  IN IF at = {} THEN 0 ELSE Min(at)

\* thGetTok: what the operator line[i] means after the tokens before it.
OperatorToken(cs, line, i) ==
  LET c == line[i].id
      plain == IF cs.lasttoktype = 0 /\ c = "-" THEN "OPNEG"
               ELSE IF cs.lasttoktype = 1 /\ c = "(" THEN "OPLINDEX"
               ELSE IF cs.lasttoktype = 3 /\ c = "(" THEN "OPLFARG"
               ELSE OpTable[c]
      close == Closing(line, i + 1, IF plain = "OPLINDEXB" THEN "]" ELSE ")")
      assigned == close # 0 /\ NextIs(line, close + 1, "=")
  IN CASE plain = "OPLINDEX" /\ assigned -> "OPLINDEXP"
       [] plain = "OPLINDEXB" /\ assigned -> "OPLINDEXPB"
       [] OTHER -> plain

\* thGetOperandType: an operand that an "=" follows, over its index if it
\* has one, is a result unless a value is due after the last operator.
IsResult(cs, line, i) ==
  /\ cs.lastop \in {"none", "OPLOGOR", "OPLOGAND", "OPLOGXOR", "OPEQUAL", "OPCOMMA", "OPLP"}
  /\ LET next == i + 1
         past == IF NextIs(line, next, "(") THEN Closing(line, next + 1, ")") + 1
                 ELSE IF NextIs(line, next, "[") THEN Closing(line, next + 1, "]") + 1
                 ELSE next
     IN NextIs(line, past, "=")

IsArrayOrLhs(line, i) == \E s \in {"(", "[", "="} : NextIs(line, i, s)

Variable(class, type, val) == [class |-> class, type |-> type, val |-> val, dynamic |-> FALSE]
ScalerOf(name) == name \o ".scaler"

\* thGetClassList: the classes a name is looked for in, whatever it is for.
ClassList == <<"test", "event", "parm">>

\* "Undefined variable is an unindexed result": an integer nobody has set.
NewResult(garbage) == Variable(ClassList[1], 0, <<Whole(garbage)>>)

\* A result goes on the list of the block, once; an integer gets a scaler
\* for each element, at zero.
\* (OnListOnly: a mutant, scalers there are already are not zeroed.)
Listed(vlist, name) == IF Contains(vlist, name) THEN vlist ELSE Append(vlist, name)
NewScaler(v) == Variable("test", 0, [k \in DOMAIN v.val |-> Whole(0)])
OnListOnly(cs, name) ==
  [cs EXCEPT !.vlist = Listed(@, name),
             !.dict = IF @[name].type # 0 THEN @ ELSE @ @@ (ScalerOf(name) :> NewScaler(@[name]))]
OnList(cs, name) ==
  LET s == ScalerOf(name)
  IN [cs EXCEPT !.vlist = Listed(@, name),
                !.dict = IF @[name].type # 0 THEN @
                         ELSE IF s \notin DOMAIN @ THEN @ @@ (s :> NewScaler(@[name]))
                         ELSE [@ EXCEPT ![s].val = [k \in DOMAIN @ |-> Whole(0)]]]

\* thBookaTest: the operand line[i].
TakeOperand(cs, line, i, immediate, garbage) ==
  LET w == line[i]
      seen == [cs EXCEPT !.lasttoktype = 1, !.lastop = "none", !.codelastop = Len(cs.code) + 1]
      Pushed(s, instruction, type) ==
        [Emit(s, instruction) EXCEPT !.typstack = Append(@, type)]
      result == IsResult(cs, line, i)
      known == w.id \in DOMAIN cs.dict /\ Contains(ClassList, cs.dict[w.id].class)
      made == ~ known /\ NextIs(line, i + 1, "=")
      declared == IF made THEN [seen EXCEPT !.dict = @ @@ (w.id :> NewResult(garbage))] ELSE seen
      listed == IF result /\ ~ immediate THEN OnList(declared, w.id) ELSE declared
      type == declared.dict[w.id].type
  IN CASE w.lex = "int" -> Pushed(seen, Push("OPPUSHINT", 0, w.val), 0)
       [] w.lex = "float" -> Pushed(seen, Push("OPPUSHINT", 1, w.val), 1)
       [] w.lex = "name" /\ Contains(Intrinsics, w.id) ->
            LET f == CHOOSE k \in DOMAIN Intrinsics : Intrinsics[k] = w.id
            IN [Pushed(seen, Push("OPPUSHFUNCTION", 0, f - 1), f - 1) EXCEPT !.lasttoktype = 3]
       [] w.lex = "name" /\ ~ Contains(Intrinsics, w.id) /\ (known \/ made) ->
            Pushed(listed, Push(IF IsArrayOrLhs(line, i + 1) THEN "OPPUSHPINT" ELSE "OPPUSHINTP",
                                type, w.id), type)
       [] OTHER -> [Pushed(seen, Push("OPPUSHINT", 0, Whole(0)), 0) EXCEPT !.status = "S_TH_UNREG"]

\* Code for the last pending operator, from the types of its operands.
\* (An opcode always takes codelastop along: "opcode&&OPCODEMASK" is a truth
\* value, never OPEOL.)
EmitPending(cs) ==
  LET op == Pending(cs)
      right == Last(cs.typstack)
      below == Front(cs.typstack)
      left == IF op \in Unary THEN 0 ELSE Last(below)
      type == ResultType(op, left, right)
  IN [Emit(cs, OpCode(op, left, right, type)) EXCEPT
        !.opstack = Front(@),
        !.typstack = Append(IF op \in Unary THEN below ELSE Front(below), type),
        !.codelastop = Len(cs.code) + 1]

\* (WrongUnwind: a mutant, operators of equal precedence wait.)
RECURSIVE WrongUnwind(_, _)
WrongUnwind(cs, prec) ==
  IF Prec(Pending(cs)) <= prec THEN cs
  ELSE IF Pending(cs) \in LIndexGroup THEN EmitPending(cs)
  ELSE WrongUnwind(EmitPending(cs), prec)

\* "Generate code for all operators of equal or higher precedence that are
\* pending", down to the bracket of an index or of a function, if there is
\* one: it is emitted and nothing after it.
RECURSIVE Unwind(_, _)
Unwind(cs, prec) ==
  IF Prec(Pending(cs)) < prec THEN cs
  ELSE IF Pending(cs) \in LIndexGroup THEN EmitPending(cs)
  ELSE Unwind(EmitPending(cs), prec)
\* Whether Unwind ends at the bracket of an index or of a function.
ClosesIndex(cs, prec) ==
  LET above == {k \in DOMAIN cs.opstack : \A j \in k .. Len(cs.opstack) : Prec(cs.opstack[j]) >= prec}
  IN \E k \in above : cs.opstack[k] \in LIndexGroup

PushOperator(cs, op) == [cs EXCEPT !.opstack = Append(@, op)]

\* thBookaTest: the operator tok, OPEOL at the end of the line.
TakeOperator(cs, tok) ==
  LET seen == [cs EXCEPT !.lasttoktype = IF tok = "OPRP" THEN 2 ELSE 0,
                         !.lastop = IF tok = "OPEOL" THEN "none" ELSE tok]
      run == Unwind(seen, Prec(tok))
  IN CASE tok \in LIndexGroup \union {"OPLP"} -> PushOperator(seen, tok)
       [] tok = "OPRP" /\ ClosesIndex(seen, Prec(tok)) -> run
       [] tok = "OPRP" /\ ~ ClosesIndex(seen, Prec(tok)) ->
            IF Pending(run) = "OPLP" THEN [run EXCEPT !.opstack = Front(@)]
            ELSE [run EXCEPT !.status = "unmatched"]
       [] tok \in {"OPEOL", "OPCOMMA"} ->
            [Emit(run, OpCode(tok, 0, Last(run.typstack), 0)) EXCEPT !.typstack = Front(@)]
       [] OTHER -> PushOperator(run, tok)

\* The tokens of the line from line[i] on.  A unary plus is passed over;
\* thGetTok then takes what follows for an operand, and finds the integer 0
\* in the no characters before an operator.
RECURSIVE Tokens(_, _, _, _, _)
Tokens(cs, line, i, immediate, garbage) ==
  LET plus == i <= Len(line) /\ line[i] = Op("+") /\ cs.lasttoktype = 0
      empty == plus /\ (i = Len(line) \/ line[i + 1].lex = "op")
      next == IF cs.status = "unmatched" \/ i > Len(line) THEN cs
              ELSE IF empty THEN TakeOperand(cs, <<Number("", Whole(0))>>, 1, immediate, garbage)
              ELSE IF plus THEN cs
              ELSE IF line[i].lex # "op" THEN TakeOperand(cs, line, i, immediate, garbage)
              ELSE TakeOperator(cs, OperatorToken(cs, line, i))
  IN IF next.status = "unmatched" THEN next
     ELSE IF i > Len(line) THEN TakeOperator(cs, "OPEOL")
     ELSE Tokens(next, line, i + 1, immediate, garbage)

HasEqualSign(line) == \E k \in DOMAIN line : line[k].id \in {"=", "==", "!=", "<=", ">="}

\* What a line leaves: its code only if it ended without one of the failures
\* ("Line not executable"); the variables it made, its results on the list
\* and what thGetTok keeps stay all the same.  At an unmatched ")" the line
\* is left where it stands, with lasttoktype and lastop.
Booked(env, cs) ==
  LET failed == \/ cs.status = "unmatched"
                \/ Len(cs.typstack) # Len(TypBase)
                \/ cs.opstack # <<>>
  IN [dict |-> cs.dict, vlist |-> cs.vlist,
      lasttoktype |-> cs.lasttoktype, lastop |-> cs.lastop,
      code |-> IF failed THEN env.code ELSE cs.code,
      codelastop |-> cs.codelastop,
      status |-> IF failed THEN "S_FAILURE" ELSE cs.status]

\* thBookaTest on an expression (the lines of the old style, without an
\* equal sign, cannot be executed any more and are left out).
BookaTest(env, line, immediate, garbage) ==
  Booked(env, Tokens(Fresh(env), line, 1, immediate, garbage))

(***************************************************************************)
(* The executor.  A machine: the variables, the stack of typed cells, and  *)
(* whether every instruction so far found operands of the types it pops.   *)
(* What happens after one that did not, or that went outside an array, is  *)
(* undefined, and the machine stops.                                       *)
(***************************************************************************)
Cell(t, v) == [t |-> t, v |-> v]
Address == 3   \* the type of a cell that holds a pointer
Pointer(name, k) == Cell(Address, [name |-> name, k |-> k])

Pushes == {"OPPUSHINT", "OPPUSHPINT", "OPPUSHINTP", "OPPUSHFUNCTION"}
IndexOps == {"OPLINDEX", "OPLINDEXB", "OPLINDEXP", "OPLINDEXPB"}

\* The types of the cells an instruction pops, the last on top.
Operands(c) ==
  CASE c.op \in Pushes -> <<>>
    [] c.op \in {"OPEOL", "OPCOMMA"} \union Unary -> <<c.r>>
    [] c.op = "OPLFARG" -> <<0, c.r>>
    [] c.op \in IndexOps \union {"OPEQUAL"} -> <<Address, c.r>>
    [] OTHER -> <<c.l, c.r>>

\* "Fortran mode" indices start at 1, those in [] at 0; pointers hold the
\* place of an element, the first is 1.
Place(c, index) == FloatToLong(index) + IF c.op \in {"OPLINDEXB", "OPLINDEXPB"} THEN 1 ELSE 0

\* The square root of a fraction that has one, 0 below 0.
Root(x) ==
  IF Less(x, Whole(0)) THEN Whole(0)
  ELSE CHOOSE r \in {<<a, b>> : a \in 0 .. x[1], b \in 1 .. x[2]} : Times(r, r) = x

Apply(f, x) ==
  CASE Intrinsics[f[1] + 1] = "abs" -> IF Less(x, Whole(0)) THEN Neg(x) ELSE x
    [] Intrinsics[f[1] + 1] = "sqrt" -> Root(x)

Compare(op, x, y) ==
  CASE op = "OPISEQUAL" -> x = y
    [] op = "OPISNOTEQUAL" -> x # y
    [] op = "OPISLT" -> Less(x, y)
    [] op = "OPISLE" -> ~ Less(y, x)
    [] op = "OPISGT" -> Less(y, x)
    [] op = "OPISGE" -> ~ Less(x, y)

\* Logic, bits and shifts are done on integers, halves rounded.
Logic(op, x, y) ==
  LET a == FloatToLong(x)
      b == FloatToLong(y)
  IN CASE op = "OPLOGOR" -> Truth(a # 0 \/ b # 0)
       [] op = "OPLOGXOR" -> Truth((a # 0) # (b # 0))
       [] op = "OPLOGAND" -> Truth(a # 0 /\ b # 0)
       [] op = "OPBITOR" -> Whole(a | b)
       [] op = "OPBITXOR" -> Whole(a ^^ b)
       [] op = "OPBITAND" -> Whole(a & b)
       [] op = "OPSHL" -> Whole(a * 2 ^ b)
       [] op = "OPSHR" -> Whole(a \div 2 ^ b)

\* A division by zero gives 0; // of integers drops the fraction, of
\* anything else rounds it.
Arithmetic(op, l, r, x, y) ==
  CASE op = "OPADD" -> Plus(x, y)
    [] op = "OPSUB" -> Plus(x, Neg(y))
    [] op = "OPTIMES" -> Times(x, y)
    [] op = "OPDIV" -> IF y[1] = 0 THEN Whole(0) ELSE Over(x, y)
    [] op = "OPIDIV" -> IF y[1] = 0 THEN Whole(0)
                        ELSE IF l = 0 /\ r = 0 THEN Whole(Truncated(Over(x, y)))
                        ELSE Whole(FloatToLong(Over(x, y)))
    [] op = "OPMOD" -> Plus(x, Neg(Times(y, Whole(Truncated(Over(x, y))))))

LogicOps == {"OPLOGOR", "OPLOGXOR", "OPLOGAND", "OPBITOR", "OPBITXOR", "OPBITAND", "OPSHL", "OPSHR"}

\* (WrongPushedType: a mutant, // gives what the other operators of
\* arithmetic give.)
WrongPushedType(c) ==
  CASE c.op = "OPNEG" -> c.r
    [] c.op \in {"OPNOT", "OPCOMP"} \union Comparisons \union LogicOps -> 0
    [] c.op = "OPDIV" -> 2
    [] OTHER -> IF c.l = 0 /\ c.r = 0 THEN 0 ELSE 2
\* The type of the cell the executor pushes for a unary or binary operator,
\* whatever type the opcode names for the result.
PushedType(c) ==
  CASE c.op = "OPNEG" -> c.r
    [] c.op \in {"OPNOT", "OPCOMP", "OPIDIV"} \union Comparisons \union LogicOps -> 0
    [] c.op = "OPDIV" -> 2
    [] OTHER -> IF c.l = 0 /\ c.r = 0 THEN 0 ELSE 2

\* The value of a unary (its operand is y) or binary operator.
Result(c, x, y) ==
  CASE c.op = "OPNEG" -> Neg(y)
    [] c.op = "OPNOT" -> Truth(FloatToLong(y) = 0)
    [] c.op = "OPCOMP" -> Whole(-FloatToLong(y) - 1)
    [] c.op \in Comparisons -> Truth(Compare(c.op, x, y))
    [] c.op \in LogicOps -> Logic(c.op, x, y)
    [] OTHER -> Arithmetic(c.op, c.l, c.r, x, y)

\* An index takes the place of the array below it on the stack: the element,
\* or a pointer to it.
IndexedBy(m, c, rest, p, index) ==
  LET k == p.k - 1 + Place(c, index)
      Element == Cell(c.l, m.dict[p.name].val[k])
  IN IF k \notin DOMAIN m.dict[p.name].val THEN [m EXCEPT !.ok = FALSE]
     ELSE [m EXCEPT !.stack = Append(rest, IF c.op \in {"OPLINDEX", "OPLINDEXB"} THEN Element
                                           ELSE Pointer(p.name, k))]

\* "Big ugly matrix of type conversions": the result variable and the cell
\* put back on the stack have the type of the left side.
Saved(m, c, rest, p, x) ==
  LET v == Converted(c.l, x)
  IN [m EXCEPT !.stack = Append(rest, Cell(c.l, v)), !.dict[p.name].val[p.k] = v]

\* thExecuteCode: one instruction.
Execute(m, c) ==
  LET types == Operands(c)
      base == Len(m.stack) - Len(types)
      rest == SubSeq(m.stack, 1, base)
      Arg(k) == m.stack[base + k].v
      Put(cell) == [m EXCEPT !.stack = Append(rest, cell)]
      Stop == [m EXCEPT !.ok = FALSE]
      typed == base >= 0 /\ \A k \in DOMAIN types : m.stack[base + k].t = types[k]
  IN CASE ~ m.ok -> m
       [] m.ok /\ ~ typed -> Stop
       [] m.ok /\ typed ->
          CASE c.op = "OPPUSHINT" -> Put(Cell(c.res, c.arg))
            [] c.op = "OPPUSHFUNCTION" -> Put(Cell(0, Whole(c.arg)))
            [] c.op = "OPPUSHPINT" -> Put(Pointer(c.arg, 1))
            [] c.op = "OPPUSHINTP" -> Put(Cell(c.res, m.dict[c.arg].val[1]))
            [] c.op \in {"OPEOL", "OPCOMMA"} -> [m EXCEPT !.stack = rest]
            [] c.op = "OPLFARG" ->
                 Put(Cell(IF Arg(1) = Whole(0) THEN c.r ELSE 2, Apply(Arg(1), Arg(2))))
            [] c.op \in IndexOps -> IndexedBy(m, c, rest, Arg(1), Arg(2))
            [] c.op = "OPEQUAL" -> Saved(m, c, rest, Arg(1), Arg(2))
            [] c.op = "OPMOD" /\ Arg(2)[1] = 0 -> Stop
            [] c.op \in Unary -> Put(Cell(PushedType(c), Result(c, Whole(0), Arg(1))))
            [] OTHER -> Put(Cell(PushedType(c), Result(c, Arg(1), Arg(2))))

\* The words of code the instructions take, and the words thBookaTest makes
\* sure there are before it compiles a line.
\* (HalfRoom: a mutant, a word for each character.)
Words(code) ==
  MapThenSumSet(LAMBDA k : IF code[k].op \in {"OPPUSHPINT", "OPPUSHINTP"} THEN 1 + PointerWords
                           ELSE IF code[k].op \in Pushes THEN 2 ELSE 1, DOMAIN code)
HalfRoom(line) == Chars(line)
CodeRoom(line) == 2 * Chars(line)

\* The whole code; S_FAILURE when something is left on the stack.
Run(dict, code) ==
  LET after[k \in 0 .. Len(code)] ==
        IF k = 0 THEN [dict |-> dict, stack |-> <<>>, ok |-> TRUE] ELSE Execute(after[k - 1], code[k])
  IN after[Len(code)]
ExecuteCode(dict, code) ==
  LET m == Run(dict, code)
  IN m @@ [status |-> IF ~ m.ok THEN "undefined"
                      ELSE IF m.stack = <<>> THEN "S_SUCCESS" ELSE "S_FAILURE"]

\* (WrongImmediateCode: a mutant, the code is cut at its last operand.)
WrongImmediateCode(cs) ==
  LET at == Max({k \in 1 .. cs.codelastop : cs.code[k].op \in Pushes})
  IN <<Push("OPPUSHPINT", 2, "result")>>
     \o SubSeq(cs.code, 1, at)
     \o <<OpCode("OPEQUAL", 2, cs.code[at].res, 2), OpCode("OPEOL", 0, 2, 0)>>
\* thEvalImed: the line is compiled behind a pointer to a double, cut after
\* its last operator or operand and completed with the assignment to the
\* double.  A line with an unregistered variable is a failure here.
ImmediateCode(cs) ==
  <<Push("OPPUSHPINT", 2, "result")>>
  \o SubSeq(cs.code, 1, cs.codelastop)
  \o <<OpCode("OPEQUAL", 2, cs.code[cs.codelastop].res, 2), OpCode("OPEOL", 0, 2, 0)>>

EvalImed(env, line) ==
  LET cs == BookaTest([env EXCEPT !.code = <<>>], line, TRUE, 0)
      m == ExecuteCode(cs.dict @@ ("result" :> Variable("none", 2, <<Whole(0)>>)), ImmediateCode(cs))
  IN IF cs.status # "S_SUCCESS" THEN [status |-> "S_FAILURE", d |-> Whole(0)]
     ELSE [status |-> m.status,
           d |-> IF m.status = "S_SUCCESS" THEN m.dict["result"].val[1] ELSE Whole(0)]
=============================================================================
