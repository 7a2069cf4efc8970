------------------------------- MODULE TestExpr -------------------------------
(***************************************************************************)
(* What a line of a test block means, as a tree, against what the compiler *)
(* and the executor of CTP make of the line written from the tree with no  *)
(* more parentheses than the precedence of its operators asks for.         *)
(***************************************************************************)
EXTENDS TestCode

CONSTANTS
  Garbage,     \* what malloc may leave in an integer nobody has set
  Variables,   \* the registered variables
  Statements   \* assignments: [name, style, index, rhs], style "" without an index

VARIABLES stmt, env, machine, pc, immediate

vars == <<stmt, env, machine, pc, immediate>>

\* Trees.
Num(text, x) == [node |-> "num", text |-> text, x |-> x]
Var(id) == [node |-> "var", id |-> id]
Elem(id, style, i) == [node |-> "elem", id |-> id, style |-> style, i |-> i]
Fun(id, a) == [node |-> "fun", id |-> id, a |-> a]
Un(op, a) == [node |-> "un", op |-> op, a |-> a]
Bin(op, a, b) == [node |-> "bin", op |-> op, a |-> a, b |-> b]

UnaryOp == ("-" :> "OPNEG") @@ ("!" :> "OPNOT") @@ ("~" :> "OPCOMP")
Level(t) == CASE t.node = "bin" -> Prec(OpTable[t.op]) [] t.node = "un" -> Prec("OPNEG") [] OTHER -> 255

Parens(s) == <<Op("(")>> \o s \o <<Op(")")>>
Indexed(style, s) == IF style = "(" THEN Parens(s) ELSE <<Op("[")>> \o s \o <<Op("]")>>

RECURSIVE Written(_)
Written(t) ==
  LET Below(a, bound) == IF Level(a) < bound THEN Parens(Written(a)) ELSE Written(a)
  IN CASE t.node = "num" -> <<Number(t.text, t.x)>>
       [] t.node = "var" -> <<Name(t.id)>>
       [] t.node = "elem" -> <<Name(t.id)>> \o Indexed(t.style, Written(t.i))
       [] t.node = "fun" -> <<Name(t.id)>> \o Parens(Written(t.a))
       [] t.node = "un" -> <<Op(t.op)>> \o Below(t.a, Level(t) + 1)
       [] t.node = "bin" -> Below(t.a, Level(t)) \o <<Op(t.op)>> \o Below(t.b, Level(t) + 1)

Line(s) ==
  <<Name(s.name)>> \o (IF s.style = "" THEN <<>> ELSE Indexed(s.style, Written(s.index)))
  \o <<Op("=")>> \o Written(s.rhs)

\* The type and value of a tree: integers stay integers but for "/", anything
\* with a real operand is done in double; ok is FALSE where C gives no value
\* (outside an array, a remainder by 0, bits of a negative number).
RECURSIVE Meaning(_)
Meaning(t) ==
  LET Typed(type, x, ok) == [type |-> type, x |-> x, ok |-> ok]
      Arg == Meaning(t.a)
      L == Meaning(t.a)
      R == Meaning(t.b)
      op == OpTable[t.op]
      ints == L.type = 0 /\ R.type = 0
      bits == op \in LogicOps \ {"OPLOGOR", "OPLOGXOR", "OPLOGAND"}
      sound == /\ L.ok /\ R.ok
               /\ bits => FloatToLong(L.x) >= 0 /\ FloatToLong(R.x) \in 0 .. 8
               /\ op = "OPMOD" => R.x[1] # 0
  IN CASE t.node = "num" -> Typed(IF t.x[2] = 1 THEN 0 ELSE 1, t.x, TRUE)
       [] t.node = "var" -> Typed(Variables[t.id].type, Variables[t.id].val[1], TRUE)
       [] t.node = "elem" ->
            LET i == Meaning(t.i)
                k == FloatToLong(i.x) + IF t.style = "(" THEN 0 ELSE 1
                ok == i.ok /\ k \in DOMAIN Variables[t.id].val
            IN Typed(Variables[t.id].type, IF ok THEN Variables[t.id].val[k] ELSE Whole(0), ok)
       [] t.node = "fun" -> IF t.id = "abs" THEN Typed(Arg.type, IF Less(Arg.x, Whole(0)) THEN Neg(Arg.x) ELSE Arg.x, Arg.ok)
                            ELSE Typed(2, Root(Arg.x), Arg.ok)
       [] t.node = "un" /\ t.op = "-" -> Typed(Arg.type, Neg(Arg.x), Arg.ok)
       [] t.node = "un" /\ t.op = "!" -> Typed(0, Truth(FloatToLong(Arg.x) = 0), Arg.ok)
       [] t.node = "un" /\ t.op = "~" -> Typed(0, Whole(-1 - FloatToLong(Arg.x)), Arg.ok)
       [] t.node = "bin" ->
            IF ~ sound THEN Typed(0, Whole(0), FALSE)
            ELSE CASE op \in Comparisons -> Typed(0, Truth(Compare(op, L.x, R.x)), TRUE)
                   [] op \in LogicOps -> Typed(0, Logic(op, L.x, R.x), TRUE)
                   [] OTHER -> Typed(IF op = "OPIDIV" THEN 0 ELSE IF ints /\ op # "OPDIV" THEN 0 ELSE 2,
                                     Arithmetic(op, L.type, R.type, L.x, R.x), TRUE)

\* Where the result goes, and the type it is stored in.
Target(s) == IF s.style = "" THEN 1
             ELSE FloatToLong(Meaning(s.index).x) + IF s.style = "(" THEN 0 ELSE 1
TargetType(s) == IF s.name \in DOMAIN Variables THEN Variables[s.name].type ELSE 0

Empty == [dict |-> Variables, vlist |-> <<>>, lasttoktype |-> 0, lastop |-> "none", code |-> <<>>,
          codelastop |-> 0, status |-> "unbooked"]

Init ==
  /\ stmt \in {s \in Statements : Meaning(s.rhs).ok}
  /\ env = Empty
  /\ machine = [dict |-> Variables, stack |-> <<>>, ok |-> TRUE]
  /\ pc = 0
  /\ immediate = [status |-> "none", d |-> Whole(0)]

\* thBookaTest.
Book ==
  /\ env.status = "unbooked"
  /\ \E garbage \in Garbage :
       LET booked == BookaTest([x \in DOMAIN Empty \ {"codelastop", "status"} |-> env[x]],
                               Line(stmt), FALSE, garbage)
       IN env' = booked /\ machine' = [machine EXCEPT !.dict = booked.dict]
  /\ pc' = 1
  /\ UNCHANGED <<stmt, immediate>>

\* thExecuteCode.
Step ==
  /\ pc \in DOMAIN env.code
  /\ machine' = Execute(machine, env.code[pc])
  /\ pc' = pc + 1
  /\ UNCHANGED <<stmt, env, immediate>>

\* thEvalImed, on the right hand side alone.
Evaluate ==
  /\ env.status = "unbooked" /\ immediate.status = "none"
  /\ immediate' = EvalImed([x \in DOMAIN Empty \ {"codelastop", "status"} |-> env[x]], Written(stmt.rhs))
  /\ UNCHANGED <<stmt, env, machine, pc>>

Next == Book \/ Step \/ Evaluate
Spec == Init /\ [][Next]_vars

Done == pc > Len(env.code)

(***************************************************************************)
(* Every line is accepted, and its code finds on the stack what it pops:   *)
(* the types the compiler reckoned with are those of the values, down to   *)
(* the empty stack at the end.  The result is what the line says:          *)
(* operators of the same precedence from the left, an index or an argument *)
(* as far as its bracket, the value converted to the type of the result    *)
(* (rounded for an integer), and nothing else changed.                     *)
(***************************************************************************)
LineAsWritten ==
  /\ pc > 0 => env.status = "S_SUCCESS"
  /\ machine.ok
  /\ Done =>
    /\ machine.stack = <<>>
    /\ \A name \in DOMAIN Variables \union {stmt.name} : \A k \in DOMAIN machine.dict[name].val :
      machine.dict[name].val[k] =
        IF name = stmt.name /\ k = Target(stmt)
        THEN Converted(TargetType(stmt), Meaning(stmt.rhs).x)
        ELSE Variables[name].val[k]

(***************************************************************************)
(* An expression evaluated at once (an index, a parameter, a limit of a    *)
(* histogram) has the value it has in a test.                              *)
(***************************************************************************)
ImmediateAgrees ==
  immediate.status # "none" =>
    immediate = [status |-> "S_SUCCESS", d |-> Meaning(stmt.rhs).x]

(***************************************************************************)
(* The code of a line is no longer than the room made for it: the compiler *)
(* stores it without a further test.  It rests on PointerWords = 1, on     *)
(* pointers no longer than an integer.                                     *)
(***************************************************************************)
CodeFits == Words(env.code) <= CodeRoom(Line(stmt))
=============================================================================
