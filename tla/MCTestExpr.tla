------------------------------ MODULE MCTestExpr ------------------------------
EXTENDS TestExpr

MCVariables ==
  [n |-> Variable("event", 0, <<Whole(3)>>),
   m |-> Variable("event", 0, <<Whole(-2)>>),
   f |-> Variable("event", 1, <<<<3, 2>>>>),
   d |-> Variable("event", 2, <<<<-5, 2>>, <<4, 1>>>>),
   a |-> Variable("event", 0, <<Whole(5), Whole(1)>>)]

Operators == {"-", "+", "<", "<<", "<=", ">", ">>", ">=", "==", "!=", "&", "&&", "|", "||",
              "^", "^^", "*", "/", "//", "%"}
Two == Num("2", Whole(2))
Half == Num(".5", <<1, 2>>)
Leaves == {Var("n"), Var("m"), Var("f"), Var("d"), Two, Half}
Simple == Leaves \union {Elem("a", "(", Two), Elem("a", "[", Num("1", Whole(1))), Elem("d", "(", Two)}

\* All operators on all operands; all pairs of operators, both ways to nest
\* them; unary operators and functions of and in the others.
Depth1 == {Bin(op, a, b) : op \in Operators, a \in Simple, b \in Leaves}
Nested == {Bin(op, Bin(po, Var("n"), Two), Var("d")) : op \in Operators, po \in Operators}
          \union {Bin(op, Var("n"), Bin(po, Two, Var("f"))) : op \in Operators, po \in Operators}
Unaries == {Un(u, Bin(op, Var("n"), Var("f"))) : u \in DOMAIN UnaryOp, op \in Operators}
           \union {Bin(op, Un(u, Var("f")), Un("-", Var("m"))) : u \in DOMAIN UnaryOp, op \in Operators}
           \union {Un(u, Un(v, Var("n"))) : u \in DOMAIN UnaryOp, v \in DOMAIN UnaryOp}
Calls == {Fun("abs", Bin(op, Var("m"), Var("n"))) : op \in {"-", "*", "/"}}
         \union {Bin(op, Fun("sqrt", Elem("d", "(", Two)), Two) : op \in Operators}
         \union {Elem("a", "(", Bin("-", Elem("a", "[", Bin("//", Two, Var("n"))), Fun("sqrt", Bin("*", Elem("d", "[", Elem("a", "(", Two)), Num("4", Whole(4))))))}
         \union {Elem("a", "[", Half)}

Rhs == Depth1 \union Nested \union Unaries \union Calls
MCStatements ==
  {[name |-> "t", style |-> "", index |-> Two, rhs |-> e] : e \in Rhs}
  \union {[name |-> v, style |-> "", index |-> Two, rhs |-> e] : v \in {"n", "f", "d"}, e \in Unaries}
  \union {[name |-> v, style |-> s, index |-> i, rhs |-> e] :
            v \in {"a", "d"}, s \in {"(", "["}, i \in {Num("1", Whole(1)), Elem("a", "(", Two)},
            e \in Calls \union {Bin("+", Elem("a", "(", Two), Half)}}
=============================================================================
