------------------------------ MODULE CtpReport ------------------------------
(***************************************************************************)
(* Report blocks.  A line is [l |-> "text", items].  The items: text copied *)
(* as it is, [i |-> "text", text]; a list of variables, [i |-> "vlist",    *)
(* names], the names a pattern stands for; an expression in braces with    *)
(* the letter of its format, "" where it has none, [i |-> "expr", expr,    *)
(* text, letter].  Braces are closed, formats of strings left out.         *)
(***************************************************************************)
EXTENDS CtpVars

RealLetters == {"e", "E", "f", "g", "G"}
WholeLetters == {"d", "i", "o", "u", "x", "X", "D", "O", "U", "c", "p"}

\* thReportSpecial: whether CTP made a variable, its type, and its value if
\* it has one only.  (The order is that of the hash table.)
VariableList(lib, names) ==
  [n \in names \intersect DOMAIN lib.dict |->
     LET v == lib.dict[n]
     IN [ctp |-> v.dynamic, type |-> v.type, value |-> IF Len(v.val) = 1 THEN v.val ELSE <<>>]]

\* thReportFromVar, an expression: a whole number is printed as such and
\* anything else as a double, unless the format says otherwise; what cannot
\* be evaluated is printed as it stands.
Printed(lib, item) ==
  LET r == Evaluate(lib, item.expr)
      whole == IF item.letter \in RealLetters THEN FALSE
               ELSE item.letter \in WholeLetters \/ r.d = Whole(FloatToLong(r.d))
      n == IF whole THEN Whole(FloatToLong(r.d)) ELSE r.d
  IN CASE item.i = "text" -> [text |-> item.text]
       [] item.i = "vlist" -> [list |-> VariableList(lib, item.names)]
       [] item.i = "expr" -> IF r.status = "S_SUCCESS" THEN [value |-> n] ELSE [text |-> item.text]

\* thReportFromVar: the lines of the block; its last line, the end, and its
\* first, the begin, are not printed.  It counts how often it was printed, in
\* a counter that booking makes.
ReportFromVar(lib, key, before) ==
  LET lines == SelectSeq(lib.blocks[key].title, LAMBDA line : line.l = "text")
      Line(line) == [k \in DOMAIN line.items |-> Printed(lib, line.items[k])]
  IN Require(lib.blocks[key].count # Unbooked,
       [lib EXCEPT !.blocks[key].count = @ + 1,
                   !.out = before \o [k \in DOMAIN lines |-> Line(lines[k])]])

\* threp and threpa with thReportFd: the file, what the last report printed,
\* is opened first; threpa goes on at its end.
Report(lib, name, append) ==
  LET key == <<"report", name>>
      before == IF append THEN lib.out ELSE <<>>
  IN IF key \in DOMAIN lib.blocks THEN ReportFromVar(lib, key, before)
     ELSE [lib EXCEPT !.out = before]
=============================================================================
