-------------------------------- MODULE MCCtp --------------------------------
(***************************************************************************)
(* A small instance of Ctp: one detector list with two hits, blocks of all *)
(* classes, three ways to head and to split them.                          *)
(***************************************************************************)
EXTENDS Ctp

Num(n) == <<Number(ToString(n), Whole(n))>>
Real(n, d) == <<Number("real", <<n, d>>)>>
Var(name) == <<Name(name)>>

Begin(kind, name, toks) == [l |-> "begin", kind |-> kind, name |-> name, toks |-> toks]
End(kind) == [l |-> "end", kind |-> kind]
Include(file) == [l |-> "include", file |-> file, indented |-> FALSE]
Blank == [l |-> "blank"]
Group(name) == [group |-> TRUE, eq |-> name]
OtherToken(name) == [group |-> FALSE, eq |-> name]
Decl(type, refs) == [l |-> "decl", class |-> "", type |-> type, refs |-> refs]
Parm(name, offset, args) == [l |-> "parm", name |-> name, offset |-> offset, args |-> args]
Key(key, var) == [l |-> "key", key |-> key, var |-> var]
Gethit(dest, flag, coords) == [l |-> "gethit", dest |-> dest, flag |-> flag, source |-> "", coords |-> coords]
Test(toks) == [l |-> "test", toks |-> toks]
Hist(name, nargs, x, y, test, weight) ==
  [l |-> "hist", name |-> name, nargs |-> nargs, x |-> x, y |-> y, test |-> test, weight |-> weight]
Text(items) == [l |-> "text", items |-> items]

MCRegistered ==
  "nhits" :> Variable("event", 0, <<Whole(0)>>)
  @@ ("cntr" :> Variable("event", 0, <<Whole(0), Whole(0)>>))
  @@ ("adc" :> Variable("event", 0, <<Whole(0), Whole(0)>>))
  @@ ("wt" :> Variable("event", 1, <<Whole(0)>>))
  @@ ("pcut" :> Variable("parm", 0, <<Whole(0)>>))

ParmFile ==
  << Begin("parm", "p", <<>>), Decl(1, <<Ref("gain")>>),
     Parm("thr", 0, <<Num(1)>>),
     Parm("ped", 0, <<Num(1), Num(7), <<>>>>), Parm("", 0, <<Real(3, 2), Num(4)>>),
     Parm("ped", 1, <<Num(2)>>), Parm("gain", 0, <<Real(1, 2)>>),
     Parm("pcut", 0, <<Real(5, 2), Num(9)>>), Parm("", 0, <<Num(8)>>), End("parm") >>

GethitTitle(toks, first, second) ==
  << Begin("gethit", "g", toks),
     Key("hitcount", "nhits"), Key("matchlist", "cntr"), Key("valuelist", "adc"),
     Gethit(Ref("gadc"), Ref("gflag"), <<first>>), Blank,
     Gethit(Indexed("garr", "(", Num(2)), Indexed("gfl", "[", Num(1)), <<second>>), End("gethit") >>
Guarded == Var("gflag") \o <<Op("&&")>>
TestTitle(toks, guard, op) ==
  << Begin("test", "t", toks), Decl(0, <<Indexed("n", "(", Num(2))>>),
     Test(Var("hit") \o <<Op("=")>> \o Var("gflag")),
     Test(Var("n") \o <<Op("(")>> \o Num(1) \o <<Op(")"), Op("=")>> \o guard \o Var("gadc") \o <<Op(op)>> \o Var("thr")),
     Test(Var("n") \o <<Op("[")>> \o Num(1) \o <<Op("]"), Op("=")>> \o Var("gfl") \o <<Op("[")>> \o Num(1) \o <<Op("]")>>),
     Test(Var("big") \o <<Op("=")>> \o Var("hit") \o <<Op("&&")>> \o Var("n") \o <<Op("(")>> \o Num(1) \o <<Op(")")>>),
     End("test") >>
TestU(toks, other) ==
  << Begin("test", "u", toks), Test(Var("two") \o <<Op("=")>> \o Var("gflag") \o <<Op("&&")>> \o other), End("test") >>
OfTest == Var("n") \o <<Op("(")>> \o Num(2) \o <<Op(")")>>
OfGethit == Var("gfl") \o <<Op("[")>> \o Num(1) \o <<Op("]")>>
HistTitle(toks, third) ==
  << Begin("hist", "h", toks),
     Hist("h1", 6, Ref("gadc"), NoRef, Ref("hit"), NoRef),
     Hist("h2", 10, Ref("gadc"), Indexed("garr", "(", Num(2)), Ref("two"), Ref("wt"))>>
  \o third \o << Hist("none", 5, Ref("unknown"), NoRef, NoRef, NoRef), End("hist") >>
HistN == << Hist("h3", 5, Ref("nhits"), NoRef, NoRef, NoRef) >>
UhistTitle == << Begin("uhist", "w", <<>>), Hist("uh", 4, NoRef, NoRef, NoRef, NoRef), End("uhist") >>
ReportTitle ==
  << Begin("report", "r", <<>>),
     Text(<<[i |-> "text", text |-> "hits"], [i |-> "expr", expr |-> Var("hit.scaler"), text |-> "hit", letter |-> "d"],
            [i |-> "vlist", names |-> {"gain", "ped", "thr"}]>>),
     End("report") >>

Headed(toks, usToks, other) ==
  "parm" :> ParmFile
  @@ ("test" :> (<<Blank>> \o GethitTitle(toks, Num(1), Num(2)) \o TestTitle(toks, Guarded, ">") \o <<Include("more"), Blank>>))
  @@ ("more" :> TestU(usToks, other))
  @@ ("hist" :> (HistTitle(toks, HistN) \o UhistTitle))
  @@ ("report" :> ReportTitle)
Both == <<Group("hes"), Group("both")>>
\* Blocks booked in any order must not need one another's results.
MCDisks ==
  [replay |-> {Headed(Both, Both, OfTest), Headed(<<Group("hes")>>, <<Group("hes")>>, OfTest),
               Headed(Both \o <<Group("hks")>>, Both, OfTest)},
   blocks |-> {Headed(<<>>, <<>>, OfGethit)}]
\* A begin line with a token that does not start with "group".
MixedDisks ==
  [replay |-> {[Headed(Both, Both, OfTest) EXCEPT !["hist"] = HistTitle(<<Group("hes"), OtherToken("both")>>, <<>>)]},
   blocks |-> {}]

MCCommandLine == << Parm("thr", 0, <<Num(2)>>) >>

Data(n, counters, values) ==
  "nhits" :> <<Whole(n)>> @@ ("cntr" :> counters) @@ ("adc" :> values) @@ ("wt" :> <<<<n, 2>>>>)
MCEvents ==
  {[group |-> "hes", vals |-> Data(0, <<Whole(1), Whole(2)>>, <<Whole(3), Whole(3)>>)],
   [group |-> "hes", vals |-> Data(2, <<Whole(2), Whole(1)>>, <<Whole(1), Whole(3)>>)],
   [group |-> "both", vals |-> Data(2, <<Whole(1), Whole(1)>>, <<Whole(3), Whole(1)>>)]}

MCTitles ==
  {<< <<"test", "t">>, TestTitle(Both, Guarded, ">=")>>, << <<"test", "t">>, TestTitle(Both, Guarded, "<")>>,
   << <<"hist", "h">>, HistTitle(Both, <<>>)>>, << <<"gethit", "g">>, GethitTitle(Both, Num(2), Num(1))>>}
MCValues == {<<"thr", Whole(0)>>, <<"thr", Whole(3)>>}

\* The report prints how many events had a hit on the first counter, of those
\* whose groups have the blocks.
HasHit(event) ==
  \E k \in 1 .. event.vals["nhits"][1][1] : event.vals["cntr"][k] = Whole(1)
ReportsAddUp ==
  LET counted(e) == HasHit(e) /\ (program = "replay" => <<"test", e.group>> \in DOMAIN lib.groups)
  IN printed.out # <<>> /\ (program = "replay" \/ writes = <<>>) =>
       printed.out[1][2] = [value |-> Whole(Len(SelectSeq(SubSeq(seen, 1, printed.after), counted)))]

\* "a group can only contain a single block type"
GroupsOfOneType ==
  \A g \in DOMAIN lib.groups : \A k \in DOMAIN lib.groups[g] : lib.groups[g][k][1] = g[1]
=============================================================================
