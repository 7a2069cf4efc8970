------------------------------ MODULE CtpGroup ------------------------------
(***************************************************************************)
(* What is done with all blocks of a group, <<class, name>>, or with all   *)
(* blocks there are: thHooks gives each class its functions, and a group   *)
(* has the functions of its class.                                         *)
(***************************************************************************)
EXTENDS CtpLoad, CtpParm, CtpTest, CtpGethit, CtpHist, CtpReport

\* thHooks, in the order the classes are booked.
Classes == <<"parm", "gethit", "test", "hist", "uhist", "report">>

\* The block's counter is made, at zero, and its lines are booked.
Book(lib, class, key) ==
  LET counted == [lib EXCEPT !.blocks[key].count = 0]
  IN CASE class = "parm" -> LoadParameters(counted, key)
       [] class = "gethit" -> BookGethits(counted, key)
       [] class = "test" -> BookTests(counted, key)
       [] class \in {"hist", "uhist"} -> BookHists(counted, key)
       [] class = "report" -> counted

Members(lib, group) == IF group \in DOMAIN lib.groups THEN lib.groups[group] ELSE <<>>
\* (AlreadyBooked: a mutant, the test is the wrong way round.)
AlreadyBooked(lib, key) == lib.blocks[key].count # Unbooked
NotBooked(lib, key) == lib.blocks[key].count = Unbooked

\* thBookGroup, and thBook: the "all" group of each class.
BookGroup(lib, group) ==
  LET Do(s, key) == IF NotBooked(s, key) THEN Book(s, group[1], key) ELSE s
  IN FoldLeft(Do, lib, Members(lib, group))
BookAll(lib) ==
  LET Do(s, class) == BookGroup(s, <<class, "all">>)
  IN FoldLeft(Do, lib, Classes)

\* thOBook: all the blocks of each class in the order of the table of
\* variables, order.
OBook(lib, order) ==
  LET Of(class) == SelectSeq(order, LAMBDA key : key[1] = class)
      Each(s, key) == IF NotBooked(s, key) THEN Book(s, key[1], key) ELSE s
      Do(s, class) == FoldLeft(Each, s, Of(class))
  IN FoldLeft(Do, lib, Classes)

\* thExecuteGroup, thClearGroup, thClearScalersGroup, thIncrementScalersGroup
\* (execute, clear, clearScalers, incrementScalers of thHooks).  A group that
\* does not exist, or whose class has no such function, is done with at once.
Hooked == {<<"execute", "gethit">>, <<"execute", "test">>, <<"execute", "hist">>,
           <<"clear", "test">>, <<"clear", "hist">>,
           <<"clearScalers", "test">>, <<"incrementScalers", "test">>}
Hook(lib, class, op, key) ==
  CASE op = "execute" /\ class = "gethit" -> ExecuteaGethitBlock(lib, key)
    [] op = "execute" /\ class = "test" -> ExecuteTestsV(lib, key)
    [] op = "execute" /\ class = "hist" -> ExecuteHistsV(lib, key)
    [] op = "clear" /\ class = "test" -> ClearTestFlagsV(lib, key)
    [] op = "clear" /\ class = "hist" -> ClearHistsV(lib, key)
    [] op = "clearScalers" /\ class = "test" -> ClearTestScalersV(lib, key)
    [] op = "incrementScalers" /\ class = "test" -> IncTestScalersV(lib, key)
    [] OTHER -> lib
GroupDo(lib, op, class, name) ==
  LET Do(s, key) ==
        IF ~ s.ok THEN s
        ELSE IF key[1] # class \/ NotBooked(s, key) THEN Undefined(s)
        ELSE Hook(s, class, op, key)
  IN IF <<op, class>> \in Hooked THEN FoldLeft(Do, lib, Members(lib, <<class, name>>)) ELSE lib

\* thWHandler, the handler of block.<class> once thOBook has made it: a new
\* title is booked at once, the counter goes on.
WriteTitle(lib, key, title) ==
  LET written == [lib EXCEPT !.blocks[key].title = title]
  IN CASE key[1] = "parm" -> LoadParameters(written, key)
       [] key[1] = "gethit" -> BookGethits(written, key)
       [] key[1] = "test" -> BookTests(written, key)
       [] key[1] \in {"hist", "uhist"} -> BookHists(written, key)
       [] key[1] = "report" -> written

\* A call of the library, by the program or by a client of the registry.
LibraryCall(lib, call) ==
  LET is(name) == call.do = name
  IN CASE is("load") -> Load(lib, call.disk, call.file)
       [] is("book") -> BookAll(lib)
       [] is("obook") -> OBook(lib, call.order)
       [] is("set") -> ParmLineSet(lib, call.line)
       [] is("group") -> GroupDo(lib, call.op, call.class, call.name)
       [] is("gethits") -> ExecuteGethits(lib, "")
       [] is("tests") -> WalkTree(lib, "", WalkOp(call.entry)).lib
       [] is("hists") -> ExecuteHists(lib, "")
       [] is("title") -> WriteTitle(lib, call.key, call.title)
       [] is("report") -> Report(lib, call.name, call.append)
=============================================================================
