------------------------------ MODULE MCRegistry ------------------------------
(***************************************************************************)
(* Instances of RegistryCalls.                                             *)
(***************************************************************************)
EXTENDS RegistryCalls

Parts == {"a", "A", "b", "s", "hist", "block", "h", "g", "nx", "title", "size", "scaler"}
MCFold == [c \in Parts |-> IF c = "A" THEN "a" ELSE c]
MCHash(n) == IF Head(n) = "A" THEN 1 ELSE (Len(n) % 2) + 1
MCNames == {<<"a">>, <<"A">>, <<"a", "b">>, <<"A", "b">>, <<"s">>, <<"hist", "h">>, <<"hist", "g">>,
            <<"block", "h">>}
MCBins(title) == Len(title)

Var(name, type, size, place) ==
  [name |-> name, title |-> <<>>, type |-> type, size |-> size, place |-> place, hook |-> "none", hist |-> 0]
Hist(name, place) == [Var(name, "int", 1, place) EXCEPT !.hook = "hist"]
Block(name, place, hist, title) ==
  [Var(name, "int", 1, place) EXCEPT !.hook = "block", !.hist = hist, !.title = title]

\* The analyzer registers an array again, in another case, with another type.
\* The client has some of the variables, of other types and sizes.
MCVars ==
  [analyzer |-> <<Var(<<"s">>, "fstring", 3, 2), Var(<<"a">>, "int", 2, 1), Var(<<"A", "b">>, "float", 0, 3),
                  Hist(<<"hist", "h">>, 4), Hist(<<"hist", "g">>, 5),
                  Block(<<"block", "h">>, 6, 4, <<1>>),
                  Var(<<"A">>, "float", 1, 7)>>,
   client |-> <<Var(<<"A">>, "float", 3, 1), Var(<<"a", "b">>, "int", 1, 2), Var(<<"s">>, "fstring", 4, 3)>>]
MCArrays ==
  [analyzer |-> << <<2, 4>>, <<1, 2, 0>>, <<3>>, <<2>>, <<4>>, <<0>>, <<5>> >>,
   client |-> << <<0, 0, 0>>, <<0>>, <<0, 0, 0, 0>> >>]
MCContents ==
  {[place |-> 2, cells |-> <<2, 2, 2>>], [place |-> 3, cells |-> <<-3>>]}
MCPatterns ==
  {Everything, [glob |-> FALSE, parts |-> <<"a">>, open |-> FALSE], [glob |-> TRUE, parts |-> <<"A">>, open |-> TRUE]}
MCReads ==
  {Plain(<<"hist", "h", "nx">>), Plain(<<"hist", "g", "nx">>), [name |-> <<"A">>, index |-> 1],
   Plain(<<"a", "b", "title">>), Plain(<<"block", "h", "scaler">>), Plain(<<"b">>)}
MCWrites ==
  {[name |-> Plain(<<"block", "h", "title">>), any |-> Text(<<1, 2, 1>>)],
   [name |-> [name |-> <<"A">>, index |-> 1], any |-> Ints(<<6>>)],
   [name |-> Plain(<<"a">>), any |-> Ints(<<8, 10>>)],
   [name |-> Plain(<<"s">>), any |-> Text(<<2>>)]}
=============================================================================
