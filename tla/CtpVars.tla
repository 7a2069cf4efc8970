------------------------------- MODULE CtpVars -------------------------------
(***************************************************************************)
(* The state of the CTP library, lib, and what its packages share: finding *)
(* and making variables, taking the lines of a block out of its title.     *)
(* Expressions evaluated at once assign nothing and have matched brackets, *)
(* so that they leave nothing behind; strings are left out.                *)
(***************************************************************************)
EXTENDS TestCode

\* A variable as it stands in a line, with an index in () or [] or none.
Ref(name) == [name |-> name, style |-> "", index |-> <<>>]
Indexed(name, style, index) == [name |-> name, style |-> style, index |-> index]
NoRef == Ref("")

\* A block that is not booked has no execution counter; one that never was
\* has no opaque data.
Unbooked == -1
NoOpaque == [made |-> FALSE]
MaxGroupTokens == 4

\* The library before its first call.  junk is what fresh memory holds, ok is
\* FALSE after something the language leaves undefined.
NewLibrary(dict, junk) ==
  [dict |-> dict, junk |-> junk, ok |-> TRUE,
   lasttoktype |-> 0, lastop |-> "none",
   blocks |-> <<>>, groups |-> <<>>,
   headers |-> [ig \in 0 .. MaxGroupTokens + 1 |-> <<>>],
   parm |-> [name |-> "", index |-> 0],
   tests |-> <<>>, gethits |-> <<>>, hblocks |-> <<>>,
   hists |-> <<>>, hbook |-> <<>>, maxid |-> 0, out |-> <<>>]

Undefined(lib) == [lib EXCEPT !.ok = FALSE]
Require(condition, lib) == IF condition THEN lib ELSE Undefined(lib)

Evaluate(lib, line) ==
  EvalImed([dict |-> lib.dict, vlist |-> <<>>, lasttoktype |-> lib.lasttoktype,
            lastop |-> lib.lastop, code |-> <<>>], line)

\* thGetIndex: the place of the element a reference names, the first is 1.
GetIndex(lib, ref) ==
  LET r == Evaluate(lib, ref.index)
  IN IF ref.style = "" THEN [status |-> "S_SUCCESS", k |-> 1]
     ELSE [status |-> r.status, k |-> FloatToLong(r.d) + IF ref.style = "(" THEN 0 ELSE 1]

\* daVarLookupPWithClass.
LookupPWithClass(lib, name, classes) ==
  name \in DOMAIN lib.dict /\ lib.dict[name].class \in {classes[k] : k \in DOMAIN classes}

\* An array of size n, what is beyond its old end unset.  Memory that does
\* not come from malloc, that of the variables the program registered, cannot
\* be given back to realloc.
OwnedByProgram(v) == ~ v.dynamic /\ v.class # "test"
Resized(lib, name, n) ==
  LET v == lib.dict[name]
  IN Require(~ OwnedByProgram(v),
       [lib EXCEPT !.dict[name].val =
          [k \in 1 .. n |-> IF k \in DOMAIN v.val THEN v.val[k] ELSE Whole(lib.junk)]])

\* thVarResolve, for a source (0), a flag (1), a destination (2) or a flag to
\* be set (3); the last two are made, or made larger, as needed.
SourceClasses == <<"event", "test">>
FlagClasses == <<"test", "event", "parm">>
VarResolve(lib, ref, datatest, newvartype) ==
  LET classes == IF datatest \in {1, 3} THEN FlagClasses ELSE SourceClasses
      create == datatest \in {2, 3}
      known == LookupPWithClass(lib, ref.name, classes)
      new == [Variable(classes[1], newvartype, <<Whole(0)>>) EXCEPT !.dynamic = TRUE]
      there == IF known THEN lib ELSE [lib EXCEPT !.dict = @ @@ (ref.name :> new)]
      at == GetIndex(there, ref)
  IN IF ~ known /\ ~ create THEN [status |-> "S_FAILURE", lib |-> lib, k |-> 0]
     ELSE [status |-> at.status, k |-> at.k,
           lib |-> IF at.status = "S_SUCCESS" /\ create /\ at.k > Len(there.dict[ref.name].val)
                   THEN Resized(there, ref.name, at.k) ELSE there]

\* thVarCreate: a declared variable, or one of the same name that CTP made
\* brought to the type and size.  A change to double goes on into the case
\* for strings, which writes through a pointer nobody has set.
VarCreate(lib, class, type, ref) ==
  LET at == Evaluate(lib, ref.index)
      size == IF ref.style = "" THEN 1 ELSE FloatToLong(at.d)
      v == lib.dict[ref.name]
      unset == [k \in 1 .. size |-> Whole(lib.junk)]
      new == [Variable(class, type, unset) EXCEPT !.dynamic = TRUE]
  IN IF ref.style # "" /\ at.status # "S_SUCCESS" THEN lib
     ELSE IF ~ LookupPWithClass(lib, ref.name, <<class>>)
     THEN [lib EXCEPT !.dict = @ @@ (ref.name :> new)]
     ELSE IF ~ v.dynamic \/ (v.type = type /\ Len(v.val) = size) THEN lib
     ELSE Require(type # 2,
            IF v.type = type THEN Resized(lib, ref.name, size)
            ELSE [lib EXCEPT !.dict[ref.name] = new])

\* thSpecial: a line that declares variables, [class, type, refs], in the
\* class of the block when it names none.
Special(lib, line, class) ==
  LET Declare(l, ref) == VarCreate(l, IF line.class = "" THEN class ELSE line.class, line.type, ref)
  IN FoldLeft(Declare, lib, line.refs)

\* The lines of a title that are booked: without the last, and without the
\* first if there is a "begin".
Body(title) ==
  IF title = <<>> THEN <<>>
  ELSE SubSeq(title, IF \E k \in DOMAIN title : title[k].l = "begin" THEN 2 ELSE 1, Len(title) - 1)

\* The value a reference resolved to place k has now, and whether it is there.
Inside(lib, name, k) == name \in DOMAIN lib.dict /\ k \in DOMAIN lib.dict[name].val
ValueAt(lib, name, k) == lib.dict[name].val[k]
=============================================================================
