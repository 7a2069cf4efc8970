------------------------------- MODULE Registry -------------------------------
(***************************************************************************)
(* The registry of variables of a CTP program and the access to them by    *)
(* name: daVarRegister.c, daVarHashLib.c, daVarHandlers.c, thHandlers.c.   *)
(* A program r is a record of its hash table, its memory (arrays by their  *)
(* places), its histograms and what the histogram handler remembers.  A    *)
(* name is the sequence of its parts between dots.  A number is held as    *)
(* twice its value, a character as a number with 0 for a blank; -1 ends a  *)
(* C string.  Doubles act as floats do.                                    *)
(***************************************************************************)
EXTENDS Integers, Sequences, FiniteSets, SequencesExt, FiniteSetsExt, Lists

CONSTANTS
  Fold,             \* a part in lower case, a function of the parts
  HashFunction(_),  \* the bucket of a name, 1 .. Buckets
  Buckets,
  Names,            \* the names, in every spelling
  Bins(_),          \* how many bins a block's title gives its histogram
  Junk              \* what lies beyond an array

NoIndex == -12345678
NoId == 9999999   \* no histogram has it
NoEntry == [name |-> <<>>]
Numeric == {"int", "float"}

Folded(n) == [k \in DOMAIN n |-> Fold[n[k]]]
Same(n, m) == Folded(n) = Folded(m)

ASSUME RegistryAssumption ==
  /\ Buckets \in Nat \ {0}
  /\ \A c \in DOMAIN Fold : Fold[c] \in DOMAIN Fold /\ Fold[Fold[c]] = Fold[c]
  /\ \A n \in Names : n \in Seq(DOMAIN Fold) /\ n # <<>> /\ HashFunction(Folded(n)) \in 1 .. Buckets

\* A program before anything is registered, its arrays in place.
NewProgram(arrays) ==
  [table |-> [b \in 1 .. Buckets |-> <<>>], memory |-> arrays,
   stray |-> FALSE, hbook |-> <<>>, lastid |-> 0, nx |-> 0]

-----------------------------------------------------------------------------
(* The hash table: daVarHashLib.c and daVarRegister.c.                     *)

\* (BucketAsWritten: a mutant, the case of the letters counts.)
BucketAsWritten(n) == HashFunction(n)
Bucket(n) == HashFunction(Folded(n))

\* crlHashFind, NoEntry if there is none.
LookupP(r, n) ==
  LET chain == r.table[Bucket(n)]
      Is(k) == Same(chain[k].name, n)
  IN  IF \A k \in DOMAIN chain : ~Is(k) THEN NoEntry
      ELSE chain[CHOOSE k \in DOMAIN chain : Is(k) /\ \A j \in 1 .. k - 1 : ~Is(j)]
Known(r, n) == \E e \in ToSet(r.table[Bucket(n)]) : Same(e.name, n)

\* The entry of a name changed in its place.
Changed(r, n, F(_)) ==
  LET chain == r.table[Bucket(n)]
  IN  [r EXCEPT !.table[Bucket(n)] =
         [k \in DOMAIN chain |-> IF Same(chain[k].name, n) THEN F(chain[k]) ELSE chain[k]]]

\* A size of zero or less stands for a single variable.
Definition(args) == [args EXCEPT !.size = IF @ <= 0 THEN 1 ELSE @]

\* crlHashAdd, of a name that is not there: to the head of its bucket.
HashAdd(r, def) == [r EXCEPT !.table[Bucket(def.name)] = <<def>> \o @]

\* (RegisterAgain: a mutant, no definition is replaced.)
RegisterAgain(r, args) == HashAdd(r, Definition(args))

\* (RegisterOnce: a mutant, the definition of a known name is not replaced.)
RegisterOnce(r, args) ==
  IF Known(r, args.name) THEN r ELSE HashAdd(r, Definition(args))

\* daVarRegister: a known name gets a new definition, its spelling stays.
Register(r, args) ==
  IF Known(r, args.name)
  THEN Changed(r, args.name, LAMBDA e : [Definition(args) EXCEPT !.name = e.name])
  ELSE HashAdd(r, Definition(args))

\* A pattern with a * or ? is matched as it is spelled; one without is a
\* beginning, in any case of the letters (daVarFnmatch, daVarStrncmp).
Matches(pattern, n) ==
  IF pattern.glob
  THEN /\ IsPrefix(pattern.parts, n)
       /\ pattern.open \/ Len(n) = Len(pattern.parts)
  ELSE IsPrefix(Folded(pattern.parts), Folded(n))

\* crlHashWalk: the names of the entries bucket by bucket.
HashWalk(r) ==
  FlattenSeq([b \in DOMAIN r.table |-> [k \in DOMAIN r.table[b] |-> r.table[b][k].name]])

\* daVarList.
List(r, pattern) == Those(HashWalk(r), {n \in Names : Matches(pattern, n)})
Everything == [glob |-> TRUE, parts |-> <<>>, open |-> TRUE]

-----------------------------------------------------------------------------
(* Access by name: daVarHandlers.c and thHandlers.c.                       *)

\* daVarClassFind: the shortest beginning of the name that is registered.
ClassFind(r, n) ==
  LET known == {k \in DOMAIN n : Known(r, SubSeq(n, 1, k))}
  IN  IF known = {} THEN NoEntry ELSE LookupP(r, SubSeq(n, 1, Min(known)))

\* daVarAttributeFind: the longest beginning that is registered is the
\* variable, what follows its attribute.
AttributeFind(r, n, class) ==
  LET known == {k \in Len(class.name) + 1 .. Len(n) : Known(r, SubSeq(n, 1, k))}
      k == Max({Len(class.name)} \union known)
  IN  [var |-> IF known = {} THEN class ELSE LookupP(r, SubSeq(n, 1, k)),
       attr |-> Folded(SubSeq(n, k + 1, Len(n)))]
IsValue(attr) == attr \in {<<>>, <<"value">>}

Ints(v) == [type |-> "INT", val |-> v]
Floats(v) == [type |-> "FLOAT", val |-> v]
Text(v) == [type |-> "TEXT", val |-> v]
Error == [type |-> "ERROR", val |-> <<>>]

\* A C string ends at its -1, the one of a whole array behind it.
CString(cells) ==
  SubSeq(cells, 1, Min({Len(cells)} \union {k - 1 : k \in {k \in DOMAIN cells : cells[k] = -1}}))
\* kill_trailing: a string of blanks is emptied.
Trimmed(s) == SubSeq(s, 1, Max({0} \union {k \in DOMAIN s : s[k] # 0}))

\* daVarRegRatr; the attributes type, flag, watr and ratr are never asked for
\* here.  An index is not compared with the size.
RegRatr(r, v, attr, index) ==
  LET cells == r.memory[v.place]
      At(k) == IF k \in DOMAIN cells THEN cells[k] ELSE Junk
      elements == IF index = NoIndex THEN [k \in 1 .. v.size |-> At(k)] ELSE <<At(index + 1)>>
  IN  CASE IsValue(attr) ->
             (CASE v.type = "int" -> Ints(elements)
                [] v.type = "float" -> Floats(elements)
                [] v.type = "string" /\ index = NoIndex -> Text(CString(cells))
                [] v.type = "fstring" /\ index = NoIndex -> Text(Trimmed(SubSeq(cells, 1, v.size)))
                [] OTHER -> Error)
        [] attr = <<"title">> -> Text(v.title)
        [] attr = <<"size">> -> Ints(<<2 * v.size>>)
        [] OTHER -> Error
Unanswered(attr) == ~IsValue(attr) /\ attr \notin {<<"title">>, <<"size">>}

\* (HistZeroLastIdNot: a mutant, booking leaves what was remembered.)
HistZeroLastIdNot(r) == r
HistZeroLastId(r) == [r EXCEPT !.lastid = NoId]

\* thHistRHandler: HGIVE is called when the id is not the last one's.
HistRHandler(r, f, index) ==
  LET id == r.memory[f.var.place][1]
      s == IF r.lastid = id THEN r
           ELSE [r EXCEPT !.lastid = id, !.nx = IF id \in DOMAIN r.hbook THEN r.hbook[id] ELSE 0]
  IN  IF Unanswered(f.attr)
      THEN [any |-> IF f.attr = <<"nx">> THEN Ints(<<2 * s.nx>>) ELSE Error, r |-> s]
      ELSE [any |-> RegRatr(r, f.var, f.attr, index), r |-> r]

\* thRHandler, of the blocks: "scaler" is the value.
BlockRHandler(r, f, index) ==
  IF f.attr = <<"scaler">> THEN Ints(<<r.memory[f.var.place][1]>>)
  ELSE RegRatr(r, f.var, f.attr, index)

\* daVarReadVar: the class's handler reads.
ReadVar(r, name) ==
  LET class == ClassFind(r, name.name)
      f == AttributeFind(r, name.name, class)
  IN  CASE class = NoEntry -> [any |-> Error, r |-> r]
        [] class # NoEntry /\ class.hook = "hist" -> HistRHandler(r, f, name.index)
        [] class # NoEntry /\ class.hook = "block" -> [any |-> BlockRHandler(r, f, name.index), r |-> r]
        [] OTHER -> [any |-> RegRatr(r, f.var, f.attr, name.index), r |-> r]

\* Cells put into an array from a place on; those beyond it go astray.
Put(r, place, from, cells) ==
  [r EXCEPT
     !.memory[place] = [k \in DOMAIN @ |-> IF k - from \in DOMAIN cells THEN cells[k - from] ELSE @[k]],
     !.stray = @ \/ \E k \in DOMAIN cells : from + k \notin DOMAIN r.memory[place]]

\* floatToLong, of twice a number.
Rounded(x) == IF x > 0 THEN 2 * ((x + 1) \div 2) ELSE -2 * ((1 - x) \div 2)
Converted(type, x) == IF type = "int" THEN Rounded(x) ELSE x

Titled(r, n, title) == Changed(r, n, LAMBDA e : [e EXCEPT !.title = title])

Done(s) == [status |-> "S_SUCCESS", r |-> s]
Failed(r, status) == [status |-> status, r |-> r]

\* A text from a place on; the end of a C string is not counted, a string for
\* a Fortran program is filled up with blanks.
WriteText(r, v, at, text) ==
  LET fits == v.size >= Len(text) + at
  IN  CASE v.type \in Numeric -> Failed(r, "S_DAVAR_ILLCONV")
        [] v.type \notin Numeric /\ ~fits -> Failed(r, "S_DAVAR_TOOMANY")
        [] v.type = "string" /\ fits -> Done(Put(r, v.place, at, Append(text, -1)))
        [] OTHER ->   \* an fstring
             Done(Put(r, v.place, at, text \o [k \in 1 .. v.size - at - Len(text) |-> 0]))

\* Numbers from a place on; of reals the two errors are exchanged.
WriteNumbers(r, v, at, any) ==
  LET fits == v.size >= Len(any.val) + at
      too == IF any.type = "INT" THEN "S_DAVAR_TOOMANY" ELSE "S_DAVAR_ILLCONV"
      ill == IF any.type = "INT" THEN "S_DAVAR_ILLCONV" ELSE "S_DAVAR_TOOMANY"
  IN  CASE fits /\ v.type \in Numeric ->
             Done(Put(r, v.place, at, [k \in DOMAIN any.val |-> Converted(v.type, any.val[k])]))
        [] fits /\ v.type \notin Numeric -> Failed(r, ill)
        [] OTHER -> Failed(r, too)

\* daVarRegWatr.  The index is not compared with 0.
RegWatr(r, v, attr, index, any) ==
  LET at == IF index = NoIndex THEN 0 ELSE index
  IN  CASE IsValue(attr) /\ any.type = "TEXT" -> WriteText(r, v, at, any.val)
        [] IsValue(attr) /\ any.type \in {"INT", "FLOAT"} -> WriteNumbers(r, v, at, any)
        [] IsValue(attr) /\ any.type = "ERROR" -> Failed(r, "S_FAILURE")
        [] attr = <<"title">> ->
             IF any.type = "TEXT" THEN Done(Titled(r, v.name, any.val)) ELSE Failed(r, "S_DAVAR_ILLCONV")
        [] OTHER -> Failed(r, "S_DAVAR_UNKATTR")

\* The handler that the booking routine of a block's class leaves with it:
\* the block's histogram is booked as its title now says (thBookHists).
Book(r, block) ==
  LET id == r.memory[block.hist][1]
  IN  [HistZeroLastId(r) EXCEPT !.hbook = [i \in DOMAIN @ \union {id} |-> IF i = id THEN Bins(block.title) ELSE @[i]]]

\* daVarWriteVar; a block is booked again after its title was written
\* (thWHandler).
WriteVar(r, name, any) ==
  LET class == ClassFind(r, name.name)
      f == AttributeFind(r, name.name, class)
      w == RegWatr(r, f.var, f.attr, name.index, any)
  IN  CASE class = NoEntry -> [status |-> "S_FAILURE", r |-> r]
        [] class # NoEntry /\ class.hook = "block" /\ f.attr = <<"title">> /\ w.status = "S_SUCCESS" ->
             [w EXCEPT !.r = Book(w.r, LookupP(w.r, f.var.name))]
        [] OTHER -> w
=============================================================================
