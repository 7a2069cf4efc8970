---------------------------- MODULE RegistryProofs ----------------------------
(***************************************************************************)
(* Proofs about Registry and RegistryCalls, for any names, spellings and   *)
(* hash function: the tables of buckets implement dictionaries             *)
(* (TablesAreDictionaries), and what is read of a histogram is how it is   *)
(* booked now (HistogramsCurrent).                                         *)
(***************************************************************************)
EXTENDS RegistryCalls, Recursion, SequenceTheorems

\* What is needed of a program and of an entry to speak of their fields.
IsProgram(r) == {"table", "memory", "stray", "hbook", "lastid", "nx"} \subseteq DOMAIN r
IsEntry(e) == {"name", "title"} \subseteq DOMAIN e
Bare(e) == [e EXCEPT !.title = <<>>]

\* Every entry is in the bucket of its name, and no other entry has the name
\* in any spelling.
TableInv(r) ==
  /\ IsProgram(r)
  /\ \E V : r.table \in [1 .. Buckets -> Seq(V)]
  /\ \A b \in 1 .. Buckets : \A k \in DOMAIN r.table[b] :
       /\ IsEntry(r.table[b][k])
       /\ r.table[b][k].name \in Names
       /\ Bucket(r.table[b][k].name) = b
       /\ \A j \in DOMAIN r.table[b] : Same(r.table[b][j].name, r.table[b][k].name) => j = k

\* s has the table of r, but for titles.
SameTable(r, s) ==
  /\ IsProgram(s)
  /\ \E V : s.table \in [1 .. Buckets -> Seq(V)]
  /\ \A b \in 1 .. Buckets :
       /\ DOMAIN s.table[b] = DOMAIN r.table[b]
       /\ \A k \in DOMAIN r.table[b] :
            /\ IsEntry(s.table[b][k])
            /\ s.table[b][k].name = r.table[b][k].name
            /\ Bare(s.table[b][k]) = Bare(r.table[b][k])

-----------------------------------------------------------------------------
(* Looking up.                                                             *)

\* An entry is no missing one, and the title does not matter to its meaning.
LEMMA EntryIs ==
  ASSUME NEW e, IsEntry(e)
  PROVE  e # NoEntry /\ Untitled(e) = Bare(e) /\ Untitled(e).name = e.name
         /\ IsEntry(Untitled(e))
<1>1. e # NoEntry
  BY DEF IsEntry, NoEntry
<1>2. QED
  BY <1>1 DEF IsEntry, Untitled, Bare

\* A name's bucket is one of the table, whatever its spelling.
LEMMA BucketIs ==
  ASSUME NEW n \in Names
  PROVE  /\ Bucket(n) \in 1 .. Buckets
         /\ Same(n, n)
         /\ \A m : Same(m, n) => Bucket(m) = Bucket(n)
BY RegistryAssumption DEF Bucket, Same

\* The entry with a name, in any spelling, is what is found under it.
LEMMA Found ==
  ASSUME NEW r, TableInv(r), NEW n \in Names, NEW k \in DOMAIN r.table[Bucket(n)],
         Same(r.table[Bucket(n)][k].name, n)
  PROVE  LookupP(r, n) = r.table[Bucket(n)][k]
<1> DEFINE chain == r.table[Bucket(n)]
           Is(j) == Same(chain[j].name, n)
           First(j) == Is(j) /\ \A i \in 1 .. j - 1 : ~Is(i)
<1>1. Bucket(n) \in 1 .. Buckets
  BY BucketIs
<1>2. PICK V : r.table \in [1 .. Buckets -> Seq(V)]
  BY DEF TableInv
<1>3. chain \in Seq(V) /\ DOMAIN chain = 1 .. Len(chain) /\ Len(chain) \in Nat
  <2>1. chain \in Seq(V)
    BY <1>1, <1>2
  <2> HIDE DEF chain
  <2>2. QED
    BY <2>1
<1>4. ASSUME NEW j \in DOMAIN chain, Is(j)  PROVE j = k
  <2>1. Same(chain[j].name, chain[k].name)
    BY <1>4 DEF Same
  <2>2. QED
    BY <1>1, <2>1 DEF TableInv
<1>5. First(k)
  <2>1. ASSUME NEW i \in 1 .. k - 1  PROVE ~Is(i)
    <3>1. i \in DOMAIN chain /\ i # k
      BY <1>3
    <3>2. QED
      BY <1>4, <3>1
  <2>2. QED
    BY <2>1
<1>6. LookupP(r, n) = chain[CHOOSE j \in DOMAIN chain : First(j)]
  <2>1. ~ \A j \in DOMAIN chain : ~Is(j)
    OBVIOUS
  <2>2. QED
    BY <2>1, Zenon DEF LookupP
<1> HIDE DEF chain
<1>7. (CHOOSE j \in DOMAIN chain : First(j)) = k
  <2>1. k \in DOMAIN chain
    BY DEF chain
  <2>2. \A j \in DOMAIN chain : First(j) => j = k
    BY <1>4
  <2> HIDE DEF First
  <2>3. QED
    BY <1>5, <2>1, <2>2, Zenon
<1>8. QED
  BY <1>6, <1>7 DEF chain

\* What is looked up is an entry with the name, or there is none.
LEMMA FoundOrNot ==
  ASSUME NEW r, TableInv(r), NEW n \in Names
  PROVE  \/ \E k \in DOMAIN r.table[Bucket(n)] :
              /\ Same(r.table[Bucket(n)][k].name, n)
              /\ LookupP(r, n) = r.table[Bucket(n)][k]
              /\ IsEntry(LookupP(r, n))
         \/ /\ \A k \in DOMAIN r.table[Bucket(n)] : ~Same(r.table[Bucket(n)][k].name, n)
            /\ LookupP(r, n) = NoEntry
<1>1. CASE \A k \in DOMAIN r.table[Bucket(n)] : ~Same(r.table[Bucket(n)][k].name, n)
  BY <1>1, Zenon DEF LookupP
<1>2. CASE \E k \in DOMAIN r.table[Bucket(n)] : Same(r.table[Bucket(n)][k].name, n)
  <2>1. PICK k \in DOMAIN r.table[Bucket(n)] : Same(r.table[Bucket(n)][k].name, n)
    BY <1>2
  <2>2. LookupP(r, n) = r.table[Bucket(n)][k]
    BY <2>1, Found
  <2>3. IsEntry(r.table[Bucket(n)][k])
    BY BucketIs DEF TableInv
  <2>4. QED
    BY <2>1, <2>2, <2>3
<1>3. QED
  BY <1>1, <1>2

\* A name is known when an entry has it.
LEMMA KnownIs ==
  ASSUME NEW r, TableInv(r), NEW n \in Names
  PROVE  Known(r, n) <=> LookupP(r, n) # NoEntry
<1> DEFINE chain == r.table[Bucket(n)]
<1>1. Known(r, n) <=> \E k \in DOMAIN chain : Same(chain[k].name, n)
  BY DEF Known, ToSet
<1>2. QED
  BY <1>1, FoundOrNot, EntryIs

-----------------------------------------------------------------------------
(* Tables that differ in titles only.                                      *)

\* A table is the same as itself.
LEMMA SameItself ==
  ASSUME NEW r, TableInv(r), NEW s, IsProgram(s), s.table = r.table
  PROVE  SameTable(r, s)
BY DEF TableInv, SameTable

\* Tables the same as one are the same.
LEMMA SameAgain ==
  ASSUME NEW r, NEW s, NEW t, SameTable(r, s), SameTable(s, t)
  PROVE  SameTable(r, t)
BY DEF SameTable

\* What is the same as a proper table is one, means and lists the same.
LEMMA SameMeaning ==
  ASSUME NEW r, NEW s, TableInv(r), SameTable(r, s)
  PROVE  /\ TableInv(s)
         /\ Meaning(s) = Meaning(r)
         /\ \A pattern : List(s, pattern) = List(r, pattern)
<1>1. TableInv(s)
  <2>1. ASSUME NEW b \in 1 .. Buckets, NEW k \in DOMAIN s.table[b]
        PROVE  /\ IsEntry(s.table[b][k])
               /\ s.table[b][k].name \in Names
               /\ Bucket(s.table[b][k].name) = b
               /\ \A j \in DOMAIN s.table[b] : Same(s.table[b][j].name, s.table[b][k].name) => j = k
    <3>1. DOMAIN s.table[b] = DOMAIN r.table[b] /\ k \in DOMAIN r.table[b]
      BY DEF SameTable
    <3>2. \A j \in DOMAIN r.table[b] : s.table[b][j].name = r.table[b][j].name
      BY DEF SameTable
    <3>3. QED
      BY <3>1, <3>2 DEF SameTable, TableInv
  <2>2. QED
    BY <2>1 DEF SameTable, TableInv
<1>2. ASSUME NEW n \in Names  PROVE Untitled(LookupP(s, n)) = Untitled(LookupP(r, n))
  <2> DEFINE b == Bucket(n)
  <2>1. b \in 1 .. Buckets
    BY BucketIs
  <2>2. DOMAIN s.table[b] = DOMAIN r.table[b]
    BY <2>1 DEF SameTable
  <2>3. \A k \in DOMAIN r.table[b] :
          /\ IsEntry(s.table[b][k]) /\ IsEntry(r.table[b][k])
          /\ s.table[b][k].name = r.table[b][k].name
          /\ Bare(s.table[b][k]) = Bare(r.table[b][k])
    BY <2>1 DEF SameTable, TableInv
  <2>4. CASE \E k \in DOMAIN r.table[b] : Same(r.table[b][k].name, n)
    <3>1. PICK k \in DOMAIN r.table[b] : Same(r.table[b][k].name, n)
      BY <2>4
    <3>2. LookupP(r, n) = r.table[b][k]
      BY <3>1, Found
    <3>3. LookupP(s, n) = s.table[b][k]
      <4>1. k \in DOMAIN s.table[b] /\ Same(s.table[b][k].name, n)
        BY <2>2, <2>3, <3>1
      <4>2. QED
        BY <1>1, <4>1, Found
    <3>4. QED
      BY <2>3, <3>2, <3>3, EntryIs
  <2>5. CASE \A k \in DOMAIN r.table[b] : ~Same(r.table[b][k].name, n)
    <3>1. \A k \in DOMAIN s.table[b] : ~Same(s.table[b][k].name, n)
      BY <2>2, <2>3, <2>5
    <3>2. LookupP(r, n) = NoEntry /\ LookupP(s, n) = NoEntry
      BY <2>5, <3>1, Zenon DEF LookupP
    <3>3. QED
      BY <3>2
  <2>6. QED
    BY <2>4, <2>5
<1>3. Meaning(s) = Meaning(r)
  BY <1>2, Zenon DEF Meaning
<1>4. HashWalk(s) = HashWalk(r)
  <2> DEFINE P(t) == [b \in DOMAIN t.table |-> [k \in DOMAIN t.table[b] |-> t.table[b][k].name]]
  <2>1. DOMAIN s.table = 1 .. Buckets /\ DOMAIN r.table = 1 .. Buckets
    BY DEF SameTable, TableInv
  <2>2. ASSUME NEW b \in 1 .. Buckets
        PROVE [k \in DOMAIN s.table[b] |-> s.table[b][k].name] = [k \in DOMAIN r.table[b] |-> r.table[b][k].name]
    BY DEF SameTable
  <2>3. P(s) = P(r)
    BY <2>1, <2>2, Zenon
  <2>4. HashWalk(s) = FlattenSeq(P(s)) /\ HashWalk(r) = FlattenSeq(P(r))
    BY Zenon DEF HashWalk
  <2>5. QED
    BY <2>3, <2>4, Zenon
<1>5. QED
  BY <1>1, <1>3, <1>4, Zenon DEF List

\* A change of a title leaves the table the same.
LEMMA TitledSame ==
  ASSUME NEW r, TableInv(r), NEW n, NEW title
  PROVE  SameTable(r, Titled(r, n, title))
<1> DEFINE c == Bucket(n)
           new == [k \in DOMAIN r.table[c] |->
                     IF Same(r.table[c][k].name, n) THEN [r.table[c][k] EXCEPT !.title = title]
                     ELSE r.table[c][k]]
           table == [r.table EXCEPT ![c] = new]
           s == [r EXCEPT !.table = table]
<1>1. PICK V : r.table \in [1 .. Buckets -> Seq(V)]
  BY DEF TableInv
<1>2. Titled(r, n, title) = s
  BY DEF Titled, Changed, TableInv, IsProgram
<1>3. s.table = table /\ IsProgram(s)
  <2> HIDE DEF table
  <2>1. QED
    BY DEF TableInv, IsProgram
<1> DEFINE W == V \union {new[k] : k \in DOMAIN new}
<1>4. table \in [1 .. Buckets -> Seq(W)]
  <2>1. ASSUME NEW b \in 1 .. Buckets  PROVE table[b] \in Seq(W)
    <3>1. CASE b # c
      <4>1. table[b] = r.table[b] /\ r.table[b] \in Seq(V)
        BY <1>1, <3>1
      <4>2. V \subseteq W
        OBVIOUS
      <4> HIDE DEF table, W
      <4>3. QED
        BY <4>1, <4>2
    <3>2. CASE b = c
      <4>1. table[b] = new /\ r.table[b] \in Seq(V)
        BY <1>1, <3>2
      <4>2. DOMAIN new = 1 .. Len(r.table[b]) /\ Len(r.table[b]) \in Nat
        BY <3>2, <4>1
      <4>3. \A k \in DOMAIN new : new[k] \in W
        BY Zenon
      <4>4. new = [k \in DOMAIN new |-> new[k]]
        OBVIOUS
      <4> HIDE DEF new, W, table
      <4>5. new \in [1 .. Len(r.table[b]) -> W]
        BY <4>2, <4>3, <4>4
      <4>6. QED
        BY <4>1, <4>2, <4>5
    <3>3. QED
      BY <3>1, <3>2
  <2>2. DOMAIN table = 1 .. Buckets /\ table = [b \in DOMAIN table |-> table[b]]
    BY <1>1
  <2> HIDE DEF table, W
  <2>3. QED
    BY <2>1, <2>2
<1>5. ASSUME NEW b \in 1 .. Buckets
      PROVE  /\ DOMAIN table[b] = DOMAIN r.table[b]
             /\ \A k \in DOMAIN r.table[b] :
                  /\ IsEntry(table[b][k])
                  /\ table[b][k].name = r.table[b][k].name
                  /\ Bare(table[b][k]) = Bare(r.table[b][k])
  <2>1. \A k \in DOMAIN r.table[b] : IsEntry(r.table[b][k])
    BY DEF TableInv
  <2>2. CASE b # c
    BY <1>1, <2>1, <2>2
  <2>3. CASE b = c
    <3>1. table[b] = new /\ DOMAIN new = DOMAIN r.table[b]
      BY <1>1, <2>3
    <3>2. ASSUME NEW k \in DOMAIN r.table[b]
          PROVE  /\ IsEntry(new[k])
                 /\ new[k].name = r.table[b][k].name
                 /\ Bare(new[k]) = Bare(r.table[b][k])
      <4> DEFINE e == r.table[b][k]
      <4>1. new[k] = e \/ new[k] = [e EXCEPT !.title = title]
        BY <2>3
      <4>2. IsEntry(e)
        BY <2>1
      <4> HIDE DEF e, new
      <4>3. QED
        BY <4>1, <4>2 DEF IsEntry, e, Bare
    <3>3. QED
      BY <3>1, <3>2
  <2>4. QED
    BY <2>2, <2>3
<1> HIDE DEF table, s
<1>6. QED
  BY <1>2, <1>3, <1>4, <1>5 DEF SameTable

-----------------------------------------------------------------------------
(* What reading and writing leaves alone.                                  *)

\* Reading changes only what the histogram handler remembers
\* (daVarHandlers.c, thHandlers.c).
LEMMA ReadLeaves ==
  ASSUME NEW r, IsProgram(r), NEW name
  PROVE  LET s == ReadVar(r, name).r
         IN  /\ IsProgram(s)
             /\ s.table = r.table /\ s.memory = r.memory /\ s.hbook = r.hbook
<1>1. ASSUME NEW f, NEW index
      PROVE  LET s == HistRHandler(r, f, index).r
             IN  /\ IsProgram(s)
                 /\ s.table = r.table /\ s.memory = r.memory /\ s.hbook = r.hbook
  BY DEF HistRHandler, IsProgram
<1>2. ReadVar(r, name).r = r \/ \E f, index : ReadVar(r, name).r = HistRHandler(r, f, index).r
  <2> DEFINE class == ClassFind(r, name.name)
             f == AttributeFind(r, name.name, class)
             p == HistRHandler(r, f, name.index)
  <2>1. \/ ReadVar(r, name) = p
        \/ \E any : ReadVar(r, name) = [any |-> any, r |-> r]
    <3> HIDE DEF p
    <3>1. QED
      BY DEF ReadVar, p
  <2>2. QED
    BY <2>1
<1>3. QED
  BY <1>1, <1>2

\* Values put into the memory leave the table alone.
LEMMA PutLeaves ==
  ASSUME NEW r, IsProgram(r), NEW place, NEW from, NEW cells
  PROVE  LET s == Put(r, place, from, cells)
         IN  IsProgram(s) /\ s.table = r.table /\ s.hbook = r.hbook /\ s.lastid = r.lastid /\ s.nx = r.nx
BY DEF Put, IsProgram

\* So does booking, after which no histogram is remembered.
LEMMA BookLeaves ==
  ASSUME NEW r, IsProgram(r), NEW block
  PROVE  LET s == Book(r, block)
         IN  IsProgram(s) /\ s.table = r.table /\ s.lastid = NoId
BY DEF Book, HistZeroLastId, IsProgram

\* One write to a program: to its memory, to a title, or none.
Touched(r, s) ==
  \/ s = r
  \/ \E place, from, cells : s = Put(r, place, from, cells)
  \/ \E n, title : s = Titled(r, n, title)

\* daVarRegWatr writes at most once, whatever the value and the attribute.
LEMMA WatrTouches ==
  ASSUME NEW r, NEW v, NEW attr, NEW index, NEW any
  PROVE  \E status, s : RegWatr(r, v, attr, index, any) = [status |-> status, r |-> s] /\ Touched(r, s)
<1> DEFINE w == RegWatr(r, v, attr, index, any)
           Is(x) == \/ \E status : x = Failed(r, status)
                    \/ \E place, from, cells : x = Done(Put(r, place, from, cells))
                    \/ \E n, title : x = Done(Titled(r, n, title))
<1>1. \A at, text : Is(WriteText(r, v, at, text))
  BY DEF WriteText
<1>2. \A at : Is(WriteNumbers(r, v, at, any))
  BY DEF WriteNumbers
<1>3. \/ \E at, text : w = WriteText(r, v, at, text)
      \/ \E at : w = WriteNumbers(r, v, at, any)
      \/ \E status : w = Failed(r, status)
      \/ w = Done(Titled(r, v.name, any.val))
  BY DEF RegWatr
<1>4. Is(w)
  BY <1>1, <1>2, <1>3
<1> HIDE DEF w
<1>5. QED
  BY <1>4 DEF Touched, Done, Failed, w

\* Nothing that is written by name changes more of the table than titles.
LEMMA WriteSame ==
  ASSUME NEW r, TableInv(r), NEW name, NEW any
  PROVE  SameTable(r, WriteVar(r, name, any).r)
<1>1. ASSUME NEW s, Touched(r, s)  PROVE SameTable(r, s)
  <2>1. IsProgram(r)
    BY DEF TableInv
  <2>2. CASE s = r
    BY <2>1, <2>2, SameItself
  <2>3. CASE \E place, from, cells : s = Put(r, place, from, cells)
    BY <2>1, <2>3, PutLeaves, SameItself
  <2>4. CASE \E n, title : s = Titled(r, n, title)
    BY <2>4, TitledSame
  <2>5. QED
    BY <1>1, <2>2, <2>3, <2>4 DEF Touched
<1> DEFINE class == ClassFind(r, name.name)
           f == AttributeFind(r, name.name, class)
           w == RegWatr(r, f.var, f.attr, name.index, any)
           block == LookupP(w.r, f.var.name)
<1>2. PICK status, s : w = [status |-> status, r |-> s] /\ Touched(r, s)
  <2>1. \A v, attr, index : \E status, s :
          RegWatr(r, v, attr, index, any) = [status |-> status, r |-> s] /\ Touched(r, s)
    BY WatrTouches
  <2> HIDE DEF class, f
  <2>2. QED
    BY <2>1
<1>3. w.r = s
  BY <1>2
<1>4. SameTable(r, w.r)
  BY <1>1, <1>2, <1>3
<1>5. SameTable(r, Book(w.r, block))
  <2>1. TableInv(w.r)
    BY <1>4, SameMeaning
  <2>2. IsProgram(w.r)
    BY <2>1 DEF TableInv
  <2> HIDE DEF w, block
  <2>3. SameTable(w.r, Book(w.r, block))
    BY <2>1, <2>2, BookLeaves, SameItself
  <2>4. QED
    BY <1>4, <2>3, SameAgain
<1>6. \/ WriteVar(r, name, any) = [status |-> "S_FAILURE", r |-> r]
      \/ WriteVar(r, name, any) = [w EXCEPT !.r = Book(w.r, block)]
      \/ WriteVar(r, name, any) = w
  BY DEF WriteVar
<1>7. [w EXCEPT !.r = Book(w.r, block)].r = Book(w.r, block)
  <2> DEFINE x == Book(w.r, block)
  <2> HIDE DEF w, x
  <2>1. [w EXCEPT !.r = x].r = x
    BY <1>2
  <2>2. QED
    BY <2>1 DEF x
<1> HIDE DEF w, block
<1>8. SameTable(r, r)
  BY <1>1 DEF Touched
<1>9. [status |-> "S_FAILURE", r |-> r].r = r
  OBVIOUS
<1>10. QED
  BY <1>4, <1>5, <1>6, <1>7, <1>8, <1>9

-----------------------------------------------------------------------------
(* Registering.                                                            *)

\* The name of a definition is that of what is registered.
LEMMA DefinitionIs ==
  ASSUME NEW d, IsEntry(d)
  PROVE  IsEntry(Definition(d)) /\ Definition(d).name = d.name
BY DEF Definition, IsEntry

\* A table in which some entries of a bucket are others with the same names.
LEMMA ReplacedInv ==
  ASSUME NEW r, TableInv(r), NEW c \in 1 .. Buckets, NEW new,
         new = [k \in DOMAIN r.table[c] |-> new[k]],
         \A k \in DOMAIN r.table[c] : IsEntry(new[k]) /\ new[k].name = r.table[c][k].name,
         NEW s, IsProgram(s), s.table = [r.table EXCEPT ![c] = new]
  PROVE  TableInv(s)
<1>1. PICK V : r.table \in [1 .. Buckets -> Seq(V)]
  BY DEF TableInv
<1> DEFINE W == V \union {new[k] : k \in DOMAIN new}
<1>2. r.table[c] \in Seq(V) /\ new \in Seq(W)
  <2>1. r.table[c] \in Seq(V)
    BY <1>1
  <2>2. DOMAIN new = 1 .. Len(r.table[c]) /\ Len(r.table[c]) \in Nat
    BY <2>1
  <2>3. \A k \in DOMAIN new : new[k] \in W
    BY Zenon
  <2>4. new = [k \in DOMAIN new |-> new[k]]
    BY <2>2
  <2> HIDE DEF W
  <2>5. new \in [1 .. Len(r.table[c]) -> W]
    BY <2>2, <2>3, <2>4
  <2>6. QED
    BY <2>1, <2>2, <2>5
<1>3. s.table \in [1 .. Buckets -> Seq(W)]
  <2>1. V \subseteq W
    OBVIOUS
  <2> HIDE DEF W
  <2>2. ASSUME NEW b \in 1 .. Buckets  PROVE r.table[b] \in Seq(W)
    <3>1. r.table[b] \in Seq(V)
      BY <1>1
    <3>2. QED
      BY <2>1, <3>1
  <2>3. r.table \in [1 .. Buckets -> Seq(W)]
    BY <1>1, <2>2
  <2> DEFINE Q == Seq(W)
  <2> HIDE DEF Q
  <2>4. r.table \in [1 .. Buckets -> Q] /\ new \in Q
    BY <1>2, <2>3 DEF Q
  <2>5. s.table \in [1 .. Buckets -> Q]
    BY <2>4
  <2>6. QED
    BY <2>5 DEF Q
<1>4. ASSUME NEW b \in 1 .. Buckets
      PROVE  /\ DOMAIN s.table[b] = DOMAIN r.table[b]
             /\ \A k \in DOMAIN r.table[b] : IsEntry(s.table[b][k]) /\ s.table[b][k].name = r.table[b][k].name
  <2>1. CASE b = c
    <3>1. s.table[b] = new /\ DOMAIN new = DOMAIN r.table[b]
      BY <1>1, <2>1
    <3>2. QED
      BY <2>1, <3>1
  <2>2. CASE b # c
    <3>1. s.table[b] = r.table[b]
      BY <1>1, <2>2
    <3>2. QED
      BY <3>1 DEF TableInv
  <2>3. QED
    BY <2>1, <2>2
<1>5. ASSUME NEW b \in 1 .. Buckets, NEW k \in DOMAIN s.table[b]
      PROVE  /\ IsEntry(s.table[b][k])
             /\ s.table[b][k].name \in Names
             /\ Bucket(s.table[b][k].name) = b
             /\ \A j \in DOMAIN s.table[b] : Same(s.table[b][j].name, s.table[b][k].name) => j = k
  <2>1. k \in DOMAIN r.table[b] /\ DOMAIN s.table[b] = DOMAIN r.table[b]
    BY <1>4, <1>5
  <2>2. \A j \in DOMAIN r.table[b] : IsEntry(s.table[b][j]) /\ s.table[b][j].name = r.table[b][j].name
    BY <1>4
  <2>3. QED
    BY <2>1, <2>2 DEF TableInv
<1>6. QED
  BY <1>3, <1>5 DEF TableInv

\* What Define says of a name and of the others.
LEMMA DefineIs ==
  ASSUME NEW r, NEW d, IsEntry(d), d.name \in Names, NEW s,
         \A m \in Names : ~Same(m, d.name) => LookupP(s, m) = LookupP(r, m),
         \A m \in Names : Same(m, d.name) =>
            /\ IsEntry(LookupP(s, m))
            /\ Bare(LookupP(s, m)) =
                 [Bare(d) EXCEPT !.name = IF Untitled(LookupP(r, d.name)) = NoEntry THEN @
                                          ELSE Untitled(LookupP(r, d.name)).name]
  PROVE  Meaning(s) = Registries!Define(Meaning(r), Untitled(d))
<1>1. Untitled(d) = Bare(d) /\ Untitled(d).name = d.name
  BY EntryIs
<1>2. Meaning(r)[d.name] = Untitled(LookupP(r, d.name))
  BY DEF Meaning
<1> DEFINE M == Meaning(r)
           e == Untitled(d)
           D(m) == IF ~Same(m, e.name) THEN M[m]
                   ELSE [e EXCEPT !.name = IF M[e.name] = NoEntry THEN @ ELSE M[e.name].name]
<1>3. Registries!Define(M, e) = [m \in Names |-> D(m)]
  BY DEF Registries!Define
<1>4. ASSUME NEW m \in Names  PROVE Untitled(LookupP(s, m)) = D(m)
  <2>1. CASE Same(m, d.name)
    <3>1. Untitled(LookupP(s, m)) = Bare(LookupP(s, m))
      BY <2>1, EntryIs
    <3> HIDE DEF M, e
    <3>2. D(m) = [Bare(d) EXCEPT !.name = IF Untitled(LookupP(r, d.name)) = NoEntry THEN @
                                          ELSE Untitled(LookupP(r, d.name)).name]
      BY <1>1, <1>2, <2>1 DEF M, e
    <3>3. QED
      BY <2>1, <3>1, <3>2
  <2>2. CASE ~Same(m, d.name)
    <3>1. D(m) = Untitled(LookupP(r, m))
      BY <1>1, <2>2 DEF Meaning
    <3>2. QED
      BY <2>2, <3>1
  <2>3. QED
    BY <2>1, <2>2
<1> HIDE DEF D, M, e
<1>5. Meaning(s) = [m \in Names |-> D(m)]
  BY <1>4 DEF Meaning
<1>6. QED
  BY <1>3, <1>5 DEF M, e

\* A known name registered again keeps its place and its spelling.
LEMMA RegisterKnown ==
  ASSUME NEW r, TableInv(r), NEW d, IsEntry(d), d.name \in Names, Known(r, d.name)
  PROVE  /\ TableInv(Register(r, d))
         /\ Meaning(Register(r, d)) = Registries!Define(Meaning(r), Untitled(Definition(d)))
<1> DEFINE D == Definition(d)
           n == d.name
           c == Bucket(n)
           chain == r.table[c]
           new == [k \in DOMAIN chain |-> IF Same(chain[k].name, n) THEN [D EXCEPT !.name = chain[k].name]
                                          ELSE chain[k]]
           s == [r EXCEPT !.table = [r.table EXCEPT ![c] = new]]
<1>1. Register(r, d) = s
  BY DEF Register, Changed, TableInv, IsProgram
<1>2. IsProgram(s) /\ s.table = [r.table EXCEPT ![c] = new]
  <2> DEFINE table == [r.table EXCEPT ![c] = new]
  <2> HIDE DEF table
  <2>1. IsProgram([r EXCEPT !.table = table]) /\ [r EXCEPT !.table = table].table = table
    BY DEF TableInv, IsProgram
  <2>2. QED
    BY <2>1 DEF table
<1>3. c \in 1 .. Buckets
  BY BucketIs
<1>4. IsEntry(D) /\ D.name = n
  BY DefinitionIs
<1>5. PICK k \in DOMAIN chain : Same(chain[k].name, n) /\ LookupP(r, n) = chain[k]
  BY FoundOrNot, KnownIs
<1>6. new = [j \in DOMAIN chain |-> new[j]]
      /\ \A j \in DOMAIN chain : IsEntry(new[j]) /\ new[j].name = chain[j].name
  <2>1. new = [j \in DOMAIN chain |-> new[j]]
    BY Zenon
  <2>2. ASSUME NEW j \in DOMAIN chain  PROVE IsEntry(new[j]) /\ new[j].name = chain[j].name
    <3>1. new[j] = [D EXCEPT !.name = chain[j].name] \/ new[j] = chain[j]
      OBVIOUS
    <3>2. IsEntry(chain[j])
      BY <1>3 DEF TableInv
    <3> HIDE DEF new, D
    <3>3. QED
      BY <1>4, <3>1, <3>2 DEF IsEntry
  <2>3. QED
    BY <2>1, <2>2
<1>7. TableInv(s)
  <2> HIDE DEF new, s, c
  <2>1. QED
    BY <1>2, <1>3, <1>6, ReplacedInv DEF c
<1>8. s.table[c] = new /\ \A b \in 1 .. Buckets : b # c => s.table[b] = r.table[b]
  <2>1. DOMAIN r.table = 1 .. Buckets
    BY DEF TableInv
  <2> HIDE DEF new, s, c
  <2>2. QED
    BY <1>2, <1>3, <2>1
<1>9. ASSUME NEW m \in Names, ~Same(m, n)  PROVE LookupP(s, m) = LookupP(r, m)
  <2> DEFINE b == Bucket(m)
  <2>1. b \in 1 .. Buckets
    BY BucketIs
  <2>2. /\ DOMAIN s.table[b] = DOMAIN r.table[b]
        /\ \A j \in DOMAIN r.table[b] : s.table[b][j].name = r.table[b][j].name
    <3>1. CASE b # c
      BY <1>8, <2>1, <3>1
    <3>2. CASE b = c
      <4> HIDE DEF new, s, c, b
      <4>1. QED
        BY <1>6, <1>8, <3>2 DEF c
    <3>3. QED
      BY <3>1, <3>2
  <2>3. CASE \E j \in DOMAIN r.table[b] : Same(r.table[b][j].name, m)
    <3>1. PICK j \in DOMAIN r.table[b] : Same(r.table[b][j].name, m)
      BY <2>3
    <3>2. s.table[b][j] = r.table[b][j]
      <4>1. CASE b # c
        BY <1>8, <2>1, <4>1
      <4>2. CASE b = c
        <5>1. ~Same(chain[j].name, n) /\ j \in DOMAIN chain
          BY <1>9, <3>1, <4>2 DEF Same
        <5>2. new[j] = chain[j]
          BY <5>1
        <5> HIDE DEF new, s, c, b
        <5>3. QED
          BY <1>8, <4>2, <5>2 DEF c
      <4>3. QED
        BY <4>1, <4>2
    <3>3. LookupP(r, m) = r.table[b][j]
      BY <3>1, Found
    <3> HIDE DEF s
    <3>4. LookupP(s, m) = s.table[b][j]
      BY <1>7, <2>2, <3>1, Found
    <3>5. QED
      BY <3>2, <3>3, <3>4
  <2>4. CASE \A j \in DOMAIN r.table[b] : ~Same(r.table[b][j].name, m)
    <3> HIDE DEF s
    <3>1. \A j \in DOMAIN s.table[b] : ~Same(s.table[b][j].name, m)
      BY <2>2, <2>4
    <3>2. QED
      BY <2>4, <3>1, Zenon DEF LookupP
  <2>5. QED
    BY <2>3, <2>4
<1>10. ASSUME NEW m \in Names, Same(m, n)
       PROVE  /\ IsEntry(LookupP(s, m))
              /\ Bare(LookupP(s, m)) =
                   [Bare(D) EXCEPT !.name = IF Untitled(LookupP(r, n)) = NoEntry THEN @
                                            ELSE Untitled(LookupP(r, n)).name]
  <2>1. Bucket(m) = c
    BY <1>10, BucketIs
  <2>2. Same(chain[k].name, m)
    BY <1>5, <1>10 DEF Same
  <2>3. new[k] = [D EXCEPT !.name = chain[k].name] /\ DOMAIN new = DOMAIN chain
    BY <1>5, SMTT(30)
  <2>4. s.table[c] = new /\ new[k].name = chain[k].name /\ IsEntry(new[k])
    BY <1>5, <1>6, <1>8
  <2> HIDE DEF s, new, D
  <2>5. LookupP(s, m) = new[k]
    <3>1. k \in DOMAIN s.table[Bucket(m)] /\ Same(s.table[Bucket(m)][k].name, m)
      BY <2>1, <2>2, <2>3, <2>4
    <3>2. LookupP(s, m) = s.table[Bucket(m)][k]
      BY <1>7, <3>1, Found
    <3>3. QED
      BY <2>1, <2>4, <3>2
  <2>6. IsEntry(chain[k])
    BY <1>3, <1>5 DEF TableInv
  <2>7. Untitled(LookupP(r, n)) # NoEntry /\ Untitled(LookupP(r, n)).name = chain[k].name
    BY <1>5, <2>6, EntryIs
  <2>8. Bare([D EXCEPT !.name = chain[k].name]) = [Bare(D) EXCEPT !.name = chain[k].name]
    BY <1>4 DEF Bare, IsEntry
  <2>9. QED
    BY <2>3, <2>4, <2>5, <2>7, <2>8
<1> HIDE DEF s, D
<1>11. Meaning(s) = Registries!Define(Meaning(r), Untitled(D))
  BY <1>4, <1>9, <1>10, DefineIs
<1>12. QED
  BY <1>1, <1>7, <1>11 DEF D

\* A new name goes to the head of its bucket.
LEMMA RegisterNew ==
  ASSUME NEW r, TableInv(r), NEW d, IsEntry(d), d.name \in Names, ~Known(r, d.name)
  PROVE  /\ TableInv(Register(r, d))
         /\ Meaning(Register(r, d)) = Registries!Define(Meaning(r), Untitled(Definition(d)))
<1> DEFINE D == Definition(d)
           n == d.name
           c == Bucket(n)
           chain == r.table[c]
           new == <<D>> \o chain
           s == [r EXCEPT !.table = [r.table EXCEPT ![c] = new]]
<1>1. IsEntry(D) /\ D.name = n
  BY DefinitionIs
<1>2. Register(r, d) = s
  BY <1>1 DEF Register, HashAdd, TableInv, IsProgram
<1>3. IsProgram(s) /\ s.table = [r.table EXCEPT ![c] = new]
  <2> DEFINE table == [r.table EXCEPT ![c] = new]
  <2> HIDE DEF table
  <2>1. IsProgram([r EXCEPT !.table = table]) /\ [r EXCEPT !.table = table].table = table
    BY DEF TableInv, IsProgram
  <2>2. QED
    BY <2>1 DEF table
<1>4. c \in 1 .. Buckets
  BY BucketIs
<1>5. PICK V : r.table \in [1 .. Buckets -> Seq(V)]
  BY DEF TableInv
<1>6. \A k \in DOMAIN chain : ~Same(chain[k].name, n)
  <2>1. LookupP(r, n) = NoEntry
    BY KnownIs
  <2>2. \A k \in DOMAIN chain : IsEntry(chain[k])
    BY <1>4 DEF TableInv
  <2>3. QED
    BY <2>1, <2>2, FoundOrNot, EntryIs
<1> DEFINE W == V \union {D}
<1>7. /\ chain \in Seq(V) /\ Len(chain) \in Nat /\ DOMAIN chain = 1 .. Len(chain)
      /\ new \in Seq(W) /\ Len(new) = Len(chain) + 1 /\ DOMAIN new = 1 .. Len(chain) + 1
      /\ new[1] = D /\ \A k \in 1 .. Len(chain) : new[k + 1] = chain[k]
  <2>1. chain \in Seq(V)
    BY <1>4, <1>5
  <2> HIDE DEF chain, D
  <2>2. chain \in Seq(W) /\ <<D>> \in Seq(W)
    BY <2>1
  <2> HIDE DEF W
  <2>3. QED
    BY <2>1, <2>2
<1>8. s.table[c] = new /\ \A b \in 1 .. Buckets : b # c => s.table[b] = r.table[b]
  <2>1. DOMAIN r.table = 1 .. Buckets
    BY DEF TableInv
  <2> HIDE DEF new, s, c
  <2>2. QED
    BY <1>3, <1>4, <2>1
<1>9. s.table \in [1 .. Buckets -> Seq(W)]
  <2>1. ASSUME NEW b \in 1 .. Buckets  PROVE r.table[b] \in Seq(W)
    <3>1. r.table[b] \in Seq(V)
      BY <1>5
    <3> HIDE DEF D
    <3>2. QED
      BY <3>1
  <2> DEFINE Q == Seq(W)
  <2>2. r.table \in [1 .. Buckets -> Q] /\ new \in Q
    <3> HIDE DEF W, new
    <3>1. QED
      BY <1>5, <1>7, <2>1
  <2> HIDE DEF Q, new, s
  <2>3. s.table \in [1 .. Buckets -> Q]
    BY <1>3, <2>2
  <2>4. QED
    BY <2>3 DEF Q
<1>10. ASSUME NEW b \in 1 .. Buckets, NEW k \in DOMAIN s.table[b]
       PROVE  /\ IsEntry(s.table[b][k])
              /\ s.table[b][k].name \in Names
              /\ Bucket(s.table[b][k].name) = b
              /\ \A j \in DOMAIN s.table[b] : Same(s.table[b][j].name, s.table[b][k].name) => j = k
  <2>1. CASE b # c
    <3>1. s.table[b] = r.table[b]
      BY <1>8, <2>1
    <3> HIDE DEF s
    <3>2. QED
      BY <1>10, <3>1 DEF TableInv
  <2>2. CASE b = c
    <3>1. s.table[b] = new
      BY <1>8, <2>2
    <3>2. ASSUME NEW i \in DOMAIN new
          PROVE  (i = 1 /\ new[i] = D) \/ (i - 1 \in DOMAIN chain /\ new[i] = chain[i - 1])
      <4> HIDE DEF new, chain, D
      <4>1. CASE i = 1
        BY <1>7, <4>1
      <4>2. CASE i # 1
        <5>1. i - 1 \in 1 .. Len(chain) /\ (i - 1) + 1 = i
          BY <1>7, <4>2
        <5>2. QED
          BY <1>7, <5>1
      <4>3. QED
        BY <4>1, <4>2
    <3>3. \A i \in DOMAIN chain :
            /\ IsEntry(chain[i]) /\ chain[i].name \in Names /\ Bucket(chain[i].name) = c
            /\ ~Same(chain[i].name, D.name) /\ ~Same(D.name, chain[i].name)
            /\ \A j \in DOMAIN chain : Same(chain[j].name, chain[i].name) => j = i
      BY <1>1, <1>4, <1>6 DEF TableInv, Same
    <3>4. IsEntry(D) /\ D.name \in Names /\ Bucket(D.name) = c
      BY <1>1
    <3>5. k \in DOMAIN new
      BY <1>10, <3>1
    <3>6. DOMAIN new \subseteq Int
      BY <1>7
    <3>7. ASSUME NEW j \in DOMAIN new, Same(new[j].name, new[k].name)  PROVE j = k
      <4>1. (j = 1 /\ new[j] = D) \/ (j - 1 \in DOMAIN chain /\ new[j] = chain[j - 1])
        BY <3>2
      <4>2. (k = 1 /\ new[k] = D) \/ (k - 1 \in DOMAIN chain /\ new[k] = chain[k - 1])
        BY <3>2, <3>5
      <4>3. j \in Int /\ k \in Int
        BY <3>5, <3>6
      <4> HIDE DEF new, chain, D
      <4>4. QED
        BY <3>3, <3>7, <4>1, <4>2, <4>3
    <3> HIDE DEF new, chain, D, s
    <3>8. QED
      BY <2>2, <3>1, <3>2, <3>3, <3>4, <3>5, <3>7
  <2>3. QED
    BY <2>1, <2>2
<1>11. TableInv(s)
  <2> HIDE DEF s, W
  <2>1. QED
    BY <1>3, <1>9, <1>10 DEF TableInv
<1>12. ASSUME NEW m \in Names, ~Same(m, n)  PROVE LookupP(s, m) = LookupP(r, m)
  <2> DEFINE b == Bucket(m)
  <2>1. b \in 1 .. Buckets
    BY BucketIs
  <2>2. CASE \E j \in DOMAIN r.table[b] : Same(r.table[b][j].name, m)
    <3>1. PICK j \in DOMAIN r.table[b] : Same(r.table[b][j].name, m)
      BY <2>2
    <3>2. PICK i \in DOMAIN s.table[b] : s.table[b][i] = r.table[b][j]
      <4>1. CASE b # c
        BY <1>8, <2>1, <4>1
      <4>2. CASE b = c
        <5>1. j \in 1 .. Len(chain)
          BY <1>7, <4>2
        <5> HIDE DEF new, s
        <5>2. j + 1 \in DOMAIN new /\ new[j + 1] = chain[j]
          BY <1>7, <5>1
        <5>3. QED
          BY <1>8, <4>2, <5>2
      <4>3. QED
        BY <4>1, <4>2
    <3>3. LookupP(r, m) = r.table[b][j]
      BY <3>1, Found
    <3> HIDE DEF s
    <3>4. LookupP(s, m) = s.table[b][i]
      BY <1>11, <3>1, <3>2, Found
    <3>5. QED
      BY <3>2, <3>3, <3>4
  <2>3. CASE \A j \in DOMAIN r.table[b] : ~Same(r.table[b][j].name, m)
    <3>1. ASSUME NEW i \in DOMAIN s.table[b]  PROVE ~Same(s.table[b][i].name, m)
      <4>1. CASE b # c
        BY <1>8, <2>1, <2>3, <4>1
      <4>2. CASE b = c
        <5>1. CASE i = 1
          <6>1. s.table[b][i] = D
            BY <1>7, <1>8, <4>2, <5>1
          <6>2. QED
            BY <1>1, <1>12, <6>1 DEF Same
        <5>2. CASE i # 1
          <6>1. i \in DOMAIN new
            BY <1>8, <3>1, <4>2
          <6> HIDE DEF new, s, chain
          <6>2. i - 1 \in 1 .. Len(chain) /\ (i - 1) + 1 = i
            BY <1>7, <5>2, <6>1
          <6>3. s.table[b][i] = chain[i - 1] /\ i - 1 \in DOMAIN chain
            BY <1>7, <1>8, <4>2, <6>2
          <6>4. QED
            BY <2>3, <4>2, <6>3 DEF chain
        <5>3. QED
          BY <5>1, <5>2
      <4>3. QED
        BY <4>1, <4>2
    <3> HIDE DEF s
    <3>2. QED
      BY <2>3, <3>1, Zenon DEF LookupP
  <2>4. QED
    BY <2>2, <2>3
<1>13. ASSUME NEW m \in Names, Same(m, n)
       PROVE  /\ IsEntry(LookupP(s, m))
              /\ Bare(LookupP(s, m)) =
                   [Bare(D) EXCEPT !.name = IF Untitled(LookupP(r, n)) = NoEntry THEN @
                                            ELSE Untitled(LookupP(r, n)).name]
  <2>1. Bucket(m) = c /\ Same(D.name, m)
    BY <1>1, <1>13, BucketIs DEF Same
  <2>2. 1 \in DOMAIN s.table[Bucket(m)] /\ s.table[Bucket(m)][1] = D
    <3> HIDE DEF new, s, chain, D
    <3>1. QED
      BY <1>7, <1>8, <2>1
  <2> HIDE DEF s
  <2>3. LookupP(s, m) = D
    BY <1>11, <2>1, <2>2, Found
  <2>4. Untitled(LookupP(r, n)) = NoEntry
    BY KnownIs DEF Untitled
  <2> HIDE DEF D
  <2>5. Bare(D) = [Bare(D) EXCEPT !.name = @]
    BY DEF Bare
  <2>6. QED
    BY <1>1, <2>3, <2>4, <2>5
<1> HIDE DEF s, D
<1>14. Meaning(s) = Registries!Define(Meaning(r), Untitled(D))
  BY <1>1, <1>12, <1>13, DefineIs
<1>15. QED
  BY <1>2, <1>11, <1>14 DEF D

\* Registering defines a name in the dictionary.
LEMMA RegisterDefines ==
  ASSUME NEW r, TableInv(r), NEW d, IsEntry(d), d.name \in Names
  PROVE  /\ TableInv(Register(r, d))
         /\ Meaning(Register(r, d)) = Registries!Define(Meaning(r), Untitled(Definition(d)))
BY RegisterKnown, RegisterNew

-----------------------------------------------------------------------------
(* Listing.                                                                *)

\* A walk through the table meets every entry once.
LEMMA WalkIs ==
  ASSUME NEW r, TableInv(r)
  PROVE  /\ HashWalk(r) \in Seq(Names)
         /\ IsInjective(HashWalk(r))
         /\ \A x : x \in ToSet(HashWalk(r)) <=>
              \E b \in 1 .. Buckets : \E k \in DOMAIN r.table[b] : x = r.table[b][k].name
<1> DEFINE row(b) == [k \in DOMAIN r.table[b] |-> r.table[b][k].name]
           grid == [b \in DOMAIN r.table |-> row(b)]
<1>1. PICK V : r.table \in [1 .. Buckets -> Seq(V)]
  BY DEF TableInv
<1>2. Buckets \in Nat
  BY RegistryAssumption
<1>3. ASSUME NEW b \in 1 .. Buckets  PROVE row(b) \in Seq(Names)
  <2>1. r.table[b] \in Seq(V)
    BY <1>1
  <2> DEFINE chain == r.table[b]
  <2>2. \A k \in DOMAIN chain : chain[k].name \in Names
    BY DEF TableInv
  <2>3. row(b) = [k \in DOMAIN chain |-> chain[k].name]
    OBVIOUS
  <2>4. chain \in Seq(V)
    BY <2>1
  <2> HIDE DEF chain, row
  <2>5. DOMAIN chain = 1 .. Len(chain) /\ Len(chain) \in Nat
    BY <2>4
  <2>6. row(b) \in [1 .. Len(chain) -> Names]
    BY <2>2, <2>3, <2>5
  <2>7. QED
    BY <2>5, <2>6
<1>4. grid \in Seq(Seq(Names)) /\ DOMAIN grid = 1 .. Buckets
  <2>1. DOMAIN r.table = 1 .. Buckets
    BY <1>1
  <2> DEFINE Q == Seq(Names)
  <2>2. \A b \in 1 .. Buckets : row(b) \in Q
    BY <1>3
  <2> HIDE DEF Q, row
  <2>3. grid \in [1 .. Buckets -> Q]
    BY <2>1, <2>2
  <2>4. grid \in Seq(Q)
    BY <1>2, <2>3
  <2>5. QED
    BY <2>3, <2>4 DEF Q
<1>5. ASSUME NEW b \in 1 .. Buckets
      PROVE  /\ grid[b] = row(b) /\ DOMAIN row(b) = DOMAIN r.table[b]
             /\ \A k \in DOMAIN r.table[b] : row(b)[k] = r.table[b][k].name
  BY <1>4
<1>6. HashWalk(r) = FlattenSeq(grid)
  BY DEF HashWalk
<1> HIDE DEF grid, row
<1>7. ASSUME NEW b \in DOMAIN grid, NEW c \in DOMAIN grid, NEW i \in DOMAIN grid[b], NEW j \in DOMAIN grid[c],
             grid[b][i] = grid[c][j]
      PROVE  b = c /\ i = j
  <2>1. /\ b \in 1 .. Buckets /\ c \in 1 .. Buckets
        /\ i \in DOMAIN r.table[b] /\ j \in DOMAIN r.table[c]
        /\ r.table[b][i].name = r.table[c][j].name
    BY <1>4, <1>5, <1>7
  <2>2. b = c
    BY <2>1 DEF TableInv
  <2>3. Same(r.table[b][i].name, r.table[b][j].name)
    BY <2>1, <2>2 DEF Same
  <2>4. i = j
    BY <2>1, <2>2, <2>3 DEF TableInv
  <2>5. QED
    BY <2>2, <2>4
<1>8. IsInjective(FlattenSeq(grid))
  BY <1>4, <1>7, FlattenElements
<1>9. FlattenSeq(grid) \in Seq(Names)
  BY <1>4, FlattenIs
<1>10. ASSUME NEW x
       PROVE  x \in ToSet(FlattenSeq(grid)) <=>
                \E b \in 1 .. Buckets : \E k \in DOMAIN r.table[b] : x = r.table[b][k].name
  <2>1. x \in ToSet(FlattenSeq(grid)) <=> \E b \in 1 .. Buckets : x \in ToSet(grid[b])
    BY <1>4, FlattenElements
  <2>2. ASSUME NEW b \in 1 .. Buckets
        PROVE  x \in ToSet(grid[b]) <=> \E k \in DOMAIN r.table[b] : x = r.table[b][k].name
    BY <1>5 DEF ToSet
  <2>3. QED
    BY <2>1, <2>2
<1>11. QED
  BY <1>6, <1>8, <1>9, <1>10

\* What is listed are names, whatever is asked for.
LEMMA ListIs ==
  ASSUME NEW r, TableInv(r), NEW pattern
  PROVE  List(r, pattern) \in Seq(Names)
BY WalkIs, ThoseProperties DEF List

\* The spellings of the registered names are listed, each once.
LEMMA Listed ==
  ASSUME NEW r, TableInv(r)
  PROVE  Registries!Lists(List(r, Everything), Meaning(r))
<1> DEFINE T == {n \in Names : Matches(Everything, n)}
           walk == HashWalk(r)
           names == List(r, Everything)
<1>1. T = Names
  <2>1. ASSUME NEW n \in Names  PROVE Matches(Everything, n)
    <3>1. n \in Seq(DOMAIN Fold)
      BY RegistryAssumption
    <3>2. IsPrefix(<<>>, n)
      BY <3>1 DEF IsPrefix
    <3>3. QED
      BY <3>2 DEF Matches, Everything
  <2>2. QED
    BY <2>1
<1>2. names = Those(walk, Names)
  BY <1>1 DEF List
<1>3. walk \in Seq(Names) /\ IsInjective(walk)
  BY WalkIs
<1> HIDE DEF names, walk
<1>4. /\ names \in Seq(Names) /\ IsInjective(names)
      /\ ToSet(names) = ToSet(walk) \intersect Names
  BY <1>2, <1>3, ThoseProperties
<1>5. \A j, k \in DOMAIN names : names[j] = names[k] => j = k
  BY <1>4 DEF IsInjective
<1>6. ASSUME NEW x
      PROVE  x \in ToSet(names) <=>
               \E b \in 1 .. Buckets : \E k \in DOMAIN r.table[b] : x = r.table[b][k].name
  <2>1. x \in ToSet(walk) <=>
               \E b \in 1 .. Buckets : \E k \in DOMAIN r.table[b] : x = r.table[b][k].name
    BY WalkIs DEF walk
  <2>2. \A b \in 1 .. Buckets : \A k \in DOMAIN r.table[b] : r.table[b][k].name \in Names
    BY DEF TableInv
  <2>3. QED
    BY <1>4, <2>1, <2>2
<1>7. ASSUME NEW b \in 1 .. Buckets, NEW k \in DOMAIN r.table[b]
      PROVE  LET n == r.table[b][k].name
             IN  n \in Names /\ Meaning(r)[n].name = n /\ n # NoEntry.name
  <2> DEFINE n == r.table[b][k].name
  <2>1. n \in Names /\ Bucket(n) = b /\ IsEntry(r.table[b][k])
    BY DEF TableInv
  <2>2. LookupP(r, n) = r.table[b][k]
    BY <2>1, BucketIs, Found
  <2>3. Meaning(r)[n].name = n
    BY <2>1, <2>2, EntryIs DEF Meaning
  <2>4. n # NoEntry.name
    BY <2>1, RegistryAssumption DEF NoEntry
  <2>5. QED
    BY <2>1, <2>3, <2>4
<1>8. ASSUME NEW m \in Names
      PROVE  \/ Meaning(r)[m].name = NoEntry.name
             \/ \E b \in 1 .. Buckets : \E k \in DOMAIN r.table[b] : Meaning(r)[m].name = r.table[b][k].name
  <2>1. Meaning(r)[m] = Untitled(LookupP(r, m))
    BY DEF Meaning
  <2>2. Bucket(m) \in 1 .. Buckets
    BY BucketIs
  <2>3. CASE LookupP(r, m) = NoEntry
    BY <2>1, <2>3 DEF Untitled
  <2>4. CASE \E k \in DOMAIN r.table[Bucket(m)] :
               LookupP(r, m) = r.table[Bucket(m)][k] /\ IsEntry(LookupP(r, m))
    BY <2>1, <2>2, <2>4, EntryIs
  <2>5. QED
    BY <2>3, <2>4, FoundOrNot
<1>9. \A x : x \in ToSet(names) <=> x \in {Meaning(r)[s].name : s \in Names} \ {NoEntry.name}
  BY <1>6, <1>7, <1>8
<1>10. ToSet(names) = {Meaning(r)[s].name : s \in Names} \ {NoEntry.name}
  BY <1>9
<1>11. QED
  BY <1>5, <1>10 DEF Registries!Lists, ToSet, names

-----------------------------------------------------------------------------
(* One name after the other: the recursive functions unfolded.             *)

\* davar_readmultiple and davar_readpatternmatch read one name after the other.
LEMMA ReadUnfolds ==
  ASSUME NEW r, NEW names, Len(names) \in Nat
  PROVE  \E f : /\ ReadMultiple(r, names) = f[Len(names)]
                /\ f[0] = [r |-> r, vals |-> <<>>]
                /\ \A k \in 1 .. Len(names) : f[k] = ReadNext(f[k - 1], names[k])
<1> DEFINE N == Len(names)
           a == [r |-> r, vals |-> <<>>]
           P(k, acc) == ReadNext(acc, names[k])
           Is(g) == g = [k \in 0 .. N |-> IF k = 0 THEN a ELSE P(k, g[k - 1])]
           From(n, g) == g = [k \in 0 .. n |-> IF k = 0 THEN a ELSE P(k, g[k - 1])]
           S == {n \in 0 .. N : \E g : From(n, g)}
           f == CHOOSE g : Is(g)
<1>1. ReadMultiple(r, names) = f[N]
  BY Zenon DEF ReadMultiple, Iterated
<1> HIDE DEF P, a, N
<1>2. N \in Nat
  BY DEF N
<1>3. 0 \in S
  <2>1. From(0, [k \in 0 .. 0 |-> a])
    OBVIOUS
  <2> HIDE DEF From
  <2>2. QED
    BY <1>2, <2>1
<1>4. ASSUME NEW n \in 0 .. N - 1, n \in S  PROVE n + 1 \in S
  <2>1. PICK g : From(n, g)
    BY <1>4
  <2> DEFINE h == [k \in 0 .. n + 1 |-> IF k = n + 1 THEN P(n + 1, g[n]) ELSE g[k]]
  <2>2. n + 1 \in 0 .. N /\ n \in Nat
    BY <1>2
  <2>3. ASSUME NEW k \in 0 .. n + 1  PROVE h[k] = IF k = 0 THEN a ELSE P(k, h[k - 1])
    BY <2>1, <2>2
  <2>4. h = [k \in 0 .. n + 1 |-> h[k]]
    OBVIOUS
  <2> HIDE DEF h
  <2>5. From(n + 1, h)
    BY <2>3, <2>4
  <2>6. QED
    BY <2>2, <2>5
<1>5. Is(f)
  <2>1. 0 .. N \subseteq S
    <3> HIDE DEF S
    <3>1. QED
      BY <1>2, <1>3, <1>4, UpTo
  <2>2. \E g : Is(g)
    BY <1>2, <2>1
  <2> HIDE DEF Is
  <2>3. QED
    BY <2>2, Zenon
<1> HIDE DEF f
<1>6. f[0] = a /\ \A k \in 1 .. N : f[k] = P(k, f[k - 1])
  BY <1>2, <1>5
<1>7. QED
  BY <1>1, <1>6 DEF P, N, a

\* davar_writemultiple writes one name after the other.
LEMMA WriteUnfolds ==
  ASSUME NEW r, NEW writes, Len(writes) \in Nat
  PROVE  \E f : /\ WriteMultiple(r, writes) = f[Len(writes)]
                /\ f[0] = [r |-> r, errors |-> <<>>]
                /\ \A k \in 1 .. Len(writes) : f[k] = WriteNext(f[k - 1], writes[k])
<1> DEFINE N == Len(writes)
           a == [r |-> r, errors |-> <<>>]
           P(k, acc) == WriteNext(acc, writes[k])
           Is(g) == g = [k \in 0 .. N |-> IF k = 0 THEN a ELSE P(k, g[k - 1])]
           From(n, g) == g = [k \in 0 .. n |-> IF k = 0 THEN a ELSE P(k, g[k - 1])]
           S == {n \in 0 .. N : \E g : From(n, g)}
           f == CHOOSE g : Is(g)
<1>1. WriteMultiple(r, writes) = f[N]
  BY Zenon DEF WriteMultiple, Iterated
<1> HIDE DEF P, a, N
<1>2. N \in Nat
  BY DEF N
<1>3. 0 \in S
  <2>1. From(0, [k \in 0 .. 0 |-> a])
    OBVIOUS
  <2> HIDE DEF From
  <2>2. QED
    BY <1>2, <2>1
<1>4. ASSUME NEW n \in 0 .. N - 1, n \in S  PROVE n + 1 \in S
  <2>1. PICK g : From(n, g)
    BY <1>4
  <2> DEFINE h == [k \in 0 .. n + 1 |-> IF k = n + 1 THEN P(n + 1, g[n]) ELSE g[k]]
  <2>2. n + 1 \in 0 .. N /\ n \in Nat
    BY <1>2
  <2>3. ASSUME NEW k \in 0 .. n + 1  PROVE h[k] = IF k = 0 THEN a ELSE P(k, h[k - 1])
    BY <2>1, <2>2
  <2>4. h = [k \in 0 .. n + 1 |-> h[k]]
    OBVIOUS
  <2> HIDE DEF h
  <2>5. From(n + 1, h)
    BY <2>3, <2>4
  <2>6. QED
    BY <2>2, <2>5
<1>5. Is(f)
  <2>1. 0 .. N \subseteq S
    <3> HIDE DEF S
    <3>1. QED
      BY <1>2, <1>3, <1>4, UpTo
  <2>2. \E g : Is(g)
    BY <1>2, <2>1
  <2> HIDE DEF Is
  <2>3. QED
    BY <2>2, Zenon
<1> HIDE DEF f
<1>6. f[0] = a /\ \A k \in 1 .. N : f[k] = P(k, f[k - 1])
  BY <1>2, <1>5
<1>7. QED
  BY <1>1, <1>6 DEF P, N, a

\* thGetList stores one value after the other.
LEMMA CopyUnfolds ==
  ASSUME NEW r, NEW names, NEW vals, Len(names) \in Nat
  PROVE  \E f : /\ Copy(r, names, vals) = f[Len(names)]
                /\ f[0] = [r |-> r, errors |-> 0]
                /\ \A k \in 1 .. Len(names) : f[k] = CopyNext(f[k - 1], names[k], vals[k])
<1> DEFINE N == Len(names)
           a == [r |-> r, errors |-> 0]
           P(k, acc) == CopyNext(acc, names[k], vals[k])
           Is(g) == g = [k \in 0 .. N |-> IF k = 0 THEN a ELSE P(k, g[k - 1])]
           From(n, g) == g = [k \in 0 .. n |-> IF k = 0 THEN a ELSE P(k, g[k - 1])]
           S == {n \in 0 .. N : \E g : From(n, g)}
           f == CHOOSE g : Is(g)
<1>1. Copy(r, names, vals) = f[N]
  BY Zenon DEF Copy, Iterated
<1> HIDE DEF P, a, N
<1>2. N \in Nat
  BY DEF N
<1>3. 0 \in S
  <2>1. From(0, [k \in 0 .. 0 |-> a])
    OBVIOUS
  <2> HIDE DEF From
  <2>2. QED
    BY <1>2, <2>1
<1>4. ASSUME NEW n \in 0 .. N - 1, n \in S  PROVE n + 1 \in S
  <2>1. PICK g : From(n, g)
    BY <1>4
  <2> DEFINE h == [k \in 0 .. n + 1 |-> IF k = n + 1 THEN P(n + 1, g[n]) ELSE g[k]]
  <2>2. n + 1 \in 0 .. N /\ n \in Nat
    BY <1>2
  <2>3. ASSUME NEW k \in 0 .. n + 1  PROVE h[k] = IF k = 0 THEN a ELSE P(k, h[k - 1])
    BY <2>1, <2>2
  <2>4. h = [k \in 0 .. n + 1 |-> h[k]]
    OBVIOUS
  <2> HIDE DEF h
  <2>5. From(n + 1, h)
    BY <2>3, <2>4
  <2>6. QED
    BY <2>2, <2>5
<1>5. Is(f)
  <2>1. 0 .. N \subseteq S
    <3> HIDE DEF S
    <3>1. QED
      BY <1>2, <1>3, <1>4, UpTo
  <2>2. \E g : Is(g)
    BY <1>2, <2>1
  <2> HIDE DEF Is
  <2>3. QED
    BY <2>2, Zenon
<1> HIDE DEF f
<1>6. f[0] = a /\ \A k \in 1 .. N : f[k] = P(k, f[k - 1])
  BY <1>2, <1>5
<1>7. QED
  BY <1>1, <1>6 DEF P, N, a

\* thImportVars imports one name after the other.
LEMMA ImportUnfolds ==
  ASSUME NEW r, NEW names, NEW vals, Len(names) \in Nat
  PROVE  \E f : /\ ImportAll(r, names, vals) = f[Len(names)]
                /\ f[0] = [r |-> r, asked |-> <<>>, errors |-> 0]
                /\ \A k \in 1 .. Len(names) : f[k] = Import(f[k - 1], names[k], vals[k])
<1> DEFINE N == Len(names)
           a == [r |-> r, asked |-> <<>>, errors |-> 0]
           P(k, acc) == Import(acc, names[k], vals[k])
           Is(g) == g = [k \in 0 .. N |-> IF k = 0 THEN a ELSE P(k, g[k - 1])]
           From(n, g) == g = [k \in 0 .. n |-> IF k = 0 THEN a ELSE P(k, g[k - 1])]
           S == {n \in 0 .. N : \E g : From(n, g)}
           f == CHOOSE g : Is(g)
<1>1. ImportAll(r, names, vals) = f[N]
  BY Zenon DEF ImportAll, Iterated
<1> HIDE DEF P, a, N
<1>2. N \in Nat
  BY DEF N
<1>3. 0 \in S
  <2>1. From(0, [k \in 0 .. 0 |-> a])
    OBVIOUS
  <2> HIDE DEF From
  <2>2. QED
    BY <1>2, <2>1
<1>4. ASSUME NEW n \in 0 .. N - 1, n \in S  PROVE n + 1 \in S
  <2>1. PICK g : From(n, g)
    BY <1>4
  <2> DEFINE h == [k \in 0 .. n + 1 |-> IF k = n + 1 THEN P(n + 1, g[n]) ELSE g[k]]
  <2>2. n + 1 \in 0 .. N /\ n \in Nat
    BY <1>2
  <2>3. ASSUME NEW k \in 0 .. n + 1  PROVE h[k] = IF k = 0 THEN a ELSE P(k, h[k - 1])
    BY <2>1, <2>2
  <2>4. h = [k \in 0 .. n + 1 |-> h[k]]
    OBVIOUS
  <2> HIDE DEF h
  <2>5. From(n + 1, h)
    BY <2>3, <2>4
  <2>6. QED
    BY <2>2, <2>5
<1>5. Is(f)
  <2>1. 0 .. N \subseteq S
    <3> HIDE DEF S
    <3>1. QED
      BY <1>2, <1>3, <1>4, UpTo
  <2>2. \E g : Is(g)
    BY <1>2, <2>1
  <2> HIDE DEF Is
  <2>3. QED
    BY <2>2, Zenon
<1> HIDE DEF f
<1>6. f[0] = a /\ \A k \in 1 .. N : f[k] = P(k, f[k - 1])
  BY <1>2, <1>5
<1>7. QED
  BY <1>1, <1>6 DEF P, N, a

\* A step's definitions are made one after the other.
LEMMA DefinedUnfolds ==
  ASSUME NEW m, NEW defs, Len(defs) \in Nat
  PROVE  \E f : /\ Registries!Defined(m, defs) = f[Len(defs)]
                /\ f[0] = m
                /\ \A k \in 1 .. Len(defs) : f[k] = Registries!Define(f[k - 1], defs[k])
<1> DEFINE N == Len(defs)
           a == m
           P(k, acc) == Registries!Define(acc, defs[k])
           Is(g) == g = [k \in 0 .. N |-> IF k = 0 THEN a ELSE P(k, g[k - 1])]
           From(n, g) == g = [k \in 0 .. n |-> IF k = 0 THEN a ELSE P(k, g[k - 1])]
           S == {n \in 0 .. N : \E g : From(n, g)}
           f == CHOOSE g : Is(g)
<1>1. Registries!Defined(m, defs) = f[N]
  BY Zenon DEF Registries!Defined
<1> HIDE DEF P, a, N
<1>2. N \in Nat
  BY DEF N
<1>3. 0 \in S
  <2>1. From(0, [k \in 0 .. 0 |-> a])
    OBVIOUS
  <2> HIDE DEF From
  <2>2. QED
    BY <1>2, <2>1
<1>4. ASSUME NEW n \in 0 .. N - 1, n \in S  PROVE n + 1 \in S
  <2>1. PICK g : From(n, g)
    BY <1>4
  <2> DEFINE h == [k \in 0 .. n + 1 |-> IF k = n + 1 THEN P(n + 1, g[n]) ELSE g[k]]
  <2>2. n + 1 \in 0 .. N /\ n \in Nat
    BY <1>2
  <2>3. ASSUME NEW k \in 0 .. n + 1  PROVE h[k] = IF k = 0 THEN a ELSE P(k, h[k - 1])
    BY <2>1, <2>2
  <2>4. h = [k \in 0 .. n + 1 |-> h[k]]
    OBVIOUS
  <2> HIDE DEF h
  <2>5. From(n + 1, h)
    BY <2>3, <2>4
  <2>6. QED
    BY <2>2, <2>5
<1>5. Is(f)
  <2>1. 0 .. N \subseteq S
    <3> HIDE DEF S
    <3>1. QED
      BY <1>2, <1>3, <1>4, UpTo
  <2>2. \E g : Is(g)
    BY <1>2, <2>1
  <2> HIDE DEF Is
  <2>3. QED
    BY <2>2, Zenon
<1> HIDE DEF f
<1>6. f[0] = a /\ \A k \in 1 .. N : f[k] = P(k, f[k - 1])
  BY <1>2, <1>5
<1>7. QED
  BY <1>1, <1>6 DEF P, N, a

-----------------------------------------------------------------------------
(* What the calls change.                                                  *)

\* What the histogram handler remembers of a histogram is how it is booked.
HistInv(r) == r.lastid # NoId /\ r.lastid \in DOMAIN r.hbook => r.nx = r.hbook[r.lastid]

\* The histogram handler remembers what HGIVE says (thHistRHandler).
LEMMA ReadRemembers ==
  ASSUME NEW r, IsProgram(r), HistInv(r), NEW name
  PROVE  HistInv(ReadVar(r, name).r)
<1>1. ASSUME NEW f, NEW index  PROVE HistInv(HistRHandler(r, f, index).r)
  BY DEF HistRHandler, IsProgram, HistInv
<1>2. ReadVar(r, name).r = r \/ \E f, index : ReadVar(r, name).r = HistRHandler(r, f, index).r
  <2> DEFINE class == ClassFind(r, name.name)
             f == AttributeFind(r, name.name, class)
             p == HistRHandler(r, f, name.index)
  <2>1. \/ ReadVar(r, name) = p
        \/ \E any : ReadVar(r, name) = [any |-> any, r |-> r]
    <3> HIDE DEF p
    <3>1. QED
      BY DEF ReadVar, p
  <2>2. QED
    BY <2>1
<1>3. QED
  BY <1>1, <1>2

\* A change of a title is none of a histogram.
LEMMA TitledLeaves ==
  ASSUME NEW r, IsProgram(r), NEW n, NEW title
  PROVE  LET s == Titled(r, n, title)
         IN  s.hbook = r.hbook /\ s.lastid = r.lastid /\ s.nx = r.nx
BY DEF Titled, Changed, IsProgram

\* A write leaves what is remembered of a histogram, or forgets it.
LEMMA WriteRemembers ==
  ASSUME NEW r, IsProgram(r), HistInv(r), NEW name, NEW any
  PROVE  HistInv(WriteVar(r, name, any).r)
<1>1. ASSUME NEW s, Touched(r, s)  PROVE HistInv(s) /\ IsProgram(s)
  <2>1. CASE s = r
    BY <2>1
  <2>2. CASE \E place, from, cells : s = Put(r, place, from, cells)
    BY <2>2, PutLeaves DEF HistInv
  <2>3. CASE \E n, title : s = Titled(r, n, title)
    <3>1. PICK n, title : s = Titled(r, n, title)
      BY <2>3
    <3>2. IsProgram(s)
      BY <3>1 DEF Titled, Changed, IsProgram
    <3>3. QED
      BY <3>1, <3>2, TitledLeaves DEF HistInv
  <2>4. QED
    BY <1>1, <2>1, <2>2, <2>3 DEF Touched
<1> DEFINE class == ClassFind(r, name.name)
           f == AttributeFind(r, name.name, class)
           w == RegWatr(r, f.var, f.attr, name.index, any)
           block == LookupP(w.r, f.var.name)
<1>2. PICK status, s : w = [status |-> status, r |-> s] /\ Touched(r, s)
  <2>1. \A v, attr, index : \E status, s :
          RegWatr(r, v, attr, index, any) = [status |-> status, r |-> s] /\ Touched(r, s)
    BY WatrTouches
  <2> HIDE DEF class, f
  <2>2. QED
    BY <2>1
<1>3. w.r = s
  BY <1>2
<1>4. HistInv(w.r) /\ HistInv(Book(w.r, block))
  <2>1. IsProgram(w.r) /\ HistInv(w.r)
    BY <1>1, <1>2, <1>3
  <2> HIDE DEF w, block
  <2>2. QED
    BY <2>1, BookLeaves DEF HistInv
<1>5. \/ WriteVar(r, name, any) = [status |-> "S_FAILURE", r |-> r]
      \/ WriteVar(r, name, any) = [w EXCEPT !.r = Book(w.r, block)]
      \/ WriteVar(r, name, any) = w
  BY DEF WriteVar
<1>6. [w EXCEPT !.r = Book(w.r, block)].r = Book(w.r, block)
  <2> DEFINE x == Book(w.r, block)
  <2> HIDE DEF w, x
  <2>1. [w EXCEPT !.r = x].r = x
    BY <1>2
  <2>2. QED
    BY <2>1 DEF x
<1> HIDE DEF w, block
<1>7. [status |-> "S_FAILURE", r |-> r].r = r
  OBVIOUS
<1>8. QED
  BY <1>4, <1>5, <1>6, <1>7

\* A read of several names changes only what the handler remembers.
LEMMA ReadMultipleLeaves ==
  ASSUME NEW r, IsProgram(r), NEW names, Len(names) \in Nat
  PROVE  LET s == ReadMultiple(r, names).r
         IN  /\ IsProgram(s)
             /\ s.table = r.table /\ s.memory = r.memory /\ s.hbook = r.hbook
             /\ HistInv(r) => HistInv(s)
<1> DEFINE N == Len(names)
           Leaves(s) == /\ IsProgram(s)
                        /\ s.table = r.table /\ s.memory = r.memory /\ s.hbook = r.hbook
                        /\ HistInv(r) => HistInv(s)
<1>1. PICK f : /\ ReadMultiple(r, names) = f[N]
               /\ f[0] = [r |-> r, vals |-> <<>>]
               /\ \A k \in 1 .. N : f[k] = ReadNext(f[k - 1], names[k])
  BY ReadUnfolds
<1> DEFINE S == {n \in 0 .. N : Leaves(f[n].r)}
<1>2. 0 \in S
  BY <1>1
<1>3. ASSUME NEW n \in 0 .. N - 1, n \in S  PROVE n + 1 \in S
  <2>1. n + 1 \in 1 .. N /\ (n + 1) - 1 = n /\ n + 1 \in 0 .. N
    OBVIOUS
  <2>2. f[n + 1].r = ReadVar(f[n].r, names[n + 1]).r
    <3>1. f[n + 1] = ReadNext(f[n], names[n + 1])
      BY <1>1, <2>1
    <3>2. QED
      BY <3>1 DEF ReadNext
  <2>3. Leaves(f[n].r)
    BY <1>3
  <2>4. Leaves(ReadVar(f[n].r, names[n + 1]).r)
    BY <2>3, ReadLeaves, ReadRemembers
  <2> HIDE DEF Leaves
  <2>5. QED
    BY <2>1, <2>2, <2>4
<1>4. 0 .. N \subseteq S
  <2> HIDE DEF S
  <2>1. QED
    BY <1>2, <1>3, UpTo
<1>5. Leaves(f[N].r)
  BY <1>4
<1>6. QED
  BY <1>1, <1>5

\* A write of several values changes titles and values only.
LEMMA WriteMultipleSame ==
  ASSUME NEW r, TableInv(r), NEW writes, Len(writes) \in Nat
  PROVE  LET s == WriteMultiple(r, writes).r
         IN  SameTable(r, s) /\ (HistInv(r) => HistInv(s))
<1> DEFINE N == Len(writes)
           Leaves(s) == TableInv(s) /\ SameTable(r, s) /\ (HistInv(r) => HistInv(s))
<1>1. PICK f : /\ WriteMultiple(r, writes) = f[N]
               /\ f[0] = [r |-> r, errors |-> <<>>]
               /\ \A k \in 1 .. N : f[k] = WriteNext(f[k - 1], writes[k])
  BY WriteUnfolds
<1> DEFINE S == {n \in 0 .. N : Leaves(f[n].r)}
<1>2. 0 \in S
  <2>1. IsProgram(r)
    BY DEF TableInv
  <2>2. SameTable(r, r)
    BY <2>1, SameItself
  <2>3. QED
    BY <1>1, <2>2
<1>3. ASSUME NEW n \in 0 .. N - 1, n \in S  PROVE n + 1 \in S
  <2> DEFINE s == f[n].r
             t == WriteVar(s, writes[n + 1].name, writes[n + 1].any).r
  <2>1. n + 1 \in 1 .. N /\ (n + 1) - 1 = n /\ n + 1 \in 0 .. N
    OBVIOUS
  <2>2. f[n + 1].r = t
    <3>1. f[n + 1] = WriteNext(f[n], writes[n + 1])
      BY <1>1, <2>1
    <3>2. QED
      BY <3>1 DEF WriteNext
  <2>3. TableInv(s) /\ SameTable(r, s) /\ (HistInv(r) => HistInv(s)) /\ IsProgram(s)
    BY <1>3 DEF TableInv
  <2>4. SameTable(s, t) /\ (HistInv(s) => HistInv(t))
    BY <2>3, WriteSame, WriteRemembers
  <2> HIDE DEF s, t
  <2>5. Leaves(t)
    BY <2>3, <2>4, SameAgain, SameMeaning
  <2> HIDE DEF Leaves
  <2>6. QED
    BY <2>1, <2>2, <2>5
<1>4. 0 .. N \subseteq S
  <2> HIDE DEF S
  <2>1. QED
    BY <1>2, <1>3, UpTo
<1>5. Leaves(f[N].r)
  BY <1>4
<1>6. QED
  BY <1>1, <1>5

\* So does the client's copying of what it got (thGetList).
LEMMA CopySame ==
  ASSUME NEW r, TableInv(r), NEW names, NEW vals, Len(names) \in Nat
  PROVE  SameTable(r, Copy(r, names, vals).r)
<1> DEFINE N == Len(names)
           Leaves(x) == {"r", "errors"} \subseteq DOMAIN x /\ TableInv(x.r) /\ SameTable(r, x.r)
<1>1. PICK f : /\ Copy(r, names, vals) = f[N]
               /\ f[0] = [r |-> r, errors |-> 0]
               /\ \A k \in 1 .. N : f[k] = CopyNext(f[k - 1], names[k], vals[k])
  BY CopyUnfolds
<1> DEFINE S == {n \in 0 .. N : Leaves(f[n])}
<1>2. 0 \in S
  <2>1. IsProgram(r)
    BY DEF TableInv
  <2>2. SameTable(r, r)
    BY <2>1, SameItself
  <2>3. QED
    BY <1>1, <2>2
<1>3. ASSUME NEW n \in 0 .. N - 1, n \in S  PROVE n + 1 \in S
  <2> DEFINE acc == f[n]
             w == WriteVar(acc.r, Plain(names[n + 1]), vals[n + 1])
  <2>1. n + 1 \in 1 .. N /\ (n + 1) - 1 = n /\ n + 1 \in 0 .. N
    OBVIOUS
  <2> DEFINE next == CopyNext(acc, names[n + 1], vals[n + 1])
  <2>2. f[n + 1] = next
    BY <1>1, <2>1
  <2>3. {"r", "errors"} \subseteq DOMAIN acc /\ TableInv(acc.r) /\ SameTable(r, acc.r)
    BY <1>3
  <2>4. SameTable(acc.r, w.r)
    BY <2>3, WriteSame
  <2> HIDE DEF w, acc
  <2>5. TableInv(w.r) /\ SameTable(r, w.r)
    BY <2>3, <2>4, SameAgain, SameMeaning
  <2>6. \/ next = [acc EXCEPT !.r = w.r]
        \/ \E e : next = [r |-> acc.r, errors |-> e] \/ next = [r |-> w.r, errors |-> e]
    BY DEF CopyNext, w
  <2> HIDE DEF next
  <2>7. Leaves(next)
    <3>1. next.r \in {acc.r, w.r} /\ {"r", "errors"} \subseteq DOMAIN next
      BY <2>3, <2>6
    <3>2. QED
      BY <2>3, <2>5, <3>1
  <2> HIDE DEF Leaves
  <2>8. QED
    BY <2>1, <2>2, <2>7
<1>4. 0 .. N \subseteq S
  <2> HIDE DEF S
  <2>1. QED
    BY <1>2, <1>3, UpTo
<1>5. Leaves(f[N])
  BY <1>4
<1>6. QED
  BY <1>1, <1>5

-----------------------------------------------------------------------------
(* What a step registers, as definitions of the dictionary.                *)

\* Definitions without their titles.
Plainly(defs) == [k \in DOMAIN defs |-> Untitled(defs[k])]

\* A step that registers nothing defines nothing.
LEMMA NothingDefined ==
  ASSUME NEW m
  PROVE  Plainly(<<>>) = <<>> /\ Registries!Defined(m, <<>>) = m
<1>1. PICK f : Registries!Defined(m, <<>>) = f[Len(<<>>)] /\ f[0] = m
  <2>1. Len(<<>>) \in Nat
    OBVIOUS
  <2>2. QED
    BY <2>1, DefinedUnfolds
<1>2. QED
  BY <1>1 DEF Plainly

\* One more definition is made after the others.
LEMMA OneMoreDefined ==
  ASSUME NEW m, NEW W, NEW defs \in Seq(W), NEW d
  PROVE  Registries!Defined(m, Append(defs, d)) = Registries!Define(Registries!Defined(m, defs), d)
<1> DEFINE N == Len(defs)
           more == Append(defs, d)
           X == W \union {d}
<1>1. N \in Nat
  OBVIOUS
<1>2. Len(more) = N + 1 /\ more[N + 1] = d /\ \A k \in 1 .. N : more[k] = defs[k]
  <2>1. defs \in Seq(X) /\ d \in X
    OBVIOUS
  <2> HIDE DEF X
  <2>2. QED
    BY <2>1
<1>3. PICK f : /\ Registries!Defined(m, defs) = f[N]
               /\ f[0] = m
               /\ \A k \in 1 .. N : f[k] = Registries!Define(f[k - 1], defs[k])
  BY <1>1, DefinedUnfolds
<1>4. PICK g : /\ Registries!Defined(m, more) = g[N + 1]
               /\ g[0] = m
               /\ \A k \in 1 .. N + 1 : g[k] = Registries!Define(g[k - 1], more[k])
  <2>1. Len(more) \in Nat
    BY <1>1, <1>2
  <2> HIDE DEF more, N
  <2>2. \E g : /\ Registries!Defined(m, more) = g[Len(more)]
               /\ g[0] = m
               /\ \A k \in 1 .. Len(more) : g[k] = Registries!Define(g[k - 1], more[k])
    BY <2>1, DefinedUnfolds
  <2>3. QED
    BY <1>2, <2>2
<1> HIDE DEF more, N
<1> DEFINE S == {n \in 0 .. N : g[n] = f[n]}
<1>5. 0 \in S
  BY <1>1, <1>3, <1>4
<1>6. ASSUME NEW n \in 0 .. N - 1, n \in S  PROVE n + 1 \in S
  <2>1. n + 1 \in 1 .. N /\ n + 1 \in 1 .. N + 1 /\ (n + 1) - 1 = n /\ n + 1 \in 0 .. N
    BY <1>1
  <2>2. f[n + 1] = Registries!Define(f[n], defs[n + 1])
    BY <1>3, <2>1
  <2>3. g[n + 1] = Registries!Define(g[n], defs[n + 1])
    BY <1>2, <1>4, <2>1
  <2>4. QED
    BY <1>6, <2>1, <2>2, <2>3
<1>7. 0 .. N \subseteq S
  <2> HIDE DEF S
  <2>1. QED
    BY <1>1, <1>5, <1>6, UpTo
<1>8. g[N] = f[N]
  BY <1>1, <1>7
<1>9. g[N + 1] = Registries!Define(g[N], d)
  <2>1. N + 1 \in 1 .. N + 1 /\ (N + 1) - 1 = N
    BY <1>1
  <2>2. QED
    BY <1>2, <1>4, <2>1
<1>10. QED
  BY <1>3, <1>4, <1>8, <1>9 DEF more

\* Without titles the last definition is still the last.
LEMMA PlainlyAppend ==
  ASSUME NEW W, NEW defs \in Seq(W), NEW d
  PROVE  /\ Plainly(Append(defs, d)) = Append(Plainly(defs), Untitled(d))
         /\ Plainly(defs) \in Seq({Untitled(w) : w \in W})
<1> DEFINE N == Len(defs)
           X == W \union {d}
           more == Append(defs, d)
           U == {Untitled(w) : w \in W}
<1>1. N \in Nat /\ DOMAIN defs = 1 .. N
  OBVIOUS
<1>2. DOMAIN more = 1 .. N + 1 /\ more[N + 1] = d /\ \A k \in 1 .. N : more[k] = defs[k]
  <2>1. defs \in Seq(X) /\ d \in X
    OBVIOUS
  <2> HIDE DEF X
  <2>2. QED
    BY <2>1
<1>3. Plainly(defs) \in [1 .. N -> U] /\ \A k \in 1 .. N : Plainly(defs)[k] = Untitled(defs[k])
  <2>1. \A k \in 1 .. N : Untitled(defs[k]) \in U
    BY <1>1
  <2> HIDE DEF U, N
  <2>2. QED
    BY <1>1, <2>1 DEF Plainly
<1>4. Plainly(defs) \in Seq(U) /\ Len(Plainly(defs)) = N
  <2> HIDE DEF U, N
  <2>1. QED
    BY <1>1, <1>3
<1>5. Plainly(more) = Append(Plainly(defs), Untitled(d))
  <2> DEFINE u == Untitled(d)
             Y == U \union {u}
             p == Plainly(defs)
  <2>1. p \in Seq(Y) /\ u \in Y
    BY <1>4
  <2>2. Plainly(more) = [k \in 1 .. N + 1 |-> Untitled(more[k])]
    <3> HIDE DEF more, N
    <3>1. QED
      BY <1>2 DEF Plainly
  <2>3. \A k \in 1 .. N : p[k] = Untitled(defs[k])
    BY <1>3
  <2>4. Untitled(more[N + 1]) = u /\ \A k \in 1 .. N : Untitled(more[k]) = p[k]
    <3> HIDE DEF more, N
    <3>1. QED
      BY <1>2, <2>3
  <2> HIDE DEF U, Y, p, u, more, N
  <2>5. /\ Append(p, u) = [k \in 1 .. N + 1 |-> Append(p, u)[k]]
        /\ Append(p, u)[N + 1] = u /\ \A k \in 1 .. N : Append(p, u)[k] = p[k]
    <3>1. Len(p) = N /\ Append(p, u) \in Seq(Y)
      BY <1>4, <2>1 DEF p
    <3>2. Len(Append(p, u)) = N + 1
      BY <2>1, <3>1
    <3>3. Append(p, u) = [k \in 1 .. N + 1 |-> Append(p, u)[k]]
      <4> DEFINE s == Append(p, u)
      <4> HIDE DEF s
      <4>1. s \in Seq(Y) /\ Len(s) = N + 1
        BY <3>1, <3>2 DEF s
      <4>2. s = [k \in 1 .. N + 1 |-> s[k]]
        BY <4>1
      <4>3. QED
        BY <4>2 DEF s
    <3>4. QED
      BY <1>1, <2>1, <3>1, <3>3
  <2>6. ASSUME NEW k \in 1 .. N + 1  PROVE Untitled(more[k]) = Append(p, u)[k]
    <3>1. k = N + 1 \/ k \in 1 .. N
      BY <1>1
    <3>2. QED
      BY <2>4, <2>5, <3>1
  <2>7. QED
    BY <2>2, <2>5, <2>6 DEF p, u
<1>6. QED
  BY <1>4, <1>5

\* thImportVars registers a name that cannot be written, or nothing.
LEMMA ImportDefines ==
  ASSUME NEW acc, {"r", "asked", "errors"} \subseteq DOMAIN acc, TableInv(acc.r), NEW n \in Names, NEW any
  PROVE  LET x == Import(acc, n, any)
         IN  /\ {"r", "asked", "errors"} \subseteq DOMAIN x
             /\ TableInv(x.r)
             /\ \/ x.asked = acc.asked /\ Meaning(x.r) = Meaning(acc.r)
                \/ \E d : /\ x.asked = Append(acc.asked, d)
                          /\ Meaning(x.r) = Registries!Define(Meaning(acc.r), Untitled(d))
<1> DEFINE x == Import(acc, n, any)
           w == WriteVar(acc.r, Plain(n), any)
           def == Imported(acc.r, n, any)
           reg == Register(acc.r, def)
           fresh == [reg EXCEPT !.memory = Append(@, [k \in 1 .. def.size |-> Junk])]
           w2 == WriteVar(fresh, Plain(n), any)
<1>1. TableInv(w.r) /\ Meaning(w.r) = Meaning(acc.r)
  BY WriteSame, SameMeaning
<1>2. IsEntry(def) /\ def.name = n
  BY DEF Imported, IsEntry
<1>3. TableInv(reg) /\ Meaning(reg) = Registries!Define(Meaning(acc.r), Untitled(Definition(def)))
  <2> HIDE DEF def
  <2>1. QED
    BY <1>2, RegisterDefines
<1>4. TableInv(fresh) /\ Meaning(fresh) = Meaning(reg)
  <2>1. IsProgram(reg)
    BY <1>3 DEF TableInv
  <2>2. IsProgram(fresh) /\ fresh.table = reg.table
    <3> HIDE DEF reg
    <3>1. QED
      BY <2>1 DEF IsProgram
  <2> HIDE DEF fresh, reg
  <2>3. QED
    BY <1>3, <2>2, SameItself, SameMeaning
<1>5. TableInv(w2.r) /\ Meaning(w2.r) = Meaning(reg)
  <2> HIDE DEF fresh, reg
  <2>1. QED
    BY <1>4, WriteSame, SameMeaning
<1>6. \/ x = [acc EXCEPT !.r = w.r]
      \/ x = [acc EXCEPT !.errors = @ + 1]
      \/ \E e : x = [r |-> w2.r, asked |-> Append(acc.asked, Definition(def)), errors |-> e]
  <2> HIDE DEF w, w2, def
  <2>1. QED
    BY DEF Import, w, w2, def
<1> HIDE DEF x, w, w2, def, reg, fresh
<1>7. CASE x = [acc EXCEPT !.r = w.r]
  BY <1>1, <1>7 DEF x
<1>8. CASE x = [acc EXCEPT !.errors = @ + 1]
  BY <1>8 DEF x
<1>9. CASE \E e : x = [r |-> w2.r, asked |-> Append(acc.asked, Definition(def)), errors |-> e]
  <2>1. /\ {"r", "asked", "errors"} \subseteq DOMAIN x
        /\ x.r = w2.r /\ x.asked = Append(acc.asked, Definition(def))
    BY <1>9
  <2>2. QED
    BY <1>3, <1>5, <2>1 DEF x
<1>10. QED
  BY <1>6, <1>7, <1>8, <1>9

\* What thImportVars registers are definitions, made one after the other.
LEMMA ImportAllDefines ==
  ASSUME NEW r, TableInv(r), NEW names \in Seq(Names), NEW vals
  PROVE  LET x == ImportAll(r, names, vals)
         IN  TableInv(x.r) /\ Meaning(x.r) = Registries!Defined(Meaning(r), Plainly(x.asked))
<1> DEFINE N == Len(names)
           Goes(x) == /\ {"r", "asked", "errors"} \subseteq DOMAIN x
                      /\ TableInv(x.r)
                      /\ \E W : x.asked \in Seq(W)
                      /\ Meaning(x.r) = Registries!Defined(Meaning(r), Plainly(x.asked))
<1>1. N \in Nat /\ \A k \in 1 .. N : names[k] \in Names
  OBVIOUS
<1>2. PICK f : /\ ImportAll(r, names, vals) = f[N]
               /\ f[0] = [r |-> r, asked |-> <<>>, errors |-> 0]
               /\ \A k \in 1 .. N : f[k] = Import(f[k - 1], names[k], vals[k])
  BY <1>1, ImportUnfolds
<1> DEFINE S == {n \in 0 .. N : Goes(f[n])}
<1>3. 0 \in S
  <2>1. <<>> \in Seq({})
    OBVIOUS
  <2>2. f[0].r = r /\ f[0].asked = <<>> /\ {"r", "asked", "errors"} \subseteq DOMAIN f[0]
    BY <1>2
  <2>3. Meaning(r) = Registries!Defined(Meaning(r), Plainly(<<>>))
    BY NothingDefined
  <2>4. Goes(f[0])
    BY <2>1, <2>2, <2>3
  <2> HIDE DEF Goes
  <2>5. QED
    BY <1>1, <2>4
<1>4. ASSUME NEW n \in 0 .. N - 1, n \in S  PROVE n + 1 \in S
  <2> DEFINE acc == f[n]
             x == Import(acc, names[n + 1], vals[n + 1])
  <2>1. n + 1 \in 1 .. N /\ (n + 1) - 1 = n /\ n + 1 \in 0 .. N
    BY <1>1
  <2>2. f[n + 1] = x /\ names[n + 1] \in Names
    BY <1>1, <1>2, <2>1
  <2>3. Goes(acc)
    BY <1>4
  <2> HIDE DEF acc
  <2>4. /\ {"r", "asked", "errors"} \subseteq DOMAIN x
        /\ TableInv(x.r)
        /\ \/ x.asked = acc.asked /\ Meaning(x.r) = Meaning(acc.r)
           \/ \E d : /\ x.asked = Append(acc.asked, d)
                     /\ Meaning(x.r) = Registries!Define(Meaning(acc.r), Untitled(d))
    BY <2>2, <2>3, ImportDefines
  <2> HIDE DEF x
  <2>5. ASSUME x.asked = acc.asked, Meaning(x.r) = Meaning(acc.r)  PROVE Goes(x)
    BY <2>3, <2>4, <2>5
  <2>6. ASSUME \E d : /\ x.asked = Append(acc.asked, d)
                      /\ Meaning(x.r) = Registries!Define(Meaning(acc.r), Untitled(d))
        PROVE  Goes(x)
    <3>1. PICK d : /\ x.asked = Append(acc.asked, d)
                   /\ Meaning(x.r) = Registries!Define(Meaning(acc.r), Untitled(d))
      BY <2>6
    <3>2. PICK W : acc.asked \in Seq(W)
      BY <2>3
    <3> DEFINE defs == acc.asked
               X == W \union {d}
    <3>3. defs \in Seq(X) /\ d \in X
      BY <3>2
    <3> HIDE DEF X
    <3>4. x.asked \in Seq(X)
      BY <3>1, <3>3
    <3>5. Plainly(x.asked) = Append(Plainly(defs), Untitled(d))
      BY <3>1, <3>2, PlainlyAppend
    <3>6. Registries!Defined(Meaning(r), Append(Plainly(defs), Untitled(d)))
            = Registries!Define(Registries!Defined(Meaning(r), Plainly(defs)), Untitled(d))
      <4>1. Plainly(defs) \in Seq({Untitled(w) : w \in W})
        BY <3>2, PlainlyAppend
      <4> HIDE DEF defs
      <4>2. QED
        BY <4>1, OneMoreDefined
    <3>7. QED
      BY <2>3, <2>4, <3>1, <3>4, <3>5, <3>6
  <2>7. Goes(x)
    BY <2>4, <2>5, <2>6
  <2> HIDE DEF Goes
  <2>8. QED
    BY <2>1, <2>2, <2>7
<1>5. 0 .. N \subseteq S
  <2> HIDE DEF S
  <2>1. QED
    BY <1>1, <1>3, <1>4, UpTo
<1>6. Goes(f[N])
  BY <1>1, <1>5
<1>7. QED
  BY <1>2, <1>6

-----------------------------------------------------------------------------
(* The calls.                                                              *)

\* The tables are proper, and what is on the client's list are names.
CallsInv ==
  /\ progs = [p \in Programs |-> progs[p]]
  /\ \A p \in Programs : TableInv(progs[p])
  /\ HistInv(progs["analyzer"])
  /\ list \in Seq(Names)
  /\ made \in [Programs -> Nat]

\* What a step makes of a program by what it asks for.
Becomes(p) ==
  /\ TableInv(progs'[p])
  /\ Meaning(progs'[p]) = Registries!Defined(Meaning(progs[p]), Plainly(asked'[p]))

\* A program whose table stays the same becomes what it was.
LEMMA StaysTheSame ==
  ASSUME NEW p, TableInv(progs[p]), SameTable(progs[p], progs'[p]), asked'[p] = <<>>
  PROVE  Becomes(p)
BY SameMeaning, NothingDefined DEF Becomes

\* Names as they are read, without an index.
LEMMA PlainNames ==
  ASSUME NEW names \in Seq(Names)
  PROVE  Len([k \in DOMAIN names |-> Plain(names[k])]) \in Nat
<1> DEFINE V == {Plain(n) : n \in Names}
           N == Len(names)
<1>1. N \in Nat /\ DOMAIN names = 1 .. N /\ \A k \in 1 .. N : Plain(names[k]) \in V
  OBVIOUS
<1> HIDE DEF V, N
<1>2. [k \in DOMAIN names |-> Plain(names[k])] \in [1 .. N -> V]
  BY <1>1
<1>3. QED
  BY <1>1, <1>2

\* A program's own registration is one definition; a block is booked.
LEMMA RegisterOwnStep ==
  ASSUME CallsInv, NEW q \in Programs, RegisterOwn(q)
  PROVE  CallsInv' /\ \A p \in Programs : Becomes(p)
<1> DEFINE def == Vars[q][made[q] + 1]
           r == Register(progs[q], def)
           s == IF def.hook = "block" THEN Book(r, def) ELSE r
<1>1. /\ progs' = [progs EXCEPT ![q] = s]
      /\ asked' = [p \in Programs |-> IF p = q THEN <<Definition(def)>> ELSE <<>>]
      /\ made' = [made EXCEPT ![q] = @ + 1] /\ list' = list
  BY DEF RegisterOwn
<1>2. IsEntry(def) /\ def.name \in Names
  <2>1. made[q] + 1 \in 1 .. Len(Vars[q])
    <3>1. made[q] \in Nat /\ made[q] < Len(Vars[q]) /\ Len(Vars[q]) \in Nat
      BY CallsAssumption DEF RegisterOwn, CallsInv
    <3>2. QED
      BY <3>1
  <2>2. QED
    BY <2>1, CallsAssumption DEF IsEntry
<1>3. /\ TableInv(r)
      /\ Meaning(r) = Registries!Define(Meaning(progs[q]), Untitled(Definition(def)))
      /\ IsProgram(r)
  <2> HIDE DEF def
  <2>1. TableInv(progs[q])
    BY DEF CallsInv
  <2>2. QED
    BY <1>2, <2>1, RegisterDefines DEF TableInv
<1>4. TableInv(s) /\ Meaning(s) = Meaning(r)
  <2> HIDE DEF r, def
  <2>1. CASE def.hook = "block"
    <3> DEFINE b == Book(r, def)
    <3>1. IsProgram(b) /\ b.table = r.table
      BY <1>3, BookLeaves
    <3> HIDE DEF b
    <3>2. TableInv(b) /\ Meaning(b) = Meaning(r)
      BY <1>3, <3>1, SameItself, SameMeaning
    <3>3. QED
      BY <2>1, <3>2 DEF b
  <2>2. CASE ~(def.hook = "block")
    BY <1>3, <2>2
  <2>3. QED
    BY <2>1, <2>2
<1>5. q = "analyzer" => HistInv(s)
  <2>1. ASSUME q = "analyzer"  PROVE HistInv(r)
    <3>1. HistInv(progs[q]) /\ IsProgram(progs[q])
      BY <2>1 DEF CallsInv, TableInv
    <3>2. r.hbook = progs[q].hbook /\ r.lastid = progs[q].lastid /\ r.nx = progs[q].nx
      <4> HIDE DEF def
      <4>1. QED
        BY <3>1 DEF Register, Changed, HashAdd, IsProgram
    <3> HIDE DEF r
    <3>3. QED
      BY <3>1, <3>2 DEF HistInv
  <2> HIDE DEF r, def
  <2>2. Book(r, def).lastid = NoId
    BY <1>3, BookLeaves
  <2>3. HistInv(Book(r, def))
    BY <2>2 DEF HistInv
  <2>4. QED
    BY <2>1, <2>3
<1> HIDE DEF s, r
<1>6. /\ progs'[q] = s
      /\ \A p \in Programs : p # q => progs'[p] = progs[p]
      /\ progs' = [p \in Programs |-> progs'[p]]
  BY <1>1 DEF CallsInv
<1>7. Becomes(q)
  <2> DEFINE D == Definition(def)
  <2>1. asked'[q] = <<D>>
    BY <1>1
  <2> HIDE DEF D, def
  <2>2. <<D>> = Append(<<>>, D) /\ <<>> \in Seq({})
    OBVIOUS
  <2>3. Plainly(<<D>>) = Append(<<>>, Untitled(D))
    BY <2>2, PlainlyAppend, NothingDefined
  <2>4. \A m : Registries!Defined(m, Append(<<>>, Untitled(D))) = Registries!Define(m, Untitled(D))
    <3>1. ASSUME NEW m
          PROVE  Registries!Defined(m, Append(<<>>, Untitled(D)))
                   = Registries!Define(Registries!Defined(m, <<>>), Untitled(D))
      BY <2>2, OneMoreDefined
    <3>2. QED
      BY <3>1, NothingDefined
  <2>5. QED
    BY <1>3, <1>4, <1>6, <2>1, <2>3, <2>4 DEF Becomes, D
<1>8. ASSUME NEW p \in Programs, p # q  PROVE Becomes(p)
  <2>1. progs'[p] = progs[p] /\ asked'[p] = <<>> /\ TableInv(progs[p])
    BY <1>1, <1>6, <1>8 DEF CallsInv
  <2>2. SameTable(progs[p], progs'[p])
    BY <2>1, SameItself DEF TableInv
  <2>3. QED
    BY <2>1, <2>2, StaysTheSame
<1>9. \A p \in Programs : Becomes(p)
  BY <1>7, <1>8
<1>10. HistInv(progs'["analyzer"])
  <2>1. "analyzer" \in Programs
    BY DEF Programs
  <2>2. QED
    BY <1>5, <1>6, <2>1 DEF CallsInv
<1>11. made' \in [Programs -> Nat]
  BY <1>1 DEF CallsInv
<1>12. QED
  BY <1>1, <1>6, <1>9, <1>10, <1>11 DEF CallsInv, Becomes

\* Steps that register nothing and leave the tables the same.
LEMMA QuietStep ==
  ASSUME CallsInv, Quiet, made' = made, list' \in Seq(Names),
         progs' = [p \in Programs |-> progs'[p]],
         \A p \in Programs : SameTable(progs[p], progs'[p]),
         HistInv(progs'["analyzer"])
  PROVE  CallsInv' /\ \A p \in Programs : Becomes(p)
<1>1. ASSUME NEW p \in Programs  PROVE Becomes(p)
  BY StaysTheSame DEF CallsInv, Quiet
<1>2. QED
  BY <1>1 DEF CallsInv, Becomes

\* Programs that are not changed.
LEMMA NotChanged ==
  ASSUME CallsInv, progs' = progs
  PROVE  /\ progs' = [p \in Programs |-> progs'[p]]
         /\ \A p \in Programs : SameTable(progs[p], progs'[p])
         /\ HistInv(progs'["analyzer"])
<1>1. ASSUME NEW p \in Programs  PROVE SameTable(progs[p], progs'[p])
  <2>1. TableInv(progs[p]) /\ IsProgram(progs[p])
    BY DEF CallsInv, TableInv
  <2>2. QED
    BY <2>1, SameItself
<1>2. QED
  BY <1>1 DEF CallsInv

\* The analyzer changed in its values and titles, perhaps the client too.
LEMMA BothChanged ==
  ASSUME CallsInv, NEW a, NEW c, SameTable(progs["analyzer"], a), HistInv(a), SameTable(progs["client"], c),
         progs' = [analyzer |-> a, client |-> c]
  PROVE  /\ progs' = [p \in Programs |-> progs'[p]]
         /\ \A p \in Programs : SameTable(progs[p], progs'[p])
         /\ HistInv(progs'["analyzer"])
BY DEF Programs

\* The analyzer changed alone.
LEMMA AnalyzerChanged ==
  ASSUME CallsInv, NEW a, SameTable(progs["analyzer"], a), HistInv(a),
         progs' = [progs EXCEPT !["analyzer"] = a]
  PROVE  /\ progs' = [p \in Programs |-> progs'[p]]
         /\ \A p \in Programs : SameTable(progs[p], progs'[p])
         /\ HistInv(progs'["analyzer"])
<1>1. "analyzer" \in Programs /\ progs = [p \in Programs |-> progs[p]]
  BY DEF CallsInv, Programs
<1>2. /\ progs' = [p \in Programs |-> progs'[p]]
      /\ progs'["analyzer"] = a /\ \A p \in Programs : p # "analyzer" => progs'[p] = progs[p]
  BY <1>1
<1>3. ASSUME NEW p \in Programs, p # "analyzer"  PROVE SameTable(progs[p], progs'[p])
  <2>1. TableInv(progs[p]) /\ IsProgram(progs[p])
    BY DEF CallsInv, TableInv
  <2>2. QED
    BY <1>2, <1>3, <2>1, SameItself
<1>4. QED
  BY <1>2, <1>3

\* An event leaves new values in the analyzer's variables.
LEMMA EventStep ==
  ASSUME CallsInv, Event
  PROVE  CallsInv' /\ \A p \in Programs : Becomes(p)
<1> DEFINE r == progs["analyzer"]
<1>1. PICK c : progs' = [progs EXCEPT !["analyzer"].memory[c.place] = c.cells]
  BY DEF Event
<1> DEFINE memory == [r.memory EXCEPT ![c.place] = c.cells]
           a == [r EXCEPT !.memory = memory]
<1>2. TableInv(r) /\ IsProgram(r) /\ HistInv(r)
  BY DEF CallsInv, TableInv, Programs
<1>3. IsProgram(a) /\ a.table = r.table /\ HistInv(a)
  <2> HIDE DEF memory, r
  <2>1. QED
    BY <1>2 DEF IsProgram, HistInv
<1>4. progs' = [progs EXCEPT !["analyzer"] = a]
  BY <1>1
<1> HIDE DEF a
<1>5. SameTable(r, a)
  BY <1>2, <1>3, SameItself
<1>6. QED
  BY <1>3, <1>4, <1>5, AnalyzerChanged, QuietStep DEF Event, CallsInv

\* New names go to the head of the client's list.
LEMMA AddToListStep ==
  ASSUME CallsInv, AddToList
  PROVE  CallsInv' /\ \A p \in Programs : Becomes(p)
<1>1. PICK pattern : list' = Reverse(List(progs["client"], pattern)) \o list
  BY DEF AddToList
<1> DEFINE new == List(progs["client"], pattern)
<1>2. new \in Seq(Names)
  BY ListIs DEF CallsInv, Programs
<1> HIDE DEF new
<1>3. Reverse(new) \in Seq(Names)
  <2> DEFINE n == Len(new)
  <2>1. n \in Nat /\ DOMAIN new = 1 .. n /\ \A k \in 1 .. n : new[k] \in Names
    BY <1>2
  <2>2. Reverse(new) = [k \in 1 .. n |-> new[(n - k) + 1]]
    BY DEF Reverse
  <2>3. \A k \in 1 .. n : (n - k) + 1 \in 1 .. n
    BY <2>1
  <2> HIDE DEF n
  <2>4. Reverse(new) \in [1 .. n -> Names]
    BY <2>1, <2>2, <2>3
  <2>5. QED
    BY <2>1, <2>4
<1>4. list' \in Seq(Names)
  BY <1>1, <1>3 DEF CallsInv, new
<1>5. QED
  BY <1>4, NotChanged, QuietStep DEF AddToList, Calling

\* Names are taken out of it.
LEMMA RemoveFromListStep ==
  ASSUME CallsInv, RemoveFromList
  PROVE  CallsInv' /\ \A p \in Programs : Becomes(p)
<1>1. \E T : list' = Those(list, T)
  BY DEF RemoveFromList
<1>2. list' \in Seq(Names)
  BY <1>1, ThoseProperties DEF CallsInv
<1>3. QED
  BY <1>2, NotChanged, QuietStep DEF RemoveFromList, Calling

\* What the analyzer reads for a call changes nothing but what is remembered.
LEMMA Served ==
  ASSUME CallsInv, NEW names, Len(names) \in Nat
  PROVE  LET s == ReadMultiple(progs["analyzer"], names).r
         IN  SameTable(progs["analyzer"], s) /\ HistInv(s)
<1>1. LET r == progs["analyzer"] IN TableInv(r) /\ IsProgram(r) /\ HistInv(r)
  BY DEF CallsInv, TableInv, Programs
<1>2. QED
  BY <1>1, ReadMultipleLeaves, SameItself

\* The client gets the values of the names on its list, or the call fails.
LEMMA GetListStep ==
  ASSUME CallsInv, GetList
  PROVE  CallsInv' /\ \A p \in Programs : Becomes(p)
<1> DEFINE names == [k \in DOMAIN list |-> Plain(list[k])]
           served == ReadMultiple(progs["analyzer"], names)
           mine == Copy(progs["client"], list, served.vals)
<1>1. progs' = [analyzer |-> served.r, client |-> mine.r] \/ progs' = progs
  BY DEF GetList
<1>2. Len(names) \in Nat /\ Len(list) \in Nat
  BY PlainNames DEF CallsInv
<1>3. SameTable(progs["analyzer"], served.r) /\ HistInv(served.r)
  <2> HIDE DEF names
  <2>1. QED
    BY <1>2, Served
<1>4. SameTable(progs["client"], mine.r)
  <2> HIDE DEF served
  <2>1. TableInv(progs["client"])
    BY DEF CallsInv, Programs
  <2>2. QED
    BY <1>2, <2>1, CopySame
<1>5. made' = made /\ Quiet /\ list' \in Seq(Names)
  BY DEF GetList, Calling, CallsInv
<1> HIDE DEF served, mine
<1>6. QED
  BY <1>1, <1>3, <1>4, <1>5, NotChanged, BothChanged, QuietStep

\* The client imports variables, registering those it has not.
LEMMA ImportVarsStep ==
  ASSUME CallsInv, ImportVars
  PROVE  CallsInv' /\ \A p \in Programs : Becomes(p)
<1>1. PICK pattern :
        LET names == List(progs["analyzer"], pattern)
            served == ReadMultiple(progs["analyzer"], [k \in DOMAIN names |-> Plain(names[k])])
            mine == ImportAll(progs["client"], names, served.vals)
        IN  \/ /\ progs' = [analyzer |-> served.r, client |-> mine.r]
               /\ asked' = [analyzer |-> <<>>, client |-> mine.asked]
            \/ Quiet /\ progs' = progs
  BY DEF ImportVars
<1> DEFINE names == List(progs["analyzer"], pattern)
           plain == [k \in DOMAIN names |-> Plain(names[k])]
           served == ReadMultiple(progs["analyzer"], plain)
           mine == ImportAll(progs["client"], names, served.vals)
<1>2. names \in Seq(Names)
  BY ListIs DEF CallsInv, Programs
<1>3. Len(plain) \in Nat
  <2> HIDE DEF names
  <2>1. QED
    BY <1>2, PlainNames
<1>4. SameTable(progs["analyzer"], served.r) /\ HistInv(served.r)
  <2> HIDE DEF plain
  <2>1. QED
    BY <1>3, Served
<1>5. /\ TableInv(mine.r)
      /\ Meaning(mine.r) = Registries!Defined(Meaning(progs["client"]), Plainly(mine.asked))
  <2> HIDE DEF served, names
  <2>1. TableInv(progs["client"])
    BY DEF CallsInv, Programs
  <2>2. QED
    BY <1>2, <2>1, ImportAllDefines
<1>6. made' = made /\ list' = list /\ list' \in Seq(Names)
  BY DEF ImportVars, Calling, CallsInv
<1>7. \/ /\ progs' = [analyzer |-> served.r, client |-> mine.r]
         /\ asked' = [analyzer |-> <<>>, client |-> mine.asked]
      \/ Quiet /\ progs' = progs
  BY <1>1
<1> HIDE DEF served, mine, plain, names
<1>8. CASE Quiet /\ progs' = progs
  BY <1>6, <1>8, NotChanged, QuietStep
<1>9. CASE /\ progs' = [analyzer |-> served.r, client |-> mine.r]
           /\ asked' = [analyzer |-> <<>>, client |-> mine.asked]
  <2>1. progs'["analyzer"] = served.r /\ progs'["client"] = mine.r
        /\ asked'["analyzer"] = <<>> /\ asked'["client"] = mine.asked
    BY <1>9
  <2>2. Becomes("analyzer")
    <3>1. TableInv(progs["analyzer"])
      BY DEF CallsInv, Programs
    <3>2. QED
      BY <1>4, <2>1, <3>1, StaysTheSame
  <2>3. Becomes("client")
    BY <1>5, <2>1 DEF Becomes
  <2>4. \A p \in Programs : Becomes(p)
    BY <2>2, <2>3 DEF Programs
  <2>5. progs' = [p \in Programs |-> progs'[p]]
    BY <1>9 DEF Programs
  <2>6. HistInv(progs'["analyzer"])
    BY <1>4, <2>1
  <2>7. QED
    BY <1>6, <2>4, <2>5, <2>6 DEF CallsInv, Becomes
<1>10. QED
  BY <1>7, <1>8, <1>9

\* A read of one variable.
LEMMA ReadStep ==
  ASSUME CallsInv, Read
  PROVE  CallsInv' /\ \A p \in Programs : Becomes(p)
<1>1. PICK name : progs' = [progs EXCEPT !["analyzer"] = ReadMultiple(progs["analyzer"], <<name>>).r]
  BY DEF Read
<1> DEFINE a == ReadMultiple(progs["analyzer"], <<name>>).r
<1>2. SameTable(progs["analyzer"], a) /\ HistInv(a)
  <2>1. Len(<<name>>) \in Nat
    OBVIOUS
  <2>2. QED
    BY <2>1, Served
<1>3. made' = made /\ Quiet /\ list' \in Seq(Names)
  BY DEF Read, Calling, CallsInv
<1>4. progs' = [progs EXCEPT !["analyzer"] = a]
  BY <1>1
<1> HIDE DEF a
<1>5. QED
  BY <1>2, <1>3, <1>4, AnalyzerChanged, QuietStep

\* A write of one variable.
LEMMA WriteStep ==
  ASSUME CallsInv, Write
  PROVE  CallsInv' /\ \A p \in Programs : Becomes(p)
<1>1. PICK w : progs' = [progs EXCEPT !["analyzer"] = WriteMultiple(progs["analyzer"], <<w>>).r]
  BY DEF Write
<1> DEFINE a == WriteMultiple(progs["analyzer"], <<w>>).r
<1>2. SameTable(progs["analyzer"], a) /\ HistInv(a)
  <2>1. Len(<<w>>) \in Nat
    OBVIOUS
  <2>2. TableInv(progs["analyzer"]) /\ HistInv(progs["analyzer"])
    BY DEF CallsInv, Programs
  <2>3. QED
    BY <2>1, <2>2, WriteMultipleSame
<1>3. made' = made /\ Quiet /\ list' \in Seq(Names)
  BY DEF Write, Calling, CallsInv
<1>4. progs' = [progs EXCEPT !["analyzer"] = a]
  BY <1>1
<1> HIDE DEF a
<1>5. QED
  BY <1>2, <1>3, <1>4, AnalyzerChanged, QuietStep

\* Every step keeps the tables proper and defines what it registers.
LEMMA NextStep ==
  ASSUME CallsInv, Next
  PROVE  CallsInv' /\ \A p \in Programs : Becomes(p)
BY RegisterOwnStep, EventStep, AddToListStep, RemoveFromListStep, GetListStep, ImportVarsStep, ReadStep, WriteStep
   DEF Next

\* A program in which nothing is registered.
LEMMA NewIs ==
  ASSUME NEW arrays
  PROVE  LET r == NewProgram(arrays)
         IN  /\ TableInv(r) /\ HistInv(r)
             /\ Meaning(r) = [n \in Names |-> NoEntry]
             /\ List(r, Everything) = <<>>
<1> DEFINE r == NewProgram(arrays)
<1>1. r.table = [b \in 1 .. Buckets |-> <<>>] /\ IsProgram(r) /\ HistInv(r)
  BY DEF NewProgram, IsProgram, HistInv
<1> HIDE DEF r
<1>2. TableInv(r)
  <2>1. r.table \in [1 .. Buckets -> Seq({})]
    BY <1>1
  <2>2. \A b \in 1 .. Buckets : DOMAIN r.table[b] = {}
    BY <1>1
  <2>3. QED
    BY <1>1, <2>1, <2>2 DEF TableInv
<1>3. ASSUME NEW n \in Names  PROVE Untitled(LookupP(r, n)) = NoEntry
  <2>1. DOMAIN r.table[Bucket(n)] = {}
    BY <1>1, BucketIs
  <2>2. LookupP(r, n) = NoEntry
    BY <2>1, Zenon DEF LookupP
  <2>3. QED
    BY <2>2 DEF Untitled
<1>4. Meaning(r) = [n \in Names |-> NoEntry]
  BY <1>3, Zenon DEF Meaning
<1>5. List(r, Everything) = <<>>
  <2>1. List(r, Everything) \in Seq(Names)
    BY <1>2, ListIs
  <2>2. \A x : x \notin ToSet(HashWalk(r))
    <3>1. \A b \in 1 .. Buckets : DOMAIN r.table[b] = {}
      BY <1>1
    <3>2. QED
      BY <1>2, <3>1, WalkIs
  <2>3. HashWalk(r) \in Seq(Names)
    BY <1>2, WalkIs
  <2>4. ToSet(List(r, Everything)) = {}
    BY <2>2, <2>3, ThoseProperties DEF List
  <2> DEFINE s == List(r, Everything)
  <2> HIDE DEF s
  <2>5. s \in Seq(Names) /\ \A k \in DOMAIN s : s[k] \in ToSet(s)
    BY <2>1 DEF s, ToSet
  <2>6. s = <<>>
    <3>1. \A k \in 1 .. Len(s) : FALSE
      BY <2>4, <2>5 DEF s
    <3>2. Len(s) \in Nat
      BY <2>5
    <3>3. Len(s) = 0
      <4>1. ~(1 <= Len(s))
        BY <3>1, <3>2
      <4>2. QED
        BY <3>2, <4>1
    <3>4. QED
      BY <2>5, <3>3
  <2>7. QED
    BY <2>6 DEF s
<1>6. QED
  BY <1>1, <1>2, <1>4, <1>5 DEF r

\* The invariant the registries are in.
LEMMA CallsInvariant == Spec => []CallsInv
<1>1. Init => CallsInv
  <2>1. SUFFICES ASSUME Init  PROVE CallsInv
    OBVIOUS
  <2>2. progs = [p \in Programs |-> NewProgram(Arrays[p])]
    BY <2>1 DEF Init
  <2>3. \A p \in Programs : progs[p] = NewProgram(Arrays[p])
    BY <2>2
  <2>4. progs = [p \in Programs |-> progs[p]]
    BY <2>2
  <2>5. list \in Seq(Names) /\ made \in [Programs -> Nat]
    BY <2>1 DEF Init
  <2>6. "analyzer" \in Programs
    BY DEF Programs
  <2>7. QED
    BY <2>3, <2>4, <2>5, <2>6, NewIs DEF CallsInv
<1>2. CallsInv /\ [Next]_vars => CallsInv'
  <2>1. CallsInv /\ Next => CallsInv'
    BY NextStep
  <2>2. CallsInv /\ UNCHANGED vars => CallsInv'
    BY DEF CallsInv, vars
  <2>3. QED
    BY <2>1, <2>2
<1>3. QED
  BY <1>1, <1>2, PTL DEF Spec

\* daVarRegister, daVarList and the calls that register for a client treat the
\* tables of buckets as dictionaries: a name has one meaning in every spelling,
\* the one it was last registered with, is never lost, and is listed once.
THEOREM TablesAreDictionaries == Spec => IsDictionary
<1> DEFINE meaning == [p \in Programs |-> Meaning(progs[p])]
           listing == [p \in Programs |-> List(progs[p], Everything)]
           plain == [p \in Programs |-> Plainly(asked[p])]
<1>1. Init => Registries!Init
  <2>1. SUFFICES ASSUME Init  PROVE Registries!Init
    OBVIOUS
  <2>2. ASSUME NEW p \in Programs
        PROVE  Meaning(progs[p]) = [n \in Names |-> NoEntry] /\ List(progs[p], Everything) = <<>>
    <3>1. progs[p] = NewProgram(Arrays[p])
      BY <2>1 DEF Init
    <3>2. QED
      BY <3>1, NewIs
  <2>3. ASSUME NEW p \in Programs  PROVE Plainly(asked[p]) = <<>>
    <3>1. asked[p] = <<>>
      BY <2>1 DEF Init
    <3>2. QED
      BY <3>1, NothingDefined
  <2>4. QED
    BY <2>2, <2>3, Zenon DEF Registries!Init, Plainly
<1>2. CallsInv /\ CallsInv' /\ [Next]_vars => [Registries!Next]_<<meaning, listing, plain>>
  <2>1. ASSUME CallsInv, CallsInv', Next  PROVE Registries!Next
    <3>1. ASSUME NEW p \in Programs
          PROVE  Meaning(progs[p])' = Registries!Defined(Meaning(progs[p]), Plainly(asked[p])')
      BY <2>1, NextStep DEF Becomes
    <3>2. ASSUME NEW p \in Programs
          PROVE  Registries!Lists(List(progs[p], Everything)', Meaning(progs[p])')
      BY <2>1, Listed DEF CallsInv
    <3>3. meaning' = [p \in Programs |-> Registries!Defined(meaning[p], Plainly(asked[p])')]
      BY <3>1
    <3>4. \A p \in Programs : \A names \in {listing'[p]} : Registries!Lists(names, meaning'[p])
      BY <3>2
    <3>5. QED
      BY <3>3, <3>4 DEF Registries!Next, Plainly
  <2>2. UNCHANGED vars => UNCHANGED <<meaning, listing, plain>>
    BY DEF vars
  <2>3. QED
    BY <2>1, <2>2
<1>3. [Registries!Next]_<<meaning, listing, plain>> =>
        [Registries!Next]_<<meaning, listing, [p \in Programs |-> [k \in DOMAIN asked[p] |-> Untitled(asked[p][k])]]>>
  BY DEF Plainly
<1>4. QED
  BY <1>1, <1>2, <1>3, CallsInvariant, PTL DEF Spec, IsDictionary, Registries!Spec

-----------------------------------------------------------------------------
(* Histograms.                                                             *)

\* What a name is the name of depends on the table only.
LEMMA SameFound ==
  ASSUME NEW r, NEW s, s.table = r.table, NEW n, NEW class
  PROVE  ClassFind(s, n) = ClassFind(r, n) /\ AttributeFind(s, n, class) = AttributeFind(r, n, class)
<1>1. \A m : LookupP(s, m) = LookupP(r, m)
  <2> DEFINE In(table, m) ==
               LET chain == table[Bucket(m)]
                   Is(k) == Same(chain[k].name, m)
               IN  IF \A k \in DOMAIN chain : ~Is(k) THEN NoEntry
                   ELSE chain[CHOOSE k \in DOMAIN chain : Is(k) /\ \A j \in 1 .. k - 1 : ~Is(j)]
  <2>1. \A m : LookupP(s, m) = In(s.table, m) /\ LookupP(r, m) = In(r.table, m)
    BY Zenon DEF LookupP
  <2> HIDE DEF In
  <2>2. QED
    BY <2>1
<1>2. \A m : Known(s, m) = Known(r, m)
  BY DEF Known
<1>3. {k \in DOMAIN n : Known(s, SubSeq(n, 1, k))} = {k \in DOMAIN n : Known(r, SubSeq(n, 1, k))}
  BY <1>2
<1>4. {k \in Len(class.name) + 1 .. Len(n) : Known(s, SubSeq(n, 1, k))}
        = {k \in Len(class.name) + 1 .. Len(n) : Known(r, SubSeq(n, 1, k))}
  BY <1>2
<1>5. ClassFind(s, n) = ClassFind(r, n)
  BY <1>1, <1>3, Zenon DEF ClassFind
<1>6. AttributeFind(s, n, class) = AttributeFind(r, n, class)
  BY <1>1, <1>4, Zenon DEF AttributeFind
<1>7. QED
  BY <1>5, <1>6

\* A read of one name answers what its handler reads.
LEMMA OneRead ==
  ASSUME NEW r, NEW name
  PROVE  LET served == ReadMultiple(r, <<name>>)
         IN  served.r = ReadVar(r, name).r /\ served.vals[1] = ReadVar(r, name).any
<1>1. Len(<<name>>) = 1 /\ <<name>>[1] = name
  OBVIOUS
<1> DEFINE names == <<name>>
<1> HIDE DEF names
<1>2. Len(names) = 1 /\ names[1] = name
  BY <1>1 DEF names
<1>3. PICK f : /\ ReadMultiple(r, names) = f[Len(names)]
               /\ f[0] = [r |-> r, vals |-> <<>>]
               /\ \A k \in 1 .. Len(names) : f[k] = ReadNext(f[k - 1], names[k])
  <2>1. Len(names) \in Nat
    BY <1>2
  <2>2. QED
    BY <2>1, ReadUnfolds
<1>4. f[1] = ReadNext([r |-> r, vals |-> <<>>], name)
  BY <1>2, <1>3
<1> DEFINE x == ReadVar(r, name)
<1>5. ReadNext([r |-> r, vals |-> <<>>], name) = [r |-> x.r, vals |-> Append(<<>>, x.any)]
  BY DEF ReadNext
<1>6. Append(<<>>, x.any)[1] = x.any
  <2> HIDE DEF x
  <2>1. QED
    OBVIOUS
<1>7. ReadMultiple(r, names).r = x.r /\ ReadMultiple(r, names).vals[1] = x.any
  BY <1>2, <1>3, <1>4, <1>5, <1>6, SMTT(30)
<1>8. QED
  BY <1>7 DEF names

\* The bins that are read of a histogram that is booked are its own.
LEMMA BinsRead ==
  ASSUME NEW r, IsProgram(r), HistInv(r), NEW name, NEW class, NEW f,
         class = ClassFind(r, name.name), f = AttributeFind(r, name.name, class),
         class # NoEntry, class.hook = "hist", f.attr = <<"nx">>,
         r.memory[f.var.place][1] \in DOMAIN r.hbook \ {NoId}
  PROVE  ReadVar(r, name).any = Ints(<<2 * r.hbook[r.memory[f.var.place][1]]>>)
<1> DEFINE id == r.memory[f.var.place][1]
           s == IF r.lastid = id THEN r
                ELSE [r EXCEPT !.lastid = id, !.nx = IF id \in DOMAIN r.hbook THEN r.hbook[id] ELSE 0]
           read == HistRHandler(r, f, name.index)
<1>1. ReadVar(r, name) = read
  <2> HIDE DEF read
  <2>1. QED
    BY DEF ReadVar, read
<1>2. s.nx = r.hbook[id]
  <2> HIDE DEF id
  <2>1. QED
    BY DEF HistInv, IsProgram, id
<1>3. Unanswered(f.attr)
  BY DEF Unanswered, IsValue
<1>4. read.any = Ints(<<2 * s.nx>>)
  <2> HIDE DEF s, id
  <2>1. QED
    BY <1>3 DEF HistRHandler, s, id
<1>5. QED
  BY <1>1, <1>2, <1>4

\* A read of one variable answers it as it is now.
LEMMA ReadCurrent ==
  ASSUME CallsInv, Read
  PROVE  HistCurrent'
<1> DEFINE r == progs["analyzer"]
<1>1. PICK name \in Reads :
        LET served == ReadMultiple(r, <<name>>) IN
        /\ progs' = [progs EXCEPT !["analyzer"] = served.r]
        /\ answer' = [NoAnswer EXCEPT !.call = "read", !.names = <<name>>, !.any = served.vals[1]]
  BY DEF Read
<1> DEFINE served == ReadMultiple(r, <<name>>)
           s == ReadVar(r, name).r
<1>2. served.r = s /\ served.vals[1] = ReadVar(r, name).any
  BY OneRead
<1> HIDE DEF served
<1>3. answer'.names = <<name>> /\ answer'.any = ReadVar(r, name).any
  BY <1>1, <1>2 DEF NoAnswer, served
<1>4. progs'["analyzer"] = s
  <2>1. progs = [p \in Programs |-> progs[p]] /\ "analyzer" \in Programs
    BY DEF CallsInv, Programs
  <2>2. progs' = [progs EXCEPT !["analyzer"] = served.r]
    BY <1>1 DEF served
  <2>3. progs'["analyzer"] = served.r
    BY <2>1, <2>2
  <2>4. QED
    BY <1>2, <2>3
<1>5. IsProgram(r) /\ HistInv(r)
  BY DEF CallsInv, TableInv, Programs
<1> HIDE DEF r
<1>6. s.table = r.table /\ s.memory = r.memory /\ s.hbook = r.hbook
  BY <1>5, ReadLeaves
<1> HIDE DEF s
<1> DEFINE class == ClassFind(s, name.name)
           f == AttributeFind(s, name.name, class)
           id == s.memory[f.var.place][1]
<1>7. ASSUME class # NoEntry, class.hook = "hist", f.attr = <<"nx">>, id \in DOMAIN s.hbook \ {NoId}
      PROVE  ReadVar(r, name).any = Ints(<<2 * s.hbook[id]>>)
  <2>1. class = ClassFind(r, name.name) /\ f = AttributeFind(r, name.name, class)
    BY <1>6, SameFound
  <2>2. id = r.memory[f.var.place][1]
    BY <1>6
  <2> HIDE DEF class, f
  <2>3. r.memory[f.var.place][1] \in DOMAIN r.hbook \ {NoId}
    BY <1>6, <1>7, <2>2, SMTT(30)
  <2>4. ReadVar(r, name).any = Ints(<<2 * r.hbook[r.memory[f.var.place][1]]>>)
    BY <1>5, <1>7, <2>1, <2>3, BinsRead
  <2> HIDE DEF id
  <2>5. QED
    BY <1>6, <2>2, <2>4
<1>8. ToSet(<<name>>) = {name}
  BY DEF ToSet
<1> HIDE DEF class, f, id
<1>9. class # NoEntry /\ class.hook = "hist" /\ f.attr = <<"nx">> /\ id \in DOMAIN s.hbook \ {NoId}
        => answer'.any = Ints(<<2 * s.hbook[id]>>)
  BY <1>3, <1>7
<1>10. QED
  BY <1>3, <1>4, <1>8, <1>9, Zenon DEF HistCurrent, class, f, id

\* thHistRHandler asks HGIVE only when the histogram is another than the last:
\* what it answers is how the histogram is booked now, since booking forgets
\* the last (histZeroLastId).
THEOREM HistogramsCurrent == Spec => []HistCurrent
<1>1. Init => HistCurrent
  <2>1. Init => answer.call # "read"
    BY DEF Init, NoAnswer
  <2>2. QED
    BY <2>1 DEF HistCurrent
<1>2. CallsInv /\ HistCurrent /\ [Next]_vars => HistCurrent'
  <2>1. ASSUME CallsInv, Read  PROVE HistCurrent'
    BY <2>1, ReadCurrent
  <2>2. ASSUME Next, ~Read  PROVE answer'.call # "read"
    <3>1. NoAnswer.call # "read"
      BY DEF NoAnswer
    <3>2. \A p \in Programs : RegisterOwn(p) => answer' = NoAnswer
      BY DEF RegisterOwn
    <3>3. Event \/ AddToList \/ RemoveFromList => answer' = NoAnswer
      BY DEF Event, AddToList, RemoveFromList
    <3>4. ASSUME GetList  PROVE answer'.call # "read"
      <4>1. \E names, errors :
              \/ answer' = [NoAnswer EXCEPT !.call = "get", !.names = names, !.errors = errors]
              \/ answer' = [NoAnswer EXCEPT !.call = "get", !.errors = errors]
        BY <3>4, Zenon DEF GetList
      <4>2. PICK names, errors :
              \/ answer' = [NoAnswer EXCEPT !.call = "get", !.names = names, !.errors = errors]
              \/ answer' = [NoAnswer EXCEPT !.call = "get", !.errors = errors]
        BY <4>1
      <4>3. QED
        BY <4>2 DEF NoAnswer
    <3>5. ASSUME ImportVars  PROVE answer'.call # "read"
      <4>1. \E names, errors :
              \/ answer' = [NoAnswer EXCEPT !.call = "import", !.names = names, !.errors = errors]
              \/ answer' = [NoAnswer EXCEPT !.call = "import", !.errors = errors]
        BY <3>5, Zenon DEF ImportVars
      <4>2. PICK names, errors :
              \/ answer' = [NoAnswer EXCEPT !.call = "import", !.names = names, !.errors = errors]
              \/ answer' = [NoAnswer EXCEPT !.call = "import", !.errors = errors]
        BY <4>1
      <4>3. QED
        BY <4>2 DEF NoAnswer
    <3>6. ASSUME Write  PROVE answer'.call # "read"
      <4>1. PICK names, any, errors :
              answer' = [call |-> "write", names |-> names, any |-> any, errors |-> errors]
        BY <3>6, Zenon DEF Write
      <4>2. QED
        BY <4>1
    <3>7. QED
      BY <2>2, <3>1, <3>2, <3>3, <3>4, <3>5, <3>6 DEF Next
  <2>3. answer'.call # "read" => HistCurrent'
    BY SMTT(30) DEF HistCurrent
  <2>4. ASSUME HistCurrent, UNCHANGED vars  PROVE HistCurrent'
    BY <2>4 DEF HistCurrent, vars
  <2>5. QED
    BY <2>1, <2>2, <2>3, <2>4
<1>3. QED
  BY <1>1, <1>2, CallsInvariant, PTL DEF Spec
=============================================================================
