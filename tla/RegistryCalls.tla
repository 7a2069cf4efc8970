----------------------------- MODULE RegistryCalls -----------------------------
(***************************************************************************)
(* The calls that read and write variables of the analyzer at once: the    *)
(* analyzer serves them between events (daVarRpcProc.c), a client keeps    *)
(* copies of variables under their names (thClient.c).                     *)
(***************************************************************************)
EXTENDS Registry

CONSTANTS
  Vars,      \* what each program registers, in order
  Arrays,    \* the memory of its own variables when it starts
  Contents,  \* what an event may leave in the analyzer's variables
  Patterns,  \* what may be asked for by pattern
  Reads,     \* names a client reads, with an index
  Writes,    \* names and values it writes
  MaxEvents, MaxCalls, MaxList  \* bounds

Programs == {"analyzer", "client"}
NoAnswer == [call |-> "none", names |-> <<>>, errors |-> 0, any |-> Error]

ASSUME CallsAssumption ==
  /\ \A p \in Programs : Len(Vars[p]) \in Nat /\ \A k \in 1 .. Len(Vars[p]) :
       /\ {"name", "title", "size", "place"} \subseteq DOMAIN Vars[p][k]
       /\ Vars[p][k].name \in Names /\ Vars[p][k].place \in DOMAIN Arrays[p]
  /\ MaxEvents \in Nat /\ MaxCalls \in Nat /\ MaxList \in Nat

VARIABLES
  progs,   \* the programs
  made,    \* how many of its variables each has registered
  list,    \* the names of the client's thNameList, from its head
  asked,   \* what each program registered in the last step
  answer,  \* the client's last call; none if something has happened since
  events, calls

vars == <<progs, made, list, asked, answer, events, calls>>

Init ==
  /\ progs = [p \in Programs |-> NewProgram(Arrays[p])]
  /\ made = [p \in Programs |-> 0]
  /\ list = <<>>
  /\ asked = [p \in Programs |-> <<>>]
  /\ answer = NoAnswer
  /\ events = 0 /\ calls = 0

Plain(n) == [name |-> n, index |-> NoIndex]
Quiet == asked' = [p \in Programs |-> <<>>]

\* A variable of the program's own (reg*, thLoad); a block is booked when it
\* has been loaded.
RegisterOwn(p) ==
  /\ made[p] < Len(Vars[p])
  /\ LET def == Vars[p][made[p] + 1]
         r == Register(progs[p], def)
     IN  /\ progs' = [progs EXCEPT ![p] = IF def.hook = "block" THEN Book(r, def) ELSE r]
         /\ asked' = [q \in Programs |-> IF q = p THEN <<Definition(def)>> ELSE <<>>]
  /\ made' = [made EXCEPT ![p] = @ + 1]
  /\ answer' = NoAnswer
  /\ UNCHANGED <<list, events, calls>>

Event ==
  /\ events < MaxEvents
  /\ \E c \in Contents : progs' = [progs EXCEPT !["analyzer"].memory[c.place] = c.cells]
  /\ events' = events + 1
  /\ answer' = NoAnswer
  /\ Quiet /\ UNCHANGED <<made, list, calls>>

-----------------------------------------------------------------------------
(* The analyzer's side.                                                    *)

\* davar_readmultiple and davar_readpatternmatch, one name after the other.
ReadNext(acc, name) ==
  LET x == ReadVar(acc.r, name) IN [r |-> x.r, vals |-> Append(acc.vals, x.any)]
ReadMultiple(r, names) ==
  Iterated(LAMBDA acc, k : ReadNext(acc, names[k]), [r |-> r, vals |-> <<>>], Len(names))

\* davar_writemultiple.
WriteNext(acc, w) ==
  LET x == WriteVar(acc.r, w.name, w.any) IN [r |-> x.r, errors |-> Append(acc.errors, x.status)]
WriteMultiple(r, writes) ==
  Iterated(LAMBDA acc, k : WriteNext(acc, writes[k]), [r |-> r, errors |-> <<>>], Len(writes))

-----------------------------------------------------------------------------
(* The client's side.  Its hash table is made by the first registration; a *)
(* look-up before that would crash it.                                     *)

Calling ==
  /\ \A p \in Programs : made[p] > 0
  /\ calls < MaxCalls
  /\ calls' = calls + 1
  /\ UNCHANGED <<made, events>>

\* thAddToList: every new name goes to the head of the list.
AddToList ==
  /\ Calling
  /\ \E pattern \in Patterns :
       /\ list' = Reverse(List(progs["client"], pattern)) \o list
       /\ Len(list') <= MaxList
  /\ answer' = NoAnswer
  /\ Quiet /\ UNCHANGED progs

\* thRemoveFromList, what it was called with stays in the array for the call.
RemoveFromList ==
  /\ Calling
  /\ \E pattern \in Patterns :
       list' = Those(list, {n \in ToSet(list) :
                              \A m \in ToSet(List(progs["client"], pattern)) : ~Same(n, m)})
  /\ answer' = NoAnswer
  /\ Quiet /\ UNCHANGED progs

\* (CopyUnshifted: a mutant, an error is not passed over in the list.)
CopyUnshifted(r, names, vals) ==
  LET good == Those(vals, {v \in ToSet(vals) : v.type # "ERROR"})
      copied[k \in 0 .. Len(good)] ==
        IF k = 0 THEN r ELSE WriteVar(copied[k - 1], Plain(names[k]), good[k]).r
  IN  [r |-> copied[Len(good)], errors |-> Len(vals) - Len(good)]

\* What thGetList does with the values it got.
CopyNext(acc, n, any) ==
  LET w == WriteVar(acc.r, Plain(n), any)
  IN  IF any.type # "ERROR" /\ w.status = "S_SUCCESS" THEN [acc EXCEPT !.r = w.r]
      ELSE [r |-> IF any.type = "ERROR" THEN acc.r ELSE w.r, errors |-> acc.errors + 1]
Copy(r, names, vals) ==
  Iterated(LAMBDA acc, k : CopyNext(acc, names[k], vals[k]), [r |-> r, errors |-> 0], Len(names))

\* thGetList; the call itself may fail.
GetList ==
  /\ Calling
  /\ LET served == ReadMultiple(progs["analyzer"], [k \in DOMAIN list |-> Plain(list[k])])
         mine == Copy(progs["client"], list, served.vals)
     IN  \/ /\ progs' = [analyzer |-> served.r, client |-> mine.r]
            /\ answer' = [NoAnswer EXCEPT !.call = "get", !.names = list, !.errors = mine.errors]
         \/ /\ answer' = [NoAnswer EXCEPT !.call = "get", !.errors = -1]
            /\ UNCHANGED progs
  /\ Quiet /\ UNCHANGED list

TypeOf(any) == CASE any.type = "INT" -> "int" [] any.type = "FLOAT" -> "float" [] OTHER -> "string"
SizeOf(any) == Len(any.val) + (IF any.type = "TEXT" THEN 1 ELSE 0)
Imported(r, n, any) ==
  [name |-> n, title |-> <<>>, type |-> TypeOf(any), size |-> SizeOf(any),
   place |-> Len(r.memory) + 1, hook |-> "none", hist |-> 0]

\* thImportVars with one name: a write that fails for any reason registers the
\* name, again if need be, with fresh memory.
Import(acc, n, any) ==
  LET w == WriteVar(acc.r, Plain(n), any)
      def == Imported(acc.r, n, any)
      fresh == [Register(acc.r, def) EXCEPT !.memory = Append(@, [k \in 1 .. def.size |-> Junk])]
      w2 == WriteVar(fresh, Plain(n), any)
  IN  CASE w.status = "S_SUCCESS" -> [acc EXCEPT !.r = w.r]
        [] w.status # "S_SUCCESS" /\ any.type = "ERROR" -> [acc EXCEPT !.errors = @ + 1]
        [] OTHER -> [r |-> w2.r, asked |-> Append(acc.asked, Definition(def)),
                     errors |-> IF w2.status = "S_SUCCESS" THEN acc.errors ELSE acc.errors + 1]

ImportAll(r, names, vals) ==
  Iterated(LAMBDA acc, k : Import(acc, names[k], vals[k]),
           [r |-> r, asked |-> <<>>, errors |-> 0], Len(names))

ImportVars ==
  /\ Calling
  /\ \E pattern \in Patterns :
       LET names == List(progs["analyzer"], pattern)
           served == ReadMultiple(progs["analyzer"], [k \in DOMAIN names |-> Plain(names[k])])
           mine == ImportAll(progs["client"], names, served.vals)
       IN  \/ /\ progs' = [analyzer |-> served.r, client |-> mine.r]
              /\ asked' = [analyzer |-> <<>>, client |-> mine.asked]
              /\ answer' = [NoAnswer EXCEPT !.call = "import", !.names = names, !.errors = mine.errors]
           \/ /\ answer' = [NoAnswer EXCEPT !.call = "import", !.errors = -1]
              /\ Quiet /\ UNCHANGED progs
  /\ UNCHANGED list

Read ==
  /\ Calling
  /\ \E name \in Reads :
       LET served == ReadMultiple(progs["analyzer"], <<name>>) IN
       /\ progs' = [progs EXCEPT !["analyzer"] = served.r]
       /\ answer' = [NoAnswer EXCEPT !.call = "read", !.names = <<name>>, !.any = served.vals[1]]
  /\ Quiet /\ UNCHANGED list

Write ==
  /\ Calling
  /\ \E w \in Writes :
       LET served == WriteMultiple(progs["analyzer"], <<w>>) IN
       /\ progs' = [progs EXCEPT !["analyzer"] = served.r]
       /\ answer' = [call |-> "write", names |-> <<w.name>>, any |-> w.any,
                     errors |-> IF served.errors[1] = "S_SUCCESS" THEN 0 ELSE 1]
  /\ Quiet /\ UNCHANGED list

Next ==
  \/ \E p \in Programs : RegisterOwn(p)
  \/ Event
  \/ AddToList \/ RemoveFromList \/ GetList \/ ImportVars \/ Read \/ Write

Spec == Init /\ [][Next]_vars

-----------------------------------------------------------------------------
(* Properties.                                                             *)

\* The tables of buckets implement dictionaries, whatever the spelling a name
\* is registered and asked for with and whatever one call registers.  Titles
\* are left out: they are written later.
Untitled(def) == IF def = NoEntry THEN def ELSE [def EXCEPT !.title = <<>>]
Meaning(r) == [n \in Names |-> Untitled(LookupP(r, n))]
Registries == INSTANCE Dictionary WITH
  Spellings <- Names, Unknown <- NoEntry,
  meaning <- [p \in Programs |-> Meaning(progs[p])],
  listing <- [p \in Programs |-> List(progs[p], Everything)],
  asked <- [p \in Programs |-> [k \in DOMAIN asked[p] |-> Untitled(asked[p][k])]]
IsDictionary == Registries!Spec

\* What a read gives back of a value; a copy may be longer than the original.
Agrees(mine, theirs) ==
  CASE theirs.type = "TEXT" -> mine.type = "TEXT" /\ Trimmed(mine.val) = Trimmed(theirs.val)
    [] theirs.type = "INT" -> /\ mine.type \in {"INT", "FLOAT"}
                              /\ IsPrefix(theirs.val, mine.val)
    [] theirs.type = "FLOAT" /\ mine.type = "FLOAT" -> IsPrefix(theirs.val, mine.val)
    [] theirs.type = "FLOAT" /\ mine.type = "INT" ->
         IsPrefix([k \in DOMAIN theirs.val |-> Rounded(theirs.val[k])], mine.val)
    [] OTHER -> FALSE

\* thClient.c:262, "a positive number for the number of variables that didn't
\* work": after a thGetList or a thImportVars all but that many of the names
\* asked for have in the client the value they have in the analyzer,
\* converted to the client's type; and a value written without error reads
\* back.
CallsDeliver ==
  LET Mine(n) == ReadVar(progs["client"], Plain(n)).any
      Theirs(n) == ReadVar(progs["analyzer"], Plain(n)).any
      names == answer.names
  IN  /\ answer.call \in {"get", "import"} /\ answer.errors >= 0 =>
           Cardinality({k \in DOMAIN names : ~Agrees(Mine(names[k]), Theirs(names[k]))}) <= answer.errors
      /\ answer.call = "write" /\ answer.errors = 0 =>
           \A k \in DOMAIN names :
             LET now == Theirs(names[k].name)
                 at == IF names[k].index = NoIndex THEN 0 ELSE names[k].index
             IN  Agrees([now EXCEPT !.val = SubSeq(@, at + 1, Len(@))], answer.any)

\* What is read of a histogram is how it is booked now, not how it, or the
\* one read before it, was booked (thHistRHandler keeps what HGIVE said).
HistCurrent ==
  answer.call = "read" =>
    \A name \in ToSet(answer.names) :
      LET r == progs["analyzer"]
          class == ClassFind(r, name.name)
          f == AttributeFind(r, name.name, class)
          id == r.memory[f.var.place][1]
      IN  /\ class # NoEntry /\ class.hook = "hist"
          /\ f.attr = <<"nx">> /\ id \in DOMAIN r.hbook \ {NoId}
          => answer.any = Ints(<<2 * r.hbook[id]>>)

\* daVarHandlers.c:59, "If the write  would go past the end of the array,
\* nothing is written and an error is returned."  Not so for a C string: its
\* end is written behind an array it fills.
Confined == \A p \in Programs : ~progs[p].stray
=============================================================================
