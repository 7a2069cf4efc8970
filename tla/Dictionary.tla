------------------------------ MODULE Dictionary ------------------------------
(***************************************************************************)
(* What registries of variables promise.  A name has one meaning however  *)
(* it is spelled, the one it was last given; a variable stays under the    *)
(* spelling it was first registered with, is never lost, and is listed     *)
(* once.                                                                   *)
(***************************************************************************)
EXTENDS Integers, Sequences

CONSTANTS
  Programs,    \* each has a registry of its own
  Spellings,   \* the names, as they may be spelled
  Same(_, _),  \* whether two spellings are of one name
  Unknown      \* the meaning of a name that is not registered

VARIABLES
  meaning,  \* in each program, of each spelling
  listing,  \* the names, when all are listed
  asked     \* the definitions the last step registered, in order

Define(m, def) ==
  [s \in Spellings |->
     IF ~Same(s, def.name) THEN m[s]
     ELSE [def EXCEPT !.name = IF m[def.name] = Unknown THEN @ ELSE m[def.name].name]]

\* All the definitions of a step, one after the other.
Defined(m, defs) ==
  LET after[k \in 0 .. Len(defs)] == IF k = 0 THEN m ELSE Define(after[k - 1], defs[k])
  IN  after[Len(defs)]

Lists(names, m) ==
  /\ \A j, k \in DOMAIN names : names[j] = names[k] => j = k
  /\ {names[k] : k \in DOMAIN names} = {m[s].name : s \in Spellings} \ {Unknown.name}

Init ==
  /\ meaning = [p \in Programs |-> [s \in Spellings |-> Unknown]]
  /\ listing = [p \in Programs |-> <<>>]
  /\ asked = [p \in Programs |-> <<>>]

Next ==
  /\ meaning' = [p \in Programs |-> Defined(meaning[p], asked'[p])]
  /\ \A p \in Programs : \A names \in {listing'[p]} : Lists(names, meaning'[p])

\* What is asked for is what happens: a registration without effect is no
\* stuttering.
Spec == Init /\ [][Next]_<<meaning, listing, asked>>
=============================================================================
