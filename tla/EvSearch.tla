------------------------------- MODULE EvSearch --------------------------------
(***************************************************************************)
(* The search for an event by its number in a closed CODA file: evio.c's   *)
(* evOpenSearch finds the last block and the last event in it, evSearch    *)
(* bisects the blocks between, starting from where the last search ended.  *)
(* The search has a handle of its own.  Places in the file count words     *)
(* from its beginning; a word that is read beyond the end of the file, or  *)
(* taken for what it is not, is whatever the call chooses (junk).          *)
(***************************************************************************)
EXTENDS EvBlockFile, Integers, FiniteSetsExt

CONSTANTS
  NumAt,       \* the word of an event that holds its number: 4
  Specials,    \* which events are not physics events (type >= 16): the choices
  Junk,        \* what a misplaced read may give
  MaxSearches  \* bound on the searches

ASSUME SearchAssumption ==
  /\ NumAt \in Nat \ {0, 1} /\ NumAt < BlkSiz - HdSiz
  /\ \A l \in Lengths : l > NumAt
  /\ Specials \subseteq SUBSET (1 .. MaxEvents)
  /\ Junk \subseteq [len : Nat \ {0}, physics : BOOLEAN, number : Nat]
  /\ MaxSearches \in Nat

VARIABLES
  special,  \* the events that are not physics events
  aleft,    \* a->left of the handle
  b,        \* the EVBSEARCH
  searches, \* searches made
  answer    \* the last one: what was asked, the result, the event copied

searchVars == <<special, aleft, b, searches, answer>>
allVars == <<vars, searchVars>>

NotOpen == [sbk |-> 0, ebk |-> -1, found_bk |-> -1, found_evn |-> -1, last_evn |-> -1]
NoAnswer == [evn |-> 0, status |-> "none", words |-> <<>>]

SearchInit ==
  /\ Init
  /\ special \in Specials
  /\ aleft = 0 /\ b = NotOpen /\ searches = 0 /\ answer = NoAnswer

\* A run's events that survive a preprocessor are numbered with gaps.
Number(i) == 2 * Cardinality((1 .. i) \ special)

-----------------------------------------------------------------------------
(* Reading words.                                                          *)

Nothing == <<0, BlkSiz>>
WordAt(p) ==
  LET n == p \div BlkSiz + 1
      k == p % BlkSiz
  IN  IF n > Len(file) THEN Nothing
      ELSE IF k < HdSiz THEN <<0, k>>
      ELSE IF k - HdSiz + 1 \in DOMAIN file[n].data THEN file[n].data[k - HdSiz + 1]
      ELSE Nothing

\* The length of the event at p; word 0 of a block is its size.
EvSize(p, junk) ==
  LET Read(w) == IF w = <<0, 0>> THEN BlkSiz + 1
                 ELSE IF w[1] > 0 /\ w[2] = 0 THEN sent[w[1]] ELSE junk.len
  IN  Read(WordAt(p))

\* evGetEventType < 16.  With a->left = 1 the type word is taken to be in the
\* next block.  The block number of a header passes for a physics type.
IsPhysics(p, l, junk) ==
  LET Read(w) == IF w = <<0, 1>> THEN TRUE
                 ELSE IF w[1] > 0 /\ w[2] = 1 THEN w[1] \notin special ELSE junk.physics
  IN  Read(WordAt(p + 1 + (IF l = 1 THEN HdSiz ELSE 0)))

\* The event number in the word at q, EV_HD_USED when it is the header's.
NumberAt(q, junk) ==
  LET Read(w) == IF w = <<0, NumAt>> THEN file[q \div BlkSiz + 1].used
                 ELSE IF w[1] > 0 /\ w[2] = NumAt THEN Number(w[1]) ELSE junk.number
  IN  Read(WordAt(q))

\* evGetEventNumber of the event with that many words of its block from p on.
EventNumber(p, words, junk) ==
  NumberAt(p + NumAt + (IF words > NumAt THEN 0 ELSE HdSiz), junk)

\* Where the last k words used of block n (numbered from 0) begin.
PlaceOf(n, k) == n * BlkSiz + file[n + 1].used - k

\* How many words of block n remain at the first physics event among its
\* last words, 0: there is none.  The types are read with a->left = l, which is
\* what an earlier call made it.
FirstPhysics(n, words, l, junk) ==
  LET scan[k \in 0 .. words] ==
        IF k = 0 \/ IsPhysics(PlaceOf(n, k), l, junk) THEN k
        ELSE LET len == EvSize(PlaceOf(n, k), junk) IN IF len >= k THEN 0 ELSE scan[k - len]
  IN  scan[words]

\* physicsEventsInsideBlock begins at the start mark even if that is 0.
PhysicsEventsInsideBlock(n, l, junk) ==
  FirstPhysics(n, file[n + 1].used - file[n + 1].start, l, junk)

\* isRealEventsInsideBlock, for a block in which an event starts.
RealEventsInsideBlock(n, l, junk) ==
  IF file[n + 1].start = 0 THEN 0 ELSE PhysicsEventsInsideBlock(n, l, junk)

-----------------------------------------------------------------------------
(* evOpenSearch.                                                           *)

\* findLastEventWithinBlock from where k words of block n remain: the number
\* of the last physics event there, read in this block wherever it is; -1
\* when there is none.
FindLastEvent(n, k0, junk) ==
  LET Num(k) == NumberAt(PlaceOf(n, k) + NumAt, junk)
      walk[k \in 0 .. k0, last \in Int] ==
        LET physics == IsPhysics(PlaceOf(n, k), k, junk)
            rest == k - EvSize(PlaceOf(n, k), junk)
            evn == IF physics THEN Num(k) ELSE last
        IN  IF rest <= 0 THEN [evn |-> evn, left |-> rest] ELSE walk[rest, evn]
  IN  walk[k0, -1]

\* The search for a block with physics events ends with the last one: the
\* result says that there is one whether there is or not.  Then the place
\* from which findLastEventWithinBlock reads is behind the last event.  A
\* closed file has at least one block, unless a write failed.
EvOpenSearch ==
  /\ rpc = "failed" /\ wpc = "closed" /\ wblksiz = BlkSiz /\ file # <<>>
  /\ b = NotOpen
  /\ \E junk \in Junk :
       LET left0 == file[1].used - file[1].start
           n == Len(file) - 1
           k == PhysicsEventsInsideBlock(n, left0, junk)
           last == FindLastEvent(n, k, junk)
       IN  /\ b' = [NotOpen EXCEPT !.sbk = file[1].blknum,
                                   !.ebk = IF k = 0 THEN 0 ELSE file[n + 1].blknum,
                                   !.last_evn = IF k = 0 THEN junk.number ELSE last.evn]
           /\ aleft' = IF k = 0 THEN left0 - junk.len ELSE last.left
  /\ UNCHANGED <<vars, special, searches, answer>>

-----------------------------------------------------------------------------
(* evSearch.                                                               *)

\* evFindEventBlockNum: the next block on from mid in which an event starts,
\* or else the last one before; -1: none at all, the program exits.
FindEventBlockNum(mid, l, junk) ==
  LET real == {n \in b.sbk .. b.ebk : RealEventsInsideBlock(n, l, junk) > 0}
      on == {n \in real : n >= mid}
  IN  IF on # {} THEN Min(on) ELSE Max({-1} \union {n \in real : n <= mid})

\* copySingleEvent of the event of len words with k of them, or more, in its
\* block.  The test of the caller's length is passed over by events that end
\* before their block does.
CopySingleEvent(n, k, len) ==
  LET Place(j) == PlaceOf(n, k) + j
                    + (IF len <= k \/ j < k THEN 0 ELSE HdSiz * (1 + (j - k) \div (BlkSiz - HdSiz)))
      count == IF len > k /\ BufLen < len THEN BufLen ELSE len
  IN  [j \in 1 .. count |-> WordAt(Place(j - 1))]

\* evSearchWithinBlock once the block has been found: -1 the event is in a
\* lower block, 1 in an upper one, 0 it is the one with at words to the end.
SearchWithinBlock(n, evn, l, junk) ==
  LET Num(k) == EventNumber(PlaceOf(n, k), k, junk)
      Left(k) == k - EvSize(PlaceOf(n, k), junk)
      walk[k \in Int] ==
        IF k <= 0 THEN [found |-> 1, at |-> 0, left |-> k]
        ELSE IF IsPhysics(PlaceOf(n, k), k, junk) /\ Num(k) = evn
        THEN [found |-> 0, at |-> k, left |-> Left(k)]
        ELSE walk[Left(k)]
      First(k, num) ==
        CASE num = evn -> [found |-> 0, at |-> k, left |-> Left(k)]
          [] num > evn -> [found |-> -1, at |-> 0, left |-> Left(k)]
          [] num < evn -> walk[Left(k)]
      From(k) == First(k, Num(k))
  IN  From(RealEventsInsideBlock(n, l, junk))

\* (UpperMid: a mutant, the upper half is searched from its middle on.)
UpperMid(mid) == mid
Upper(mid) == mid + 1

\* The loop of evSearch.  An event that had to be cut comes with a positive
\* status, which sends the search to the upper blocks.  A range that does not
\* shrink is searched for ever.
NotThere(status, l) == [status |-> status, mid |-> -1, left |-> l, words |-> <<>>]
Bisect(evn, start0, end0, junk) ==
  LET step[fuel \in 0 .. 2 * Len(file), start \in Int, end \in Int, l \in Int] ==
        LET Go(mid, r) ==
              CASE r.found = 0 /\ BufLen >= EvSize(PlaceOf(mid, r.at), junk) ->
                     [status |-> "found", mid |-> mid, left |-> r.left,
                      words |-> CopySingleEvent(mid, r.at, EvSize(PlaceOf(mid, r.at), junk))]
                [] r.found < 0 -> step[fuel - 1, start, mid - 1, r.left]
                [] OTHER -> step[fuel - 1, Upper(mid), end, r.left]
            In(mid) == IF mid = -1 THEN NotThere("exit", l)
                       ELSE Go(mid, SearchWithinBlock(mid, evn, l, junk))
        IN  IF start > end THEN NotThere("absent", l)
            ELSE IF fuel = 0 THEN NotThere("hangs", l)
            ELSE In(FindEventBlockNum((start + end) \div 2, l, junk))
  IN  step[2 * Len(file), start0, end0, aleft]

\* (ResumeBelow: a mutant, the half is chosen the wrong way round.)
ResumeBelow(evn) ==
  IF b.found_bk < 0 THEN <<b.sbk, b.ebk>>
  ELSE IF evn <= b.found_evn THEN <<b.found_bk, b.ebk>> ELSE <<b.sbk, b.found_bk>>

\* The blocks to search, given where the last search ended.
Resume(evn) ==
  IF b.found_bk < 0 THEN <<b.sbk, b.ebk>>
  ELSE IF evn >= b.found_evn THEN <<b.found_bk, b.ebk>> ELSE <<b.sbk, b.found_bk>>

Search ==
  /\ b # NotOpen
  /\ searches < MaxSearches
  /\ answer.status \notin {"hangs", "exit"}
  /\ searches' = searches + 1
  /\ \E evn \in 0 .. Number(MaxEvents) + 1, junk \in Junk :
       IF evn > b.last_evn
       THEN answer' = [evn |-> evn, status |-> "beyond", words |-> <<>>] /\ UNCHANGED <<aleft, b>>
       ELSE LET r == Bisect(evn, Resume(evn)[1], Resume(evn)[2], junk) IN
            /\ answer' = [evn |-> evn, status |-> r.status, words |-> r.words]
            /\ aleft' = r.left
            /\ b' = IF r.status = "found" THEN [b EXCEPT !.found_bk = r.mid, !.found_evn = evn]
                    ELSE [b EXCEPT !.found_bk = -1]
  /\ UNCHANGED <<vars, special>>

SearchNext ==
  \/ Next /\ UNCHANGED searchVars
  \/ EvOpenSearch
  \/ Search

SearchSpec ==
  /\ SearchInit /\ [][SearchNext]_allVars
  /\ WF_allVars(Writer /\ UNCHANGED searchVars) /\ WF_allVars(Reader /\ UNCHANGED searchVars)

-----------------------------------------------------------------------------
(* Properties.                                                             *)

\* The files in which evSearch finds everything: the last event is a physics
\* event and has its number in the last block, no event begins in the last word
\* of a block, and of two neighbouring blocks one has the beginning of a
\* physics event.
Firsts(n) == {k \in DOMAIN file[n].data : file[n].data[k][2] = 0}
HasPhysics(n) == \E k \in Firsts(n) : file[n].data[k][1] \notin special
Searchable ==
  /\ sent # <<>> /\ Len(sent) \notin special
  /\ {<<Len(sent), 0>>, <<Len(sent), NumAt>>} \subseteq ToSet(Last(file).data)
  /\ \A n \in DOMAIN file : BlkSiz - HdSiz \notin Firsts(n)
  /\ \A n \in 2 .. Len(file) : HasPhysics(n - 1) \/ HasPhysics(n)

\* evio.c:740, "return 0: found the event": an event of the file is found,
\* whole, whatever was searched before, if the caller's buffer can hold it, and
\* no event is found under a number it does not have.
EventFound ==
  answer.status # "none" /\ Searchable =>
    LET is == {i \in DOMAIN sent : i \notin special /\ Number(i) = answer.evn}
    IN  /\ \A i \in is : sent[i] <= BufLen => answer.status = "found"
        /\ answer.status = "found" => \E i \in is : answer.words = Event(i, sent[i])

\* evio.c:740, "return 0: found the event", "return 1:  cannot find the event
\* number": a search comes to an end.  It does not where FindEventBlockNum
\* goes on beyond the end of the range.
SearchEnds == answer.status # "hangs"
=============================================================================
