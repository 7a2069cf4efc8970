----------------------------- MODULE EvBlockFile ------------------------------
(***************************************************************************)
(* The CODA event file of evio.c: a writer packs events into blocks of     *)
(* fixed size, an event running over into the next blocks when it must; a  *)
(* reader takes them out again.  The two are separate processes with the   *)
(* file between them, and the reader may start while the writer is still   *)
(* at work.  What is given to fwrite arrives in the file bit by bit; of a  *)
(* block that is there in part only evOpen takes notice.  A word is the    *)
(* pair of its event and its place in it; what it holds matters only where *)
(* evRead takes a word for an event's length.  A word of the block header  *)
(* counts as one of event 0, and garbage as one of event MaxEvents + 1.    *)
(***************************************************************************)
EXTENDS Naturals, Sequences, SequencesExt

CONSTANTS
  BlkSiz,     \* a->blksiz, in words: EVBLOCKSIZE
  HdSiz,      \* EV_HDSIZ
  Lengths,    \* the events' lengths, the length word included
  BufLen,     \* the reader's buffer, in words: LENGTH_CRAW
  NewSizes,   \* block sizes that evIoctl may be asked for
  MaxEvents,  \* bound on the number of events written
  Online,     \* whether the file may be read before it is closed
  MaxLost,    \* blocks that may be missing from the file
  Faulty      \* whether writing may fail, as on a full disk

ASSUME BlockAssumption ==
  /\ HdSiz \in Nat \ {0} /\ BlkSiz \in Nat /\ BlkSiz > HdSiz
  /\ Lengths \subseteq Nat \ {0}
  /\ BufLen \in Nat /\ MaxEvents \in Nat /\ MaxLost \in Nat
  /\ NewSizes \subseteq {n \in Nat : n > HdSiz}
  /\ Online \in BOOLEAN /\ Faulty \in BOOLEAN

VARIABLES
  file,      \* the blocks given to fwrite, before any fwrite failed
  behind,    \* those that a reader finds behind them, if one has
  whole,     \* how many of them all have arrived in the file
  part,      \* while the first has not, how many words of it
  lost,      \* how many have gone missing
  \* The writer's EVFILE and evWrite's progress.
  wpc, wbuf, wblksiz, wblknum, evnum, wleft,
  dangling,  \* a->next still points into a buffer that was freed
  fault,     \* what fwrite left when it failed: "none", "aligned", "astray"
  handed,    \* the words of the last block it took, when astray
  sent,      \* the lengths of the events written
  \* The reader's EVFILE and evRead's progress.
  rpc, rbuf, next, left, rblknum, nread, nleft, buffer,
  eof,       \* feof(a->file) since evOpen
  sure,      \* it began with the whole first block, and no write had failed
             \* before the block it has come to
  got,       \* the events read with S_SUCCESS while that is so
  garbage    \* whether one read when it is not had words that never were in a file

fileVars == <<file, behind, whole, part, lost>>
writerVars == <<wpc, wbuf, wblksiz, wblknum, evnum, wleft, dangling, fault, handed, sent>>
readerVars == <<rpc, rbuf, next, left, rblknum, nread, nleft, buffer, eof, sure, got, garbage>>
vars == <<fileVars, writerVars, readerVars>>

Event(i, len) == [k \in 1 .. len |-> <<i, k - 1>>]
Log == [i \in DOMAIN sent |-> Event(i, sent[i])]

\* How many blocks there are in all, arrived or not, and the nth of them.
AllBlocks == Len(file) + Len(behind)
Block(n) == IF n <= Len(file) THEN file[n] ELSE behind[n - Len(file)]

\* A block as evFlush leaves it in memory; data are the words after the header.
NewBlock(size, num) ==
  [blksiz |-> size, blknum |-> num, start |-> 0, used |-> HdSiz, evnum |-> 0, data |-> <<>>]

Init ==
  /\ file = <<>> /\ behind = <<>> /\ whole = 0 /\ part = 0 /\ lost = 0
  /\ wpc = "open" /\ wblksiz = BlkSiz /\ wblknum = 0 /\ dangling = FALSE
  /\ fault = "none" /\ handed = 0
  /\ wbuf = NewBlock(BlkSiz, 0)
  /\ wleft = 0 /\ evnum = 0 /\ sent = <<>>
  /\ rpc = "closed" /\ rbuf = NewBlock(BlkSiz, 0)
  /\ next = 0 /\ left = 0 /\ rblknum = 0 /\ nread = 0
  /\ nleft = 0 /\ buffer = <<>> /\ eof = FALSE
  /\ sure = TRUE /\ got = <<>> /\ garbage = FALSE

-----------------------------------------------------------------------------
(* The writer: evOpen(..., "w"), evIoctl, evWrite, evFlush and evClose.     *)

\* wleft is what remains of the event to copy; the room in the block is
\* a->left.
Room == wblksiz - HdSiz - Len(wbuf.data)

\* evIoctl("b"): only before anything was written.  The header of the new
\* buffer says EVBLOCKSIZE whatever size was asked for, and a->next is not
\* moved to the new buffer: it is right only if malloc returned the memory that
\* was just freed.
EvIoctl ==
  /\ wpc = "open"
  /\ wblknum = 0 /\ wbuf.start = 0
  /\ \E size \in NewSizes :
       /\ wblksiz' = size
       /\ wbuf' = NewBlock(BlkSiz, 0)
  /\ dangling' \in BOOLEAN
  /\ UNCHANGED <<fileVars, wpc, wblknum, evnum, wleft, fault, handed, sent, readerVars>>

\* a->next - a->buf: some number that means nothing while a->next points into
\* the freed buffer; wblksiz stands for it.
Offset(b) == IF dangling THEN wblksiz ELSE HdSiz + Len(b.data)

EvWrite ==
  /\ wpc = "open"
  /\ Len(sent) < MaxEvents
  /\ \E len \in Lengths :
       /\ sent' = Append(sent, len)
       /\ wleft' = len
  /\ wbuf' = [wbuf EXCEPT !.start = IF @ = 0 THEN Offset(wbuf) ELSE @]
  /\ evnum' = evnum + 1
  /\ wpc' = "copy"
  /\ UNCHANGED <<fileVars, wblksiz, wblknum, dangling, fault, handed, readerVars>>

\* Block b as evFlush gives it to fwrite.
Flushed(b) == [b EXCEPT !.used = Offset(b), !.evnum = evnum]

\* A block of which only the first n words are what was written.
Cut(b, n) ==
  [b EXCEPT !.data = [k \in DOMAIN @ |-> IF HdSiz + k <= n THEN @[k] ELSE <<MaxEvents + 1, k>>]]

\* What a reader makes of a block without the magic number: nothing.
NoBlock == NewBlock(0, 0)

\* evFlush of block b; the buffer starts afresh.  When a write before has
\* failed in the middle of a block, the words go behind that part of it: the
\* part is filled up to a block, and where evGetNewBuffer looks for a block
\* from there on is none.
EvFlush(b) ==
  /\ file' = IF fault = "none" THEN Append(file, Flushed(b)) ELSE file
  /\ behind' = IF fault = "aligned" THEN Append(behind, Flushed(b)) ELSE behind
  /\ handed' = IF fault = "astray" THEN wblksiz ELSE handed
  /\ wblknum' = wblknum + 1
  /\ wbuf' = NewBlock(wblksiz, wblknum + 1)
  /\ dangling' = FALSE
  /\ UNCHANGED fault

\* fwrite takes some words and fails: evFlush returns with the block as it is,
\* full, and with a->left at 0; the next call will write it again, from its
\* beginning.
EvFlushFails(b) ==
  /\ Faulty
  /\ wbuf' = b
  /\ \/ /\ fault # "astray" /\ fault' = "aligned"
        /\ UNCHANGED <<behind, handed>>
     \/ /\ fault # "astray" /\ fault' = "astray"
        /\ handed' \in 1 .. wblksiz - 1
        /\ behind' = Append(behind, IF handed' < HdSiz THEN NoBlock ELSE Cut(Flushed(b), handed'))
     \/ /\ fault = "astray" /\ handed' \in handed .. wblksiz
        /\ UNCHANGED <<behind, fault>>
  /\ UNCHANGED <<file, wblknum, dangling>>

Fewer(m, n) == IF m <= n THEN m ELSE n

\* What a copy to a->next leaves in the block.
Copied(words) == IF dangling THEN [k \in DOMAIN words |-> <<MaxEvents + 1, k>>] ELSE words

\* One pass of evWrite's loop: what fits is copied, a full block is flushed.  If
\* that fails evWrite returns, whatever of the event is left.
CopyIn ==
  /\ wpc = "copy"
  /\ LET n == Len(sent)
         ncopy == Fewer(wleft, Room)
         done == sent[n] - wleft
         words == SubSeq(Event(n, sent[n]), done + 1, done + ncopy)
         filled == [wbuf EXCEPT !.data = @ \o Copied(words)]
     IN  /\ wleft' = wleft - ncopy
         /\ \/ /\ IF ncopy = Room
                  THEN EvFlush(filled)
                  ELSE wbuf' = filled /\ UNCHANGED <<file, behind, wblknum, dangling, fault, handed>>
               /\ wpc' = IF wleft = ncopy THEN "open" ELSE "copy"
            \/ /\ ncopy = Room
               /\ EvFlushFails(filled)
               /\ wpc' = "open"
  /\ UNCHANGED <<whole, part, lost, wblksiz, evnum, sent, readerVars>>

\* (EvCloseUnflushed: a mutant, the last block is not written.)
EvCloseUnflushed ==
  /\ wpc = "open"
  /\ wpc' = "closing"
  /\ UNCHANGED <<fileVars, wbuf, wblksiz, wblknum, evnum, wleft, dangling, fault, handed, sent, readerVars>>

\* evClose flushes the last block, an empty one too, and then the stream.
EvClose ==
  /\ wpc = "open"
  /\ EvFlush(wbuf) \/ EvFlushFails(wbuf)
  /\ wpc' = "closing"
  /\ UNCHANGED <<whole, part, lost, wblksiz, evnum, wleft, sent, readerVars>>

\* Blocks arrive, or a part of the first one, which only evOpen would see.  A
\* part of a later block reads like none: evGetNewBuffer sees the file's end.
Arrive ==
  /\ wpc # "crashed" /\ whole < AllBlocks
  /\ LET most == IF fault = "astray" /\ whole + 1 = AllBlocks THEN handed ELSE wblksiz
     IN  \/ most = wblksiz /\ whole' = whole + 1 /\ part' = 0
         \/ /\ whole = 0 /\ rpc = "closed"
            /\ part' \in part + 1 .. Fewer(most, wblksiz - 1) /\ UNCHANGED whole
  /\ UNCHANGED <<file, behind, lost, writerVars, readerVars>>

\* fclose has written all there was, unless it failed.
FileClosed ==
  /\ wpc = "closing"
  /\ whole = AllBlocks \/ Faulty
  /\ wpc' = "closed"
  /\ UNCHANGED <<fileVars, wbuf, wblksiz, wblknum, evnum, wleft, dangling, fault, handed, sent, readerVars>>

\* The writer dies; what has not arrived is gone.
Crash ==
  /\ wpc \in {"open", "copy", "closing"}
  /\ Online
  /\ wpc' = "crashed"
  /\ UNCHANGED <<fileVars, wbuf, wblksiz, wblknum, evnum, wleft, dangling, fault, handed, sent, readerVars>>

\* A block other than the first is missing from the file, as after a tape
\* or copying error.
LoseBlock ==
  /\ lost < MaxLost
  /\ rpc = "closed" /\ wpc \in {"closed", "crashed"}
  /\ \E n \in 2 .. Len(file) : n <= whole /\ file' = RemoveAt(file, n)
  /\ whole' = whole - 1
  /\ lost' = lost + 1
  /\ UNCHANGED <<behind, part, writerVars, readerVars>>

-----------------------------------------------------------------------------
(* The reader: evOpen(..., "r"), evRead and evGetNewBuffer.                 *)

\* Reading begins at the first event of block b, as it was read.
Begin(b) ==
  /\ rbuf' = b
  /\ next' = b.start
  /\ left' = b.used - b.start
  /\ rblknum' = b.blknum
  /\ nread' = 1
  /\ rpc' = "open"
  /\ UNCHANGED <<fileVars, writerVars, nleft, buffer, got, garbage>>

\* evOpen, which does not look at how many words it got: the first block, or
\* what is there of it behind the header; the rest of a->buf is as malloc gave
\* it.  A file whose first header gives another size than its blocks have is
\* not read in this model.
EvOpen ==
  /\ rpc = "closed" /\ wblksiz = BlkSiz
  /\ Online \/ wpc = "closed"
  /\ whole > 0 \/ part >= HdSiz
  /\ Block(1).blksiz = BlkSiz
  /\ Begin(IF whole > 0 THEN Block(1) ELSE Cut(Block(1), part))
  /\ eof' = (whole = 0)
  /\ sure' = (whole > 0 /\ file # <<>>)

\* Without a header evOpen says S_EVFILE_BADFILE, unless there is one on the
\* stack where an earlier call left it: of a first block of another file.
EvOpenStale ==
  /\ rpc = "closed" /\ wblksiz = BlkSiz
  /\ Online \/ wpc = "closed"
  /\ whole = 0 /\ part < HdSiz
  /\ \E start \in {0, HdSiz}, used \in HdSiz .. BlkSiz :
       Begin(Cut([NewBlock(BlkSiz, 0) EXCEPT !.start = start, !.used = used,
                    !.data = [k \in 1 .. used - HdSiz |-> <<0, k>>]], 0))
  /\ eof' = TRUE
  /\ sure' = FALSE

\* (EvGetNewBufferAtMark: a mutant, reading goes on at the block's start mark.
\* EvGetNewBufferUnnumbered: a mutant, the block number is not checked.)
EvGetNewBufferAtMark(pc) ==
  IF eof \/ nread >= whole
  THEN rpc' = "failed" /\ UNCHANGED <<rbuf, next, left, rblknum, nread, sure>>
  ELSE LET b == Block(nread + 1) IN
       /\ sure' = (sure /\ nread < Len(file))
       /\ nread' = nread + 1
       /\ rbuf' = b
       /\ rblknum' = rblknum + 1
       /\ next' = b.start
       /\ left' = b.used - b.start
       /\ rpc' = IF b.blknum # rblknum + 1 \/ b.used <= HdSiz THEN "failed" ELSE pc

EvGetNewBufferUnnumbered(pc) ==
  IF eof \/ nread >= whole
  THEN rpc' = "failed" /\ UNCHANGED <<rbuf, next, left, rblknum, nread, sure>>
  ELSE LET b == Block(nread + 1) IN
       /\ sure' = (sure /\ nread < Len(file))
       /\ nread' = nread + 1
       /\ rbuf' = b
       /\ rblknum' = rblknum + 1
       /\ next' = HdSiz
       /\ left' = b.used - HdSiz
       /\ rpc' = IF b.used <= HdSiz THEN "failed" ELSE pc

\* evGetNewBuffer, from evRead's caller state to state pc: the end of the
\* file, a block out of turn and an empty block are errors, and the caller
\* gives the file up (g_get_next_event).  Nothing is sure of what lies behind
\* a write that failed.
EvGetNewBuffer(pc) ==
  IF eof \/ nread >= whole
  THEN rpc' = "failed" /\ UNCHANGED <<rbuf, next, left, rblknum, nread, sure>>
  ELSE LET b == Block(nread + 1) IN
       /\ sure' = (sure /\ nread < Len(file))
       /\ nread' = nread + 1
       /\ rbuf' = b
       /\ rblknum' = rblknum + 1
       /\ next' = HdSiz
       /\ left' = b.used - HdSiz
       /\ rpc' = IF b.blknum # rblknum + 1 \/ b.used <= HdSiz THEN "failed" ELSE pc

\* evRead begins: a new block if the old one is used up.
NewBuffer ==
  /\ rpc = "open"
  /\ left = 0
  /\ EvGetNewBuffer("open")
  /\ UNCHANGED <<fileVars, writerVars, nleft, buffer, eof, got, garbage>>

Word(n) == IF n < HdSiz THEN <<0, n>> ELSE rbuf.data[n - HdSiz + 1]

\* Inclusive length of an event that begins with word w: the length word's
\* value plus one.  Word 0 of the header holds the block size.  Of other words
\* it may be any number, 0 for those below, BufLen for those above.
LengthAt(w) ==
  CASE w = <<0, 0>> -> {rbuf.blksiz + 1}
    [] w[1] > 0 /\ w[2] = 0 -> {sent[w[1]]}
    [] OTHER -> 0 .. BufLen

HandOut(words) ==
  IF sure THEN got' = Append(got, words) /\ UNCHANGED garbage
  ELSE garbage' = (garbage \/ \E w \in ToSet(words) : w[1] > MaxEvents) /\ UNCHANGED got

\* An event that fills the caller's buffer counts as truncated; of one without
\* words there is nothing to copy, and it will be read again.
EvRead ==
  /\ rpc = "open"
  /\ left > 0
  /\ \E len \in LengthAt(Word(next)) :
       /\ nleft' = IF len < BufLen THEN len ELSE BufLen
       /\ \/ /\ len = 0
             /\ rpc' = "open" /\ HandOut(<<>>)
          \/ /\ len > 0
             /\ rpc' = IF len < BufLen THEN "copy" ELSE "truncate"
             /\ UNCHANGED <<got, garbage>>
  /\ buffer' = <<>>
  /\ UNCHANGED <<fileVars, writerVars, rbuf, next, left, rblknum, nread, eof, sure>>

\* One pass of evRead's loop.
CopyOut ==
  /\ rpc \in {"copy", "truncate"}
  /\ left > 0
  /\ LET ncopy == Fewer(nleft, left)
         words == buffer \o [k \in 1 .. ncopy |-> Word(next + k - 1)]
         done == nleft = ncopy
     IN  /\ nleft' = nleft - ncopy
         /\ next' = next + ncopy
         /\ left' = left - ncopy
         /\ buffer' = IF done THEN <<>> ELSE words
         /\ IF done /\ rpc = "copy" THEN HandOut(words) ELSE UNCHANGED <<got, garbage>>
         /\ rpc' = CASE ~done -> rpc
                     [] done /\ rpc = "copy" -> "open"
                     [] done /\ rpc = "truncate" -> "failed"
  /\ UNCHANGED <<fileVars, writerVars, rbuf, rblknum, nread, eof, sure>>

NextBlock ==
  /\ rpc \in {"copy", "truncate"}
  /\ left = 0
  /\ EvGetNewBuffer(rpc)
  /\ UNCHANGED <<fileVars, writerVars, nleft, buffer, eof, got, garbage>>

Writer == EvIoctl \/ EvWrite \/ CopyIn \/ EvClose \/ Arrive \/ FileClosed
Reader == EvOpen \/ EvOpenStale \/ NewBuffer \/ EvRead \/ CopyOut \/ NextBlock

Next == Writer \/ Crash \/ LoseBlock \/ Reader

\* Reader and writer are separate programs, each of which goes on.
Spec == Init /\ [][Next]_vars
FairSpec == Spec /\ WF_vars(Writer) /\ WF_vars(Reader)

-----------------------------------------------------------------------------
(* Properties.                                                             *)

\* The writer's and the reader's state are of their types.
TypeOK ==
  /\ wpc \in {"open", "copy", "closing", "closed", "crashed"}
  /\ fault \in {"none", "aligned", "astray"} /\ handed \in 0 .. wblksiz
  /\ whole \in 0 .. AllBlocks /\ part \in 0 .. wblksiz - 1
  /\ rpc \in {"closed", "open", "copy", "truncate", "failed"}
  /\ sent \in Seq(Lengths) /\ wleft \in Nat /\ evnum \in Nat
  /\ next \in 0 .. BlkSiz /\ left \in 0 .. BlkSiz /\ nleft \in Nat
  /\ nread \in 0 .. AllBlocks + 1 /\ {dangling, eof, sure, garbage} \subseteq BOOLEAN

\* evio.c:133, "first start of event in this block": the header of every
\* block in the file gives the place of the first length word in it, 0 if
\* there is none; searches jump to it.
StartMarks ==
  \A b \in ToSet(file) :
    LET firsts == {k \in DOMAIN b.data : b.data[k][2] = 0}
    IN  IF firsts = {} THEN b.start = 0
        ELSE b.start >= HdSiz /\ b.start - HdSiz + 1 \in firsts
               /\ \A k \in firsts : b.start - HdSiz + 1 <= k

\* evRead hands out only whole events, in the order they were written, also
\* from a file that is being written, was left behind by a crash or lacks a
\* block: if the first block was there when it was opened, and as far as no
\* write had failed.
DeliversLog == INSTANCE EventLog WITH log <- Log, delivered <- got

ReadsWhatWasWritten == DeliversLog!Spec

\* A reader of a closed file, its blocks of the size evOpen gives them, gets
\* every event that its buffer can hold, up to the first it cannot.
ReadsAll ==
  []<>(\/ wblksiz # BlkSiz
       \/ Len(got) = Len(sent) /\ wpc = "closed"
       \/ Len(got) < Len(sent) /\ sent[Len(got) + 1] >= BufLen)

\* evfile_msg.h:16, "Unexpected end of file while reading event": what is not in
\* the file is not handed out as an event, if there was a header to open it by.
EndsInFile == part >= HdSiz => ~garbage

\* evio.c:130, "size of block in longwords": every header holds the size of
\* its block, which is what a reader takes it for.
HeaderSize == \A b \in ToSet(file) : b.blksiz = wblksiz

-----------------------------------------------------------------------------
(* What every step preserves, from which ReadsWhatWasWritten follows given *)
(* OtherSizes.  It is about the blocks written before any write failed, and *)
(* about the reader while it is sure.                                      *)

\* evIoctl is not asked for the size there is: it would free the buffer all
\* the same, and no header would tell.
OtherSizes == BlkSiz \notin NewSizes

Words == Nat \X Nat
Blocks == [blksiz : Nat, blknum : Nat, start : Nat, used : Nat, evnum : Nat, data : Seq(Words)]

\* The words of events of these lengths, one behind the other.
IsWord(lens, w) == w[1] \in DOMAIN lens /\ w[2] \in 0 .. lens[w[1]] - 1
NextWord(lens, w) == IF w[2] + 1 < lens[w[1]] THEN <<w[1], w[2] + 1>> ELSE <<w[1] + 1, 0>>
InOrder(lens, data) ==
  /\ \A k \in DOMAIN data : IsWord(lens, data[k])
  /\ \A k \in DOMAIN data : k > 1 => data[k] = NextWord(lens, data[k - 1])

\* The word that comes behind those of a block.
Behind(lens, b) == NextWord(lens, b.data[Len(b.data)])

\* A block in the file; the first one's mark is that of the first event.
BlockOK(lens, b) ==
  /\ b.used = HdSiz + Len(b.data) /\ InOrder(lens, b.data)
  /\ b.blknum = 0 => \/ b.data = <<>> /\ b.start = 0
                     \/ b.data # <<>> /\ b.start = HdSiz /\ b.data[1] = <<1, 0>>

\* Blocks with numbers below num.  The words of a block go on where those of
\* the block numbered before it end.
BlocksOK(lens, blocks, num) ==
  /\ \A n \in DOMAIN blocks : BlockOK(lens, blocks[n]) /\ blocks[n].blknum < num
  /\ \A m, n \in DOMAIN blocks : m < n => blocks[m].blknum < blocks[n].blknum
  /\ \A m, n \in DOMAIN blocks :
       blocks[n].blknum = blocks[m].blknum + 1 /\ blocks[n].data # <<>> =>
         blocks[n].data[1] = Behind(lens, blocks[m])
  /\ blocks # <<>> => blocks[1].blknum = 0

\* The block size, which evOpen compares, and the types of the writer's data.
SizeInv ==
  /\ sent \in Seq(Lengths) /\ {evnum, wblknum, wblksiz} \subseteq Nat /\ dangling \in BOOLEAN
  /\ file \in Seq(Blocks) /\ wbuf \in Blocks
  /\ wpc \in {"open", "copy"} => Len(wbuf.data) <= wblksiz - HdSiz
  /\ wpc \in {"open", "copy"} /\ fault = "none" => Len(wbuf.data) < wblksiz - HdSiz
  /\ wpc = "copy" => sent # <<>> /\ wleft \in 1 .. sent[Len(sent)]
  /\ wblknum = 0 => file = <<>>
  /\ file = <<>> /\ fault = "none" => wblknum = 0
  /\ wblknum = 0 => wbuf.blksiz = BlkSiz
  /\ file # <<>> => file[1].blksiz = BlkSiz
  /\ sure /\ (file = <<>> \/ wblksiz # BlkSiz) => rpc = "closed"
  /\ wblksiz = BlkSiz => ~dangling

\* Only evClose flushes a block without words.
FileInv ==
  /\ BlocksOK(sent, file, wblknum)
  /\ \A n \in DOMAIN file :
       file[n].data = <<>> => wpc \notin {"open", "copy"} /\ file[n].blknum = wblknum - 1

\* The word the writer comes to next.
Coming ==
  IF wpc = "copy" THEN <<Len(sent), sent[Len(sent)] - wleft>> ELSE <<Len(sent) + 1, 0>>

\* The buffer goes on where the file ends, and the writer where the buffer does.
WriterInv ==
  wpc \in {"open", "copy"} /\ fault = "none" =>
    LET first == IF wbuf.data = <<>> THEN Coming ELSE wbuf.data[1] IN
    /\ wbuf.blknum = wblknum /\ InOrder(sent, wbuf.data)
    /\ wblknum = 0 => wbuf.start = IF sent = <<>> THEN 0 ELSE HdSiz
    /\ wbuf.data # <<>> => Behind(sent, wbuf) = Coming
    /\ IF file = <<>> THEN first = <<1, 0>>
       ELSE file[Len(file)].blknum = wblknum - 1 /\ first = Behind(sent, file[Len(file)])

\* The word the reader comes to next, by what it has.
Wanted == <<Len(got) + 1, IF rpc = "copy" THEN Len(buffer) ELSE 0>>

\* The reader is at the word it wants, or at the end of a block behind which
\* that word comes.
AtWord ==
  /\ next >= HdSiz
  /\ IF left > 0 THEN rbuf.data[next - HdSiz + 1] = Wanted ELSE Behind(sent, rbuf) = Wanted
  /\ rpc = "copy" =>
       /\ Wanted[1] \in DOMAIN sent /\ nleft \in Nat \ {0} /\ nleft + Len(buffer) = sent[Wanted[1]]
       /\ buffer \in Seq(Words) /\ \A k \in DOMAIN buffer : buffer[k] = <<Wanted[1], k - 1>>

\* In a file without events it takes the header for an event that is longer
\* than the file.
AtHeader ==
  /\ nread = 1 /\ next + left = HdSiz
  /\ IF rpc = "copy" THEN nleft \in Nat /\ nleft > left ELSE next = 0

ReaderInv ==
  sure /\ rpc \in {"open", "copy"} =>
    /\ nread \in DOMAIN file /\ rbuf = file[nread] /\ rblknum = rbuf.blknum
    /\ {next, left} \subseteq Nat /\ next + left = rbuf.used
    /\ IF rbuf.data = <<>> THEN AtHeader ELSE AtWord

\* What was handed out are the first of the events written.
GotInv ==
  /\ got \in Seq(Seq(Words)) /\ Len(got) <= Len(sent)
  /\ \A i \in DOMAIN got : got[i] = Event(i, sent[i])
  /\ rpc = "closed" => got = <<>>

BlockFileInv == SizeInv /\ GotInv /\ (wblksiz = BlkSiz => FileInv /\ WriterInv /\ ReaderInv)
=============================================================================
