-------------------------- MODULE EvBlockFileProofs ---------------------------
(***************************************************************************)
(* evRead hands out the events that evWrite was given, whole and in order, *)
(* whatever the sizes of blocks, events and buffer and however many blocks *)
(* are lost, from a file whose first block was there when it was opened,   *)
(* up to the first write that failed, unless evIoctl is asked for the      *)
(* block size there is already and leaves a->next in the buffer it frees   *)
(* (OtherSizes).  BlockFileInv, in EvBlockFile, is what every step         *)
(* preserves.                                                              *)
(***************************************************************************)
EXTENDS EvBlockFile, Recursion, SequenceTheorems

-----------------------------------------------------------------------------
(* The words of events, one behind the other.                              *)

\* Lengths of events.
Lens == Seq(Nat \ {0})

\* A list of lengths.
LEMMA LensType ==
  ASSUME NEW lens \in Lens
  PROVE  /\ Len(lens) \in Nat /\ DOMAIN lens = 1 .. Len(lens)
         /\ \A i \in DOMAIN lens : lens[i] \in Nat \ {0}
BY ElementOfSeq DEF Lens

\* A list of words.
LEMMA WordsType ==
  ASSUME NEW data \in Seq(Words)
  PROVE  /\ Len(data) \in Nat /\ DOMAIN data = 1 .. Len(data)
         /\ \A k \in DOMAIN data : data[k] \in Words
BY ElementOfSeq

\* From a word of an event its next words follow, as far as the event goes.
LEMMA EventGoesOn ==
  ASSUME NEW lens \in Lens, NEW data \in Seq(Words), InOrder(lens, data),
         NEW i \in DOMAIN lens, NEW j \in Nat, NEW p \in DOMAIN data, data[p] = <<i, j>>,
         NEW m \in Nat, p + m <= Len(data), j + m < lens[i]
  PROVE  data[p + m] = <<i, j + m>>
<1> DEFINE S == {q \in Nat : p + q <= Len(data) /\ j + q < lens[i] => data[p + q] = <<i, j + q>>}
<1>1. Len(data) \in Nat /\ DOMAIN data = 1 .. Len(data) /\ lens[i] \in Nat /\ p \in Nat /\ p >= 1
  BY LensType, WordsType
<1>2. 0 \in S
  BY <1>1
<1>3. ASSUME NEW q \in S  PROVE q + 1 \in S
  <2>1. SUFFICES ASSUME p + (q + 1) <= Len(data), j + (q + 1) < lens[i]
                 PROVE  data[p + (q + 1)] = <<i, j + (q + 1)>>
    OBVIOUS
  <2>2. data[p + q] = <<i, j + q>>
    BY <1>1, <2>1
  <2>3. p + (q + 1) \in DOMAIN data /\ p + (q + 1) > 1 /\ p + (q + 1) - 1 = p + q
    BY <1>1, <2>1
  <2>4. data[p + (q + 1)] = NextWord(lens, data[p + q])
    BY <2>3 DEF InOrder
  <2>5. NextWord(lens, <<i, j + q>>) = <<i, j + q + 1>>
    BY <1>1, <2>1 DEF NextWord
  <2>6. QED
    BY <2>2, <2>4, <2>5
<1> HIDE DEF S
<1>4. S = Nat
  BY <1>2, <1>3, SetInduction DEF S
<1>5. QED
  BY <1>4 DEF S

\* An event more does not change the words of those before it.
LEMMA MoreEvents ==
  ASSUME NEW lens \in Lens, NEW len \in Nat \ {0}, NEW w, IsWord(lens, w)
  PROVE  IsWord(Append(lens, len), w) /\ NextWord(Append(lens, len), w) = NextWord(lens, w)
<1> DEFINE more == Append(lens, len)
<1>1. /\ DOMAIN lens = 1 .. Len(lens) /\ DOMAIN more = 1 .. Len(lens) + 1 /\ Len(lens) \in Nat
      /\ \A i \in DOMAIN lens : more[i] = lens[i]
  BY LensType, AppendProperties DEF Lens
<1>2. w[1] \in DOMAIN lens /\ w[1] \in DOMAIN more /\ more[w[1]] = lens[w[1]]
  BY <1>1 DEF IsWord
<1> HIDE DEF more
<1>3. IsWord(more, w) /\ NextWord(more, w) = NextWord(lens, w)
  BY <1>2 DEF IsWord, NextWord
<1>4. QED
  BY <1>3 DEF more

\* Nor does it change whether words are in order.
LEMMA MoreEventsInOrder ==
  ASSUME NEW lens \in Lens, NEW len \in Nat \ {0}, NEW data \in Seq(Words), InOrder(lens, data)
  PROVE  InOrder(Append(lens, len), data)
<1> DEFINE more == Append(lens, len)
<1>1. \A k \in DOMAIN data : IsWord(lens, data[k])
  BY DEF InOrder
<1>2. \A k \in DOMAIN data :
        IsWord(more, data[k]) /\ NextWord(more, data[k]) = NextWord(lens, data[k])
  BY <1>1, MoreEvents
<1>3. \A k \in DOMAIN data : k > 1 => k - 1 \in DOMAIN data
  BY WordsType
<1> HIDE DEF more
<1>4. InOrder(more, data)
  BY <1>2, <1>3 DEF InOrder
<1>5. QED
  BY <1>4 DEF more

-----------------------------------------------------------------------------
(* The writer.                                                             *)

\* Words of event n from its word done on.
PartOf(words, n, done) == \A k \in 1 .. Len(words) : words[k] = <<n, done + k - 1>>

\* The words evWrite copies in one pass.
LEMMA EventWords ==
  ASSUME NEW n \in Nat, NEW len \in Nat, NEW done \in Nat, NEW c \in Nat, done + c <= len
  PROVE  LET words == SubSeq(Event(n, len), done + 1, done + c) IN
         words \in Seq(Words) /\ Len(words) = c /\ PartOf(words, n, done)
<1> DEFINE words == SubSeq(Event(n, len), done + 1, done + c)
<1>1. \A k \in 1 .. len : Event(n, len)[k] = <<n, k - 1>>
  BY DEF Event
<1>2. \A k \in done + 1 .. done + c : k \in 1 .. len /\ <<n, k - 1>> \in Words
  BY DEF Words
<1>3. \A k \in done + 1 .. done + c : Event(n, len)[k] \in Words
  BY <1>1, <1>2
<1>4. done + 1 \in Int /\ done + c \in Int
  OBVIOUS
<1>5. /\ words \in Seq(Words)
      /\ Len(words) = IF done + 1 <= done + c THEN (done + c) - (done + 1) + 1 ELSE 0
      /\ \A k \in 1 .. (done + c) - (done + 1) + 1 : words[k] = Event(n, len)[done + 1 + k - 1]
  BY <1>3, <1>4, SubSeqProperties
<1> HIDE DEF words
<1>6. \A k \in 1 .. c : words[k] = <<n, done + k - 1>>
  <2> TAKE k \in 1 .. c
  <2>1. words[k] = Event(n, len)[done + k]
    BY <1>5
  <2>2. done + k \in 1 .. len
    OBVIOUS
  <2>3. QED
    BY <1>1, <2>1, <2>2
<1>7. Len(words) = c
  BY <1>5
<1>8. QED
  BY <1>5, <1>6, <1>7 DEF words, PartOf

\* They go on where the words in the buffer end.
LEMMA CopyGoesOn ==
  ASSUME NEW lens \in Lens, NEW data \in Seq(Words), InOrder(lens, data),
         NEW n \in DOMAIN lens, NEW done \in Nat, NEW words \in Seq(Words), words # <<>>,
         done + Len(words) <= lens[n], PartOf(words, n, done),
         data # <<>> => NextWord(lens, data[Len(data)]) = <<n, done>>
  PROVE  /\ data \o words \in Seq(Words) /\ InOrder(lens, data \o words)
         /\ Len(data \o words) = Len(data) + Len(words)
         /\ (data \o words)[Len(data) + Len(words)] = <<n, done + Len(words) - 1>>
         /\ (data \o words)[1] = IF data = <<>> THEN <<n, done>> ELSE data[1]
<1> DEFINE all == data \o words
<1>0. PICK c : c = Len(words)
  OBVIOUS
<1>1. /\ Len(data) \in Nat /\ DOMAIN data = 1 .. Len(data) /\ lens[n] \in Nat
      /\ data = <<>> <=> Len(data) = 0
      /\ c \in Nat \ {0} /\ done + c <= lens[n]
  BY <1>0, LensType, WordsType, EmptySeq
<1>2. /\ all \in Seq(Words) /\ Len(all) = Len(data) + c
      /\ \A k \in 1 .. Len(data) + c : all[k] = IF k <= Len(data) THEN data[k] ELSE words[k - Len(data)]
  BY <1>0, ConcatProperties
<1>3. DOMAIN all = 1 .. Len(data) + c
  BY <1>2, WordsType
<1> HIDE DEF all
<1>4. /\ \A k \in 1 .. Len(data) : all[k] = data[k]
      /\ \A k \in 1 .. c : all[Len(data) + k] = <<n, done + k - 1>>
  <2>1. \A k \in 1 .. Len(data) : all[k] = data[k]
    BY <1>1, <1>2
  <2>2. ASSUME NEW k \in 1 .. c  PROVE all[Len(data) + k] = words[k]
    <3>1. Len(data) + k \in 1 .. Len(data) + c /\ ~(Len(data) + k <= Len(data))
      BY <1>1
    <3>2. all[Len(data) + k] = words[(Len(data) + k) - Len(data)]
      BY <1>2, <3>1
    <3>3. (Len(data) + k) - Len(data) = k
      BY <1>1
    <3>4. QED
      BY <3>2, <3>3
  <2>3. QED
    BY <1>0, <2>1, <2>2 DEF PartOf
<1>5. ASSUME NEW k \in DOMAIN all
      PROVE  IsWord(lens, all[k]) /\ (k > 1 => all[k] = NextWord(lens, all[k - 1]))
  <2>1. CASE k <= Len(data)
    <3>1. /\ k \in DOMAIN data /\ all[k] = data[k]
          /\ k > 1 => k - 1 \in DOMAIN data /\ all[k - 1] = data[k - 1]
      BY <1>1, <1>3, <1>4, <2>1
    <3>2. QED
      BY <3>1 DEF InOrder
  <2>2. CASE k > Len(data)
    <3>1. PICK q \in 1 .. c : k = Len(data) + q
      <4>1. k - Len(data) \in 1 .. c /\ k = Len(data) + (k - Len(data))
        BY <1>1, <1>3, <2>2
      <4>2. QED
        BY <4>1
    <3>2. all[k] = <<n, done + q - 1>>
      BY <1>4, <3>1
    <3>3. done + q - 1 \in 0 .. lens[n] - 1
      BY <1>1
    <3>4. IsWord(lens, all[k])
      BY <3>2, <3>3 DEF IsWord
    <3>5. CASE q = 1
      <4>1. k > 1 => data # <<>> /\ all[k - 1] = data[Len(data)]
        BY <1>1, <1>4, <3>1, <3>5
      <4>2. all[k] = <<n, done>>
        BY <3>2, <3>5
      <4>3. QED
        BY <3>4, <4>1, <4>2
    <3>6. CASE q > 1
      <4>1. q - 1 \in 1 .. c /\ k - 1 = Len(data) + (q - 1)
        BY <1>1, <3>1, <3>6
      <4>2. all[k - 1] = <<n, done + (q - 1) - 1>>
        BY <1>4, <4>1
      <4>3. NextWord(lens, <<n, done + (q - 1) - 1>>) = <<n, done + q - 1>>
        BY <1>1, <3>6 DEF NextWord
      <4>4. QED
        BY <3>2, <3>4, <4>2, <4>3
    <3>7. QED
      BY <3>5, <3>6
  <2>3. QED
    BY <1>1, <1>3, <2>1, <2>2
<1>6. InOrder(lens, all)
  BY <1>5 DEF InOrder
<1>7. all[Len(data) + c] = <<n, done + c - 1>>
  <2>1. c \in 1 .. c
    BY <1>1
  <2>2. QED
    BY <1>4, <2>1, Zenon
<1>8. all[1] = IF data = <<>> THEN <<n, done>> ELSE data[1]
  <2>1. CASE data = <<>>
    <3>1. all[1] = <<n, done + 1 - 1>>
      BY <1>1, <1>4, <2>1
    <3>2. QED
      BY <2>1, <3>1
  <2>2. CASE data # <<>>
    BY <1>1, <1>4, <2>2
  <2>3. QED
    BY <2>1, <2>2
<1>9. QED
  BY <1>0, <1>2, <1>6, <1>7, <1>8 DEF all

-----------------------------------------------------------------------------
(* The blocks of the file.                                                 *)

\* A block taken out of the file is gone, the others keep their order.
LEMMA RemoveAtProperties ==
  ASSUME NEW S, NEW s \in Seq(S), NEW n \in 1 .. Len(s)
  PROVE  /\ RemoveAt(s, n) \in Seq(S)
         /\ Len(RemoveAt(s, n)) = Len(s) - 1
         /\ \A i \in 1 .. Len(s) - 1 : RemoveAt(s, n)[i] = IF i < n THEN s[i] ELSE s[i + 1]
<1>0. Len(s) \in Nat /\ n \in Nat /\ 1 <= n /\ n <= Len(s)
  OBVIOUS
<1> DEFINE front == SubSeq(s, 1, n - 1)
           back == SubSeq(s, n + 1, Len(s))
<1>1. /\ front \in Seq(S) /\ Len(front) = n - 1
      /\ \A i \in 1 .. n - 1 : front[i] = s[i]
  <2>1. \A i \in 1 .. n - 1 : s[i] \in S
    OBVIOUS
  <2>2. 1 \in Int /\ n - 1 \in Int
    OBVIOUS
  <2>3. /\ front \in Seq(S)
        /\ Len(front) = IF 1 <= n - 1 THEN (n - 1) - 1 + 1 ELSE 0
        /\ \A i \in 1 .. (n - 1) - 1 + 1 : front[i] = s[1 + i - 1]
    BY <2>1, <2>2, SubSeqProperties
  <2>4. QED
    BY <2>3
<1>2. /\ back \in Seq(S) /\ Len(back) = Len(s) - n
      /\ \A i \in 1 .. Len(s) - n : back[i] = s[n + i]
  <2>1. \A i \in n + 1 .. Len(s) : s[i] \in S
    OBVIOUS
  <2>2. n + 1 \in Int /\ Len(s) \in Int
    OBVIOUS
  <2>3. /\ back \in Seq(S)
        /\ Len(back) = IF n + 1 <= Len(s) THEN Len(s) - (n + 1) + 1 ELSE 0
        /\ \A i \in 1 .. Len(s) - (n + 1) + 1 : back[i] = s[(n + 1) + i - 1]
    BY <2>1, <2>2, SubSeqProperties
  <2>4. QED
    BY <2>3
<1> HIDE DEF front, back
<1>3. /\ front \o back \in Seq(S)
      /\ Len(front \o back) = Len(front) + Len(back)
      /\ \A i \in 1 .. Len(front) + Len(back) : (front \o back)[i] =
           IF i <= Len(front) THEN front[i] ELSE back[i - Len(front)]
  BY <1>1, <1>2, ConcatProperties
<1>4. RemoveAt(s, n) = front \o back
  BY DEF RemoveAt, front, back
<1>5. ASSUME NEW i \in 1 .. Len(s) - 1
      PROVE  (front \o back)[i] = IF i < n THEN s[i] ELSE s[i + 1]
  <2>1. CASE i < n
    BY <1>1, <1>2, <1>3, <2>1
  <2>2. CASE i >= n
    <3>1. i - (n - 1) \in 1 .. Len(s) - n /\ n + (i - (n - 1)) = i + 1
      BY <2>2
    <3>2. back[i - (n - 1)] = s[i + 1]
      BY <1>2, <3>1
    <3>3. (front \o back)[i] = back[i - (n - 1)]
      BY <1>1, <1>2, <1>3, <2>2
    <3>4. QED
      BY <2>2, <3>2, <3>3
  <2>3. i < n \/ i >= n
    BY <1>0
  <2>4. QED
    BY <2>1, <2>2, <2>3, Zenon
<1>6. Len(front) + Len(back) = Len(s) - 1
  BY <1>0, <1>1, <1>2
<1>7. QED
  BY <1>3, <1>4, <1>5, <1>6, Zenon

\* What a block is.
LEMMA BlockType ==
  ASSUME NEW b \in Blocks
  PROVE  /\ {b.blksiz, b.blknum, b.start, b.used, b.evnum} \subseteq Nat
         /\ b.data \in Seq(Words) /\ Len(b.data) \in Nat /\ DOMAIN b.data = 1 .. Len(b.data)
         /\ b.data = <<>> <=> Len(b.data) = 0
<1>1. {b.blksiz, b.blknum, b.start, b.used, b.evnum} \subseteq Nat /\ b.data \in Seq(Words)
  BY DEF Blocks
<1>2. QED
  BY <1>1, WordsType, EmptySeq

\* A file is a list of blocks.
LEMMA FileType ==
  ASSUME NEW blocks \in Seq(Blocks)
  PROVE  /\ Len(blocks) \in Nat /\ DOMAIN blocks = 1 .. Len(blocks)
         /\ \A n \in DOMAIN blocks : blocks[n] \in Blocks
         /\ blocks = <<>> <=> Len(blocks) = 0
BY ElementOfSeq, EmptySeq

\* An event more does not change the word that comes behind a block.
LEMMA MoreEventsBehind ==
  ASSUME NEW lens \in Lens, NEW len \in Nat \ {0}, NEW b \in Blocks,
         InOrder(lens, b.data), b.data # <<>>
  PROVE  Behind(Append(lens, len), b) = Behind(lens, b)
<1>1. Len(b.data) \in DOMAIN b.data
  BY BlockType
<1>2. IsWord(lens, b.data[Len(b.data)])
  BY <1>1 DEF InOrder
<1>3. QED
  BY <1>2, MoreEvents DEF Behind

\* So the blocks of the file stay as they should be.
LEMMA MoreEventsBlocks ==
  ASSUME NEW lens \in Lens, NEW len \in Nat \ {0}, NEW blocks \in Seq(Blocks), NEW num \in Nat,
         BlocksOK(lens, blocks, num), \A n \in DOMAIN blocks : blocks[n].data # <<>>
  PROVE  BlocksOK(Append(lens, len), blocks, num)
<1> DEFINE more == Append(lens, len)
<1>1. ASSUME NEW n \in DOMAIN blocks
      PROVE  BlockOK(more, blocks[n]) /\ Behind(more, blocks[n]) = Behind(lens, blocks[n])
  <2>1. blocks[n] \in Blocks /\ BlockOK(lens, blocks[n])
    BY FileType DEF BlocksOK
  <2>2. InOrder(lens, blocks[n].data) /\ blocks[n].data \in Seq(Words)
    BY <2>1, BlockType DEF BlockOK
  <2>3. InOrder(more, blocks[n].data) /\ Behind(more, blocks[n]) = Behind(lens, blocks[n])
    BY <2>1, <2>2, MoreEventsInOrder, MoreEventsBehind
  <2> HIDE DEF more
  <2>4. QED
    BY <2>1, <2>3 DEF BlockOK
<1> HIDE DEF more
<1>2. BlocksOK(more, blocks, num)
  BY <1>1 DEF BlocksOK
<1>3. QED
  BY <1>2 DEF more

\* A block flushed behind the last one.
LEMMA FlushKeepsBlocks ==
  ASSUME NEW lens \in Lens, NEW blocks \in Seq(Blocks), NEW num \in Nat, BlocksOK(lens, blocks, num),
         NEW b \in Blocks, b.blknum = num, BlockOK(lens, b), num = 0 <=> blocks = <<>>,
         blocks # <<>> => /\ blocks[Len(blocks)].blknum = num - 1
                          /\ b.data # <<>> => b.data[1] = Behind(lens, blocks[Len(blocks)])
  PROVE  BlocksOK(lens, Append(blocks, b), num + 1)
<1> DEFINE all == Append(blocks, b)
           l == Len(blocks)
<1>1. /\ l \in Nat /\ DOMAIN blocks = 1 .. l /\ \A n \in 1 .. l : blocks[n] \in Blocks
      /\ blocks = <<>> <=> l = 0
  BY FileType
<1>2. /\ all \in Seq(Blocks) /\ Len(all) = l + 1 /\ all[l + 1] = b
      /\ \A n \in 1 .. l : all[n] = blocks[n]
  BY AppendProperties
<1>3. DOMAIN all = 1 .. l + 1
  BY <1>2, FileType
<1>4. \A n \in 1 .. l : blocks[n].blknum \in Nat
  BY <1>1, BlockType
<1> HIDE DEF all, l
<1>5. ASSUME NEW n \in DOMAIN all  PROVE BlockOK(lens, all[n]) /\ all[n].blknum < num + 1
  <2>1. CASE n = l + 1
    BY <1>2, <2>1
  <2>2. CASE n # l + 1
    <3>1. n \in 1 .. l
      BY <1>1, <1>3, <2>2
    <3>2. BlockOK(lens, blocks[n]) /\ blocks[n].blknum < num
      BY <1>1, <3>1 DEF BlocksOK
    <3>3. QED
      BY <1>2, <1>4, <3>1, <3>2
  <2>3. QED
    BY <2>1, <2>2
<1>6. ASSUME NEW m \in DOMAIN all, NEW n \in DOMAIN all, m < n
      PROVE  all[m].blknum < all[n].blknum
  <2>1. m \in 1 .. l
    BY <1>1, <1>3, <1>6
  <2>2. CASE n = l + 1
    <3>1. blocks[m].blknum < num
      BY <1>1, <2>1 DEF BlocksOK
    <3>2. QED
      BY <1>2, <2>1, <2>2, <3>1
  <2>3. CASE n # l + 1
    <3>1. n \in 1 .. l
      BY <1>1, <1>3, <2>3
    <3>2. blocks[m].blknum < blocks[n].blknum
      BY <1>1, <1>6, <2>1, <3>1 DEF BlocksOK
    <3>3. QED
      BY <1>2, <2>1, <3>1, <3>2
  <2>4. QED
    BY <2>2, <2>3
<1>7. ASSUME NEW m \in DOMAIN all, NEW n \in DOMAIN all,
             all[n].blknum = all[m].blknum + 1, all[n].data # <<>>
      PROVE  all[n].data[1] = Behind(lens, all[m])
  <2>1. CASE n = l + 1
    <3>1. m \in 1 .. l /\ blocks[m].blknum = num - 1
      BY <1>1, <1>2, <1>3, <1>4, <1>7, <2>1
    <3>2. l \in 1 .. l /\ blocks # <<>> /\ blocks[l].blknum = num - 1
      BY <1>1, <3>1 DEF l
    <3>3. m = l
      <4>1. m < l => blocks[m].blknum < blocks[l].blknum
        BY <1>1, <3>1, <3>2 DEF BlocksOK
      <4>2. QED
        BY <1>1, <1>4, <3>1, <3>2, <4>1
    <3>4. b.data # <<>> /\ b.data[1] = Behind(lens, blocks[l])
      BY <1>2, <1>7, <2>1, <3>2 DEF l
    <3>5. QED
      BY <1>2, <2>1, <3>1, <3>3, <3>4
  <2>2. CASE n # l + 1
    <3>1. n \in 1 .. l
      BY <1>1, <1>3, <2>2
    <3>2. m \in 1 .. l
      <4>1. blocks[n].blknum < num
        BY <1>1, <3>1 DEF BlocksOK
      <4>2. m # l + 1
        BY <1>2, <1>4, <1>7, <3>1, <4>1
      <4>3. QED
        BY <1>1, <1>3, <4>2
    <3>3. blocks[n].blknum = blocks[m].blknum + 1 /\ blocks[n].data # <<>>
      BY <1>2, <1>7, <3>1, <3>2
    <3>4. blocks[n].data[1] = Behind(lens, blocks[m])
      BY <1>1, <3>1, <3>2, <3>3 DEF BlocksOK
    <3>5. QED
      BY <1>2, <3>1, <3>2, <3>4
  <2>3. QED
    BY <2>1, <2>2
<1>8. all[1].blknum = 0
  <2>1. CASE blocks = <<>>
    BY <1>1, <1>2, <2>1
  <2>2. CASE blocks # <<>>
    <3>1. 1 \in 1 .. l /\ blocks[1].blknum = 0
      BY <1>1, <2>2 DEF BlocksOK
    <3>2. QED
      BY <1>2, <3>1
  <2>3. QED
    BY <2>1, <2>2
<1>9. BlocksOK(lens, all, num + 1)
  BY <1>5, <1>6, <1>7, <1>8 DEF BlocksOK
<1>10. QED
  BY <1>9 DEF all

\* A block other than the first is lost.
LEMMA LossKeepsBlocks ==
  ASSUME NEW lens \in Lens, NEW blocks \in Seq(Blocks), NEW num \in Nat, BlocksOK(lens, blocks, num),
         NEW k \in 2 .. Len(blocks)
  PROVE  /\ RemoveAt(blocks, k) \in Seq(Blocks) /\ RemoveAt(blocks, k) # <<>>
         /\ RemoveAt(blocks, k)[1] = blocks[1]
         /\ BlocksOK(lens, RemoveAt(blocks, k), num)
         /\ \A n \in DOMAIN RemoveAt(blocks, k) : \E m \in DOMAIN blocks : RemoveAt(blocks, k)[n] = blocks[m]
<1> DEFINE rest == RemoveAt(blocks, k)
           Old(n) == IF n < k THEN n ELSE n + 1
<1>1. Len(blocks) \in Nat /\ DOMAIN blocks = 1 .. Len(blocks) /\ k \in 1 .. Len(blocks)
  BY FileType, SMTT(30)
<1>2. /\ rest \in Seq(Blocks) /\ Len(rest) = Len(blocks) - 1
      /\ \A n \in 1 .. Len(blocks) - 1 : rest[n] = IF n < k THEN blocks[n] ELSE blocks[n + 1]
  BY <1>1, RemoveAtProperties
<1>3. DOMAIN rest = 1 .. Len(blocks) - 1
  BY <1>1, <1>2, FileType
<1> HIDE DEF rest
<1>4. \A n \in DOMAIN rest : Old(n) \in DOMAIN blocks /\ rest[n] = blocks[Old(n)]
  BY <1>1, <1>2, <1>3
<1>5. \A m, n \in DOMAIN rest : m < n => Old(m) < Old(n)
  BY <1>1, <1>3
<1>6. 1 \in DOMAIN rest /\ rest[1] = blocks[1]
  BY <1>1, <1>2, <1>3
<1> HIDE DEF Old
<1>7. \A n \in DOMAIN rest : BlockOK(lens, rest[n]) /\ rest[n].blknum < num
  BY <1>4 DEF BlocksOK
<1>8. \A m, n \in DOMAIN rest : m < n => rest[m].blknum < rest[n].blknum
  BY <1>4, <1>5 DEF BlocksOK
<1>9. ASSUME NEW m \in DOMAIN rest, NEW n \in DOMAIN rest,
             rest[n].blknum = rest[m].blknum + 1, rest[n].data # <<>>
      PROVE  rest[n].data[1] = Behind(lens, rest[m])
  BY <1>4, <1>9 DEF BlocksOK
<1>10. rest[1].blknum = 0
  <2>1. blocks # <<>>
    BY <1>1, EmptySeq
  <2>2. QED
    BY <1>6, <2>1 DEF BlocksOK
<1>11. BlocksOK(lens, rest, num)
  BY <1>7, <1>8, <1>9, <1>10 DEF BlocksOK
<1>12. rest # <<>>
  BY <1>1, <1>2, EmptySeq
<1>13. QED
  BY <1>2, <1>4, <1>6, <1>11, <1>12 DEF rest

-----------------------------------------------------------------------------
(* The block size.                                                         *)

\* The constants.
LEMMA ConstantTypes ==
  /\ HdSiz \in Nat \ {0} /\ BlkSiz \in Nat /\ BlkSiz > HdSiz /\ Lengths \subseteq Nat \ {0}
  /\ \A size \in NewSizes : size \in Nat /\ size > HdSiz
BY BlockAssumption

\* The lengths of the events written.
LEMMA SentType ==
  ASSUME SizeInv
  PROVE  /\ sent \in Lens /\ Len(sent) \in Nat /\ DOMAIN sent = 1 .. Len(sent)
         /\ \A i \in DOMAIN sent : sent[i] \in Nat \ {0}
         /\ sent = <<>> <=> Len(sent) = 0
<1>1. sent \in Lens
  BY ConstantTypes, SeqMonotonic, Zenon DEF SizeInv, Lens
<1>2. sent = <<>> <=> Len(sent) = 0
  BY <1>1, EmptySeq DEF Lens
<1>3. QED
  BY <1>1, <1>2, LensType

\* A block as evFlush leaves it in memory has room.
LEMMA NewBlockType ==
  ASSUME NEW size \in Nat, NEW num \in Nat
  PROVE  /\ NewBlock(size, num) \in Blocks /\ NewBlock(size, num).data = <<>>
         /\ NewBlock(size, num).blksiz = size /\ NewBlock(size, num).blknum = num
         /\ NewBlock(size, num).start = 0
<1>1. <<>> \in Seq(Words)
  BY EmptySeq
<1>2. QED
  BY <1>1, ConstantTypes DEF NewBlock, Blocks

\* A block that goes into the file.
LEMMA FlushedType ==
  ASSUME SizeInv, NEW b \in Blocks
  PROVE  LET flushed == Flushed(b) IN
         /\ flushed \in Blocks /\ flushed.blksiz = b.blksiz /\ flushed.blknum = b.blknum
         /\ flushed.start = b.start /\ flushed.data = b.data
         /\ ~dangling => flushed.used = HdSiz + Len(b.data)
<1>1. Offset(b) \in Nat /\ (~dangling => Offset(b) = HdSiz + Len(b.data)) /\ evnum \in Nat
  BY BlockType, ConstantTypes DEF Offset, SizeInv
<1>2. QED
  BY <1>1 DEF Blocks, Flushed

\* The pass of evWrite's loop: some words, all of the event or all there is
\* room for, and the buffer with them.
LEMMA PassOfWrite ==
  ASSUME SizeInv, wpc = "copy"
  PROVE  LET n == Len(sent)
             ncopy == Fewer(wleft, Room)
             done == sent[n] - wleft
             words == SubSeq(Event(n, sent[n]), done + 1, done + ncopy)
             filled == [wbuf EXCEPT !.data = @ \o Copied(words)]
         IN  /\ n \in DOMAIN sent /\ done \in Nat /\ ncopy \in Nat /\ Room \in Nat
             /\ fault = "none" => ncopy # 0
             /\ wleft \in Nat /\ ncopy <= wleft /\ ncopy <= Room
             /\ words \in Seq(Words) /\ Len(words) = ncopy /\ PartOf(words, n, done)
             /\ filled \in Blocks /\ filled.blknum = wbuf.blknum /\ filled.start = wbuf.start
             /\ filled.blksiz = wbuf.blksiz
             /\ Len(filled.data) = Len(wbuf.data) + ncopy
             /\ ~dangling => filled.data = wbuf.data \o words
<1> DEFINE n == Len(sent)
           ncopy == Fewer(wleft, Room)
           done == sent[n] - wleft
           words == SubSeq(Event(n, sent[n]), done + 1, done + ncopy)
           filled == [wbuf EXCEPT !.data = @ \o Copied(words)]
<1>1. n \in Nat /\ n \in DOMAIN sent /\ sent[n] \in Nat
  BY SentType DEF SizeInv
<1>2. wleft \in Nat \ {0} /\ wleft <= sent[n]
  BY <1>1 DEF SizeInv
<1>3. wbuf \in Blocks /\ wbuf.data \in Seq(Words) /\ Len(wbuf.data) \in Nat
  BY BlockType DEF SizeInv
<1>4. Room \in Nat /\ (fault = "none" => Room # 0)
  BY <1>3, ConstantTypes DEF Room, SizeInv
<1>5. ncopy \in Nat /\ (fault = "none" => ncopy # 0) /\ ncopy <= wleft /\ ncopy <= Room
  BY <1>2, <1>4 DEF Fewer
<1>6. done \in Nat /\ done + ncopy <= sent[n]
  BY <1>1, <1>2, <1>5
<1> HIDE DEF ncopy, done, n
<1>7. words \in Seq(Words) /\ Len(words) = ncopy /\ PartOf(words, n, done)
  <2>1. n \in Nat /\ sent[n] \in Nat /\ done \in Nat /\ ncopy \in Nat /\ done + ncopy <= sent[n]
    BY <1>1, <1>5, <1>6
  <2>2. QED
    BY <2>1, EventWords, Zenon
<1> HIDE DEF words
<1>8. Copied(words) \in Seq(Words) /\ Len(Copied(words)) = ncopy /\ (~dangling => Copied(words) = words)
  <2>1. CASE dangling
    <3>1. DOMAIN words = 1 .. ncopy
      BY <1>7, WordsType
    <3>2. \A k \in 1 .. ncopy : <<MaxEvents + 1, k>> \in Words
      BY <1>5, BlockAssumption DEF Words
    <3> DEFINE noise == [k \in 1 .. ncopy |-> <<MaxEvents + 1, k>>]
    <3>3. noise \in Seq(Words) /\ Len(noise) = ncopy
      BY <1>5, <3>2
    <3>4. Copied(words) = noise
      BY <2>1, <3>1 DEF Copied
    <3> HIDE DEF noise
    <3>5. QED
      BY <2>1, <3>3, <3>4
  <2>2. CASE ~dangling
    BY <1>7, <2>2 DEF Copied
  <2>3. QED
    BY <2>1, <2>2
<1>9. /\ wbuf.data \o Copied(words) \in Seq(Words)
      /\ Len(wbuf.data \o Copied(words)) = Len(wbuf.data) + ncopy
  BY <1>3, <1>8, ConcatProperties
<1>10. /\ filled \in Blocks /\ filled.data = wbuf.data \o Copied(words)
       /\ filled.blknum = wbuf.blknum /\ filled.start = wbuf.start /\ filled.blksiz = wbuf.blksiz
  BY <1>3, <1>9 DEF Blocks
<1>11. Len(filled.data) = Len(wbuf.data) + ncopy /\ (~dangling => filled.data = wbuf.data \o words)
  BY <1>8, <1>9, <1>10
<1> HIDE DEF filled
<1>12. QED
  BY <1>1, <1>2, <1>4, <1>5, <1>6, <1>7, <1>10, <1>11 DEF filled, words, done, ncopy, n

\* What the file is when block b has been flushed.
LEMMA FlushedFile ==
  ASSUME SizeInv, NEW b \in Blocks, EvFlush(b), fault = "none"
  PROVE  LET flushed == Flushed(b) IN
         /\ file' = Append(file, flushed) /\ file' \in Seq(Blocks) /\ file' # <<>>
         /\ Len(file') = Len(file) + 1 /\ file'[Len(file) + 1] = flushed
         /\ \A n \in 1 .. Len(file) : file'[n] = file[n]
         /\ wblknum' = wblknum + 1 /\ wblknum' \in Nat \ {0}
         /\ wbuf' \in Blocks /\ wbuf'.data = <<>> /\ wbuf'.blknum = wblknum' /\ Len(wbuf'.data) = 0
         /\ dangling' = FALSE
<1> DEFINE flushed == Flushed(b)
<1>1. file \in Seq(Blocks) /\ flushed \in Blocks
  BY FlushedType DEF SizeInv
<1>2. file' = Append(file, flushed) /\ wblknum' = wblknum + 1 /\ dangling' = FALSE
      /\ wbuf' = NewBlock(wblksiz, wblknum + 1)
  BY DEF EvFlush
<1>3. wblksiz \in Nat /\ wblknum \in Nat /\ wblknum + 1 \in Nat \ {0}
  BY DEF SizeInv
<1>4. /\ wbuf' \in Blocks /\ wbuf'.data = <<>> /\ wbuf'.blknum = wblknum + 1
  BY <1>2, <1>3, NewBlockType
<1>5. Len(wbuf'.data) = 0
  BY <1>4, EmptySeq
<1> HIDE DEF flushed
<1>6. QED
  BY <1>1, <1>2, <1>3, <1>4, <1>5, AppendProperties DEF flushed

\* The first block in the file says that it has the size blocks have at first.
LEMMA FirstBlock ==
  ASSUME SizeInv, NEW b \in Blocks, EvFlush(b), fault = "none", b.blksiz = wbuf.blksiz
  PROVE  file'[1].blksiz = BlkSiz
<1> DEFINE flushed == Flushed(b)
<1>1. /\ file'[Len(file) + 1] = flushed /\ flushed.blksiz = b.blksiz
      /\ \A n \in 1 .. Len(file) : file'[n] = file[n]
  BY FlushedFile, FlushedType, Zenon
<1>2. Len(file) \in Nat /\ (file = <<>> <=> Len(file) = 0)
  BY FileType DEF SizeInv
<1> HIDE DEF flushed
<1>3. CASE file = <<>>
  <2>1. wbuf.blksiz = BlkSiz
    BY <1>3 DEF SizeInv
  <2>2. QED
    BY <1>1, <1>2, <1>3, <2>1
<1>4. CASE file # <<>>
  <2>1. 1 \in 1 .. Len(file) /\ file[1].blksiz = BlkSiz
    BY <1>2, <1>4 DEF SizeInv
  <2>2. QED
    BY <1>1, <2>1
<1>5. QED
  BY <1>3, <1>4

\* After a write that failed the file is as it was before, for what is proved.
LEMMA FlushBehind ==
  ASSUME SizeInv, NEW b \in Blocks,
         EvFlushFails(b) \/ (EvFlush(b) /\ fault # "none")
  PROVE  /\ file' = file /\ fault' # "none"
         /\ \/ wblknum' = wblknum /\ wbuf' = b /\ dangling' = dangling
            \/ /\ wblknum' = wblknum + 1 /\ dangling' = FALSE
               /\ wbuf' \in Blocks /\ Len(wbuf'.data) = 0
<1>1. CASE EvFlushFails(b)
  BY <1>1 DEF EvFlushFails
<1>2. CASE EvFlush(b) /\ fault # "none"
  <2>1. /\ file' = file /\ fault' # "none" /\ wblknum' = wblknum + 1 /\ dangling' = FALSE
        /\ wbuf' = NewBlock(wblksiz, wblknum + 1)
    BY <1>2 DEF EvFlush
  <2>2. wblksiz \in Nat /\ wblknum + 1 \in Nat
    BY DEF SizeInv
  <2>3. wbuf' \in Blocks /\ wbuf'.data = <<>>
    BY <2>1, <2>2, NewBlockType
  <2>4. QED
    BY <2>1, <2>3, EmptySeq
<1>3. QED
  BY <1>1, <1>2

\* The block size cannot change once there are blocks in the file, and no
\* block of another size is read.
LEMMA SizeStep ==
  ASSUME OtherSizes, SizeInv, [Next]_vars
  PROVE  SizeInv'
<1>1. CASE EvIoctl
  <2>1. PICK size \in NewSizes : wblksiz' = size /\ wbuf' = NewBlock(BlkSiz, 0)
    BY <1>1 DEF EvIoctl
  <2>2. size \in Nat /\ size > HdSiz /\ size # BlkSiz
    BY <2>1, ConstantTypes DEF OtherSizes
  <2>3. /\ wbuf' \in Blocks /\ wbuf'.data = <<>> /\ wbuf'.blksiz = BlkSiz
    BY <2>1, NewBlockType, ConstantTypes
  <2>4. Len(wbuf'.data) < wblksiz' - HdSiz /\ Len(wbuf'.data) <= wblksiz' - HdSiz
    BY <2>1, <2>2, <2>3, EmptySeq, ConstantTypes
  <2>5. wblknum = 0 /\ file = <<>> /\ (sure => rpc = "closed") /\ wpc = "open"
    BY <1>1 DEF EvIoctl, SizeInv
  <2>6. /\ UNCHANGED <<sent, evnum, wblknum, file, rpc, sure, wpc>>
        /\ dangling' \in BOOLEAN
    BY <1>1 DEF EvIoctl, fileVars, readerVars
  <2>7. QED
    BY <2>1, <2>2, <2>3, <2>4, <2>5, <2>6 DEF SizeInv
<1>2. CASE EvWrite
  <2>1. PICK len \in Lengths : sent' = Append(sent, len) /\ wleft' = len
    BY <1>2 DEF EvWrite
  <2>2. /\ sent' \in Seq(Lengths) /\ sent' # <<>> /\ Len(sent') = Len(sent) + 1
        /\ sent'[Len(sent) + 1] = len
    BY <2>1, AppendProperties DEF SizeInv
  <2>3. sent'[Len(sent')] = len /\ len \in Nat \ {0}
    BY <2>2, ConstantTypes
  <2>4. wleft' \in 1 .. sent'[Len(sent')]
    BY <2>1, <2>3
  <2>5. wbuf' \in Blocks /\ wbuf'.data = wbuf.data /\ wbuf'.blksiz = wbuf.blksiz
    <3>1. wbuf \in Blocks /\ Offset(wbuf) \in Nat
      BY BlockType, ConstantTypes DEF SizeInv, Offset
    <3>2. QED
      BY <1>2, <3>1 DEF EvWrite, Blocks
  <2>6. evnum' \in Nat
    BY <1>2 DEF EvWrite, SizeInv
  <2>7. UNCHANGED <<file, wblksiz, wblknum, dangling, fault, rpc, sure>> /\ wpc = "open" /\ wpc' = "copy"
    BY <1>2 DEF EvWrite, fileVars, readerVars
  <2>8. QED
    BY <2>2, <2>4, <2>5, <2>6, <2>7 DEF SizeInv
<1>3. CASE CopyIn
  <2> DEFINE n == Len(sent)
             ncopy == Fewer(wleft, Room)
             done == sent[n] - wleft
             words == SubSeq(Event(n, sent[n]), done + 1, done + ncopy)
             filled == [wbuf EXCEPT !.data = @ \o Copied(words)]
  <2>1. wpc = "copy"
    BY <1>3 DEF CopyIn
  <2>2. /\ n \in DOMAIN sent /\ ncopy \in Nat /\ Room \in Nat
        /\ wleft \in Nat /\ ncopy <= wleft /\ ncopy <= Room
        /\ filled \in Blocks /\ filled.blksiz = wbuf.blksiz
        /\ Len(filled.data) = Len(wbuf.data) + ncopy
    BY <2>1, PassOfWrite, Zenon
  <2>3. /\ wleft' = wleft - ncopy
        /\ wpc' = "open" \/ wpc' = (IF wleft = ncopy THEN "open" ELSE "copy")
        /\ \/ ncopy = Room /\ (EvFlush(filled) \/ EvFlushFails(filled))
           \/ ncopy # Room /\ wbuf' = filled /\ UNCHANGED <<file, wblknum, dangling, fault>>
        /\ UNCHANGED <<wblksiz, evnum, sent, rpc, sure>>
    BY <1>3, Zenon DEF CopyIn, readerVars
  <2> HIDE DEF ncopy, filled
  <2>a. /\ Room = wblksiz - HdSiz - Len(wbuf.data) /\ wblksiz \in Nat /\ Len(wbuf.data) \in Nat
        /\ wbuf \in Blocks /\ wblknum \in Nat
    BY BlockType DEF Room, SizeInv
  <2>4. wpc' = "copy" => sent' # <<>> /\ wleft' \in 1 .. sent'[Len(sent')]
    <3>1. sent # <<>> /\ wleft \in 1 .. sent[Len(sent)] /\ sent[Len(sent)] \in Nat
      BY <2>1, <2>2, SentType DEF SizeInv
    <3>2. wleft # ncopy => wleft - ncopy \in 1 .. sent[Len(sent)]
      BY <2>2, <3>1
    <3>3. QED
      BY <2>3, <3>1, <3>2
  <2>5. CASE ncopy = Room /\ EvFlush(filled) /\ fault = "none"
    <3>1. EvFlush(filled)
      BY <2>5
    <3>2. /\ file' \in Seq(Blocks) /\ file' # <<>> /\ wblknum' \in Nat \ {0} /\ dangling' = FALSE
          /\ wbuf' \in Blocks /\ Len(wbuf'.data) = 0
      BY <2>2, <2>5, FlushedFile, Zenon
    <3>3. file'[1].blksiz = BlkSiz
      BY <2>2, <2>5, FirstBlock
    <3>4. 0 < wblksiz' - HdSiz /\ 0 <= wblksiz' - HdSiz
      BY <2>1, <2>3, <2>5, <2>a, ConstantTypes DEF SizeInv
    <3>5. sure' /\ wblksiz' # BlkSiz => rpc' = "closed"
      BY <2>3 DEF SizeInv
    <3>6. QED
      BY <2>3, <2>4, <3>2, <3>3, <3>4, <3>5 DEF SizeInv
  <2>6. CASE ncopy # Room
    <3>1. wbuf' = filled /\ UNCHANGED <<file, wblknum, dangling, fault>>
      BY <2>3, <2>6
    <3>2. Len(wbuf'.data) < wblksiz' - HdSiz /\ Len(wbuf'.data) <= wblksiz' - HdSiz
      BY <2>2, <2>3, <2>6, <2>a, <3>1, ConstantTypes
    <3>3. QED
      BY <2>2, <2>3, <2>4, <3>1, <3>2 DEF SizeInv
  <2>7. CASE ncopy = Room /\ (EvFlushFails(filled) \/ (EvFlush(filled) /\ fault # "none"))
    <3>1. /\ file' = file /\ fault' # "none"
          /\ \/ wblknum' = wblknum /\ wbuf' = filled /\ dangling' = dangling
             \/ /\ wblknum' = wblknum + 1 /\ dangling' = FALSE
                /\ wbuf' \in Blocks /\ Len(wbuf'.data) = 0
      BY <2>2, <2>7, FlushBehind, Zenon
    <3>2. wbuf' \in Blocks /\ Len(wbuf'.data) <= wblksiz' - HdSiz /\ wblknum' \in Nat
      BY <2>2, <2>3, <2>7, <2>a, <3>1, ConstantTypes
    <3>3. wblknum' = 0 => file' = <<>> /\ wbuf'.blksiz = BlkSiz
      BY <2>2, <2>a, <3>1 DEF SizeInv
    <3>4. dangling' \in BOOLEAN /\ (wblksiz' = BlkSiz => ~dangling')
      <4>1. dangling \in BOOLEAN /\ (wblksiz = BlkSiz => ~dangling)
        BY DEF SizeInv
      <4>2. CASE dangling' = dangling
        BY <2>3, <4>1, <4>2
      <4>3. CASE dangling' = FALSE
        BY <4>3
      <4>4. QED
        BY <3>1, <4>2, <4>3
    <3>5. sure' /\ (file' = <<>> \/ wblksiz' # BlkSiz) => rpc' = "closed"
      BY <2>3, <3>1, Zenon DEF SizeInv
    <3>6. file' # <<>> => file'[1].blksiz = BlkSiz
      BY <3>1 DEF SizeInv
    <3>7. QED
      BY <2>2, <2>3, <2>4, <3>1, <3>2, <3>3, <3>4, <3>5, <3>6 DEF SizeInv
  <2>8. QED
    BY <2>3, <2>5, <2>6, <2>7, Zenon
<1>4. CASE EvClose
  <2>1. (EvFlush(wbuf) \/ EvFlushFails(wbuf)) /\ wbuf \in Blocks /\ wpc' = "closing"
        /\ UNCHANGED <<wblksiz, evnum, sent, rpc, sure>>
    BY <1>4 DEF EvClose, SizeInv, readerVars
  <2>2. CASE EvFlush(wbuf) /\ fault = "none"
    <3>1. /\ file' \in Seq(Blocks) /\ file' # <<>> /\ wblknum' \in Nat \ {0} /\ dangling' = FALSE
          /\ wbuf' \in Blocks
      BY <2>1, <2>2, FlushedFile, Zenon
    <3>2. file'[1].blksiz = BlkSiz
      BY <2>1, <2>2, FirstBlock
    <3>3. QED
      BY <2>1, <3>1, <3>2 DEF SizeInv
  <2>3. CASE EvFlushFails(wbuf) \/ (EvFlush(wbuf) /\ fault # "none")
    <3>1. /\ file' = file /\ fault' # "none"
          /\ \/ wblknum' = wblknum /\ wbuf' = wbuf /\ dangling' = dangling
             \/ /\ wblknum' = wblknum + 1 /\ dangling' = FALSE
                /\ wbuf' \in Blocks
      BY <2>1, <2>3, FlushBehind
    <3>2. wblknum' \in Nat /\ (wblknum' = 0 => wblknum = 0 /\ wbuf' = wbuf)
      BY <3>1 DEF SizeInv
    <3>3. sure' /\ (file' = <<>> \/ wblksiz' # BlkSiz) => rpc' = "closed"
      BY <2>1, <3>1, Zenon DEF SizeInv
    <3>4. dangling' \in BOOLEAN /\ (wblksiz' = BlkSiz => ~dangling')
      <4>1. dangling \in BOOLEAN /\ (wblksiz = BlkSiz => ~dangling)
        BY DEF SizeInv
      <4>2. CASE dangling' = dangling
        BY <2>1, <4>1, <4>2
      <4>3. CASE dangling' = FALSE
        BY <4>3
      <4>4. QED
        BY <3>1, <4>2, <4>3
    <3>5. QED
      BY <2>1, <3>1, <3>2, <3>3, <3>4 DEF SizeInv
  <2>4. QED
    BY <2>1, <2>2, <2>3, Zenon
<1>5. CASE Crash \/ Arrive \/ FileClosed
  BY <1>5 DEF Crash, Arrive, FileClosed, SizeInv, fileVars, writerVars, readerVars
<1>6. CASE LoseBlock
  <2>1. PICK k \in 2 .. Len(file) : file' = RemoveAt(file, k)
    BY <1>6 DEF LoseBlock
  <2>2. /\ file' \in Seq(Blocks) /\ file' # <<>> /\ file'[1] = file[1] /\ file # <<>>
    <3>1. file \in Seq(Blocks) /\ Len(file) \in Nat /\ k \in 1 .. Len(file)
      BY FileType DEF SizeInv
    <3>2. /\ RemoveAt(file, k) \in Seq(Blocks) /\ Len(RemoveAt(file, k)) = Len(file) - 1
          /\ \A i \in 1 .. Len(file) - 1 :
               RemoveAt(file, k)[i] = IF i < k THEN file[i] ELSE file[i + 1]
      BY <3>1, RemoveAtProperties
    <3>3. QED
      BY <2>1, <3>1, <3>2, EmptySeq
  <2>3. /\ rpc = "closed" /\ wpc \in {"closed", "crashed"}
        /\ UNCHANGED <<sent, evnum, wblknum, wblksiz, dangling, fault, wbuf, wpc, wleft, rpc>>
    BY <1>6 DEF LoseBlock, writerVars, readerVars
  <2>4. QED
    BY <2>2, <2>3 DEF SizeInv
<1>7. CASE Reader
  <2>1. UNCHANGED <<fileVars, writerVars>>
    BY <1>7 DEF Reader, EvOpen, EvOpenStale, Begin, NewBuffer, EvRead, CopyOut, NextBlock
  <2>2. (wblksiz = BlkSiz /\ file # <<>>) \/ ~sure'
    <3>1. rpc = "closed" => (file # <<>> /\ wblksiz = BlkSiz) \/ ~sure'
      BY <1>7 DEF Reader, EvOpen, EvOpenStale, NewBuffer, EvRead, CopyOut, NextBlock
    <3>2. rpc # "closed" => (sure' => sure)
      BY <1>7 DEF Reader, EvOpen, EvOpenStale, NewBuffer, EvRead, CopyOut, NextBlock, EvGetNewBuffer
    <3>3. QED
      BY <3>1, <3>2 DEF SizeInv
  <2>3. QED
    BY <2>1, <2>2 DEF SizeInv, fileVars, writerVars
<1>8. CASE UNCHANGED vars
  BY <1>8 DEF vars, fileVars, writerVars, readerVars, SizeInv
<1>9. QED
  BY <1>1, <1>2, <1>3, <1>4, <1>5, <1>6, <1>7, <1>8 DEF Next, Writer

-----------------------------------------------------------------------------
(* The words in the file and in the writer's buffer.                       *)

\* A step of the reader changes nothing of them.
LEMMA ReaderKeepsFile ==
  ASSUME FileInv, WriterInv, UNCHANGED <<file, writerVars>>
  PROVE  FileInv' /\ WriterInv'
BY DEF FileInv, WriterInv, Coming, writerVars

\* While there is something to write every block has words.
LEMMA BlocksHaveWords ==
  ASSUME FileInv, wpc \in {"open", "copy"}
  PROVE  \A n \in DOMAIN file : file[n].data # <<>>
BY DEF FileInv

\* An event that evWrite begins with.
LEMMA EvWriteKeeps ==
  ASSUME SizeInv, FileInv, WriterInv, ~dangling, EvWrite
  PROVE  FileInv' /\ WriterInv'
<1>1. PICK len \in Lengths : sent' = Append(sent, len) /\ wleft' = len
  BY DEF EvWrite
<1>2. /\ wpc = "open" /\ wpc' = "copy" /\ UNCHANGED <<file, wblksiz, wblknum>>
      /\ wbuf' = [wbuf EXCEPT !.start = IF @ = 0 THEN Offset(wbuf) ELSE @]
  BY DEF EvWrite, fileVars
<1>3. /\ sent \in Lens /\ Len(sent) \in Nat /\ len \in Nat \ {0}
      /\ sent = <<>> <=> Len(sent) = 0
  BY <1>1, SentType, ConstantTypes
<1>4. /\ sent' \in Lens /\ Len(sent') = Len(sent) + 1 /\ sent'[Len(sent) + 1] = len /\ sent' # <<>>
  BY <1>1, <1>3, AppendProperties DEF Lens
<1>5. file \in Seq(Blocks) /\ wblknum \in Nat /\ wbuf \in Blocks
  BY DEF SizeInv
<1>6. \A n \in DOMAIN file : file[n].data # <<>>
  BY <1>2, BlocksHaveWords
<1>7. FileInv'
  <2>1. BlocksOK(sent, file, wblknum)
    BY DEF FileInv
  <2>2. BlocksOK(Append(sent, len), file, wblknum)
    BY <1>3, <1>5, <1>6, <2>1, MoreEventsBlocks
  <2>3. QED
    BY <1>1, <1>2, <1>6, <2>2 DEF FileInv
<1>a. SUFFICES ASSUME fault = "none"  PROVE WriterInv'
  BY <1>7 DEF EvWrite, WriterInv
<1>8. /\ wbuf'.data = wbuf.data /\ wbuf'.blknum = wbuf.blknum
      /\ wbuf'.start = IF wbuf.start = 0 THEN HdSiz + Len(wbuf.data) ELSE wbuf.start
  BY <1>2, <1>5 DEF Blocks, Offset
<1>9. Coming = <<Len(sent) + 1, 0>> /\ Coming' = Coming
  <2>1. Coming' = <<Len(sent'), sent'[Len(sent')] - wleft'>>
    BY <1>2 DEF Coming
  <2>2. sent'[Len(sent')] - wleft' = 0
    BY <1>1, <1>3, <1>4
  <2>3. QED
    BY <1>2, <1>4, <2>1, <2>2 DEF Coming
<1>10. InOrder(sent, wbuf.data) /\ wbuf.blknum = wblknum
  BY <1>2, <1>a DEF WriterInv
<1>11. wbuf.data \in Seq(Words) /\ Len(wbuf.data) \in Nat /\ (wbuf.data = <<>> <=> Len(wbuf.data) = 0)
  BY <1>5, BlockType
<1>12. InOrder(sent', wbuf'.data)
  BY <1>1, <1>3, <1>8, <1>10, <1>11, MoreEventsInOrder
<1>13. wbuf'.data # <<>> => Behind(sent', wbuf') = Coming'
  <2>1. SUFFICES ASSUME wbuf.data # <<>>  PROVE Behind(sent', wbuf') = Coming'
    BY <1>8
  <2>2. Behind(sent, wbuf) = Coming
    BY <1>2, <1>a, <2>1 DEF WriterInv
  <2>3. Behind(Append(sent, len), wbuf) = Behind(sent, wbuf)
    BY <1>3, <1>5, <1>10, <2>1, MoreEventsBehind
  <2>4. Behind(sent', wbuf') = Behind(sent', wbuf)
    BY <1>8 DEF Behind
  <2>5. QED
    BY <1>1, <1>9, <2>2, <2>3, <2>4
<1>14. wblknum' = 0 => wbuf'.start = IF sent' = <<>> THEN 0 ELSE HdSiz
  <2>1. SUFFICES ASSUME wblknum = 0  PROVE wbuf'.start = HdSiz
    BY <1>2, <1>4
  <2>2. wbuf.start = IF sent = <<>> THEN 0 ELSE HdSiz
    BY <1>2, <1>a, <2>1 DEF WriterInv
  <2>3. CASE sent = <<>>
    <3>1. wbuf.data = <<>>
      <4>1. DOMAIN sent = {}
        BY <1>3, <2>3, SentType
      <4>2. 1 \notin DOMAIN wbuf.data
        BY <1>10, <4>1 DEF InOrder, IsWord
      <4>3. DOMAIN wbuf.data = 1 .. Len(wbuf.data)
        BY <1>11, WordsType
      <4>4. QED
        BY <1>11, <4>2, <4>3
    <3>2. QED
      BY <1>8, <1>11, <2>2, <2>3, <3>1, ConstantTypes
  <2>4. CASE sent # <<>>
    BY <1>8, <2>2, <2>4, ConstantTypes
  <2>5. QED
    BY <2>3, <2>4
<1> DEFINE first == IF wbuf.data = <<>> THEN Coming ELSE wbuf.data[1]
<1>15. first' = first
  BY <1>8, <1>9
<1>16. IF file = <<>> THEN first = <<1, 0>>
       ELSE file[Len(file)].blknum = wblknum - 1 /\ first = Behind(sent, file[Len(file)])
  BY <1>2, <1>a DEF WriterInv
<1> HIDE DEF first
<1>17. IF file' = <<>> THEN first' = <<1, 0>>
       ELSE file'[Len(file')].blknum = wblknum' - 1 /\ first' = Behind(sent', file'[Len(file')])
  <2>1. CASE file = <<>>
    BY <1>2, <1>15, <1>16, <2>1
  <2>2. CASE file # <<>>
    <3>1. Len(file) \in DOMAIN file
      BY <1>5, <2>2, FileType
    <3>2. file[Len(file)] \in Blocks /\ file[Len(file)].data # <<>>
          /\ InOrder(sent, file[Len(file)].data)
      BY <1>5, <1>6, <3>1, FileType DEF FileInv, BlocksOK, BlockOK
    <3>3. Behind(Append(sent, len), file[Len(file)]) = Behind(sent, file[Len(file)])
      BY <1>3, <3>2, MoreEventsBehind
    <3>4. QED
      BY <1>1, <1>2, <1>15, <1>16, <2>2, <3>3
  <2>3. QED
    BY <2>1, <2>2
<1>18. WriterInv'
  <2>1. wbuf'.blknum = wblknum'
    BY <1>2, <1>8, <1>10
  <2>2. QED
    BY <1>12, <1>13, <1>14, <1>17, <2>1 DEF WriterInv, first
<1>19. QED
  BY <1>7, <1>18

\* The block that evFlush appends goes on where the file ended.
LEMMA FlushKeeps ==
  ASSUME SizeInv, FileInv, WriterInv, ~dangling, wpc \in {"open", "copy"}, fault = "none",
         NEW b \in Blocks, b.blknum = wbuf.blknum, b.start = wbuf.start, InOrder(sent, b.data),
         b.data # <<>> => b.data[1] = IF wbuf.data = <<>> THEN Coming ELSE wbuf.data[1],
         b.data = <<>> => wbuf.data = <<>> /\ wpc = "open",
         EvFlush(b)
  PROVE  /\ BlocksOK(sent, file', wblknum') /\ file' # <<>> /\ file' \in Seq(Blocks)
         /\ file'[Len(file')].blknum = wblknum' - 1 /\ file'[Len(file')].data = b.data
         /\ Behind(sent, file'[Len(file')]) = Behind(sent, b)
         /\ \A n \in DOMAIN file' : file'[n].data # <<>> \/ n = Len(file')
<1> DEFINE flushed == Flushed(b)
           first == IF wbuf.data = <<>> THEN Coming ELSE wbuf.data[1]
<1>1. /\ flushed \in Blocks /\ flushed.blknum = b.blknum
      /\ flushed.start = b.start /\ flushed.data = b.data
      /\ flushed.used = HdSiz + Len(b.data)
  BY FlushedType, Zenon
<1>2. /\ file' = Append(file, flushed) /\ file' \in Seq(Blocks) /\ file' # <<>>
      /\ Len(file') = Len(file) + 1 /\ file'[Len(file) + 1] = flushed
      /\ \A n \in 1 .. Len(file) : file'[n] = file[n]
      /\ wblknum' = wblknum + 1
  BY FlushedFile, Zenon
<1>3. file \in Seq(Blocks) /\ wblknum \in Nat /\ wbuf \in Blocks /\ (wblknum = 0 <=> file = <<>>)
  BY DEF SizeInv
<1>4. /\ wbuf.blknum = wblknum /\ (wblknum = 0 => wbuf.start = IF sent = <<>> THEN 0 ELSE HdSiz)
      /\ IF file = <<>> THEN first = <<1, 0>>
         ELSE file[Len(file)].blknum = wblknum - 1 /\ first = Behind(sent, file[Len(file)])
  BY DEF WriterInv
<1>5. b.data # <<>> => b.data[1] = first
  OBVIOUS
<1>6. b.data = <<>> => first = <<Len(sent) + 1, 0>>
  BY DEF Coming
<1> HIDE DEF flushed, first
<1>7. /\ b.data \in Seq(Words) /\ Len(b.data) \in Nat /\ DOMAIN b.data = 1 .. Len(b.data)
      /\ b.data = <<>> <=> Len(b.data) = 0
  BY BlockType
<1>8. /\ Len(sent) \in Nat /\ DOMAIN sent = 1 .. Len(sent) /\ (sent = <<>> <=> Len(sent) = 0)
  BY SentType
<1>9. BlockOK(sent, flushed)
  <2>1. SUFFICES ASSUME flushed.blknum = 0
                 PROVE  \/ b.data = <<>> /\ b.start = 0
                        \/ b.data # <<>> /\ b.start = HdSiz /\ b.data[1] = <<1, 0>>
    BY <1>1 DEF BlockOK
  <2>2. wblknum = 0 /\ first = <<1, 0>> /\ b.start = IF sent = <<>> THEN 0 ELSE HdSiz
    BY <1>1, <1>3, <1>4, <2>1
  <2>3. CASE b.data = <<>>
    <3>1. Len(sent) + 1 = 1
      BY <1>6, <2>2, <2>3
    <3>2. sent = <<>>
      BY <1>8, <3>1
    <3>3. QED
      BY <2>2, <2>3, <3>2
  <2>4. CASE b.data # <<>>
    <3>1. 1 \in DOMAIN b.data
      BY <1>7, <2>4
    <3>2. DOMAIN sent # {}
      BY <3>1 DEF InOrder, IsWord
    <3>3. sent # <<>>
      BY <1>8, <3>2
    <3>4. QED
      BY <1>5, <2>2, <2>4, <3>3
  <2>5. QED
    BY <2>3, <2>4
<1>10. BlocksOK(sent, file', wblknum')
  <2>1. BlocksOK(sent, file, wblknum) /\ sent \in Lens
    BY SentType DEF FileInv
  <2>2. file # <<>> => /\ file[Len(file)].blknum = wblknum - 1
                       /\ flushed.data # <<>> => flushed.data[1] = Behind(sent, file[Len(file)])
    BY <1>1, <1>4, <1>5
  <2>3. flushed.blknum = wblknum
    BY <1>1, <1>4
  <2>4. BlocksOK(sent, Append(file, flushed), wblknum + 1)
    BY <1>1, <1>3, <1>9, <2>1, <2>2, <2>3, FlushKeepsBlocks
  <2>5. QED
    BY <1>2, <2>4
<1>11. /\ file'[Len(file')].blknum = wblknum' - 1 /\ file'[Len(file')].data = b.data
       /\ Behind(sent, file'[Len(file')]) = Behind(sent, b)
  BY <1>1, <1>2, <1>3, <1>4 DEF Behind
<1>12. ASSUME NEW n \in DOMAIN file'  PROVE file'[n].data # <<>> \/ n = Len(file')
  <2>1. DOMAIN file' = 1 .. Len(file') /\ Len(file) \in Nat /\ DOMAIN file = 1 .. Len(file)
    BY <1>2, <1>3, FileType
  <2>2. SUFFICES ASSUME n # Len(file')  PROVE file'[n].data # <<>>
    OBVIOUS
  <2>3. n \in DOMAIN file /\ file'[n] = file[n]
    BY <1>2, <2>1, <2>2
  <2>4. QED
    BY <2>3, BlocksHaveWords
<1>13. QED
  BY <1>2, <1>10, <1>11, <1>12

\* After a write that failed the blocks before it stay as they are.
LEMMA FaultKeeps ==
  ASSUME SizeInv, FileInv, CopyIn \/ EvClose, fault' # "none"
  PROVE  file' = file /\ FileInv' /\ WriterInv'
<1>1. wpc \in {"open", "copy"} /\ sent' = sent
  BY DEF CopyIn, EvClose
<1>2. file' = file /\ wblknum' \in {wblknum, wblknum + 1}
  <2>1. ASSUME NEW b, EvFlush(b) \/ EvFlushFails(b)
        PROVE  file' = file /\ wblknum' \in {wblknum, wblknum + 1}
    BY <2>1 DEF EvFlush, EvFlushFails
  <2>2. CASE CopyIn
    BY <2>1, <2>2, Zenon DEF CopyIn
  <2>3. QED
    BY <2>1, <2>2 DEF EvClose
<1>3. \A n \in DOMAIN file : file[n].data # <<>>
  BY <1>1, BlocksHaveWords
<1>4. BlocksOK(sent, file, wblknum')
  <2>1. \A n \in DOMAIN file : file[n].blknum \in Nat /\ wblknum \in Nat
    BY FileType, BlockType DEF SizeInv
  <2>2. QED
    BY <1>2, <2>1 DEF FileInv, BlocksOK
<1>5. QED
  BY <1>1, <1>2, <1>3, <1>4 DEF FileInv, WriterInv

\* The file is closed.
LEMMA EvCloseKeeps ==
  ASSUME SizeInv, FileInv, WriterInv, ~dangling, EvClose
  PROVE  FileInv' /\ WriterInv'
<1>a. SUFFICES ASSUME fault' = "none"  PROVE FileInv' /\ WriterInv'
  BY FaultKeeps
<1>1. wpc = "open" /\ EvFlush(wbuf) /\ fault = "none" /\ wpc' = "closing" /\ sent' = sent
      /\ wbuf \in Blocks
  BY <1>a DEF EvClose, EvFlush, EvFlushFails, SizeInv
<1>2. InOrder(sent, wbuf.data)
  BY <1>1 DEF WriterInv
<1>3. /\ BlocksOK(sent, file', wblknum')
      /\ file'[Len(file')].blknum = wblknum' - 1
      /\ \A n \in DOMAIN file' : file'[n].data # <<>> \/ n = Len(file')
  BY <1>1, <1>2, FlushKeeps
<1>4. FileInv'
  BY <1>1, <1>3 DEF FileInv
<1>5. WriterInv'
  BY <1>1 DEF WriterInv
<1>6. QED
  BY <1>4, <1>5

\* A pass of evWrite's loop.
LEMMA CopyInKeeps ==
  ASSUME SizeInv, FileInv, WriterInv, ~dangling, CopyIn
  PROVE  FileInv' /\ WriterInv'
<1>b. SUFFICES ASSUME fault' = "none"  PROVE FileInv' /\ WriterInv'
  BY FaultKeeps
<1> DEFINE n == Len(sent)
           ncopy == Fewer(wleft, Room)
           done == sent[n] - wleft
           words == SubSeq(Event(n, sent[n]), done + 1, done + ncopy)
           filled == [wbuf EXCEPT !.data = @ \o Copied(words)]
<1>c. ASSUME NEW block  PROVE ~EvFlushFails(block) /\ (EvFlush(block) => fault = "none")
  BY <1>b DEF EvFlushFails, EvFlush
<1>1. wpc = "copy" /\ fault = "none"
  <2>1. wpc = "copy" /\ (EvFlush(filled) \/ EvFlushFails(filled) \/ UNCHANGED fault)
    BY Zenon DEF CopyIn
  <2>2. QED
    BY <1>b, <1>c, <2>1, Zenon
<1>2. /\ n \in DOMAIN sent /\ done \in Nat /\ ncopy \in Nat \ {0} /\ Room \in Nat
      /\ wleft \in Nat /\ ncopy <= wleft /\ ncopy <= Room
      /\ words \in Seq(Words) /\ Len(words) = ncopy /\ PartOf(words, n, done)
      /\ filled \in Blocks /\ filled.blknum = wbuf.blknum /\ filled.start = wbuf.start
      /\ filled.data = wbuf.data \o words
  BY <1>1, PassOfWrite, Zenon
<1>3. /\ wleft' = wleft - ncopy /\ wpc' = (IF wleft = ncopy THEN "open" ELSE "copy")
      /\ IF ncopy = Room THEN EvFlush(filled)
         ELSE wbuf' = filled /\ UNCHANGED <<file, wblknum, dangling>>
      /\ UNCHANGED <<wblksiz, evnum, sent>>
  BY <1>c, Zenon DEF CopyIn
<1>a. n = Len(sent) /\ done = sent[n] - wleft
  OBVIOUS
<1> HIDE DEF n, ncopy, done, words, filled
<1>4. /\ sent \in Lens /\ Len(sent) \in Nat /\ sent[n] \in Nat /\ done + ncopy <= sent[n]
  BY <1>2, <1>a, SentType
<1>5. Coming = <<n, done>>
  BY <1>1, <1>a DEF Coming
<1>6. /\ InOrder(sent, wbuf.data) /\ (wbuf.data # <<>> => Behind(sent, wbuf) = Coming)
      /\ wbuf.data \in Seq(Words) /\ Len(wbuf.data) \in Nat /\ wbuf.blknum = wblknum
  BY <1>1, BlockType DEF WriterInv, SizeInv
<1>7. Coming' = NextWord(sent, <<n, done + ncopy - 1>>)
  <2>1. NextWord(sent, <<n, done + ncopy - 1>>) =
          IF done + ncopy < sent[n] THEN <<n, done + ncopy>> ELSE <<n + 1, 0>>
    BY <1>2, <1>4, SMTT(30) DEF NextWord
  <2>2. CASE wleft = ncopy
    <3>1. Coming' = <<n + 1, 0>>
      BY <1>3, <1>a, <2>2 DEF Coming
    <3>2. ~ (done + ncopy < sent[n])
      BY <1>2, <1>4, <1>a, <2>2
    <3>3. QED
      BY <2>1, <3>1, <3>2
  <2>3. CASE wleft # ncopy
    <3>1. Coming' = <<n, sent[n] - (wleft - ncopy)>>
      BY <1>3, <1>a, <2>3 DEF Coming
    <3>2. done + ncopy < sent[n] /\ sent[n] - (wleft - ncopy) = done + ncopy
      BY <1>2, <1>4, <1>a, <2>3
    <3>3. QED
      BY <2>1, <3>1, <3>2
  <2>4. QED
    BY <2>2, <2>3
<1> DEFINE first == IF wbuf.data = <<>> THEN Coming ELSE wbuf.data[1]
<1>8. /\ InOrder(sent, filled.data) /\ Len(filled.data) = Len(wbuf.data) + ncopy
      /\ filled.data[Len(filled.data)] = <<n, done + ncopy - 1>>
      /\ filled.data[1] = first
  <2>1. PICK data : data = wbuf.data
    OBVIOUS
  <2>2. words # <<>> /\ done + Len(words) <= sent[n]
    BY <1>2, <1>4, EmptySeq
  <2>3. /\ data \in Seq(Words) /\ InOrder(sent, data) /\ n \in DOMAIN sent /\ sent \in Lens
        /\ done \in Nat /\ words \in Seq(Words) /\ PartOf(words, n, done)
        /\ data # <<>> => NextWord(sent, data[Len(data)]) = <<n, done>>
    BY <1>2, <1>4, <1>5, <1>6, <2>1 DEF Behind
  <2>4. /\ InOrder(sent, data \o words) /\ Len(data \o words) = Len(data) + Len(words)
        /\ (data \o words)[Len(data) + Len(words)] = <<n, done + Len(words) - 1>>
        /\ (data \o words)[1] = IF data = <<>> THEN <<n, done>> ELSE data[1]
    BY <2>2, <2>3, CopyGoesOn
  <2>5. QED
    BY <1>2, <1>5, <2>1, <2>4
<1>9. filled.data # <<>>
  BY <1>2, <1>6, <1>8, BlockType
<1>10. Behind(sent, filled) = Coming'
  BY <1>7, <1>8 DEF Behind
<1> HIDE DEF first
<1>11. CASE ncopy = Room
  <2>1. EvFlush(filled)
    BY <1>3, <1>11
  <2>2. filled.data[1] = IF wbuf.data = <<>> THEN Coming ELSE wbuf.data[1]
    BY <1>8 DEF first
  <2>3. /\ BlocksOK(sent, file', wblknum') /\ file' # <<>> /\ file' \in Seq(Blocks)
        /\ file'[Len(file')].blknum = wblknum' - 1 /\ file'[Len(file')].data = filled.data
        /\ Behind(sent, file'[Len(file')]) = Behind(sent, filled)
        /\ \A m \in DOMAIN file' : file'[m].data # <<>> \/ m = Len(file')
    BY <1>1, <1>2, <1>8, <1>9, <2>1, <2>2, FlushKeeps
  <2>4. FileInv'
    BY <1>3, <1>9, <2>3 DEF FileInv
  <2>5. /\ wblknum' \in Nat \ {0} /\ wbuf'.data = <<>> /\ wbuf'.blknum = wblknum' /\ wbuf' \in Blocks
    BY <1>1, <1>2, <2>1, FlushedFile, Zenon
  <2>6. InOrder(sent', wbuf'.data)
    BY <2>5 DEF InOrder
  <2>7. WriterInv'
    <3>1. wblknum' # 0
      BY <2>5
    <3>2. Coming' = Behind(sent', file'[Len(file')])
      BY <1>3, <1>10, <2>3
    <3>3. QED
      BY <2>3, <2>5, <2>6, <3>1, <3>2 DEF WriterInv
  <2>8. QED
    BY <2>4, <2>7
<1>12. CASE ncopy # Room
  <2>1. wbuf' = filled /\ UNCHANGED <<file, wblknum, sent>>
    BY <1>3, <1>12
  <2>2. FileInv'
    <3>1. \A m \in DOMAIN file : file[m].data # <<>>
      BY <1>1, BlocksHaveWords
    <3>2. QED
      BY <2>1, <3>1 DEF FileInv
  <2>3. WriterInv'
    <3>1. wblknum = 0 => wbuf.start = IF sent = <<>> THEN 0 ELSE HdSiz
      BY <1>1 DEF WriterInv
    <3>2. IF file = <<>> THEN first = <<1, 0>>
          ELSE file[Len(file)].blknum = wblknum - 1 /\ first = Behind(sent, file[Len(file)])
      BY <1>1 DEF WriterInv, first
    <3>3. Behind(sent', wbuf') = Coming'
      BY <1>10, <2>1
    <3>4. wbuf'.blknum = wblknum' /\ InOrder(sent', wbuf'.data) /\ wbuf'.data # <<>>
      BY <1>2, <1>6, <1>8, <1>9, <2>1
    <3>5. wblknum' = 0 => wbuf'.start = IF sent' = <<>> THEN 0 ELSE HdSiz
      BY <1>2, <2>1, <3>1
    <3>6. IF file' = <<>> THEN wbuf'.data[1] = <<1, 0>>
          ELSE file'[Len(file')].blknum = wblknum' - 1 /\ wbuf'.data[1] = Behind(sent', file'[Len(file')])
      BY <1>8, <2>1, <3>2
    <3>7. QED
      BY <3>3, <3>4, <3>5, <3>6 DEF WriterInv
  <2>4. QED
    BY <2>2, <2>3
<1>13. QED
  BY <1>11, <1>12

\* A lost block leaves the others as they are.
LEMMA LoseBlockKeeps ==
  ASSUME SizeInv, FileInv, WriterInv, LoseBlock
  PROVE  FileInv' /\ WriterInv'
<1>1. PICK k \in 2 .. Len(file) : file' = RemoveAt(file, k)
  BY DEF LoseBlock
<1>2. wpc \in {"closed", "crashed"} /\ UNCHANGED <<wpc, sent, wblknum>>
  BY DEF LoseBlock, writerVars
<1>3. BlocksOK(sent, file, wblknum) /\ file \in Seq(Blocks) /\ wblknum \in Nat /\ sent \in Lens
  BY SentType DEF FileInv, SizeInv
<1>4. /\ BlocksOK(sent, file', wblknum)
      /\ \A n \in DOMAIN file' : \E m \in DOMAIN file : file'[n] = file[m]
  BY <1>1, <1>3, LossKeepsBlocks
<1>5. FileInv'
  BY <1>2, <1>4 DEF FileInv
<1>6. WriterInv'
  BY <1>2 DEF WriterInv
<1>7. QED
  BY <1>5, <1>6

\* What every step but evIoctl's does to them.
LEMMA FileStep ==
  ASSUME SizeInv, FileInv, WriterInv, ~dangling, [Next]_vars, ~EvIoctl
  PROVE  FileInv' /\ WriterInv'
<1>1. CASE Crash \/ FileClosed
  <2>1. wpc' \notin {"open", "copy"} /\ UNCHANGED <<file, sent, wblknum>>
    BY <1>1 DEF Crash, FileClosed, fileVars
  <2>2. FileInv'
    BY <2>1 DEF FileInv
  <2>3. WriterInv'
    BY <2>1 DEF WriterInv
  <2>4. QED
    BY <2>2, <2>3
<1>2. CASE Reader \/ Arrive \/ UNCHANGED vars
  <2>1. UNCHANGED <<file, writerVars>>
    BY <1>2 DEF Reader, EvOpen, EvOpenStale, Begin, NewBuffer, EvRead, CopyOut, NextBlock, Arrive,
                vars, fileVars
  <2>2. QED
    BY <2>1, ReaderKeepsFile
<1>3. QED
  BY <1>1, <1>2, EvWriteKeeps, CopyInKeeps, EvCloseKeeps, LoseBlockKeeps DEF Next, Writer

-----------------------------------------------------------------------------
(* The reader.                                                             *)

\* What the writer does to the file while it is read: blocks and events come
\* behind those there are.
LEMMA WriterExtends ==
  ASSUME SizeInv, EvWrite \/ CopyIn \/ EvClose \/ Arrive \/ FileClosed \/ Crash
  PROVE  /\ \A n \in DOMAIN file : n \in DOMAIN file' /\ file'[n] = file[n]
         /\ UNCHANGED readerVars
         /\ sent' = sent \/ \E len \in Nat \ {0} : sent' = Append(sent, len)
<1>1. UNCHANGED readerVars /\ (sent' = sent \/ \E len \in Nat \ {0} : sent' = Append(sent, len))
  BY ConstantTypes DEF EvWrite, CopyIn, EvClose, Arrive, FileClosed, Crash, writerVars
<1>2. ASSUME NEW b \in Blocks, EvFlush(b), fault = "none"
      PROVE  \A n \in DOMAIN file : n \in DOMAIN file' /\ file'[n] = file[n]
  <2>1. /\ file' \in Seq(Blocks) /\ Len(file') = Len(file) + 1
        /\ \A n \in 1 .. Len(file) : file'[n] = file[n]
    BY <1>2, FlushedFile, Zenon
  <2>2. DOMAIN file = 1 .. Len(file) /\ Len(file) \in Nat /\ DOMAIN file' = 1 .. Len(file')
    BY <2>1, FileType DEF SizeInv
  <2>3. QED
    BY <2>1, <2>2
<1>3. file' = file \/ \E b \in Blocks : (EvFlush(b) /\ fault = "none")
  <2>1. CASE CopyIn
    <3> DEFINE words == SubSeq(Event(Len(sent), sent[Len(sent)]), sent[Len(sent)] - wleft + 1,
                               sent[Len(sent)] - wleft + Fewer(wleft, Room))
               filled == [wbuf EXCEPT !.data = @ \o Copied(words)]
    <3>1. filled \in Blocks
      BY <2>1, PassOfWrite, Zenon DEF CopyIn
    <3>2. EvFlush(filled) \/ EvFlushFails(filled) \/ file' = file
      BY <2>1, Zenon DEF CopyIn
    <3> HIDE DEF filled
    <3>3. QED
      BY <3>1, <3>2 DEF EvFlush, EvFlushFails
  <2>2. CASE EvClose
    BY <2>2 DEF EvClose, EvFlush, EvFlushFails, SizeInv
  <2>3. CASE EvWrite \/ Arrive \/ FileClosed \/ Crash
    BY <2>3 DEF EvWrite, Arrive, FileClosed, Crash, fileVars
  <2>4. QED
    BY <2>1, <2>2, <2>3
<1>4. QED
  BY <1>1, <1>2, <1>3

\* The reader's block is one of the file's.
LEMMA ReaderBlock ==
  ASSUME SizeInv, FileInv, ReaderInv, sure, rpc \in {"open", "copy"}
  PROVE  /\ rbuf \in Blocks /\ BlockOK(sent, rbuf) /\ rbuf.data \in Seq(Words)
         /\ Len(rbuf.data) \in Nat /\ DOMAIN rbuf.data = 1 .. Len(rbuf.data)
         /\ rbuf.data = <<>> <=> Len(rbuf.data) = 0
         /\ InOrder(sent, rbuf.data) /\ rbuf.used = HdSiz + Len(rbuf.data)
         /\ next \in Nat /\ left \in Nat /\ next + left = HdSiz + Len(rbuf.data)
<1>1. nread \in DOMAIN file /\ rbuf = file[nread] /\ {next, left} \subseteq Nat /\ next + left = rbuf.used
  BY DEF ReaderInv
<1>2. rbuf \in Blocks /\ BlockOK(sent, rbuf)
  BY <1>1, FileType DEF FileInv, BlocksOK, SizeInv
<1>3. QED
  BY <1>1, <1>2, BlockType DEF BlockOK

\* So what the reader has read does not change.
LEMMA WriterKeepsReader ==
  ASSUME SizeInv, FileInv, ReaderInv, EvWrite \/ CopyIn \/ EvClose \/ Arrive \/ FileClosed \/ Crash
  PROVE  ReaderInv'
<1>1. SUFFICES ASSUME sure, rpc \in {"open", "copy"}  PROVE ReaderInv'
  <2>1. rpc' = rpc /\ sure' = sure
    BY WriterExtends DEF readerVars
  <2>2. QED
    BY <1>1, <2>1 DEF ReaderInv
<1>2. /\ \A n \in DOMAIN file : n \in DOMAIN file' /\ file'[n] = file[n]
      /\ UNCHANGED <<rpc, rbuf, next, left, rblknum, nread, nleft, buffer, got>>
      /\ sent' = sent \/ \E len \in Nat \ {0} : sent' = Append(sent, len)
  BY WriterExtends DEF readerVars
<1>3. /\ nread \in DOMAIN file /\ rbuf = file[nread] /\ rblknum = rbuf.blknum
      /\ {next, left} \subseteq Nat /\ next + left = rbuf.used
      /\ IF rbuf.data = <<>> THEN AtHeader ELSE AtWord
  BY <1>1 DEF ReaderInv
<1>4. AtHeader => AtHeader'
  BY <1>2 DEF AtHeader
<1>5. ASSUME rbuf.data # <<>>, AtWord  PROVE AtWord'
  <2>1. Wanted' = Wanted
    BY <1>2 DEF Wanted
  <2>2. Behind(sent', rbuf) = Behind(sent, rbuf)
    BY <1>1, <1>2, <1>5, ReaderBlock, SentType, MoreEventsBehind
  <2>3. \A i \in DOMAIN sent : i \in DOMAIN sent' /\ sent'[i] = sent[i]
    <3>1. SUFFICES ASSUME NEW len \in Nat \ {0}, sent' = Append(sent, len)
                   PROVE  \A i \in DOMAIN sent : i \in DOMAIN sent' /\ sent'[i] = sent[i]
      BY <1>2
    <3>2. /\ sent' \in Lens /\ Len(sent') = Len(sent) + 1
          /\ \A i \in 1 .. Len(sent) : sent'[i] = sent[i]
      BY <3>1, SentType, AppendProperties DEF Lens
    <3>3. DOMAIN sent' = 1 .. Len(sent')
      BY <3>2, LensType
    <3>4. QED
      BY <3>2, <3>3, SentType
  <2>4. IF left' > 0 THEN rbuf'.data[next' - HdSiz + 1] = Wanted' ELSE Behind(sent', rbuf') = Wanted'
    BY <1>2, <1>5, <2>1, <2>2 DEF AtWord
  <2>5. rpc' = "copy" =>
          /\ Wanted'[1] \in DOMAIN sent' /\ nleft' \in Nat \ {0}
          /\ nleft' + Len(buffer') = sent'[Wanted'[1]]
          /\ buffer' \in Seq(Words) /\ \A k \in DOMAIN buffer' : buffer'[k] = <<Wanted'[1], k - 1>>
    BY <1>2, <1>5, <2>1, <2>3 DEF AtWord
  <2>6. next' >= HdSiz
    BY <1>2, <1>5 DEF AtWord
  <2>7. QED
    BY <2>4, <2>5, <2>6 DEF AtWord
<1>6. IF rbuf'.data = <<>> THEN AtHeader' ELSE AtWord'
  BY <1>2, <1>3, <1>4, <1>5
<1>7. QED
  BY <1>2, <1>3, <1>6 DEF ReaderInv

\* Reading begins at the first event, or at the header if there is none.
LEMMA EvOpenKeeps ==
  ASSUME SizeInv, GotInv, FileInv, EvOpen \/ EvOpenStale
  PROVE  ReaderInv'
<1>a. SUFFICES ASSUME sure'  PROVE ReaderInv'
  BY DEF ReaderInv
<1>b. /\ rpc = "closed" /\ file # <<>> /\ Begin(Block(1))
  BY <1>a DEF EvOpen, EvOpenStale
<1>c. Block(1) = file[1]
  <2>1. 1 <= Len(file)
    BY <1>b, FileType DEF SizeInv
  <2>2. QED
    BY <2>1 DEF Block
<1>1. /\ rpc = "closed" /\ file # <<>> /\ rbuf' = file[1] /\ next' = file[1].start
      /\ left' = file[1].used - file[1].start /\ rblknum' = file[1].blknum /\ nread' = 1
      /\ rpc' = "open" /\ UNCHANGED <<file, sent, got>>
  BY <1>b, <1>c DEF Begin, fileVars, writerVars
<1>2. /\ 1 \in DOMAIN file /\ file[1] \in Blocks /\ BlockOK(sent, file[1]) /\ file[1].blknum = 0
  BY <1>1, FileType DEF SizeInv, FileInv, BlocksOK
<1>3. /\ file[1].used = HdSiz + Len(file[1].data) /\ Len(file[1].data) \in Nat
      /\ file[1].data = <<>> <=> Len(file[1].data) = 0
      /\ \/ file[1].data = <<>> /\ file[1].start = 0
         \/ file[1].data # <<>> /\ file[1].start = HdSiz /\ file[1].data[1] = <<1, 0>>
  BY <1>2, BlockType DEF BlockOK
<1>4. next' \in Nat /\ left' \in Nat /\ next' + left' = rbuf'.used
  BY <1>1, <1>3, ConstantTypes, SMTT(30)
<1>5. Wanted' = <<1, 0>>
  <2>1. got' = <<>>
    BY <1>1 DEF GotInv
  <2>2. QED
    BY <1>1, <2>1 DEF Wanted
<1>6. CASE file[1].data = <<>>
  <2>1. next' = 0 /\ left' = HdSiz /\ nread' = 1
    BY <1>1, <1>3, <1>6, ConstantTypes
  <2>2. AtHeader'
    BY <1>1, <2>1, ConstantTypes DEF AtHeader
  <2>3. QED
    BY <1>1, <1>2, <1>4, <1>6, <2>2 DEF ReaderInv
<1>7. CASE file[1].data # <<>>
  <2>1. next' = HdSiz /\ left' > 0 /\ next' - HdSiz + 1 = 1
    BY <1>1, <1>3, <1>7, ConstantTypes
  <2>2. rbuf'.data[next' - HdSiz + 1] = Wanted'
    BY <1>1, <1>3, <1>5, <1>7, <2>1
  <2>3. AtWord'
    BY <1>1, <2>1, <2>2, ConstantTypes DEF AtWord
  <2>4. QED
    BY <1>1, <1>2, <1>4, <1>7, <2>3 DEF ReaderInv
<1>8. QED
  BY <1>6, <1>7

\* The block that evGetNewBuffer accepts goes on where the one before it ended,
\* also if there were blocks between them in the file that are lost.
LEMMA NewBufferKeeps ==
  ASSUME SizeInv, FileInv, ReaderInv, NewBuffer \/ NextBlock
  PROVE  ReaderInv'
<1>1. /\ left = 0 /\ EvGetNewBuffer(rpc) /\ rpc \in {"open", "copy", "truncate"}
      /\ UNCHANGED <<file, sent, wblknum, nleft, buffer, got>>
  BY DEF NewBuffer, NextBlock, fileVars, writerVars
<1>2. SUFFICES ASSUME sure', rpc' \in {"open", "copy"}  PROVE ReaderInv'
  BY DEF ReaderInv
<1> DEFINE b == file[nread + 1]
<1>3. /\ nread < Len(file) /\ nread' = nread + 1 /\ rbuf' = b /\ rblknum' = rblknum + 1
      /\ next' = HdSiz /\ left' = b.used - HdSiz
      /\ rpc' = rpc /\ b.blknum = rblknum + 1 /\ ~(b.used <= HdSiz)
  <2> DEFINE c == Block(nread + 1)
  <2>1. ~(eof \/ nread >= whole)
    BY <1>1, <1>2 DEF EvGetNewBuffer
  <2>2. /\ sure' = (sure /\ nread < Len(file))
        /\ nread' = nread + 1 /\ rbuf' = c /\ rblknum' = rblknum + 1
        /\ next' = HdSiz /\ left' = c.used - HdSiz
        /\ rpc' = IF c.blknum # rblknum + 1 \/ c.used <= HdSiz THEN "failed" ELSE rpc
    BY <1>1, <2>1 DEF EvGetNewBuffer
  <2>3. sure /\ nread < Len(file) /\ rpc \in {"open", "copy"}
    BY <1>1, <1>2, <2>2
  <2>4. nread \in Nat /\ Len(file) \in Nat
    BY <2>3, FileType DEF ReaderInv, SizeInv
  <2>5. c = b
    BY <2>3, <2>4 DEF Block
  <2> HIDE DEF c
  <2>6. QED
    BY <1>2, <2>2, <2>3, <2>5
<1>a. sure
  BY <1>1, <1>2 DEF EvGetNewBuffer
<1> HIDE DEF b
<1>4. /\ nread \in DOMAIN file /\ rbuf = file[nread] /\ rblknum = rbuf.blknum
      /\ nread \in Nat /\ nread + 1 \in DOMAIN file /\ b \in Blocks /\ b = file[nread + 1]
  <2>1. nread \in DOMAIN file /\ rbuf = file[nread] /\ rblknum = rbuf.blknum
    BY <1>2, <1>3, <1>a DEF ReaderInv
  <2>2. DOMAIN file = 1 .. Len(file) /\ Len(file) \in Nat /\ \A n \in DOMAIN file : file[n] \in Blocks
    BY FileType DEF SizeInv
  <2>3. nread + 1 \in DOMAIN file
    BY <1>3, <2>1, <2>2
  <2>4. QED
    BY <2>1, <2>2, <2>3 DEF b
<1>5. b.used = HdSiz + Len(b.data) /\ b.data # <<>> /\ Len(b.data) \in Nat /\ Len(b.data) > 0
  <2>1. b.used = HdSiz + Len(b.data) /\ Len(b.data) \in Nat /\ (b.data = <<>> <=> Len(b.data) = 0)
    BY <1>4, BlockType DEF FileInv, BlocksOK, BlockOK
  <2>2. QED
    BY <1>3, <2>1, ConstantTypes
<1>6. rbuf.data # <<>>
  <2>1. SUFFICES ASSUME rbuf.data = <<>>  PROVE FALSE
    OBVIOUS
  <2>2. rbuf.blknum = wblknum - 1
    BY <1>4, <2>1 DEF FileInv
  <2>3. b.blknum < wblknum /\ b.blknum \in Nat /\ wblknum \in Nat
    BY <1>4, BlockType DEF FileInv, BlocksOK, SizeInv
  <2>4. QED
    BY <1>3, <1>4, <2>2, <2>3
<1>7. AtWord
  BY <1>2, <1>3, <1>6, <1>a DEF ReaderInv
<1>8. b.data[1] = Wanted
  <2>1. b.data[1] = Behind(sent, rbuf)
    BY <1>3, <1>4, <1>5 DEF FileInv, BlocksOK
  <2>2. Behind(sent, rbuf) = Wanted
    BY <1>1, <1>7 DEF AtWord
  <2>3. QED
    BY <2>1, <2>2
<1>9. Wanted' = Wanted
  BY <1>1, <1>3 DEF Wanted
<1>10. left' > 0 /\ next' - HdSiz + 1 = 1 /\ next' \in Nat /\ left' \in Nat /\ next' + left' = b.used
  BY <1>3, <1>5, ConstantTypes
<1>11. AtWord'
  <2>1. rbuf'.data[next' - HdSiz + 1] = Wanted'
    BY <1>3, <1>8, <1>9, <1>10
  <2>2. next' >= HdSiz
    BY <1>3, ConstantTypes
  <2>3. rpc' = "copy" =>
          /\ Wanted'[1] \in DOMAIN sent' /\ nleft' \in Nat \ {0}
          /\ nleft' + Len(buffer') = sent'[Wanted'[1]]
          /\ buffer' \in Seq(Words) /\ \A k \in DOMAIN buffer' : buffer'[k] = <<Wanted'[1], k - 1>>
    BY <1>1, <1>3, <1>7, <1>9 DEF AtWord
  <2>4. QED
    BY <1>10, <2>1, <2>2, <2>3 DEF AtWord
<1>12. QED
  BY <1>1, <1>3, <1>4, <1>5, <1>10, <1>11 DEF ReaderInv

\* The word the reader is at is in the block.
LEMMA AtWordIs ==
  ASSUME SizeInv, FileInv, ReaderInv, sure, rpc \in {"open", "copy"}, rbuf.data # <<>>, left > 0
  PROVE  /\ AtWord /\ next >= HdSiz /\ next - HdSiz + 1 \in DOMAIN rbuf.data
         /\ rbuf.data[next - HdSiz + 1] = Wanted
         /\ Wanted[1] \in DOMAIN sent /\ Wanted[1] = Len(got) + 1
<1>1. AtWord /\ next >= HdSiz /\ rbuf.data[next - HdSiz + 1] = Wanted
  BY DEF ReaderInv, AtWord
<1>2. next - HdSiz + 1 \in DOMAIN rbuf.data
  BY <1>1, ReaderBlock, ConstantTypes
<1>3. IsWord(sent, rbuf.data[next - HdSiz + 1])
  BY <1>2, ReaderBlock DEF InOrder
<1>4. QED
  BY <1>1, <1>2, <1>3 DEF IsWord, Wanted

\* The length evRead takes there is that of the event, if there is one.
LEMMA EvReadKeeps ==
  ASSUME SizeInv, FileInv, ReaderInv, sure, EvRead
  PROVE  ReaderInv' /\ got' = got
<1>1. /\ rpc = "open" /\ left > 0 /\ buffer' = <<>>
      /\ UNCHANGED <<file, sent, rbuf, next, left, rblknum, nread, sure>>
  BY DEF EvRead, fileVars, writerVars
<1>2. PICK len \in LengthAt(Word(next)) :
        /\ nleft' = IF len < BufLen THEN len ELSE BufLen
        /\ len > 0 => rpc' = (IF len < BufLen THEN "copy" ELSE "truncate") /\ got' = got
        /\ len > 0 \/ len = 0
  BY DEF EvRead
<1>3. ASSUME len > 0, len < BufLen => ReaderInv'  PROVE ReaderInv' /\ got' = got
  BY <1>2, <1>3 DEF ReaderInv
<1>4. CASE rbuf.data = <<>>
  <2>1. AtHeader
    BY <1>1, <1>4 DEF ReaderInv
  <2>2. nread = 1 /\ next = 0 /\ left = HdSiz
    BY <1>1, <2>1, ReaderBlock, ConstantTypes DEF AtHeader
  <2>3. Word(next) = <<0, 0>>
    BY <2>2, ConstantTypes DEF Word
  <2>4. len = rbuf.blksiz + 1
    BY <2>3 DEF LengthAt
  <2>5. rbuf.blksiz = BlkSiz
    BY <1>1, <2>2 DEF ReaderInv, SizeInv
  <2>6. len > 0 /\ len \in Nat /\ len > HdSiz
    BY <2>4, <2>5, ConstantTypes
  <2>7. ASSUME len < BufLen  PROVE ReaderInv'
    <3>1. rpc' = "copy" /\ nleft' = len
      BY <1>2, <2>6, <2>7
    <3>2. AtHeader'
      BY <1>1, <2>2, <2>6, <3>1, ConstantTypes DEF AtHeader
    <3>3. QED
      BY <1>1, <1>4, <3>2 DEF ReaderInv
  <2>8. QED
    BY <1>3, <2>6, <2>7
<1>5. CASE rbuf.data # <<>>
  <2> DEFINE i == Len(got) + 1
  <2>1. /\ AtWord /\ next >= HdSiz /\ rbuf.data[next - HdSiz + 1] = Wanted
        /\ i \in DOMAIN sent /\ Wanted = <<i, 0>>
    BY <1>1, <1>5, AtWordIs DEF Wanted
  <2>2. Word(next) = <<i, 0>>
    BY <2>1, ReaderBlock, <1>1, ConstantTypes DEF Word
  <2>3. i \in Nat \ {0} /\ sent[i] \in Nat \ {0}
    BY <2>1, SentType
  <2> HIDE DEF i
  <2>4. len = sent[i]
    <3>1. <<i, 0>> # <<0, 0>> /\ <<i, 0>>[1] = i /\ <<i, 0>>[2] = 0
      BY <2>3
    <3>2. LengthAt(<<i, 0>>) = {sent[i]}
      BY <2>3, <3>1 DEF LengthAt
    <3>3. QED
      BY <2>2, <3>2
  <2>a. SUFFICES ASSUME len < BufLen  PROVE ReaderInv'
    BY <1>3, <2>3, <2>4
  <2>b. rpc' = "copy" /\ nleft' = sent[i] /\ got' = got
    BY <1>2, <2>3, <2>4, <2>a
  <2>5. Wanted' = Wanted
    BY <1>1, <2>b, EmptySeq DEF Wanted
  <2>6. /\ Wanted'[1] \in DOMAIN sent' /\ nleft' \in Nat \ {0}
        /\ nleft' + Len(buffer') = sent'[Wanted'[1]]
        /\ buffer' \in Seq(Words) /\ \A k \in DOMAIN buffer' : buffer'[k] = <<Wanted'[1], k - 1>>
    BY <1>1, <2>1, <2>3, <2>5, <2>b, EmptySeq
  <2>7. rbuf'.data[next' - HdSiz + 1] = Wanted' /\ next' >= HdSiz /\ left' > 0
    BY <1>1, <2>1, <2>5
  <2>8. AtWord'
    BY <2>6, <2>7 DEF AtWord
  <2>9. QED
    BY <1>1, <1>5, <2>8 DEF ReaderInv
<1>6. QED
  BY <1>4, <1>5

\* The words evRead copies are the next ones of the event it is in.
LEMMA PassOfRead ==
  ASSUME SizeInv, FileInv, ReaderInv, sure, rpc = "copy", left > 0, rbuf.data # <<>>
  PROVE  LET i == Len(got) + 1
             ncopy == Fewer(nleft, left)
             words == buffer \o [k \in 1 .. ncopy |-> Word(next + k - 1)]
         IN  /\ i \in DOMAIN sent /\ sent[i] \in Nat /\ Wanted = <<i, Len(buffer)>>
             /\ nleft \in Nat \ {0} /\ ncopy \in Nat \ {0} /\ ncopy <= nleft /\ ncopy <= left
             /\ ncopy = nleft \/ ncopy = left
             /\ nleft + Len(buffer) = sent[i] /\ Len(buffer) \in Nat
             /\ words \in Seq(Words) /\ Len(words) = Len(buffer) + ncopy /\ PartOf(words, i, 0)
             /\ next - HdSiz + ncopy \in DOMAIN rbuf.data
             /\ rbuf.data[next - HdSiz + ncopy] = <<i, Len(buffer) + ncopy - 1>>
<1> DEFINE i == Len(got) + 1
           j == Len(buffer)
           p == next - HdSiz + 1
           ncopy == Fewer(nleft, left)
           copied == [k \in 1 .. ncopy |-> Word(next + k - 1)]
           words == buffer \o copied
<1>1. /\ AtWord /\ next >= HdSiz /\ p \in DOMAIN rbuf.data /\ rbuf.data[p] = Wanted
      /\ i \in DOMAIN sent /\ Wanted = <<i, j>>
  BY AtWordIs DEF Wanted
<1>2. /\ nleft \in Nat \ {0} /\ nleft + j = sent[i] /\ buffer \in Seq(Words)
      /\ \A k \in DOMAIN buffer : buffer[k] = <<i, k - 1>>
  BY <1>1 DEF AtWord
<1>3. j \in Nat /\ DOMAIN buffer = 1 .. j /\ sent[i] \in Nat /\ i \in Nat
  BY <1>1, <1>2, WordsType, SentType
<1>4. /\ next \in Nat /\ left \in Nat /\ next + left = HdSiz + Len(rbuf.data)
      /\ rbuf.data \in Seq(Words) /\ InOrder(sent, rbuf.data)
      /\ Len(rbuf.data) \in Nat /\ DOMAIN rbuf.data = 1 .. Len(rbuf.data)
  BY ReaderBlock
<1>5. ncopy \in Nat \ {0} /\ ncopy <= nleft /\ ncopy <= left /\ (ncopy = nleft \/ ncopy = left)
  BY <1>2, <1>4 DEF Fewer
<1>6. p \in Nat /\ p = next - HdSiz + 1 /\ p + left = Len(rbuf.data) + 1
  BY <1>1, <1>4, ConstantTypes
<1> HIDE DEF i, j, p, ncopy
<1>7. ASSUME NEW m \in 0 .. ncopy - 1  PROVE rbuf.data[p + m] = <<i, j + m>>
  <2>1. m \in Nat /\ p + m <= Len(rbuf.data) /\ j + m < sent[i]
    BY <1>2, <1>3, <1>4, <1>5, <1>6
  <2>2. PICK data : data = rbuf.data
    OBVIOUS
  <2>3. data \in Seq(Words) /\ InOrder(sent, data) /\ p \in DOMAIN data /\ data[p] = <<i, j>>
        /\ p + m <= Len(data) /\ sent \in Lens /\ i \in DOMAIN sent /\ j \in Nat
    BY <1>1, <1>3, <1>4, <2>1, <2>2, SentType
  <2>4. data[p + m] = <<i, j + m>>
    BY <2>1, <2>3, EventGoesOn, Zenon
  <2>5. QED
    BY <2>2, <2>4
<1>8. ASSUME NEW k \in 1 .. ncopy  PROVE Word(next + k - 1) = <<i, j + k - 1>>
  <2> DEFINE q == next + k - 1
  <2>1. k - 1 \in 0 .. ncopy - 1 /\ p + (k - 1) = q - HdSiz + 1 /\ ~(q < HdSiz)
    BY <1>1, <1>4, <1>5, <1>6, ConstantTypes
  <2> HIDE DEF q
  <2>2. Word(q) = rbuf.data[p + (k - 1)]
    BY <2>1 DEF Word
  <2>3. rbuf.data[p + (k - 1)] = <<i, j + (k - 1)>> /\ j + (k - 1) = j + k - 1
    BY <1>3, <1>7, <2>1
  <2>4. QED
    BY <2>2, <2>3 DEF q
<1>9. /\ copied \in Seq(Words) /\ Len(copied) = ncopy
      /\ \A k \in 1 .. ncopy : copied[k] = <<i, j + k - 1>>
  <2>1. \A k \in 1 .. ncopy : <<i, j + k - 1>> \in Words
    BY <1>3, <1>5 DEF Words
  <2>2. \A k \in 1 .. ncopy : copied[k] = <<i, j + k - 1>> /\ copied[k] \in Words
    BY <1>8, <2>1
  <2>3. copied \in Seq(Words) /\ Len(copied) = ncopy
    BY <1>5, <2>2
  <2>4. QED
    BY <2>2, <2>3
<1> HIDE DEF copied
<1>10. /\ words \in Seq(Words) /\ Len(words) = j + ncopy
       /\ \A k \in 1 .. j + ncopy : words[k] = IF k <= j THEN buffer[k] ELSE copied[k - j]
  BY <1>2, <1>9, ConcatProperties DEF j
<1> HIDE DEF words
<1>11. PartOf(words, i, 0)
  <2>1. ASSUME NEW k \in 1 .. j + ncopy  PROVE words[k] = <<i, 0 + k - 1>>
    <3>1. CASE k <= j
      BY <1>2, <1>3, <1>10, <3>1
    <3>2. CASE k > j
      <4>1. k - j \in 1 .. ncopy /\ words[k] = copied[k - j]
        BY <1>3, <1>5, <1>10, <3>2
      <4>2. copied[k - j] = <<i, j + (k - j) - 1>> /\ j + (k - j) - 1 = 0 + k - 1
        BY <1>3, <1>9, <4>1
      <4>3. QED
        BY <4>1, <4>2
    <3>3. QED
      BY <1>3, <1>5, <3>1, <3>2
  <2>2. QED
    BY <1>10, <2>1 DEF PartOf
<1>12. /\ next - HdSiz + ncopy \in DOMAIN rbuf.data
       /\ rbuf.data[next - HdSiz + ncopy] = <<i, j + ncopy - 1>>
  <2>1. /\ ncopy - 1 \in 0 .. ncopy - 1 /\ p + (ncopy - 1) = next - HdSiz + ncopy
        /\ p + (ncopy - 1) \in 1 .. Len(rbuf.data) /\ j + (ncopy - 1) = j + ncopy - 1
    BY <1>1, <1>3, <1>4, <1>5, <1>6, ConstantTypes
  <2>2. rbuf.data[p + (ncopy - 1)] = <<i, j + (ncopy - 1)>>
    BY <1>7, <2>1
  <2>3. QED
    BY <1>4, <2>1, <2>2
<1>13. QED
  BY <1>1, <1>2, <1>3, <1>5, <1>10, <1>11, <1>12 DEF i, j, ncopy, words, copied

\* An event is handed out when its last word is there, whole.
LEMMA WholeEvent ==
  ASSUME NEW words \in Seq(Words), NEW i \in Nat, NEW len \in Nat, Len(words) = len, PartOf(words, i, 0)
  PROVE  words = Event(i, len)
<1>1. \A k \in 1 .. len : <<i, k - 1>> \in Words
  BY DEF Words
<1>2. ASSUME NEW k \in 1 .. len  PROVE words[k] = <<i, k - 1>>
  <2>1. words[k] = <<i, 0 + k - 1>>
    BY DEF PartOf
  <2>2. 0 + k - 1 = k - 1
    OBVIOUS
  <2>3. QED
    BY <2>1, <2>2
<1>3. Event(i, len) \in Seq(Words) /\ Len(Event(i, len)) = len
      /\ \A k \in 1 .. len : Event(i, len)[k] = <<i, k - 1>>
  BY <1>1 DEF Event
<1>4. QED
  BY <1>2, <1>3, SeqEqual

\* What a pass of evRead's loop hands out, if anything, and where it leaves
\* the reader.
LEMMA CopyOutKeeps ==
  ASSUME SizeInv, FileInv, ReaderInv, GotInv, sure, CopyOut
  PROVE  /\ ReaderInv'
         /\ \/ got' = got
            \/ /\ Len(got) + 1 \in DOMAIN sent
               /\ got' = Append(got, Event(Len(got) + 1, sent[Len(got) + 1]))
               /\ Event(Len(got) + 1, sent[Len(got) + 1]) \in Seq(Words)
<1> DEFINE i == Len(got) + 1
           ncopy == Fewer(nleft, left)
           words == buffer \o [k \in 1 .. ncopy |-> Word(next + k - 1)]
<1>1. /\ left > 0 /\ nleft' = nleft - ncopy /\ next' = next + ncopy /\ left' = left - ncopy
      /\ buffer' = IF nleft = ncopy THEN <<>> ELSE words
      /\ got' = IF nleft = ncopy /\ rpc = "copy" THEN Append(got, words) ELSE got
      /\ nleft # ncopy => rpc' = rpc
      /\ nleft = ncopy /\ rpc = "copy" => rpc' = "open"
      /\ nleft = ncopy /\ rpc = "truncate" => rpc' = "failed"
      /\ rpc \in {"copy", "truncate"}
      /\ UNCHANGED <<file, sent, rbuf, rblknum, nread, sure>>
  BY DEF CopyOut, HandOut, fileVars, writerVars
<1>2. CASE rpc = "truncate"
  <2>1. got' = got /\ rpc' \notin {"open", "copy"}
    BY <1>1, <1>2
  <2>2. QED
    BY <2>1 DEF ReaderInv
<1>3. CASE rpc = "copy" /\ rbuf.data = <<>>
  <2>1. nread = 1 /\ next + left = HdSiz /\ nleft \in Nat /\ nleft > left
    BY <1>3 DEF ReaderInv, AtHeader
  <2>2. next \in Nat /\ left \in Nat
    BY <1>3, ReaderBlock
  <2>3. ncopy = left /\ nleft # ncopy
    BY <2>1, <2>2 DEF Fewer
  <2> HIDE DEF ncopy, words
  <2>4. rpc' = "copy" /\ got' = got
    BY <1>1, <1>3, <2>3
  <2>5. next' \in Nat /\ left' \in Nat /\ next' + left' = HdSiz /\ nleft' \in Nat /\ nleft' > left'
        /\ next' + left' = next + left
    BY <1>1, <2>1, <2>2, <2>3, ConstantTypes
  <2>6. AtHeader'
    BY <1>1, <2>1, <2>4, <2>5 DEF AtHeader
  <2>7. ReaderInv'
    BY <1>1, <1>3, <2>5, <2>6 DEF ReaderInv
  <2>8. QED
    BY <2>4, <2>7
<1>4. CASE rpc = "copy" /\ rbuf.data # <<>>
  <2>1. /\ i \in DOMAIN sent /\ sent[i] \in Nat /\ Wanted = <<i, Len(buffer)>>
        /\ nleft \in Nat \ {0} /\ ncopy \in Nat \ {0} /\ ncopy <= nleft /\ ncopy <= left
        /\ ncopy = nleft \/ ncopy = left
        /\ nleft + Len(buffer) = sent[i] /\ Len(buffer) \in Nat
        /\ words \in Seq(Words) /\ Len(words) = Len(buffer) + ncopy /\ PartOf(words, i, 0)
        /\ next - HdSiz + ncopy \in DOMAIN rbuf.data
        /\ rbuf.data[next - HdSiz + ncopy] = <<i, Len(buffer) + ncopy - 1>>
    BY <1>1, <1>4, PassOfRead, Zenon
  <2>2. i \in Nat /\ Len(got) \in Nat /\ i = Len(got) + 1 /\ got \in Seq(Seq(Words))
    BY DEF GotInv
  <2>3. /\ next \in Nat /\ left \in Nat /\ next + left = HdSiz + Len(rbuf.data) /\ next >= HdSiz
        /\ rbuf.data \in Seq(Words) /\ InOrder(sent, rbuf.data) /\ rbuf.used = HdSiz + Len(rbuf.data)
        /\ Len(rbuf.data) \in Nat /\ DOMAIN rbuf.data = 1 .. Len(rbuf.data)
    BY <1>1, <1>4, ReaderBlock, AtWordIs
  <2> HIDE DEF ncopy, words
  <2>a. /\ ncopy \in Nat \ {0} /\ ncopy <= left /\ next' = next + ncopy /\ left' = left - ncopy
        /\ rbuf' = rbuf
    BY <1>1, <2>1
  <2>4. /\ next' \in Nat /\ left' \in Nat /\ next' + left' = rbuf.used /\ next' >= HdSiz
    BY <2>a, <2>3, ConstantTypes
  <2> DEFINE then == NextWord(sent, <<i, Len(buffer) + ncopy - 1>>)
  <2>5. IF left' > 0 THEN rbuf'.data[next' - HdSiz + 1] = then ELSE Behind(sent, rbuf) = then
    <3> DEFINE q == next - HdSiz + ncopy
    <3>1. q \in DOMAIN rbuf.data /\ rbuf.data[q] = <<i, Len(buffer) + ncopy - 1>>
      BY <2>1
    <3>2. q \in Nat /\ q + left' = Len(rbuf.data) /\ next' - HdSiz + 1 = q + 1
      BY <2>a, <2>3, ConstantTypes
    <3> HIDE DEF q
    <3>3. CASE left' > 0
      <4>1. q + 1 \in DOMAIN rbuf.data /\ q + 1 > 1 /\ (q + 1) - 1 = q
        <5>1. q >= 1
          BY <2>3, <3>1
        <5>2. q + 1 <= Len(rbuf.data) /\ Len(rbuf.data) \in Nat
          BY <2>3, <2>4, <3>2, <3>3
        <5>3. QED
          BY <2>3, <3>2, <5>1, <5>2
      <4>2. rbuf.data[q + 1] = NextWord(sent, rbuf.data[q])
        BY <2>3, <4>1 DEF InOrder
      <4>3. QED
        BY <2>a, <3>1, <3>2, <3>3, <4>2
    <3>4. CASE ~(left' > 0)
      <4>1. q = Len(rbuf.data)
        BY <2>4, <3>2, <3>4
      <4>2. Behind(sent, rbuf) = NextWord(sent, rbuf.data[q])
        BY <4>1 DEF Behind
      <4>3. QED
        BY <3>1, <3>4, <4>2
    <3>5. QED
      BY <3>3, <3>4
  <2>6. then = IF nleft = ncopy THEN <<i + 1, 0>> ELSE <<i, Len(words)>>
    <3>1. Len(buffer) + ncopy - 1 + 1 = Len(words)
      BY <2>1
    <3>2. Len(words) < sent[i] <=> nleft # ncopy
      BY <2>1
    <3>3. QED
      BY <3>1, <3>2 DEF NextWord
  <2> HIDE DEF then, i
  <2>7. CASE nleft = ncopy
    <3>1. rpc' = "open" /\ got' = Append(got, words)
      BY <1>1, <1>4, <2>7
    <3>2. words = Event(i, sent[i])
      <4>1. Len(words) = sent[i]
        BY <2>1, <2>7
      <4>2. QED
        BY <2>1, <2>2, <4>1, WholeEvent
    <3>3. Len(got') = i
      BY <2>1, <2>2, <3>1, AppendProperties
    <3>4. Wanted' = <<i + 1, 0>>
      BY <3>1, <3>3 DEF Wanted
    <3>5. AtWord'
      BY <1>1, <2>4, <2>5, <2>6, <2>7, <3>1, <3>4 DEF AtWord
    <3>6. ReaderInv'
      BY <1>1, <1>4, <2>4, <3>5 DEF ReaderInv
    <3>7. QED
      BY <2>1, <2>2, <3>1, <3>2, <3>6
  <2>8. CASE nleft # ncopy
    <3>1. rpc' = "copy" /\ got' = got /\ buffer' = words
      BY <1>1, <1>4, <2>8
    <3>2. Wanted' = <<i, Len(words)>>
      BY <2>2, <3>1 DEF Wanted
    <3>3. /\ nleft' \in Nat \ {0} /\ nleft' + Len(words) = sent[i]
      BY <1>1, <2>1, <2>8
    <3>4. \A k \in DOMAIN words : words[k] = <<i, k - 1>>
      <4>1. DOMAIN words = 1 .. Len(words)
        BY <2>1, WordsType
      <4>2. \A k \in DOMAIN words : words[k] = <<i, 0 + k - 1>> /\ 0 + k - 1 = k - 1
        BY <2>1, <4>1 DEF PartOf
      <4>3. QED
        BY <4>2
    <3>5. AtWord'
      BY <1>1, <2>1, <2>4, <2>5, <2>6, <2>8, <3>1, <3>2, <3>3, <3>4 DEF AtWord
    <3>6. ReaderInv'
      BY <1>1, <1>4, <2>4, <3>5 DEF ReaderInv
    <3>7. QED
      BY <3>1, <3>6
  <2>9. QED
    BY <2>7, <2>8
<1>5. QED
  BY <1>1, <1>2, <1>3, <1>4

\* What every step but evIoctl's does to the reader.
LEMMA ReaderStep ==
  ASSUME SizeInv, GotInv, FileInv, ReaderInv, [Next]_vars, ~EvIoctl
  PROVE  ReaderInv'
<1>1. CASE LoseBlock
  <2>1. rpc' = "closed"
    BY <1>1 DEF LoseBlock, readerVars
  <2>2. QED
    BY <2>1 DEF ReaderInv
<1>2. CASE UNCHANGED vars
  BY <1>2 DEF vars, fileVars, writerVars, readerVars, ReaderInv, AtHeader, AtWord, Wanted
<1>3. CASE (EvRead \/ CopyOut) /\ ~sure
  BY <1>3 DEF EvRead, CopyOut, ReaderInv
<1>4. QED
  BY <1>1, <1>2, <1>3, WriterKeepsReader, EvOpenKeeps, NewBufferKeeps, EvReadKeeps, CopyOutKeeps
  DEF Next, Writer, Reader

-----------------------------------------------------------------------------
(* The log of events.                                                      *)

\* The log has the events written, as sequences of words.
LEMMA LogType ==
  ASSUME NEW lens \in Lens, NEW log, log = [i \in DOMAIN lens |-> Event(i, lens[i])]
  PROVE  /\ log \in Seq(Seq(Words)) /\ Len(log) = Len(lens)
         /\ \A i \in DOMAIN lens : log[i] = Event(i, lens[i]) /\ Event(i, lens[i]) \in Seq(Words)
<1>1. Len(lens) \in Nat /\ DOMAIN lens = 1 .. Len(lens) /\ \A i \in DOMAIN lens : lens[i] \in Nat
  BY LensType
<1>2. ASSUME NEW i \in DOMAIN lens  PROVE Event(i, lens[i]) \in Seq(Words)
  <2>1. PICK len \in Nat : len = lens[i]
    BY <1>1
  <2>2. i \in Nat /\ \A k \in 1 .. len : <<i, k - 1>> \in Words
    BY <1>1 DEF Words
  <2>3. Event(i, len) \in Seq(Words)
    BY <2>2 DEF Event
  <2>4. QED
    BY <2>1, <2>3
<1>3. log \in Seq(Seq(Words)) /\ Len(log) = Len(lens)
  BY <1>1, <1>2
<1>4. QED
  BY <1>2, <1>3

\* After evWrite began with an event the log has that one more, and those before.
LEMMA LogGrows ==
  ASSUME SizeInv, NEW len \in Nat \ {0}, sent' = Append(sent, len)
  PROVE  Len(Log') = Len(Log) + 1 /\ SubSeq(Log', 1, Len(Log)) = Log
<1>1. /\ Log \in Seq(Seq(Words)) /\ Len(Log) = Len(sent)
      /\ \A i \in DOMAIN sent : Log[i] = Event(i, sent[i])
  BY SentType, LogType DEF Log
<1>2. /\ Log' \in Seq(Seq(Words)) /\ Len(Log') = Len(sent')
      /\ \A i \in DOMAIN sent' : Log'[i] = Event(i, sent'[i])
  <2>1. sent' \in Lens
    BY SentType, AppendProperties DEF Lens
  <2>2. Log' = [i \in DOMAIN sent' |-> Event(i, sent'[i])]
    BY DEF Log
  <2>3. QED
    BY <2>1, <2>2, LogType
<1>3. /\ sent \in Lens /\ Len(sent) \in Nat /\ DOMAIN sent = 1 .. Len(sent)
      /\ sent' \in Lens /\ Len(sent') = Len(sent) + 1
      /\ \A i \in 1 .. Len(sent) : sent'[i] = sent[i]
  BY SentType, AppendProperties DEF Lens
<1>4. DOMAIN sent' = 1 .. Len(sent) + 1
  BY <1>3, LensType
<1>5. ASSUME NEW i \in 1 .. Len(sent)  PROVE Log'[i] = Log[i]
  <2>1. i \in DOMAIN sent /\ i \in DOMAIN sent' /\ sent'[i] = sent[i]
    BY <1>3, <1>4
  <2>2. QED
    BY <1>1, <1>2, <2>1
<1>6. \A i \in 1 .. Len(sent) : Log'[i] \in Seq(Words)
  <2>1. \A i \in 1 .. Len(sent) : Log[i] \in Seq(Words)
    BY <1>1, ElementOfSeq
  <2>2. QED
    BY <1>5, <2>1
<1> DEFINE first == SubSeq(Log', 1, Len(sent))
<1>7. /\ first \in Seq(Seq(Words)) /\ Len(first) = Len(sent)
      /\ \A i \in 1 .. Len(sent) : first[i] = Log'[i]
  <2>1. /\ first \in Seq(Seq(Words))
        /\ Len(first) = IF 1 <= Len(sent) THEN Len(sent) - 1 + 1 ELSE 0
        /\ \A i \in 1 .. Len(sent) - 1 + 1 : first[i] = Log'[1 + i - 1]
    <3>1. 1 \in Int /\ Len(sent) \in Int
      BY <1>3
    <3>2. QED
      BY <1>6, <3>1, SubSeqProperties
  <2> HIDE DEF first
  <2>2. QED
    BY <1>3, <2>1
<1> HIDE DEF first
<1>8. first = Log
  BY <1>1, <1>5, <1>7, SeqEqual
<1>9. QED
  BY <1>1, <1>2, <1>3, <1>8 DEF first

\* Every step writes an event, hands out the next one or does neither.
LEMMA DeliveryStep ==
  ASSUME BlockFileInv, [Next]_vars
  PROVE  GotInv' /\ [DeliversLog!Next]_(DeliversLog!vars)
<1>1. SizeInv /\ GotInv /\ (wblksiz = BlkSiz => FileInv /\ WriterInv /\ ReaderInv)
  BY DEF BlockFileInv
<1>2. ASSUME sent' = sent, got' = got, rpc' = "closed" => rpc = "closed"
      PROVE  GotInv' /\ [DeliversLog!Next]_(DeliversLog!vars)
  <2>1. GotInv'
    BY <1>1, <1>2 DEF GotInv
  <2>2. Log' = Log
    BY <1>2 DEF Log
  <2>3. QED
    BY <1>2, <2>1, <2>2 DEF DeliversLog!vars
<1>3. CASE EvWrite
  <2>1. PICK len \in Nat \ {0} : sent' = Append(sent, len)
    BY <1>3, ConstantTypes DEF EvWrite
  <2>2. got' = got /\ rpc' = rpc
    BY <1>3 DEF EvWrite, readerVars
  <2>3. Len(Log') = Len(Log) + 1 /\ SubSeq(Log', 1, Len(Log)) = Log
    BY <1>1, <2>1, LogGrows
  <2>4. DeliversLog!Next
    BY <2>2, <2>3 DEF DeliversLog!Next, DeliversLog!Write
  <2>5. GotInv'
    <3>1. /\ Len(sent') = Len(sent) + 1 /\ \A i \in 1 .. Len(sent) : sent'[i] = sent[i]
      BY <1>1, <2>1, SentType, AppendProperties DEF Lens
    <3>2. Len(sent) \in Nat /\ Len(got) \in Nat /\ DOMAIN got = 1 .. Len(got) /\ Len(got) <= Len(sent)
      BY <1>1, SentType DEF GotInv
    <3>3. \A i \in DOMAIN got : sent'[i] = sent[i]
      BY <3>1, <3>2
    <3>4. Len(got) <= Len(sent')
      BY <3>1, <3>2
    <3>5. QED
      BY <1>1, <2>2, <3>3, <3>4 DEF GotInv
  <2>6. QED
    BY <2>4, <2>5
<1>4. CASE CopyOut /\ sure
  <2>1. rpc \in {"copy", "truncate"} /\ rpc' # "closed" /\ sent' = sent
    <3>1. rpc \in {"copy", "truncate"} /\ sent' = sent
      BY <1>4 DEF CopyOut, writerVars
    <3>2. rpc' \in {rpc, "open", "failed"}
      BY <1>4, <3>1 DEF CopyOut
    <3>3. QED
      BY <3>1, <3>2
  <2>2. FileInv /\ ReaderInv
    BY <1>1, <1>4, <2>1 DEF SizeInv
  <2> DEFINE i == Len(got) + 1
             event == Event(i, sent[i])
  <2>3. got' = got \/ (i \in DOMAIN sent /\ got' = Append(got, event) /\ event \in Seq(Words))
    BY <1>1, <1>4, <2>2, CopyOutKeeps, Zenon
  <2>4. CASE got' = got
    BY <1>2, <2>1, <2>4
  <2>5. CASE i \in DOMAIN sent /\ got' = Append(got, event) /\ event \in Seq(Words)
    <3>1. got \in Seq(Seq(Words)) /\ Len(got) \in Nat /\ DOMAIN got = 1 .. Len(got)
          /\ \A k \in DOMAIN got : got[k] = Event(k, sent[k])
      BY <1>1 DEF GotInv
    <3>2. Len(sent) \in Nat /\ DOMAIN sent = 1 .. Len(sent)
      BY <1>1, SentType
    <3>3. i \in Nat /\ i <= Len(sent) /\ i = Len(got) + 1
      BY <2>5, <3>1, <3>2
    <3> HIDE DEF event
    <3>4. /\ got' \in Seq(Seq(Words)) /\ Len(got') = i /\ got'[i] = event
          /\ \A k \in 1 .. Len(got) : got'[k] = got[k]
      BY <2>5, <3>1, AppendProperties
    <3> HIDE DEF i
    <3>5. DOMAIN got' = 1 .. i
      BY <3>4
    <3>6. ASSUME NEW k \in DOMAIN got'  PROVE got'[k] = Event(k, sent[k])
      <4>1. CASE k = i
        BY <3>4, <4>1 DEF event
      <4>2. CASE k # i
        <5>1. k \in 1 .. Len(got)
          BY <3>1, <3>3, <3>5, <4>2
        <5>2. QED
          BY <3>1, <3>4, <5>1
      <4>3. QED
        BY <4>1, <4>2
    <3>7. GotInv'
      BY <2>1, <3>3, <3>4, <3>6 DEF GotInv
    <3>8. Len(Log) = Len(sent) /\ Log[i] = event /\ Log' = Log
      BY <1>1, <2>1, <2>5, SentType, LogType DEF event, Log
    <3>9. DeliversLog!Read
      <4>1. Len(got) < Len(Log)
        BY <3>1, <3>2, <3>3, <3>8
      <4>2. got' = Append(got, Log[Len(got) + 1])
        BY <2>5, <3>3, <3>8
      <4>3. QED
        BY <3>8, <4>1, <4>2 DEF DeliversLog!Read
    <3>10. QED
      BY <3>7, <3>9 DEF DeliversLog!Next
  <2>6. QED
    BY <2>3, <2>4, <2>5
<1>5. CASE EvRead \/ (CopyOut /\ ~sure)
  <2>1. sent' = sent /\ rpc # "closed" /\ rpc' # "closed"
    BY <1>5 DEF EvRead, CopyOut, writerVars
  <2>2. got' = got
    <3>1. CASE ~sure
      BY <1>5, <3>1 DEF EvRead, CopyOut, HandOut
    <3>2. CASE sure
      <4>1. FileInv /\ ReaderInv
        BY <1>1, <2>1, <3>2 DEF SizeInv
      <4>2. QED
        BY <1>1, <1>5, <3>2, <4>1, EvReadKeeps
    <3>3. QED
      BY <3>1, <3>2
  <2>3. QED
    BY <1>2, <2>1, <2>2
<1>6. CASE ~EvWrite /\ ~CopyOut /\ ~EvRead
  <2>1. sent' = sent /\ got' = got
    BY <1>6 DEF Next, Writer, Reader, EvIoctl, CopyIn, EvClose, Arrive, FileClosed, Crash, LoseBlock,
                EvOpen, EvOpenStale, Begin, NewBuffer, NextBlock, vars, writerVars, readerVars
  <2>2. rpc' = "closed" => rpc = "closed"
    BY <1>6 DEF Next, Writer, Reader, EvIoctl, CopyIn, EvClose, Arrive, FileClosed, Crash, LoseBlock,
                EvOpen, EvOpenStale, NewBuffer, NextBlock, EvGetNewBuffer, vars, readerVars
  <2>3. QED
    BY <1>2, <2>1, <2>2
<1>7. QED
  BY <1>3, <1>4, <1>5, <1>6, Zenon

\* The file is empty at first and nothing was read.
LEMMA BlockFileInit == Init => BlockFileInv /\ DeliversLog!Init
<1> SUFFICES ASSUME Init
             PROVE  BlockFileInv /\ DeliversLog!Init
  OBVIOUS
<1>1. /\ file = <<>> /\ wpc = "open" /\ fault = "none" /\ wblksiz = BlkSiz /\ wblknum = 0 /\ dangling = FALSE
      /\ wbuf = NewBlock(BlkSiz, 0) /\ evnum = 0 /\ sent = <<>> /\ rpc = "closed" /\ got = <<>>
  BY DEF Init
<1>2. /\ wbuf \in Blocks /\ wbuf.data = <<>> /\ wbuf.blksiz = BlkSiz /\ wbuf.blknum = 0 /\ wbuf.start = 0
  BY <1>1, NewBlockType, ConstantTypes
<1>3. /\ \A S : <<>> \in Seq(S)
      /\ Len(<<>>) = 0 /\ DOMAIN <<>> = {}
  BY EmptySeq
<1>4. SizeInv
  <2>1. sent \in Seq(Lengths) /\ file \in Seq(Blocks) /\ {evnum, wblknum, wblksiz} \subseteq Nat
    BY <1>1, <1>3, ConstantTypes
  <2>2. Len(wbuf.data) < wblksiz - HdSiz /\ Len(wbuf.data) <= wblksiz - HdSiz
    BY <1>1, <1>2, <1>3, ConstantTypes
  <2>3. QED
    BY <1>1, <1>2, <2>1, <2>2 DEF SizeInv
<1>5. GotInv
  BY <1>1, <1>3 DEF GotInv
<1>6. FileInv
  BY <1>1, <1>3 DEF FileInv, BlocksOK
<1>7. WriterInv
  <2>1. InOrder(sent, wbuf.data)
    BY <1>2, <1>3 DEF InOrder
  <2>2. Coming = <<1, 0>>
    BY <1>1, <1>3 DEF Coming
  <2>3. QED
    BY <1>1, <1>2, <2>1, <2>2 DEF WriterInv
<1>8. ReaderInv
  BY <1>1 DEF ReaderInv
<1>9. Log = <<>>
  BY <1>1, <1>4, SentType, LogType, EmptySeq DEF Log
<1>10. QED
  BY <1>1, <1>4, <1>5, <1>6, <1>7, <1>8, <1>9 DEF BlockFileInv, DeliversLog!Init

\* Every step keeps what is needed for that.
LEMMA BlockFileStep ==
  ASSUME OtherSizes, BlockFileInv, [Next]_vars
  PROVE  BlockFileInv'
<1>1. SizeInv /\ GotInv /\ (wblksiz = BlkSiz => FileInv /\ WriterInv /\ ReaderInv)
  BY DEF BlockFileInv
<1>2. SizeInv'
  BY <1>1, SizeStep
<1>3. GotInv'
  BY DeliveryStep
<1>4. ASSUME wblksiz' = BlkSiz  PROVE FileInv' /\ WriterInv' /\ ReaderInv'
  <2>1. ~EvIoctl
    BY <1>4 DEF EvIoctl, OtherSizes
  <2>2. wblksiz = BlkSiz
    BY <1>4, <2>1 DEF Next, Writer, Reader, EvWrite, CopyIn, EvClose, Arrive, FileClosed, Crash,
                      LoseBlock, EvOpen, EvOpenStale, Begin, NewBuffer, EvRead, CopyOut, NextBlock,
                      vars, writerVars
  <2>3. ~dangling
    BY <1>1, <2>2 DEF SizeInv
  <2>4. QED
    BY <1>1, <2>1, <2>2, <2>3, FileStep, ReaderStep
<1>5. QED
  BY <1>2, <1>3, <1>4 DEF BlockFileInv

\* The file implements EventLog: the events that evRead hands out are those
\* that evWrite was given, whole and in order, also from a file that is being
\* written, was left behind by a crash or lacks blocks, for all sizes, if its
\* first block was there when evOpen read it and up to the first write that
\* failed; evIoctl must not be asked for the size there is (evio.c).
THEOREM FileDeliversLog ==
  ASSUME OtherSizes
  PROVE  Spec => ReadsWhatWasWritten
<1>1. Init => BlockFileInv /\ DeliversLog!Init
  BY BlockFileInit
<1>2. BlockFileInv /\ [Next]_vars => BlockFileInv'
  BY BlockFileStep
<1>3. BlockFileInv /\ [Next]_vars => [DeliversLog!Next]_(DeliversLog!vars)
  BY DeliveryStep
<1>4. QED
  BY <1>1, <1>2, <1>3, PTL DEF Spec, ReadsWhatWasWritten, DeliversLog!Spec
=============================================================================
