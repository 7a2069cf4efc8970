------------------------------- MODULE ByteSwap -------------------------------
(***************************************************************************)
(* Swapping the bytes of an event that was written on a machine of the     *)
(* other endianness (CODA/swap_util.c, swapped_memcpy, called by evRead).  *)
(* What has to be swapped with what - four bytes, two, or none - depends on *)
(* the types of data, which stand in the headers of banks, segments and    *)
(* packets, which lie in one another and have to be swapped first.         *)
(*                                                                         *)
(* The unit of places is the halfword, as in the code. A halfword is       *)
(*   [unit |-> 4, 2 or 1,   the bytes of the item it is part of,           *)
(*    n |-> length,         of headers, in their own units,                *)
(*    type |-> type]        of headers; of packets their tag               *)
(* with n and type in the first halfword of a header of two.               *)
(***************************************************************************)
EXTENDS Integers, SequencesExt

CONSTANTS
  IntTypes,    \* types of data that consist of integers or reals of 4 bytes,
  ShortTypes,  \* of 2 bytes,
  ByteTypes,   \* of single bytes; those from 48 on come in packets
  Lengths,     \* lengths of data
  Wrappers,    \* types of events with banks or segments in them
  BareLengths  \* words of data of an event that is one bank of data

BankType == 16
SegmentType == 32

Types == IntTypes \union ShortTypes \union ByteTypes
PacketTypes == {t \in Types : t >= 48}
DataTypes == Types \ PacketTypes

\* Types 8 and 10, of 8 bytes, are left out: the code copies them over the end
\* of a temporary variable.
ASSUME ByteSwapAssumption ==
  /\ Types \subseteq ((0 .. 15) \ {8, 10}) \union (48 .. 63)
  /\ Lengths \subseteq Nat /\ BareLengths \subseteq Nat
  /\ Wrappers \subseteq {BankType, SegmentType}

VARIABLES
  source,       \* the event, a sequence of halfwords
  buffer,       \* by place, with what it was swapped: [unit, from]
  i,            \* the next halfword
  stack,        \* containers around it, the innermost first: [length, posi, type]
  lk,           \* [head_pos, type], the next header
  current_type, \* of the data before it
  ev_size,      \* in words, as the loop uses it
  pc            \* "begin", "loop", "done"

vars == <<source, buffer, i, stack, lk, current_type, ev_size, pc>>

---------------------------------------------------------------------------
\* Events, as the data acquisition writes them

UnitOf(t) ==
  CASE t \in IntTypes   -> 4
    [] t \in ShortTypes -> 2
    [] t \in ByteTypes  -> 1

LongWord(n, t) == <<[unit |-> 4, n |-> n, type |-> t], [unit |-> 4, n |-> 0, type |-> 0]>>
Data(t, halfwords) == [k \in 1 .. halfwords |-> [unit |-> UnitOf(t), n |-> 0, type |-> 0]]

Bank(t, body) == LongWord(Len(body) \div 2 + 1, 0) \o LongWord(0, t) \o body
Segment(t, body) == LongWord(Len(body) \div 2, t) \o body

Packet(t, n) == <<[unit |-> 2, n |-> n, type |-> 1]>> \o Data(t, n)
EmptyPacket == <<[unit |-> 2, n |-> 0, type |-> 0]>>

\* Packets fill whole words, if need be with an empty one.
Filled(packets) == IF Len(packets) % 2 = 0 THEN packets ELSE packets \o EmptyPacket

\* The data of a bank or segment without others in it, with their type.
Contents ==
  [type : {SegmentType}, body : {<<>>}]
    \union UNION {[type : {t}, body : {Data(t, 2 * n) : n \in Lengths}] : t \in DataTypes}
    \union UNION {[type : {t}, body : {Filled(Packet(t, n)) : n \in Lengths}
                                 \union {Filled(Packet(t, n) \o Packet(t, 1)) : n \in Lengths}]
                  : t \in PacketTypes}

Segments == {Segment(c.type, c.body) : c \in Contents}

\* A segment with others in it may come before a segment that has none.
SegmentLists ==
  Segments \union {Segment(SegmentType, s) : s \in Segments}
           \union {Segment(SegmentType, s) \o Segment(t, Data(t, 2))
                   : s \in Segments, t \in DataTypes}

Banks ==
  {Bank(c.type, c.body) : c \in Contents} \union {Bank(SegmentType, s) : s \in SegmentLists}

Events ==
  {Bank(BankType, b \o c)
     : b \in Banks \union {Bank(BankType, d) : d \in Banks}, c \in Banks}
    \union {Bank(t, Data(t, 2 * n)) : t \in DataTypes, n \in BareLengths}
    \union (IF SegmentType \in Wrappers
            THEN {Bank(SegmentType, s) : s \in SegmentLists}
            ELSE {})

---------------------------------------------------------------------------
Init ==
  /\ source \in Events
  /\ buffer = [k \in {} |-> [unit |-> 0, from |-> 0]]
  /\ i = 0
  /\ stack = <<>>
  /\ lk = [head_pos |-> 0, type |-> 0]
  /\ current_type = 0
  /\ ev_size = 0
  /\ pc = "begin"

Beyond == [unit |-> 0, n |-> 0, type |-> 0]
At(k) == IF k < Len(source) THEN source[k + 1] ELSE Beyond

\* The buffer after the halfwords between two places were copied in units of
\* so many bytes, the last one to its end.
Copied(unit, from, to) ==
  LET width == IF unit = 4 THEN 2 ELSE 1
      written == from .. from + width * ((to - from + width - 1) \div width) - 1
  IN [k \in DOMAIN buffer \union written |->
        IF k \in written
        THEN [unit |-> unit, from |-> k - ((k - from) % width)]
        ELSE buffer[k]]

\* The containers that do not end here.
\* (PoppedOne: a mutant, one is left at a time.)
PoppedOne ==
  IF stack # <<>> /\ stack[1].posi + stack[1].length = i THEN Tail(stack) ELSE stack
Popped ==
  LET open == {k \in DOMAIN stack : stack[k].posi + stack[k].length # i}
  IN IF open = {} THEN <<>> ELSE SubSeq(stack, Min(open), Len(stack))

\* (PushOnBehind: a mutant, the length counts from behind the header.)
PushOnBehind(size, posi, t, items) ==
  <<[length |-> size, posi |-> posi + 2, type |-> t]>> \o items
PushOn(size, posi, t, items) ==
  <<[length |-> size, posi |-> posi, type |-> t]>> \o items

\* The header of the event: a container's, or that of data without a wrapper.
Begin ==
  LET size == At(0).n
      t == At(2).type
  IN
  /\ pc = "begin"
  /\ buffer' = Copied(4, 0, 4)
  /\ i' = 4
  /\ \/ /\ t >= BankType
        /\ stack' = PushOn(2 * (size + 1), 0, t, <<>>)
        /\ lk' = [head_pos |-> 4, type |-> t]
        /\ UNCHANGED current_type
     \/ /\ t < BankType
        /\ lk' = [head_pos |-> 4 + 2 * (size - 1), type |-> t]
        /\ current_type' = t
        /\ UNCHANGED stack
  /\ ev_size' = IF t = BankType THEN size + 1 ELSE size
  /\ pc' = "loop"
  /\ UNCHANGED source

HeaderType == IF Popped # <<>> THEN Head(Popped).type ELSE lk.type

Header(t) ==
  /\ pc = "loop" /\ i < 2 * ev_size
  /\ i = lk.head_pos
  /\ HeaderType = t
  /\ UNCHANGED <<source, ev_size, pc>>

\* What follows a header: others, in a container, or data up to the next one.
Opens(size, t, first) ==
  /\ stack' = PushOn(size, i, t, Popped)
  /\ lk' = [head_pos |-> first, type |-> HeaderType]
  /\ UNCHANGED current_type

Holds(t, next) ==
  /\ stack' = Popped
  /\ current_type' = t
  /\ lk' = [head_pos |-> next, type |-> HeaderType]

BankHeader ==
  LET size == At(i).n
      t == At(i + 2).type
  IN
  /\ Header(BankType)
  /\ \/ t >= BankType /\ Opens(2 * (size + 1), t, i + 4)
     \/ t < BankType /\ Holds(t, i + 2 + 2 * size)
  /\ buffer' = Copied(4, i, i + 4)
  /\ i' = i + 4

SegmentHeader ==
  LET size == At(i).n + 1
      t == At(i).type
  IN
  /\ Header(SegmentType)
  /\ \/ t >= SegmentType /\ Opens(2 * size, t, i + 2)
     \/ t < SegmentType /\ Holds(t, i + 2 * size)
  /\ buffer' = Copied(4, i, i + 2)
  /\ i' = i + 2

\* An empty packet is a halfword of zeros.
PacketHeader ==
  LET pack == At(i) IN
  /\ HeaderType \notin {BankType, SegmentType} /\ Header(HeaderType)
  /\ \/ /\ pack.n = 0 /\ pack.type = 0
        /\ Holds(current_type, i + 1)
     \/ /\ pack.n # 0 \/ pack.type # 0
        /\ Holds(HeaderType, i + pack.n + 1)
  /\ buffer' = Copied(2, i, i + 1)
  /\ i' = i + 1

\* The unit of a type in the switch; of any other type nothing is copied and
\* the loop goes around at the same place.
CopyUnit(t) ==
  CASE t \in {0, 1, 2, 9, 15}      -> 4
    [] t \in {4, 5, 48, 52, 53}    -> 2
    [] t \in {3, 6, 7, 54, 55}     -> 1
    [] OTHER                       -> 0

DataUpToHeader ==
  /\ pc = "loop" /\ i < 2 * ev_size
  /\ i # lk.head_pos
  /\ CopyUnit(current_type) # 0
  /\ stack' = Popped
  /\ buffer' = Copied(CopyUnit(current_type), i, lk.head_pos)
  /\ i' = lk.head_pos
  /\ UNCHANGED <<source, lk, current_type, ev_size, pc>>

End ==
  /\ pc = "loop" /\ i >= 2 * ev_size
  /\ pc' = "done"
  /\ UNCHANGED <<source, buffer, i, stack, lk, current_type, ev_size>>

Next ==
  \/ Begin
  \/ BankHeader \/ SegmentHeader \/ PacketHeader
  \/ DataUpToHeader
  \/ End

FairSpec == Init /\ [][Next]_vars /\ WF_vars(Next)

---------------------------------------------------------------------------
\* swap_util.c:198, "swapped memory copy from source to buffer accroding
\* to data type": the loop comes to an end, and then each item of the event,
\* header or data, however deep, is in the buffer once, its own bytes swapped
\* with one another and with no other's, and nothing is behind the event.
EventSwapped ==
  <>(/\ pc = "done"
     /\ buffer = [k \in 0 .. Len(source) - 1 |->
                    LET unit == source[k + 1].unit
                    IN [unit |-> unit, from |-> IF unit = 4 THEN k - (k % 2) ELSE k]])

=============================================================================
