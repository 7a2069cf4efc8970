------------------------------ MODULE DecodeMap -------------------------------
(***************************************************************************)
(* The map file as g_decode_config reads it: where in a crate (ROC) and in *)
(* a module (slot) the channels (subaddresses) of a detector are.  A line  *)
(* sets the crate, the slot, the detector, the number of channels of a     *)
(* module or the place of the channel in its words, for all lines that     *)
(* follow, or gives one channel.  The map is one array, in which each slot *)
(* has as many places as its module has channels; the planes are those     *)
(* that matter to the decoding.                                            *)
(***************************************************************************)
EXTENDS Integers, Sequences

CONSTANTS
  MapFile,      \* the lines: [key |-> "roc" ... "bsub", value |-> ...] or
                \* [key |-> "channel", sub |-> ..., plane |-> ...]
  MaxRocs,      \* G_DECODE_MAXROCS, 15 in the code
  MaxSlots,     \* G_DECODE_MAXSLOTS, 29
  MaxMap        \* G_DECODE_MAXWORDS, 8000

Keys == {"roc", "slot", "det", "nsub", "bsub"}

Lines == [key : Keys, value : Nat] \union [key : {"channel"}, sub : Nat, plane : Nat]

ASSUME DecodeMapAssumption ==
  {MaxRocs, MaxSlots, MaxMap} \subseteq Nat /\ MapFile \in Seq(Lines)

Slots == (0 .. MaxRocs) \X (1 .. MaxSlots)

\* Uninstrumented channels.
UNINST_ID == -1

\* What g_decode_clear leaves, with the values g_decode_config starts from.
ClearMap ==
  [roc |-> -1, slot |-> -1, det |-> UNINST_ID, nsub |-> 0, bsub |-> 17, next |-> 1,
   slotpointer |-> [rs \in Slots |-> -1],
   subaddbit |-> [rs \in Slots |-> 0],
   didmap |-> [i \in 1 .. MaxMap |-> UNINST_ID],
   planemap |-> [i \in 1 .. MaxMap |-> -1]]

\* A slot gets its places with the first channel given for it.
WithSlot(m) ==
  LET rs == <<m.roc, m.slot>> IN
  IF m.slotpointer[rs] >= 0 THEN m
  ELSE [m EXCEPT !.slotpointer[rs] = m.next, !.subaddbit[rs] = m.bsub, !.next = @ + m.nsub]

\* (OneSlotBehind: a mutant, the places are not counted on.)
OneSlotBehind(m, line) ==
  LET rs == <<m.roc, m.slot>>
      made == IF m.slotpointer[rs] >= 0 THEN m
              ELSE [m EXCEPT !.slotpointer[rs] = m.next, !.subaddbit[rs] = m.bsub]
      place == made.slotpointer[rs] + line.sub
  IN  [made EXCEPT !.didmap[place] = m.det, !.planemap[place] = line.plane]

Channel(m, line) ==
  LET made == WithSlot(m)
      place == made.slotpointer[<<m.roc, m.slot>>] + line.sub
  IN  [made EXCEPT !.didmap[place] = m.det, !.planemap[place] = line.plane]

ReadLine(m, line) ==
  CASE line.key = "roc" -> [m EXCEPT !.roc = line.value]
    [] line.key = "slot" -> [m EXCEPT !.slot = line.value]
    [] line.key = "det" -> [m EXCEPT !.det = line.value]
    [] line.key = "nsub" -> [m EXCEPT !.nsub = line.value]
    [] line.key = "bsub" -> [m EXCEPT !.bsub = line.value]
    [] OTHER -> Channel(m, line)

DecodeConfig ==
  LET read[n \in 0 .. Len(MapFile)] ==
        IF n = 0 THEN ClearMap ELSE ReadLine(read[n - 1], MapFile[n])
  IN  read[Len(MapFile)]

\* A place of the map arrays.  (Those outside belong to other arrays; no channel
\* of the file is there.)
PlaceOf(m, roc, slot, sub) == m.slotpointer[<<roc, slot>>] + sub

DidAt(m, roc, slot, sub) ==
  IF m.slotpointer[<<roc, slot>>] > 0 /\ PlaceOf(m, roc, slot, sub) \in 1 .. MaxMap
  THEN m.didmap[PlaceOf(m, roc, slot, sub)] ELSE UNINST_ID

PlaneAt(m, roc, slot, sub) == m.planemap[PlaceOf(m, roc, slot, sub)]

-----------------------------------------------------------------------------
(* What the map file says, line by line: the setting in force at line k.   *)

InForce(key, k) ==
  LET earlier == {j \in 1 .. (k - 1) : MapFile[j].key = key} IN
  IF earlier = {} THEN UNINST_ID
  ELSE MapFile[CHOOSE j \in earlier : \A i \in earlier : i <= j].value

LinesFor(roc, slot, sub) ==
  {k \in DOMAIN MapFile : /\ MapFile[k].key = "channel" /\ MapFile[k].sub = sub
                          /\ InForce("roc", k) = roc /\ InForce("slot", k) = slot}

ChannelLines == {k \in DOMAIN MapFile : MapFile[k].key = "channel"}

SlotOf(k) == <<InForce("roc", k), InForce("slot", k)>>

ChannelsAt(k) == InForce("nsub", k)

\* A map file the arrays have room for: its channels are of crates and slots
\* there are, below the number of channels of the slot, which all lines of the
\* slot agree on, and none is given twice.
MapFits ==
  /\ \A k \in ChannelLines : SlotOf(k) \in Slots /\ MapFile[k].sub < ChannelsAt(k)
  /\ \A j, k \in ChannelLines :
       SlotOf(j) = SlotOf(k) => /\ ChannelsAt(j) = ChannelsAt(k)
                                /\ j # k => MapFile[j].sub # MapFile[k].sub
  /\ DecodeConfig.next <= MaxMap + 1

\* A map is what the file says: a channel of a line has the line's detector
\* and plane, another channel of a slot none, whatever slots were given their
\* places in the arrays between the lines (g_decode_config.f).
MapAsWritten(m) ==
  /\ \A k \in ChannelLines :
       /\ DidAt(m, SlotOf(k)[1], SlotOf(k)[2], MapFile[k].sub) = InForce("det", k)
       /\ PlaneAt(m, SlotOf(k)[1], SlotOf(k)[2], MapFile[k].sub) = MapFile[k].plane
  /\ \A rs \in Slots, sub \in 0 .. MaxMap :
       /\ LinesFor(rs[1], rs[2], sub) = {}
       /\ \A k \in ChannelLines : SlotOf(k) = rs => sub < ChannelsAt(k)
       => DidAt(m, rs[1], rs[2], sub) = UNINST_ID
=============================================================================
