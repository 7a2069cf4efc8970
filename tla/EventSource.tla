----------------------------- MODULE EventSource -----------------------------
(***************************************************************************)
(* The data source of the replay: G_open_source opens one CODA file, or    *)
(* the first of a run's numbered segments; G_get_next_event reads the next *)
(* event, and when a read of a segment fails closes it and moves on to the *)
(* next one.  evopen and evread are seen here through their status only;   *)
(* EvBlockFile models what they do with blocks.                            *)
(***************************************************************************)
EXTENDS Integers, Sequences

CONSTANTS
  Events,       \* what evread can deliver
  Bad,          \* a record for which evread returns a non-zero status
  NoFile,       \* a file that evopen cannot open
  NoEvent,      \* the zeroed event buffer
  MaxSegments,  \* segments a run may have: 100 in the code
  NameEnd,      \* last character of the file name after g_sub_run_number
  Disks         \* what the files may hold

NameEnds == {"letter", "digit0", "digit1to8", "digit9"}

FileNumbers == -1 .. (MaxSegments - 1)

AllDisks == [FileNumbers -> Seq(Events \union {Bad}) \union {NoFile}]

ASSUME SourceAssumption ==
  /\ Bad \notin Events
  /\ MaxSegments \in Nat \ {0}
  /\ NameEnd \in NameEnds
  /\ Disks \subseteq AllDisks

VARIABLES
  files,                 \* -1: the file itself, n >= 0: its segment .n
  g_data_source_opened,
  g_segment,             \* -1: not segmented
  pos,                   \* records read from the open file
  craw                   \* the event buffer: the last event read

sourceVars == <<files, g_data_source_opened, g_segment, pos, craw>>

SourceTypeOK ==
  /\ files \in AllDisks
  /\ g_data_source_opened \in BOOLEAN
  /\ g_segment \in -1 .. MaxSegments
  /\ pos \in Nat
  /\ craw \in Events \union {NoEvent}

-----------------------------------------------------------------------------

Exists(n) == n \in FileNumbers /\ files[n] # NoFile

\* evread returns 0: neither the end of file n nor a damaged record is next.
Readable(n, p) == p < Len(files[n]) /\ files[n][p + 1] \in Events

\* The test of the name's last character, as the code spells it:
\* .le. '0' or .ge. '9'.
TriesSegments == NameEnd # "digit1to8"

G_open_source(abort) ==
  /\ pos' = 0
  /\ UNCHANGED <<files, craw>>
  /\ g_segment' = IF Exists(-1) THEN -1 ELSE IF TriesSegments THEN 0 ELSE g_segment
  /\ g_data_source_opened' = (Exists(-1) \/ (TriesSegments /\ Exists(0)))
  /\ abort = ~g_data_source_opened'

-----------------------------------------------------------------------------

ReadFrom(n, p) ==
  /\ g_data_source_opened' = TRUE
  /\ g_segment' = n
  /\ pos' = p + 1
  /\ craw' = files[n][p + 1]
  /\ UNCHANGED files

ReadCurrent ==
  /\ g_data_source_opened
  /\ Readable(g_segment, pos)
  /\ ReadFrom(g_segment, pos)

\* A failed read of a segment, whatever the reason, closes it.
SegmentEnds ==
  /\ g_data_source_opened
  /\ ~Readable(g_segment, pos)
  /\ g_segment >= 0

\* (ReadNextSegmentBeyond: a mutant, the segment number is advanced twice.)
ReadNextSegmentBeyond ==
  /\ SegmentEnds
  /\ Exists(g_segment + 2)
  /\ Readable(g_segment + 2, 0)
  /\ ReadFrom(g_segment + 2, 0)

ReadNextSegment ==
  /\ SegmentEnds
  /\ Exists(g_segment + 1)
  /\ Readable(g_segment + 1, 0)
  /\ ReadFrom(g_segment + 1, 0)

\* The next segment opens, but its first read fails too: it stays open.
NextSegmentUnreadable ==
  /\ SegmentEnds
  /\ Exists(g_segment + 1)
  /\ ~Readable(g_segment + 1, 0)
  /\ g_segment' = g_segment + 1
  /\ pos' = 0
  /\ UNCHANGED <<files, g_data_source_opened, craw>>

\* No such file, or the name would need a third digit.
NoNextSegment ==
  /\ SegmentEnds
  /\ ~Exists(g_segment + 1)
  /\ g_segment' = g_segment + 1
  /\ g_data_source_opened' = FALSE
  /\ UNCHANGED <<files, pos, craw>>

NoSource == ~g_data_source_opened /\ UNCHANGED sourceVars

UnsegmentedError ==
  /\ g_data_source_opened
  /\ ~Readable(g_segment, pos)
  /\ g_segment = -1
  /\ UNCHANGED sourceVars

G_get_next_event(abort) ==
  \/ ~abort /\ (ReadCurrent \/ ReadNextSegment)
  \/ abort /\ (NoSource \/ UnsegmentedError \/ NextSegmentUnreadable \/ NoNextSegment)

-----------------------------------------------------------------------------

SourceInit ==
  /\ files \in Disks
  /\ g_data_source_opened = FALSE
  /\ g_segment = 0
  /\ pos = 0
  /\ craw = NoEvent
=============================================================================
