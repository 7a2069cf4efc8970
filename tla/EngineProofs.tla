----------------------------- MODULE EngineProofs ----------------------------
(***************************************************************************)
(* Engine keeps its invariants for every set of events, every content of   *)
(* the files and every setting of the run.  Inductive, in Engine, is what  *)
(* every step preserves; each invariant is one of its parts at the stages  *)
(* where it speaks.  At the end, by a refinement mapping, Engine is shown  *)
(* to implement EventStream (ReplayDeliversStream).                        *)
(***************************************************************************)
EXTENDS Engine, Recursion, SequenceTheorems

\* The groups of variables and the small sets are always expanded.
USE DEF loopVars, eventVars, recordVars, analysisVars, pedVars, rpcVars, skipVars,
        sourceVars, InTrigger, InEvent, MayGoOn, TriggerTypes, gen_MAX_trigger_types,
        Report, Stages, FileNumbers, Exists, KeptTypes, PedestalTypes, BeforeStart

\* G_write_event writes the event once or not at all (g_write_event.f).
LEMMA WriteCounts ==
  ASSUME NEW abort, G_write_event(abort), written \in Nat
  PROVE  written' \in {written, written + 1}
BY DEF G_write_event

\* A step of the source keeps its type and the open file, and delivers an
\* event unless it aborts (g_get_next_event.f).
LEMMA SourceSteps ==
  ASSUME NEW abort, G_get_next_event(abort), SourceTypeOK,
         g_data_source_opened => Exists(g_segment)
  PROVE  /\ SourceTypeOK'
         /\ g_data_source_opened' => Exists(g_segment)'
         /\ ~abort => craw' \in Events
<1>1. CASE ReadCurrent
  BY <1>1, SourceAssumption DEF ReadCurrent, ReadFrom, Readable, SourceTypeOK
<1>2. CASE ReadNextSegment
  BY <1>2, SourceAssumption DEF ReadNextSegment, SegmentEnds, ReadFrom, Readable, SourceTypeOK
<1>3. CASE abort /\ (NoSource \/ UnsegmentedError)
  BY <1>3 DEF NoSource, UnsegmentedError, SourceTypeOK
<1>4. CASE abort /\ NextSegmentUnreadable
  BY <1>4, SourceAssumption DEF NextSegmentUnreadable, SegmentEnds, SourceTypeOK
<1>5. CASE abort /\ NoNextSegment
  <2>1. g_segment \in FileNumbers /\ g_segment' = g_segment + 1
    BY <1>5 DEF NoNextSegment, SegmentEnds
  <2>2. g_data_source_opened' = FALSE /\ UNCHANGED <<files, pos, craw>>
    BY <1>5 DEF NoNextSegment
  <2>3. g_segment' \in -1 .. MaxSegments
    BY <2>1, SourceAssumption
  <2>4. QED
    BY <1>5, <2>2, <2>3 DEF SourceTypeOK
<1>6. QED
  BY <1>1, <1>2, <1>3, <1>4, <1>5 DEF G_get_next_event

\* Every step of the loop preserves the inductive invariant.
LEMMA InductiveStep == Inductive /\ [Next]_vars => Inductive'
<1> SUFFICES ASSUME Inductive, [Next]_vars
             PROVE  Inductive'
  OBVIOUS
<1>1. ASSUME OpenSource  PROVE Inductive'
  <2>1. TypeOK'
    BY <1>1, EngineAssumption, SourceAssumption DEF OpenSource, G_open_source, Inductive,
           TypeOK, SourceTypeOK, StageInv
  <2>2. StageInv'
    BY <1>1 DEF OpenSource, G_open_source, Inductive, TypeOK, SourceTypeOK, StageInv
  <2>3. WriteInv'
    BY <1>1 DEF OpenSource, G_open_source, Inductive, TypeOK, SourceTypeOK, WriteInv
  <2>4. CountInv'
    BY <1>1 DEF OpenSource, G_open_source, Inductive, TypeOK, SourceTypeOK, CountInv
  <2>5. KeepInv'
    BY <1>1 DEF OpenSource, G_open_source, Inductive, TypeOK, SourceTypeOK, KeepInv
  <2>6. PedestalInv'
    BY <1>1 DEF OpenSource, G_open_source, Inductive, TypeOK, SourceTypeOK, PedestalInv
  <2>7. StartInv'
    BY <1>1 DEF OpenSource, G_open_source, Inductive, TypeOK, SourceTypeOK, StartInv,
           StartHonoured
  <2>8. StopInv'
    BY <1>1 DEF OpenSource, G_open_source, Inductive, TypeOK, SourceTypeOK, StopInv
  <2>9. QED  BY <2>1, <2>2, <2>3, <2>4, <2>5, <2>6, <2>7, <2>8 DEF Inductive
<1>2. ASSUME ClearEvent  PROVE Inductive'
  <2>1. TypeOK'
    BY <1>2, EngineAssumption DEF ClearEvent, Inductive, TypeOK, SourceTypeOK
  <2>2. StageInv'
    BY <1>2 DEF ClearEvent, Inductive, TypeOK, SourceTypeOK, StageInv
  <2>3. WriteInv'
    BY <1>2 DEF ClearEvent, Inductive, TypeOK, SourceTypeOK, WriteInv
  <2>4. CountInv'
    BY <1>2 DEF ClearEvent, Inductive, TypeOK, SourceTypeOK, CountInv
  <2>5. KeepInv'
    BY <1>2 DEF ClearEvent, Inductive, TypeOK, SourceTypeOK, KeepInv
  <2>6. PedestalInv'
    BY <1>2 DEF ClearEvent, Inductive, TypeOK, SourceTypeOK, PedestalInv
  <2>7. StartInv'
    BY <1>2 DEF ClearEvent, Inductive, TypeOK, SourceTypeOK, StartInv, StartHonoured
  <2>8. StopInv'
    BY <1>2 DEF ClearEvent, Inductive, TypeOK, SourceTypeOK, StopInv
  <2>9. QED  BY <2>1, <2>2, <2>3, <2>4, <2>5, <2>6, <2>7, <2>8 DEF Inductive
<1>3. ASSUME GetEvent  PROVE Inductive'
  <2>1. TypeOK'
    <3>1. PICK abort \in BOOLEAN :
             /\ G_get_next_event(abort)
             /\ ABORT' = abort
             /\ problems' = (problems \/ abort)
             /\ failed' = (failed \/ abort)
             /\ total_event_count' \in {total_event_count, total_event_count + 1}
             /\ pc' \in {"tail", "dispatch"}
      BY <1>3, Zenon DEF GetEvent
    <3>2. SourceTypeOK'
      BY <3>1, SourceSteps DEF Inductive, TypeOK, StageInv
    <3>3. problems' \in BOOLEAN /\ failed' \in BOOLEAN
      BY <3>1, Zenon DEF Inductive, TypeOK
    <3>4. QED
      BY <1>3, <3>1, <3>2, <3>3 DEF GetEvent, Inductive, TypeOK
  <2>2. StageInv'
    <3>1. PICK abort \in BOOLEAN :
             /\ G_get_next_event(abort)
             /\ problems' = (problems \/ abort)
             /\ pc' = IF abort THEN "tail" ELSE "dispatch"
      BY <1>3, Zenon DEF GetEvent
    <3>2. /\ g_data_source_opened' => Exists(g_segment)'
          /\ ~abort => craw' \in Events
      BY <3>1, SourceSteps DEF Inductive, TypeOK, StageInv
    <3>3. ~problems
      BY <1>3 DEF GetEvent, Inductive, StageInv
    <3>4. CASE abort
      BY <3>1, <3>2, <3>4 DEF StageInv
    <3>5. CASE ~abort
      BY <3>1, <3>2, <3>3, <3>5 DEF StageInv
    <3>6. QED
      BY <3>4, <3>5
  <2>3. WriteInv'
    BY <1>3 DEF GetEvent, G_get_next_event, ReadCurrent, ReadNextSegment, ReadFrom, SegmentEnds,
         NextSegmentUnreadable, NoNextSegment, NoSource, UnsegmentedError, Inductive, TypeOK, SourceTypeOK, WriteInv
  <2>4. CountInv'
    BY <1>3 DEF GetEvent, G_get_next_event, ReadCurrent, ReadNextSegment, ReadFrom, SegmentEnds,
         NextSegmentUnreadable, NoNextSegment, NoSource, UnsegmentedError, Inductive, TypeOK, SourceTypeOK, CountInv
  <2>5. KeepInv'
    BY <1>3 DEF GetEvent, G_get_next_event, ReadCurrent, ReadNextSegment, ReadFrom, SegmentEnds,
         NextSegmentUnreadable, NoNextSegment, NoSource, UnsegmentedError, Inductive, TypeOK, SourceTypeOK, KeepInv
  <2>6. PedestalInv'
    BY <1>3 DEF GetEvent, G_get_next_event, ReadCurrent, ReadNextSegment, ReadFrom, SegmentEnds,
         NextSegmentUnreadable, NoNextSegment, NoSource, UnsegmentedError, Inductive, TypeOK, SourceTypeOK, PedestalInv
  <2>7. StartInv'
    BY <1>3 DEF GetEvent, G_get_next_event, ReadCurrent, ReadNextSegment, ReadFrom, SegmentEnds,
         NextSegmentUnreadable, NoNextSegment, NoSource, UnsegmentedError, Inductive, TypeOK, SourceTypeOK, StartInv, StartHonoured
  <2>8. StopInv'
    BY <1>3 DEF GetEvent, G_get_next_event, ReadCurrent, ReadNextSegment, ReadFrom, SegmentEnds,
         NextSegmentUnreadable, NoNextSegment, NoSource, UnsegmentedError, Inductive, TypeOK, SourceTypeOK, StopInv
  <2>9. QED  BY <2>1, <2>2, <2>3, <2>4, <2>5, <2>6, <2>7, <2>8 DEF Inductive
<1>4. ASSUME Dispatch  PROVE Inductive'
  <2>1. TypeOK'
    <3>1. written' \in Nat /\ ABORT' \in BOOLEAN /\ failed' \in BOOLEAN
      BY <1>4, WriteCounts DEF Dispatch, Inductive, TypeOK
    <3>2. QED
      BY <1>4, <3>1, EngineAssumption DEF Dispatch, Copies, CountRecorded, Destination,
             Inductive, TypeOK, SourceTypeOK, StageInv
  <2>2. StageInv'
    BY <1>4 DEF Dispatch, CountRecorded, Destination, Copies, G_write_event, Inductive,
           TypeOK, SourceTypeOK, StageInv
  <2>3. WriteInv'
    <3>1. written' = written \/ (Copies(craw.type) /\ written' = written + 1)
      <4>1. CASE Copies(craw.type)
        <5>1. \E abort \in BOOLEAN : G_write_event(abort)
          BY <1>4, <4>1, Zenon DEF Dispatch
        <5>2. QED
          BY <4>1, <5>1, WriteCounts DEF Inductive, TypeOK
      <4>2. CASE ~Copies(craw.type)
        BY <1>4, <4>2, Zenon DEF Dispatch
      <4>3. QED
        BY <4>1, <4>2
    <3>2. written = 0 /\ craw \in Events
      BY <1>4 DEF Dispatch, Inductive, WriteInv, StageInv
    <3>3. gen_event_type' = craw.type /\ pc' = Destination(craw)
      BY <1>4 DEF Dispatch
    <3>4. QED
      BY <3>1, <3>2, <3>3, EngineAssumption DEF Copies, Destination, WriteInv
  <2>4. CountInv'
    BY <1>4, EngineAssumption DEF Dispatch, CountRecorded, Destination, Copies,
           G_write_event, Inductive, TypeOK, SourceTypeOK, CountInv, StageInv
  <2>5. KeepInv'
    BY <1>4 DEF Dispatch, CountRecorded, Destination, Copies, G_write_event, Inductive,
           TypeOK, SourceTypeOK, KeepInv
  <2>6. PedestalInv'
    BY <1>4 DEF Dispatch, CountRecorded, Destination, Copies, G_write_event, Inductive,
           TypeOK, SourceTypeOK, PedestalInv
  <2>7. StartInv'
    BY <1>4 DEF Dispatch, CountRecorded, Destination, Copies, G_write_event, Inductive,
           TypeOK, SourceTypeOK, StartInv, StartHonoured
  <2>8. StopInv'
    BY <1>4 DEF Dispatch, CountRecorded, Destination, Copies, G_write_event, Inductive,
           TypeOK, SourceTypeOK, StopInv
  <2>9. QED  BY <2>1, <2>2, <2>3, <2>4, <2>5, <2>6, <2>7, <2>8 DEF Inductive
<1>5. ASSUME AnalyzeScalers  PROVE Inductive'
  <2>1. TypeOK'
    <3>1. ABORT' \in BOOLEAN /\ failed' \in BOOLEAN
      BY <1>5, Zenon DEF AnalyzeScalers, Inductive, TypeOK
    <3>2. written' \in Nat
      BY <1>5, WriteCounts DEF AnalyzeScalers, Inductive, TypeOK
    <3>3. QED
      BY <1>5, <3>1, <3>2 DEF AnalyzeScalers, Inductive, TypeOK, SourceTypeOK
  <2>2. StageInv'
    BY <1>5 DEF AnalyzeScalers, G_write_event, Inductive, TypeOK, SourceTypeOK, StageInv
  <2>3. WriteInv'
    <3>1. written' \in {written, written + 1}
      BY <1>5, WriteCounts DEF AnalyzeScalers, Inductive, TypeOK
    <3>2. QED
      BY <1>5, <3>1 DEF AnalyzeScalers, Inductive, TypeOK, WriteInv, StageInv
  <2>4. CountInv'
    BY <1>5 DEF AnalyzeScalers, G_write_event, Inductive, TypeOK, SourceTypeOK, CountInv
  <2>5. KeepInv'
    BY <1>5 DEF AnalyzeScalers, G_write_event, Inductive, TypeOK, SourceTypeOK, KeepInv
  <2>6. PedestalInv'
    BY <1>5 DEF AnalyzeScalers, G_write_event, Inductive, TypeOK, SourceTypeOK, PedestalInv
  <2>7. StartInv'
    BY <1>5 DEF AnalyzeScalers, G_write_event, Inductive, TypeOK, SourceTypeOK, StartInv,
           StartHonoured
  <2>8. StopInv'
    BY <1>5 DEF AnalyzeScalers, G_write_event, Inductive, TypeOK, SourceTypeOK, StopInv
  <2>9. QED  BY <2>1, <2>2, <2>3, <2>4, <2>5, <2>6, <2>7, <2>8 DEF Inductive
<1>6. ASSUME DumpHistograms  PROVE Inductive'
  <2>1. TypeOK'
    BY <1>6, EngineAssumption DEF DumpHistograms, Outcomes, Inductive, TypeOK, SourceTypeOK
  <2>2. StageInv'
    BY <1>6 DEF DumpHistograms, Outcomes, Inductive, TypeOK, SourceTypeOK, StageInv
  <2>3. WriteInv'
    BY <1>6 DEF DumpHistograms, Outcomes, Inductive, TypeOK, SourceTypeOK, WriteInv
  <2>4. CountInv'
    BY <1>6 DEF DumpHistograms, Outcomes, Inductive, TypeOK, SourceTypeOK, CountInv
  <2>5. KeepInv'
    BY <1>6 DEF DumpHistograms, Outcomes, Inductive, TypeOK, SourceTypeOK, KeepInv
  <2>6. PedestalInv'
    BY <1>6 DEF DumpHistograms, Outcomes, Inductive, TypeOK, SourceTypeOK, PedestalInv
  <2>7. StartInv'
    BY <1>6 DEF DumpHistograms, Outcomes, Inductive, TypeOK, SourceTypeOK, StartInv,
           StartHonoured
  <2>8. StopInv'
    BY <1>6 DEF DumpHistograms, Outcomes, Inductive, TypeOK, SourceTypeOK, StopInv
  <2>9. QED  BY <2>1, <2>2, <2>3, <2>4, <2>5, <2>6, <2>7, <2>8 DEF Inductive
<1>7. ASSUME ExamineControl  PROVE Inductive'
  <2>1. TypeOK'
    <3>1. ABORT' \in BOOLEAN /\ failed' \in BOOLEAN
      <4>1. CASE craw.type = 133
        BY <1>7, <4>1 DEF ExamineControl, Inductive, TypeOK
      <4>2. CASE craw.type # 133
        BY <1>7, <4>2, Zenon DEF ExamineControl, Inductive, TypeOK
      <4>3. QED
        BY <4>1, <4>2
    <3>2. gen_event_ID_number' \in {0, gen_event_ID_number}
      BY <1>7, Zenon DEF ExamineControl
    <3>3. QED
      BY <1>7, <3>1, <3>2 DEF ExamineControl, Inductive, TypeOK, SourceTypeOK
  <2>2. StageInv'
    BY <1>7 DEF ExamineControl, Inductive, TypeOK, SourceTypeOK, StageInv
  <2>3. WriteInv'
    BY <1>7 DEF ExamineControl, Inductive, TypeOK, SourceTypeOK, WriteInv
  <2>4. CountInv'
    BY <1>7 DEF ExamineControl, Inductive, TypeOK, SourceTypeOK, CountInv
  <2>5. KeepInv'
    BY <1>7 DEF ExamineControl, Inductive, TypeOK, SourceTypeOK, KeepInv
  <2>6. PedestalInv'
    BY <1>7 DEF ExamineControl, Inductive, TypeOK, SourceTypeOK, PedestalInv
  <2>7. StartInv'
    BY <1>7 DEF ExamineControl, Inductive, TypeOK, SourceTypeOK, StartInv, StartHonoured
  <2>8. StopInv'
    BY <1>7 DEF ExamineControl, Inductive, TypeOK, SourceTypeOK, StopInv
  <2>9. QED  BY <2>1, <2>2, <2>3, <2>4, <2>5, <2>6, <2>7, <2>8 DEF Inductive
<1>8. ASSUME ExaminePhysics  PROVE Inductive'
  <2>1. TypeOK'
    <3>1. gen_event_ID_number' \in Nat
      <4>1. craw.id \in Nat
        BY <1>8, EngineAssumption DEF ExaminePhysics, Inductive, StageInv
      <4>2. QED
        BY <1>8, <4>1 DEF ExaminePhysics, Inductive, TypeOK
    <3>2. num_events_skipped' \in Nat /\ skippedTypes' \subseteq Enabled
      BY <1>8 DEF ExaminePhysics, Inductive, TypeOK, StageInv
    <3>3. QED
      BY <1>8, <3>1, <3>2 DEF ExaminePhysics, Inductive, TypeOK, SourceTypeOK
  <2>2. StageInv'
    BY <1>8 DEF ExaminePhysics, Inductive, TypeOK, SourceTypeOK, StageInv
  <2>3. WriteInv'
    BY <1>8 DEF ExaminePhysics, Inductive, TypeOK, SourceTypeOK, WriteInv
  <2>4. CountInv'
    BY <1>8, EngineAssumption DEF ExaminePhysics, Inductive, TypeOK, SourceTypeOK, CountInv,
           StageInv
  <2>5. KeepInv'
    BY <1>8 DEF ExaminePhysics, Inductive, TypeOK, SourceTypeOK, KeepInv
  <2>6. PedestalInv'
    BY <1>8 DEF ExaminePhysics, Inductive, TypeOK, SourceTypeOK, PedestalInv
  <2>7. StartInv'
    BY <1>8, EngineAssumption DEF ExaminePhysics, Inductive, TypeOK, SourceTypeOK, StartInv,
           StartHonoured, StageInv
  <2>8. StopInv'
    BY <1>8 DEF ExaminePhysics, Inductive, TypeOK, SourceTypeOK, StopInv
  <2>9. QED  BY <2>1, <2>2, <2>3, <2>4, <2>5, <2>6, <2>7, <2>8 DEF Inductive
<1>9. ASSUME Decode  PROVE Inductive'
  <2>1. TypeOK'
    BY <1>9, EngineAssumption DEF Decode, DecodeAborts, Inductive, TypeOK, SourceTypeOK
  <2>2. StageInv'
    BY <1>9 DEF Decode, DecodeAborts, Inductive, TypeOK, SourceTypeOK, StageInv
  <2>3. WriteInv'
    BY <1>9 DEF Decode, DecodeAborts, Inductive, TypeOK, SourceTypeOK, WriteInv
  <2>4. CountInv'
    BY <1>9 DEF Decode, DecodeAborts, Inductive, TypeOK, SourceTypeOK, CountInv
  <2>5. KeepInv'
    BY <1>9 DEF Decode, DecodeAborts, Inductive, TypeOK, SourceTypeOK, KeepInv
  <2>6. PedestalInv'
    BY <1>9 DEF Decode, DecodeAborts, Inductive, TypeOK, SourceTypeOK, PedestalInv
  <2>7. StartInv'
    BY <1>9 DEF Decode, DecodeAborts, Inductive, TypeOK, SourceTypeOK, StartInv, StartHonoured
  <2>8. StopInv'
    BY <1>9 DEF Decode, DecodeAborts, Inductive, TypeOK, SourceTypeOK, StopInv
  <2>9. QED  BY <2>1, <2>2, <2>3, <2>4, <2>5, <2>6, <2>7, <2>8 DEF Inductive
<1>10. ASSUME Pedestals  PROVE Inductive'
  <2>1. TypeOK'
    <3>1. update_peds' \in BOOLEAN /\ newPeds' \in {newPeds, newPeds + 1, 0}
      BY <1>10, Zenon DEF Pedestals
    <3>2. QED
      BY <1>10, <3>1 DEF Pedestals, Inductive, TypeOK, SourceTypeOK
  <2>2. StageInv'
    BY <1>10 DEF Pedestals, Inductive, TypeOK, SourceTypeOK, StageInv
  <2>3. WriteInv'
    BY <1>10 DEF Pedestals, Inductive, TypeOK, SourceTypeOK, WriteInv
  <2>4. CountInv'
    BY <1>10 DEF Pedestals, Inductive, TypeOK, SourceTypeOK, CountInv
  <2>5. KeepInv'
    BY <1>10 DEF Pedestals, Inductive, TypeOK, SourceTypeOK, KeepInv
  <2>6. PedestalInv'
    BY <1>10 DEF Pedestals, Inductive, TypeOK, SourceTypeOK, PedestalInv
  <2>7. StartInv'
    BY <1>10 DEF Pedestals, Inductive, TypeOK, SourceTypeOK, StartInv, StartHonoured
  <2>8. StopInv'
    BY <1>10 DEF Pedestals, Inductive, TypeOK, SourceTypeOK, StopInv
  <2>9. QED  BY <2>1, <2>2, <2>3, <2>4, <2>5, <2>6, <2>7, <2>8 DEF Inductive
<1>11. ASSUME Arms  PROVE Inductive'
  <2>1. TypeOK'
    BY <1>11, EngineAssumption DEF Arms, Outcomes, Inductive, TypeOK, SourceTypeOK
  <2>2. StageInv'
    BY <1>11 DEF Arms, Outcomes, Inductive, TypeOK, SourceTypeOK, StageInv
  <2>3. WriteInv'
    BY <1>11 DEF Arms, Outcomes, Inductive, TypeOK, SourceTypeOK, WriteInv
  <2>4. CountInv'
    BY <1>11 DEF Arms, Outcomes, Inductive, TypeOK, SourceTypeOK, CountInv
  <2>5. KeepInv'
    BY <1>11 DEF Arms, Outcomes, Inductive, TypeOK, SourceTypeOK, KeepInv
  <2>6. PedestalInv'
    BY <1>11 DEF Arms, Outcomes, Inductive, TypeOK, SourceTypeOK, PedestalInv
  <2>7. StartInv'
    BY <1>11 DEF Arms, Outcomes, Inductive, TypeOK, SourceTypeOK, StartInv, StartHonoured
  <2>8. StopInv'
    BY <1>11 DEF Arms, Outcomes, Inductive, TypeOK, SourceTypeOK, StopInv
  <2>9. QED  BY <2>1, <2>2, <2>3, <2>4, <2>5, <2>6, <2>7, <2>8 DEF Inductive
<1>12. ASSUME Account  PROVE Inductive'
  <2>1. TypeOK'
    <3>1. analyzed_events' \in [TriggerTypes -> Nat]
      BY <1>12, EngineAssumption DEF Account, Inductive, TypeOK, StageInv
    <3>2. problems' \in BOOLEAN /\ idless' \in Nat
      BY <1>12 DEF Account, Inductive, TypeOK
    <3>3. QED
      BY <1>12, <3>1, <3>2 DEF Account, Inductive, TypeOK, SourceTypeOK
  <2>2. StageInv'
    BY <1>12 DEF Account, Inductive, TypeOK, SourceTypeOK, StageInv
  <2>3. WriteInv'
    BY <1>12 DEF Account, Inductive, TypeOK, SourceTypeOK, WriteInv
  <2>4. CountInv'
    BY <1>12, EngineAssumption DEF Account, Inductive, TypeOK, SourceTypeOK, CountInv, StageInv
  <2>5. KeepInv'
    BY <1>12 DEF Account, Inductive, TypeOK, SourceTypeOK, KeepInv
  <2>6. PedestalInv'
    BY <1>12 DEF Account, Inductive, TypeOK, SourceTypeOK, PedestalInv
  <2>7. StartInv'
    BY <1>12, EngineAssumption DEF Account, Inductive, TypeOK, SourceTypeOK, StartInv,
           StartHonoured, StageInv
  <2>8. StopInv'
    BY <1>12, EngineAssumption DEF Account, Inductive, TypeOK, SourceTypeOK, StopInv, StageInv
  <2>9. QED  BY <2>1, <2>2, <2>3, <2>4, <2>5, <2>6, <2>7, <2>8 DEF Inductive
<1>13. ASSUME KeepResults  PROVE Inductive'
  <2>1. TypeOK'
    <3>1. ABORT' \in BOOLEAN /\ problems' \in BOOLEAN /\ failed' \in BOOLEAN
      BY <1>13, Zenon DEF KeepResults, Outcomes, Inductive, TypeOK
    <3>2. kept' \in {kept, kept + 1}
      BY <1>13, Zenon DEF KeepResults
    <3>3. QED
      BY <1>13, <3>1, <3>2 DEF KeepResults, Inductive, TypeOK, SourceTypeOK
  <2>2. StageInv'
    BY <1>13 DEF KeepResults, Outcomes, Inductive, TypeOK, SourceTypeOK, StageInv
  <2>3. WriteInv'
    BY <1>13 DEF KeepResults, Outcomes, Inductive, TypeOK, SourceTypeOK, WriteInv
  <2>4. CountInv'
    BY <1>13 DEF KeepResults, Outcomes, Inductive, TypeOK, SourceTypeOK, CountInv
  <2>5. KeepInv'
    <3> SUFFICES ASSUME ~problems'
                 PROVE  kept' = analyzed_events[1]' + analyzed_events[2]' + analyzed_events[3]'
      BY <1>13, <2>1 DEF KeepResults, TypeOK, KeepInv
    <3>1. ~problems
      BY <1>13, Zenon DEF KeepResults
    <3>2. kept' = IF gen_event_type \in KeptTypes THEN kept + 1 ELSE kept
      BY <1>13, <3>1, Zenon DEF KeepResults
    <3>3. QED
      BY <1>13, <3>1, <3>2 DEF KeepResults, Inductive, TypeOK, KeepInv
  <2>6. PedestalInv'
    BY <1>13 DEF KeepResults, Outcomes, Inductive, TypeOK, SourceTypeOK, PedestalInv
  <2>7. StartInv'
    BY <1>13 DEF KeepResults, Outcomes, Inductive, TypeOK, SourceTypeOK, StartInv, StartHonoured
  <2>8. StopInv'
    BY <1>13 DEF KeepResults, Outcomes, Inductive, TypeOK, SourceTypeOK, StopInv
  <2>9. QED  BY <2>1, <2>2, <2>3, <2>4, <2>5, <2>6, <2>7, <2>8 DEF Inductive
<1>14. ASSUME Preprocess  PROVE Inductive'
  <2>1. TypeOK'
    <3>1. written' \in Nat /\ ABORT' \in BOOLEAN /\ failed' \in BOOLEAN
      BY <1>14, WriteCounts DEF Preprocess, Inductive, TypeOK
    <3>2. QED
      BY <1>14, <3>1, EngineAssumption DEF Preprocess, PreprocKeeps, Inductive, TypeOK,
             SourceTypeOK, StageInv
  <2>2. StageInv'
    BY <1>14 DEF Preprocess, G_write_event, PreprocKeeps, Inductive, TypeOK, SourceTypeOK,
           StageInv
  <2>3. WriteInv'
    <3>1. written' \in {written, written + 1}
      BY <1>14, WriteCounts DEF Preprocess, Inductive, TypeOK
    <3>2. QED
      BY <1>14, <3>1 DEF Preprocess, PreprocKeeps, Inductive, TypeOK, WriteInv, StageInv
  <2>4. CountInv'
    BY <1>14 DEF Preprocess, G_write_event, PreprocKeeps, Inductive, TypeOK, SourceTypeOK,
           CountInv
  <2>5. KeepInv'
    BY <1>14 DEF Preprocess, G_write_event, PreprocKeeps, Inductive, TypeOK, SourceTypeOK,
           KeepInv
  <2>6. PedestalInv'
    BY <1>14 DEF Preprocess, G_write_event, PreprocKeeps, Inductive, TypeOK, SourceTypeOK,
           PedestalInv
  <2>7. StartInv'
    BY <1>14 DEF Preprocess, G_write_event, PreprocKeeps, Inductive, TypeOK, SourceTypeOK,
           StartInv, StartHonoured
  <2>8. StopInv'
    BY <1>14 DEF Preprocess, G_write_event, PreprocKeeps, Inductive, TypeOK, SourceTypeOK,
           StopInv
  <2>9. QED  BY <2>1, <2>2, <2>3, <2>4, <2>5, <2>6, <2>7, <2>8 DEF Inductive
<1>15. ASSUME ServiceRPC  PROVE Inductive'
  <2>1. TypeOK'
    BY <1>15, EngineAssumption DEF ServiceRPC, CallbackResults, Inductive, TypeOK, SourceTypeOK
  <2>2. StageInv'
    BY <1>15 DEF ServiceRPC, CallbackResults, Inductive, TypeOK, SourceTypeOK, StageInv
  <2>3. WriteInv'
    BY <1>15 DEF ServiceRPC, CallbackResults, Inductive, TypeOK, SourceTypeOK, WriteInv
  <2>4. CountInv'
    BY <1>15 DEF ServiceRPC, CallbackResults, Inductive, TypeOK, SourceTypeOK, CountInv
  <2>5. KeepInv'
    BY <1>15 DEF ServiceRPC, CallbackResults, Inductive, TypeOK, SourceTypeOK, KeepInv
  <2>6. PedestalInv'
    BY <1>15 DEF ServiceRPC, CallbackResults, Inductive, TypeOK, SourceTypeOK, PedestalInv
  <2>7. StartInv'
    BY <1>15 DEF ServiceRPC, CallbackResults, Inductive, TypeOK, SourceTypeOK, StartInv,
           StartHonoured
  <2>8. StopInv'
    BY <1>15 DEF ServiceRPC, CallbackResults, Inductive, TypeOK, SourceTypeOK, StopInv
  <2>9. QED  BY <2>1, <2>2, <2>3, <2>4, <2>5, <2>6, <2>7, <2>8 DEF Inductive
<1>16. ASSUME EndIteration  PROVE Inductive'
  <2>1. TypeOK'
    BY <1>16, EngineAssumption DEF EndIteration, LimitReached, Inductive, TypeOK, SourceTypeOK
  <2>2. StageInv'
    BY <1>16 DEF EndIteration, LimitReached, Inductive, TypeOK, SourceTypeOK, StageInv
  <2>3. WriteInv'
    BY <1>16 DEF EndIteration, LimitReached, Inductive, TypeOK, SourceTypeOK, WriteInv
  <2>4. CountInv'
    BY <1>16 DEF EndIteration, LimitReached, Inductive, TypeOK, SourceTypeOK, CountInv
  <2>5. KeepInv'
    BY <1>16 DEF EndIteration, LimitReached, Inductive, TypeOK, SourceTypeOK, KeepInv
  <2>6. PedestalInv'
    BY <1>16 DEF EndIteration, LimitReached, Inductive, TypeOK, SourceTypeOK, PedestalInv
  <2>7. StartInv'
    BY <1>16 DEF EndIteration, LimitReached, Inductive, TypeOK, SourceTypeOK, StartInv,
           StartHonoured
  <2>8. StopInv'
    <3>1. LimitReached => eof'
      BY <1>16, Zenon DEF EndIteration
    <3>2. /\ pc = "tail" /\ pc' = "clear"
          /\ UNCHANGED <<eventVars, analysisVars, idless>>
      BY <1>16 DEF EndIteration
    <3>3. QED
      BY <3>1, <3>2, EngineAssumption DEF LimitReached, Inductive, TypeOK, StopInv
  <2>9. QED  BY <2>1, <2>2, <2>3, <2>4, <2>5, <2>6, <2>7, <2>8 DEF Inductive
<1>17. ASSUME LeaveLoop  PROVE Inductive'
  <2>1. TypeOK'
    BY <1>17, EngineAssumption DEF LeaveLoop, Inductive, TypeOK, SourceTypeOK
  <2>2. StageInv'
    BY <1>17 DEF LeaveLoop, Inductive, TypeOK, SourceTypeOK, StageInv
  <2>3. WriteInv'
    BY <1>17 DEF LeaveLoop, Inductive, TypeOK, SourceTypeOK, WriteInv
  <2>4. CountInv'
    BY <1>17 DEF LeaveLoop, Inductive, TypeOK, SourceTypeOK, CountInv
  <2>5. KeepInv'
    BY <1>17 DEF LeaveLoop, Inductive, TypeOK, SourceTypeOK, KeepInv
  <2>6. PedestalInv'
    BY <1>17 DEF LeaveLoop, Inductive, TypeOK, SourceTypeOK, PedestalInv
  <2>7. StartInv'
    BY <1>17 DEF LeaveLoop, Inductive, TypeOK, SourceTypeOK, StartInv, StartHonoured
  <2>8. StopInv'
    BY <1>17 DEF LeaveLoop, Inductive, TypeOK, SourceTypeOK, StopInv
  <2>9. QED  BY <2>1, <2>2, <2>3, <2>4, <2>5, <2>6, <2>7, <2>8 DEF Inductive
<1>18. ASSUME Shutdown  PROVE Inductive'
  <2>1. TypeOK'
    BY <1>18, EngineAssumption DEF Shutdown, Outcomes, Inductive, TypeOK, SourceTypeOK
  <2>2. StageInv'
    BY <1>18 DEF Shutdown, Outcomes, Inductive, TypeOK, SourceTypeOK, StageInv
  <2>3. WriteInv'
    BY <1>18 DEF Shutdown, Outcomes, Inductive, TypeOK, SourceTypeOK, WriteInv
  <2>4. CountInv'
    BY <1>18 DEF Shutdown, Outcomes, Inductive, TypeOK, SourceTypeOK, CountInv
  <2>5. KeepInv'
    BY <1>18 DEF Shutdown, Outcomes, Inductive, TypeOK, SourceTypeOK, KeepInv
  <2>6. PedestalInv'
    BY <1>18 DEF Shutdown, Outcomes, Inductive, TypeOK, SourceTypeOK, PedestalInv
  <2>7. StartInv'
    BY <1>18 DEF Shutdown, Outcomes, Inductive, TypeOK, SourceTypeOK, StartInv, StartHonoured
  <2>8. StopInv'
    BY <1>18 DEF Shutdown, Outcomes, Inductive, TypeOK, SourceTypeOK, StopInv
  <2>9. QED  BY <2>1, <2>2, <2>3, <2>4, <2>5, <2>6, <2>7, <2>8 DEF Inductive
<1>19. ASSUME UNCHANGED vars  PROVE Inductive'
  BY <1>19 DEF vars, Inductive, TypeOK, SourceTypeOK, StageInv, WriteInv, CountInv,
               KeepInv, PedestalInv, StartInv, StartHonoured, StopInv
<1>20. QED
  BY <1>1, <1>2, <1>3, <1>4, <1>5, <1>6, <1>7, <1>8, <1>9, <1>10, <1>11, <1>12, <1>13,
     <1>14, <1>15, <1>16, <1>17, <1>18, <1>19 DEF Next, Finished

\* Before the source is opened nothing has been counted.
LEMMA InductiveInit == Init => Inductive
<1> SUFFICES ASSUME Init
             PROVE  Inductive
  OBVIOUS
<1>1. TypeOK
  <2>1. SourceTypeOK
    <3>1. files \in AllDisks
      BY SourceAssumption DEF Init, SourceInit
    <3>2. g_segment \in -1 .. MaxSegments
      BY SourceAssumption DEF Init, SourceInit
    <3>3. QED
      BY <3>1, <3>2 DEF Init, SourceInit, SourceTypeOK
  <2>2. rpc_control \in Int /\ skippedTypes \subseteq Enabled
    BY EngineAssumption DEF Init
  <2>3. /\ recorded_events \in [TriggerTypes -> Nat]
        /\ analyzed_events \in [TriggerTypes -> Nat]
    BY DEF Init
  <2>4. /\ gen_event_type \in Nat /\ gen_event_ID_number \in Nat
        /\ sum_recorded \in Nat /\ sum_analyzed \in Nat
        /\ physics_events \in Nat /\ total_event_count \in Nat
        /\ num_events_skipped \in Nat /\ lastdump \in Nat /\ rpc_pend \in 0 .. 1
        /\ newPeds \in Nat /\ idless \in Nat /\ kept \in Nat /\ written \in Nat
    BY DEF Init
  <2>5. /\ pc \in Stages /\ ABORT \in BOOLEAN /\ problems \in BOOLEAN /\ eof \in BOOLEAN
        /\ update_peds \in BOOLEAN /\ failed \in BOOLEAN
    BY DEF Init
  <2>6. QED
    BY <2>1, <2>2, <2>3, <2>4, <2>5 DEF TypeOK
<1>2. StageInv /\ WriteInv /\ CountInv /\ KeepInv /\ PedestalInv
  BY DEF Init, SourceInit, StageInv, WriteInv, CountInv, KeepInv, PedestalInv
<1>3. StartInv /\ StopInv
  BY EngineAssumption DEF Init, StartInv, StartHonoured, StopInv
<1>4. QED
  BY <1>1, <1>2, <1>3 DEF Inductive

\* The inductive invariant holds throughout a run of the engine.
THEOREM EngineInductive == Spec => []Inductive
<1>1. Init => Inductive
  BY InductiveInit
<1>2. Inductive /\ [Next]_vars => Inductive'
  BY InductiveStep
<1>3. QED
  BY <1>1, <1>2, PTL DEF Spec

\* The state of the loop is always of its type.
THEOREM EngineTypeOK == Spec => []TypeOK
<1>1. Inductive => TypeOK
  BY DEF Inductive
<1>2. QED
  BY <1>1, EngineInductive, PTL

\* Between iterations every recorded trigger of an enabled type was analyzed
\* or belongs to a type that had events skipped (engine.f, 330-334, 403-429).
THEOREM EveryTriggerAccountedFor == Spec => []Accounting
<1>1. Inductive => Accounting
  <2> SUFFICES ASSUME Inductive, pc = "clear"
               PROVE  Accounting
    BY DEF Accounting
  <2>1. ~InTrigger /\ pc # "scaler"
    OBVIOUS
  <2>2. analyzed_events \in [TriggerTypes -> Nat] /\ recorded_events \in [TriggerTypes -> Nat]
    BY DEF Inductive, TypeOK
  <2>3. QED
    BY <2>1, <2>2 DEF Inductive, CountInv, Accounting
<1>2. QED
  BY <1>1, EngineInductive, PTL

\* Exactly gen_run_starting_event - 1 events are skipped before an event
\* that is not a pedestal one is analyzed (engine.f, 403-406).
THEOREM StartingEventHonoured == Spec => []StartHonoured
<1>1. Inductive => StartHonoured
  BY DEF Inductive, StartInv
<1>2. QED
  BY <1>1, EngineInductive, PTL

\* The stopping event is exceeded by no more than the events analyzed
\* without an event ID (engine.f, 560-565).
THEOREM StoppingEventHonoured == Spec => []StopHonoured
<1>1. Inductive => StopHonoured
  BY DEF Inductive, StopInv, StopHonoured
<1>2. QED
  BY <1>1, EngineInductive, PTL

\* Results are kept for each HKS, HES and coincidence event that was
\* analyzed, once, as long as no call has failed (engine.f, 437-470).
THEOREM EveryResultKept == Spec => []ResultsKept
<1>1. Inductive => ResultsKept
  BY DEF Inductive, TypeOK, KeepInv, ResultsKept
<1>2. QED
  BY <1>1, EngineInductive, PTL

\* The three places that write to the preprocessor file exclude each other
\* (engine.f, 336-339, 364-366, 480-487).
THEOREM EventWrittenOnce == Spec => []WrittenOnce
<1>1. Inductive => WrittenOnce
  BY DEF Inductive, WriteInv, WrittenOnce
<1>2. QED
  BY <1>1, EngineInductive, PTL

\* Reconstruction never uses pedestals that lack pedestal events already
\* added up: they are recalculated first (g_reconstruction.f, 113-126).
THEOREM PedestalsRecalculated == Spec => []PedestalsCurrent
<1>1. Inductive => PedestalsCurrent
  BY DEF Inductive, TypeOK, PedestalInv, PedestalsCurrent
<1>2. QED
  BY <1>1, EngineInductive, PTL

\* Each flag that ends the loop is raised for its reason, whatever stage it
\* is in when it is.
LEMMA ReasonStep == TypeOK /\ ReasonInv /\ [Next]_vars => ReasonInv'
<1> SUFFICES ASSUME TypeOK, ReasonInv, [Next]_vars
             PROVE  ReasonInv'
  OBVIOUS
<1>0. sum_analyzed \in Nat /\ analyzed_events[4] \in Nat /\ StopEvent \in Nat
  BY EngineAssumption DEF TypeOK
<1>1. CASE OpenSource
  BY <1>1, Zenon DEF OpenSource, ReasonInv
<1>2. CASE ClearEvent
  <2>1. pc' = "get" /\ ~ problems /\ ABORT' = FALSE /\ problems' = problems /\ ~ eof /\ eof' = eof
    BY <1>2, Zenon DEF ClearEvent
  <2>2. ~ (ABORT' \/ problems') /\ ~ eof'
    BY <2>1, Zenon
  <2>3. pc' \notin {"clear", "shutdown", "done"}
    BY <2>1
  <2>4. QED
    BY <2>2, <2>3, Zenon DEF ReasonInv
<1>3. CASE GetEvent
  <2>1. PICK abort \in BOOLEAN :
          /\ ABORT' = abort
          /\ problems' = (problems \/ abort)
          /\ failed' = (failed \/ abort)
          /\ pc' = IF abort THEN "tail" ELSE "dispatch"
    BY <1>3, Zenon DEF GetEvent
  <2>2. ~ eof /\ eof' = eof /\ (problems => failed)
    BY <1>3, Zenon DEF GetEvent, ReasonInv
  <2>3. ABORT' \/ problems' => failed'
    BY <2>1, <2>2, Zenon
  <2>4. pc' \notin {"clear", "shutdown", "done"} /\ ~ eof'
    BY <2>1, <2>2
  <2>5. QED
    BY <2>3, <2>4, Zenon DEF ReasonInv
<1>4. CASE Dispatch
  <2>1. pc' \notin {"clear", "shutdown", "done"}
    BY <1>4 DEF Dispatch, Destination
  <2>2. QED
    BY <1>4, <2>1, Zenon DEF Dispatch, ReasonInv
<1>5. CASE AnalyzeScalers
  BY <1>5, Zenon DEF AnalyzeScalers, ReasonInv
<1>6. CASE DumpHistograms
  BY <1>6, Zenon DEF DumpHistograms, ReasonInv
<1>7. CASE ExamineControl
  BY <1>7, Zenon DEF ExamineControl, ReasonInv
<1>8. CASE ExaminePhysics
  <2>1. /\ pc = "examine" /\ pc' \in {"tail", "keep", "decode"}
        /\ ABORT' = FALSE /\ UNCHANGED <<problems, eof, failed>>
    BY <1>8, Zenon DEF ExaminePhysics
  <2>2. ~ eof /\ (problems => failed)
    BY <2>1, Zenon DEF ReasonInv
  <2>3. ~ eof' /\ (ABORT' \/ problems' => failed')
    BY <2>1, <2>2, Zenon
  <2>4. pc' \notin {"clear", "shutdown", "done"}
    BY <2>1
  <2>5. QED
    BY <2>3, <2>4, Zenon DEF ReasonInv
<1>9. CASE Decode
  <2>1. PICK abort \in DecodeAborts :
          /\ ABORT' = abort
          /\ failed' = (failed \/ abort)
          /\ pc' = IF abort THEN "account" ELSE "pedestal"
    BY <1>9, Zenon DEF Decode
  <2>2. ~ eof /\ UNCHANGED <<eof, problems>> /\ (problems => failed)
    BY <1>9, Zenon DEF Decode, ReasonInv
  <2>3. ABORT' \/ problems' => failed'
    BY <2>1, <2>2, Zenon
  <2>4. pc' \notin {"clear", "shutdown", "done"} /\ ~ eof'
    BY <2>1, <2>2
  <2>5. QED
    BY <2>3, <2>4, Zenon DEF ReasonInv
<1>10. CASE Pedestals
  BY <1>10, Zenon DEF Pedestals, ReasonInv
<1>11. CASE Arms
  BY <1>11, Zenon DEF Arms, ReasonInv
<1>12. CASE Account
  BY <1>12, Zenon DEF Account, ReasonInv
<1>13. CASE KeepResults
  BY <1>13, Zenon DEF KeepResults, ReasonInv
<1>14. CASE Preprocess
  BY <1>14, Zenon DEF Preprocess, ReasonInv
<1>15. CASE ServiceRPC
  BY <1>15, Zenon DEF ServiceRPC, ReasonInv
<1>16. CASE EndIteration
  <2>1. LimitReached => StopEvent > 0 /\ sum_analyzed - analyzed_events[4] >= StopEvent
    BY <1>0 DEF LimitReached
  <2>2. QED
    BY <1>16, <2>1, Zenon DEF EndIteration, ReasonInv
<1>17. CASE LeaveLoop
  BY <1>17, Zenon DEF LeaveLoop, ReasonInv
<1>18. CASE Shutdown
  BY <1>18, Zenon DEF Shutdown, ReasonInv
<1>19. CASE UNCHANGED vars
  BY <1>19, Zenon DEF vars, ReasonInv
<1>20. QED
  BY <1>1, <1>2, <1>3, <1>4, <1>5, <1>6, <1>7, <1>8, <1>9, <1>10, <1>11, <1>12, <1>13,
     <1>14, <1>15, <1>16, <1>17, <1>18, <1>19, Zenon DEF Next, Finished

\* The loop is left only for an END event, at the stopping event or after a
\* call that failed (engine.f, 299 and 560-565).
THEOREM RunLeftForAReason == Spec => []LeftForAReason
<1>1. Init => ReasonInv
  BY DEF Init, ReasonInv
<1>2. TypeOK /\ ReasonInv /\ [Next]_vars => ReasonInv'
  BY ReasonStep
<1>3. ReasonInv => LeftForAReason
  BY DEF ReasonInv, LeftForAReason
<1>4. QED
  BY <1>1, <1>2, <1>3, EngineTypeOK, PTL DEF Spec

-----------------------------------------------------------------------------
(* The stream of events.                                                  *)

\* q is the end of what can be read of s after its first p records.
LastReadable(s, p, q) ==
  /\ q \in p .. Len(s)
  /\ \A i \in p + 1 .. q : s[i] \in Events
  /\ ~(q < Len(s) /\ s[q + 1] \in Events)

\* What can be read of a file after its first p records ends somewhere.
LEMMA LastReadableExists ==
  ASSUME NEW s \in Seq(Events \union {Bad}), NEW p \in 0 .. Len(s)
  PROVE  \E q : LastReadable(s, p, q)
<1> DEFINE T == {q \in Nat : p <= q /\ ~(q < Len(s) /\ s[q + 1] \in Events)}
<1>1. Len(s) \in T
  OBVIOUS
<1>2. PICK q \in T : \A m \in T : q <= m
  <2>1. T \in SUBSET Nat /\ T # {}
    BY <1>1
  <2> HIDE DEF T
  <2>2. QED
    BY <2>1, LeastElement
<1>3. q <= Len(s)
  BY <1>1, <1>2
<1>4. ASSUME NEW i \in p + 1 .. q  PROVE s[i] \in Events
  <2>1. i - 1 \in Nat /\ i - 1 \notin T /\ p <= i - 1
    BY <1>2
  <2>2. QED
    BY <2>1
<1>5. QED
  BY <1>2, <1>3, <1>4 DEF LastReadable

\* It ends at one place only.
LEMMA LastReadableUnique ==
  ASSUME NEW s \in Seq(Events \union {Bad}), NEW p \in 0 .. Len(s), NEW q, NEW r,
         LastReadable(s, p, q), LastReadable(s, p, r)
  PROVE  q = r
<1>1. q \in Nat /\ r \in Nat /\ Len(s) \in Nat
  BY DEF LastReadable
<1>2. ~(q < r)
  <2>1. SUFFICES ASSUME q < r  PROVE FALSE
    OBVIOUS
  <2>2. q + 1 \in p + 1 .. r /\ q < Len(s)
    BY <1>1, <2>1 DEF LastReadable
  <2>3. QED
    BY <2>2 DEF LastReadable
<1>3. ~(r < q)
  <2>1. SUFFICES ASSUME r < q  PROVE FALSE
    OBVIOUS
  <2>2. r + 1 \in p + 1 .. q /\ r < Len(s)
    BY <1>1, <2>1 DEF LastReadable
  <2>3. QED
    BY <2>2 DEF LastReadable
<1>4. QED
  BY <1>1, <1>2, <1>3

\* ReadableFrom ends there.
LEMMA ReadableFromIs ==
  ASSUME NEW s \in Seq(Events \union {Bad}), NEW p \in 0 .. Len(s),
         NEW q, LastReadable(s, p, q)
  PROVE  ReadableFrom(s, p) = SubSeq(s, p + 1, q)
<1> DEFINE P(r) == /\ \A i \in p + 1 .. r : s[i] \in Events
                   /\ ~(r < Len(s) /\ s[r + 1] \in Events)
           c == CHOOSE r \in p .. Len(s) : P(r)
<1>1. q \in p .. Len(s) /\ P(q)
  BY DEF LastReadable
<1>2. c \in p .. Len(s) /\ P(c)
  <2> HIDE DEF P
  <2>1. QED
    BY <1>1
<1>3. ReadableFrom(s, p) = SubSeq(s, p + 1, c)
  BY DEF ReadableFrom
<1> HIDE DEF c
<1>4. LastReadable(s, p, c)
  BY <1>2 DEF LastReadable
<1>5. c = q
  BY <1>4, LastReadableUnique
<1>6. QED
  BY <1>3, <1>5

\* What can be read is the next event and what can be read after it, or
\* nothing.
LEMMA ReadableFromSteps ==
  ASSUME NEW s \in Seq(Events \union {Bad}), NEW p \in 0 .. Len(s)
  PROVE  LET more == p < Len(s) /\ s[p + 1] \in Events
         IN  /\ ReadableFrom(s, p) \in Seq(Events)
             /\ ~more => ReadableFrom(s, p) = <<>>
             /\ more => /\ p + 1 \in 0 .. Len(s)
                        /\ ReadableFrom(s, p) = <<s[p + 1]>> \o ReadableFrom(s, p + 1)
<1> DEFINE more == p < Len(s) /\ s[p + 1] \in Events
<1>1. PICK q : LastReadable(s, p, q)
  BY LastReadableExists
<1>2. ReadableFrom(s, p) = SubSeq(s, p + 1, q)
  BY <1>1, ReadableFromIs
<1>3. Len(s) \in Nat /\ q \in p .. Len(s) /\ \A i \in p + 1 .. q : s[i] \in Events
  BY <1>1 DEF LastReadable
<1>4. ReadableFrom(s, p) \in Seq(Events)
  BY <1>2, <1>3, SubSeqProperties
<1>5. ASSUME ~more  PROVE ReadableFrom(s, p) = <<>>
  <2>1. LastReadable(s, p, p)
    BY <1>3, <1>5 DEF LastReadable
  <2>2. ReadableFrom(s, p) = SubSeq(s, p + 1, p)
    BY <2>1, ReadableFromIs
  <2>3. QED
    BY <2>2
<1>6. ASSUME more
      PROVE  /\ p + 1 \in 0 .. Len(s)
             /\ ReadableFrom(s, p) = <<s[p + 1]>> \o ReadableFrom(s, p + 1)
  <2>1. p + 1 \in 0 .. Len(s) /\ p + 1 \in 1 .. Len(s)
    BY <1>3, <1>6
  <2>2. q # p
    BY <1>1, <1>6 DEF LastReadable
  <2>3. LastReadable(s, p + 1, q)
    BY <1>1, <1>3, <2>1, <2>2 DEF LastReadable
  <2>4. ReadableFrom(s, p + 1) = SubSeq(s, (p + 1) + 1, q)
    BY <2>1, <2>3, ReadableFromIs
  <2>5. q \in p + 1 .. Len(s)
    BY <1>3, <2>1, <2>2
  <2>6. SubSeq(s, p + 1, q) = <<s[p + 1]>> \o SubSeq(s, (p + 1) + 1, q)
    BY <2>1, <2>5, SubSeqRecursiveFirst
  <2>7. QED
    BY <1>2, <2>1, <2>4, <2>6
<1>7. QED
  BY <1>4, <1>5, <1>6

\* A file that exists holds records.
LEMMA FileType ==
  ASSUME files \in AllDisks, NEW n, Exists(n)
  PROVE  files[n] \in Seq(Events \union {Bad}) /\ 0 \in 0 .. Len(files[n])
<1>1. files[n] \in Seq(Events \union {Bad})
  BY DEF AllDisks, Exists
<1>2. QED
  BY <1>1

\* The stream of the segments from n on, by its recursion.
LEMMA SegmentStreamIs ==
  ASSUME files \in AllDisks
  PROVE  \A n \in 0 .. MaxSegments :
           /\ SegmentStream[n] \in Seq(Events)
           /\ SegmentStream[n] = IF Exists(n) /\ Readable(n, 0)
                                 THEN ReadableFrom(files[n], 0) \o SegmentStream[n + 1] ELSE <<>>
<1> DEFINE V == Seq(Events)
           Step(n, rest) == IF Exists(n) /\ Readable(n, 0)
                            THEN ReadableFrom(files[n], 0) \o rest ELSE <<>>
           F == [m \in Nat |-> [rest \in V |-> Step(MaxSegments - (m + 1), rest)]]
<1>1. MaxSegments \in Nat
  BY SourceAssumption
<1>2. ASSUME NEW n, NEW rest \in V  PROVE Step(n, rest) \in V
  <2>1. CASE Exists(n) /\ Readable(n, 0)
    <3>1. files[n] \in Seq(Events \union {Bad}) /\ 0 \in 0 .. Len(files[n])
      BY <2>1, FileType
    <3>2. ReadableFrom(files[n], 0) \in V
      BY <3>1, ReadableFromSteps
    <3>3. ReadableFrom(files[n], 0) \o rest \in V
      BY <3>2, ConcatProperties
    <3>4. QED
      BY <2>1, <3>3
  <2>2. CASE ~(Exists(n) /\ Readable(n, 0))
    BY <2>2
  <2>3. QED
    BY <2>1, <2>2
<1>3. ASSUME NEW rest  PROVE Step(MaxSegments, rest) = <<>>
  BY <1>1 DEF Exists, FileNumbers
<1> HIDE DEF Step
<1>4. F \in [Nat -> [V -> V]]
  BY <1>2
<1>5. PICK f \in [Nat -> V] : f[0] = <<>> /\ \A n \in Nat : f[n + 1] = F[n][f[n]]
  <2>1. <<>> \in V
    OBVIOUS
  <2> HIDE DEF F, V
  <2>2. PICK f : IsRecursion(f, V, <<>>, F)
    BY <1>4, <2>1, RecursionExists
  <2>3. QED
    BY <2>2 DEF IsRecursion
<1> DEFINE h == [n \in 0 .. MaxSegments |-> f[MaxSegments - n]]
<1>6. ASSUME NEW n \in 0 .. MaxSegments  PROVE h[n] = Step(n, h[n + 1])
  <2>1. CASE n = MaxSegments
    <3>0. MaxSegments - MaxSegments = 0 /\ n \in 0 .. MaxSegments
      BY <1>1, <2>1
    <3>1. h[n] = <<>>
      BY <1>5, <2>1, <3>0
    <3>2. QED
      BY <1>3, <2>1, <3>1
  <2>2. CASE n # MaxSegments
    <3> DEFINE m == MaxSegments - (n + 1)
    <3>1. m \in Nat /\ n + 1 \in 0 .. MaxSegments /\ MaxSegments - n = m + 1 /\ MaxSegments - (m + 1) = n
      BY <1>1, <2>2
    <3>2. h[n] = f[m + 1] /\ h[n + 1] = f[m]
      BY <3>1
    <3>3. f[m + 1] = F[m][f[m]]
      BY <1>5, <3>1
    <3>4. f[m] \in V
      BY <1>5, <3>1
    <3>5. F[m][f[m]] = Step(MaxSegments - (m + 1), f[m])
      BY <3>1, <3>4
    <3> HIDE DEF F, m, h
    <3>6. QED
      BY <3>1, <3>2, <3>3, <3>5
  <2>3. QED
    BY <2>1, <2>2
<1>7. h = [n \in 0 .. MaxSegments |-> Step(n, h[n + 1])]
  <2>1. h = [n \in 0 .. MaxSegments |-> h[n]]
    OBVIOUS
  <2> HIDE DEF h
  <2>2. QED
    BY <1>6, <2>1
<1> HIDE DEF h, F
<1>8. SegmentStream = [n \in 0 .. MaxSegments |-> Step(n, SegmentStream[n + 1])]
  <2>1. SegmentStream = CHOOSE g : g = [n \in 0 .. MaxSegments |-> Step(n, g[n + 1])]
    BY DEF SegmentStream, Step
  <2>2. QED
    BY <1>7, <2>1
<1>9. \A n \in 0 .. MaxSegments : SegmentStream[n] = Step(n, SegmentStream[n + 1])
  BY <1>8
<1> DEFINE S == {m \in Nat : m <= MaxSegments => SegmentStream[MaxSegments - m] \in V}
<1>10. 0 \in S
  <2>1. SegmentStream[MaxSegments] = <<>>
    BY <1>1, <1>3, <1>9
  <2>2. MaxSegments - 0 = MaxSegments /\ <<>> \in V
    BY <1>1
  <2>3. QED
    BY <2>1, <2>2
<1>11. ASSUME NEW m \in S  PROVE m + 1 \in S
  <2>1. SUFFICES ASSUME m + 1 <= MaxSegments
                 PROVE  SegmentStream[MaxSegments - (m + 1)] \in V
    OBVIOUS
  <2> DEFINE n == MaxSegments - (m + 1)
  <2>2. n \in 0 .. MaxSegments /\ n + 1 = MaxSegments - m
    BY <1>1, <2>1
  <2>3. SegmentStream[n + 1] \in V
    <3>1. m <= MaxSegments /\ m \in Nat
      BY <1>1, <2>1
    <3>2. SegmentStream[MaxSegments - m] \in V
      BY <3>1
    <3> HIDE DEF n
    <3>3. QED
      BY <2>2, <3>2
  <2>4. SegmentStream[n] = Step(n, SegmentStream[n + 1])
    BY <1>9, <2>2
  <2>5. Step(n, SegmentStream[n + 1]) \in V
    BY <1>2, <2>3
  <2>6. QED
    BY <2>4, <2>5
<1> HIDE DEF S
<1>12. S = Nat
  BY <1>10, <1>11, SetInduction DEF S
<1>13. ASSUME NEW n \in 0 .. MaxSegments  PROVE SegmentStream[n] \in V
  <2>1. MaxSegments - n \in S /\ MaxSegments - n <= MaxSegments /\ MaxSegments - (MaxSegments - n) = n
    BY <1>1, <1>12
  <2>2. QED
    BY <2>1 DEF S
<1>14. QED
  BY <1>9, <1>13 DEF Step

\* Only opening the source and getting an event touch the source, no step
\* takes problems back, and a loop that was left is not entered again.
LEMMA OtherSteps ==
  ASSUME [Next]_vars, pc # "open", ~GetEvent, TypeOK
  PROVE  /\ UNCHANGED sourceVars
         /\ problems => problems'
         /\ pc' # "open"
         /\ pc \in {"shutdown", "done"} => pc' \in {"shutdown", "done"}
<1>1. CASE ClearEvent  BY <1>1 DEF ClearEvent
<1>2. CASE Dispatch  BY <1>2 DEF Dispatch, Destination
<1>3. CASE AnalyzeScalers  BY <1>3 DEF AnalyzeScalers
<1>4. CASE DumpHistograms  BY <1>4 DEF DumpHistograms
<1>5. CASE ExamineControl  BY <1>5 DEF ExamineControl
<1>6. CASE ExaminePhysics  BY <1>6 DEF ExaminePhysics
<1>7. CASE Decode
  <2>1. PICK abort \in DecodeAborts : pc' = IF abort THEN "account" ELSE "pedestal"
    BY <1>7, Zenon DEF Decode
  <2>2. pc' \in {"account", "pedestal"}
    BY <2>1
  <2>3. UNCHANGED <<sourceVars, problems>> /\ pc = "decode"
    BY <1>7, Zenon DEF Decode
  <2>4. QED
    BY <2>2, <2>3
<1>8. CASE Pedestals  BY <1>8 DEF Pedestals
<1>9. CASE Arms  BY <1>9 DEF Arms
<1>10. CASE Account
  <2>1. problems' = (problems \/ ABORT) /\ UNCHANGED sourceVars /\ pc = "account" /\ pc' = "keep"
    BY <1>10, Zenon DEF Account
  <2>2. QED
    BY <2>1
<1>11. CASE KeepResults  BY <1>11 DEF KeepResults
<1>12. CASE Preprocess  BY <1>12 DEF Preprocess
<1>13. CASE ServiceRPC  BY <1>13 DEF ServiceRPC
<1>14. CASE EndIteration  BY <1>14 DEF EndIteration
<1>15. CASE LeaveLoop  BY <1>15 DEF LeaveLoop
<1>16. CASE Shutdown  BY <1>16 DEF Shutdown
<1>17. CASE UNCHANGED vars
  <2>1. problems' = problems /\ pc' = pc /\ UNCHANGED sourceVars
    BY <1>17 DEF vars
  <2>2. QED
    BY <2>1, Zenon
<1>18. CASE OpenSource  BY <1>18 DEF OpenSource
<1>19. QED
  BY <1>1, <1>2, <1>3, <1>4, <1>5, <1>6, <1>7, <1>8, <1>9, <1>10, <1>11, <1>12, <1>13,
     <1>14, <1>15, <1>16, <1>17, <1>18 DEF Next, Finished

\* How GetEvent leaves the loop, and the source as g_get_next_event left it.
LEMMA GetEventCases ==
  ASSUME GetEvent
  PROVE  /\ pc = "get"
         /\ \/ ReadCurrent \/ ReadNextSegment
            \/ problems' /\ (NoSource \/ UnsegmentedError \/ NextSegmentUnreadable \/ NoNextSegment)
         /\ pc' \in {"tail", "dispatch"}
<1>1. PICK abort \in BOOLEAN : /\ G_get_next_event(abort)
                               /\ problems' = (problems \/ abort)
                               /\ pc' = IF abort THEN "tail" ELSE "dispatch"
  BY Zenon DEF GetEvent
<1>2. pc' \in {"tail", "dispatch"}
  BY <1>1
<1>3. \/ ReadCurrent \/ ReadNextSegment
      \/ problems' /\ (NoSource \/ UnsegmentedError \/ NextSegmentUnreadable \/ NoNextSegment)
  BY <1>1, Zenon DEF G_get_next_event
<1>4. QED
  BY <1>2, <1>3 DEF GetEvent

\* Every step preserves what is assumed of the open file.
LEMMA StreamStep == Inductive /\ StreamInv /\ [Next]_vars => StreamInv'
<1> SUFFICES ASSUME Inductive, StreamInv, [Next]_vars
             PROVE  StreamInv'
  OBVIOUS
<1>1. TypeOK /\ SourceTypeOK /\ files \in AllDisks
  BY DEF Inductive, TypeOK, SourceTypeOK
<1>2. CASE OpenSource
  <2>1. pos' = 0 /\ files' = files /\ g_segment' \in {-1, 0, g_segment}
    BY <1>2 DEF OpenSource, G_open_source
  <2>2. g_data_source_opened' => Exists(g_segment') /\ g_segment' \in {-1, 0}
    BY <1>2 DEF OpenSource, G_open_source
  <2>3. \A n : Exists(n) => 0 <= Len(files[n])
    BY <1>1 DEF AllDisks, Exists
  <2>4. QED
    BY <2>1, <2>2, <2>3 DEF StreamInv
<1>3. CASE GetEvent
  <2>1. CASE ReadCurrent
    BY <1>1, <2>1 DEF ReadCurrent, ReadFrom, Readable, StreamInv, SourceTypeOK
  <2>2. CASE ReadNextSegment
    <3>1. pos' = 1 /\ files' = files /\ g_segment' = g_segment + 1 /\ Readable(g_segment + 1, 0)
          /\ Exists(g_segment + 1)
      BY <2>2 DEF ReadNextSegment, ReadFrom
    <3>2. Len(files[g_segment + 1]) \in Nat
      BY <1>1, <3>1 DEF AllDisks, Exists
    <3>3. QED
      BY <3>1, <3>2 DEF Readable, StreamInv
  <2>3. CASE problems' /\ (NoSource \/ UnsegmentedError)
    BY <2>3, Zenon DEF NoSource, UnsegmentedError, StreamInv
  <2>4. CASE problems' /\ NextSegmentUnreadable
    <3>1. pos' = 0 /\ files' = files /\ g_segment' = g_segment + 1 /\ Exists(g_segment + 1)
      BY <2>4 DEF NextSegmentUnreadable
    <3>2. Len(files[g_segment + 1]) \in Nat
      BY <1>1, <3>1 DEF AllDisks, Exists
    <3>3. QED
      BY <2>4, <3>1, <3>2 DEF StreamInv
  <2>5. CASE problems' /\ NoNextSegment
    BY <2>5 DEF NoNextSegment, StreamInv
  <2>6. QED
    BY <1>3, <2>1, <2>2, <2>3, <2>4, <2>5, GetEventCases
<1>4. CASE pc # "open" /\ ~GetEvent
  <2>1. UNCHANGED sourceVars /\ (problems => problems')
    BY <1>1, <1>4, OtherSteps
  <2>2. QED
    BY <2>1, Zenon DEF StreamInv
<1>5. pc = "open" => OpenSource \/ UNCHANGED vars
  BY DEF Next, ClearEvent, GetEvent, Dispatch, AnalyzeScalers, DumpHistograms, ExamineControl,
         ExaminePhysics, Decode, Pedestals, Arms, Account, KeepResults, Preprocess, ServiceRPC,
         EndIteration, LeaveLoop, Shutdown, Finished
<1>6. CASE UNCHANGED vars
  <2>1. problems' = problems /\ UNCHANGED sourceVars
    BY <1>6 DEF vars
  <2>2. QED
    BY <2>1, Zenon DEF StreamInv
<1>7. QED
  BY <1>2, <1>3, <1>4, <1>5, <1>6

\* The head and the tail of a sequence put together.
LEMMA ConsParts ==
  ASSUME NEW S, NEW e \in S, NEW r \in Seq(S)
  PROVE  <<e>> \o r # <<>> /\ Head(<<e>> \o r) = e /\ Tail(<<e>> \o r) = r
<1>1. Len(<<e>> \o r) = 1 + Len(r)
  OBVIOUS
<1>2. \A i \in 1 .. Len(r) : (<<e>> \o r)[i + 1] = r[i]
  OBVIOUS
<1>3. <<e>> \o r \in Seq(S) /\ (<<e>> \o r)[1] = e
  OBVIOUS
<1>4. QED
  BY <1>1, <1>2, <1>3, HeadTailProperties

\* ... and with more behind them.
LEMMA ConsConcat ==
  ASSUME NEW S, NEW e \in S, NEW r \in Seq(S), NEW m \in Seq(S)
  PROVE  (<<e>> \o r) \o m = <<e>> \o (r \o m) /\ r \o m \in Seq(S)
<1>1. <<e>> \in Seq(S)
  OBVIOUS
<1>2. QED
  BY <1>1, ConcatAssociative, ConcatProperties

\* What the segments after n hold, unless n itself was not read.
After(n, p) == IF n = 0 \/ (n > 0 /\ p > 0) THEN SegmentStream[n + 1] ELSE <<>>

\* ToDo once the source was opened.
LEMMA ToDoIs ==
  ASSUME pc # "open"
  PROVE  /\ ~g_data_source_opened => ToDo = <<>>
         /\ g_data_source_opened =>
              ToDo = ReadableFrom(files[g_segment], pos) \o After(g_segment, pos)
BY DEF ToDo, After

\* A read of the open file takes the first event to do.
LEMMA ReadDelivers ==
  ASSUME files \in AllDisks, NEW n, Exists(n), NEW p \in 0 .. Len(files[n]), Readable(n, p)
  PROVE  LET before == ReadableFrom(files[n], p) \o After(n, p)
             after == ReadableFrom(files[n], p + 1) \o After(n, p + 1)
         IN  before # <<>> /\ files[n][p + 1] = Head(before)
               /\ ((n > 0 => p > 0) => after = Tail(before))
<1>1. files[n] \in Seq(Events \union {Bad}) /\ files[n][p + 1] \in Events
  BY FileType DEF Readable
<1>2. /\ ReadableFrom(files[n], p) = <<files[n][p + 1]>> \o ReadableFrom(files[n], p + 1)
      /\ p + 1 \in 0 .. Len(files[n])
  BY <1>1, ReadableFromSteps DEF Readable
<1>3. ReadableFrom(files[n], p + 1) \in Seq(Events)
  BY <1>1, <1>2, ReadableFromSteps
<1>4. n \in Int /\ (n >= 0 => n + 1 \in 0 .. MaxSegments)
  BY SourceAssumption DEF Exists, FileNumbers
<1>5. After(n, p) \in Seq(Events)
  BY <1>4, SegmentStreamIs DEF After
<1>6. (n > 0 => p > 0) => After(n, p + 1) = After(n, p)
  BY <1>4 DEF After
<1> DEFINE e == files[n][p + 1]
           r == ReadableFrom(files[n], p + 1)
           m == After(n, p)
<1>7. (<<e>> \o r) \o m = <<e>> \o (r \o m) /\ r \o m \in Seq(Events)
  <2>1. e \in Events /\ r \in Seq(Events) /\ m \in Seq(Events)
    BY <1>1, <1>3, <1>5
  <2> HIDE DEF e, r, m
  <2>2. QED
    BY <2>1, ConsConcat
<1>8. /\ <<e>> \o (r \o m) # <<>>
      /\ Head(<<e>> \o (r \o m)) = e
      /\ Tail(<<e>> \o (r \o m)) = r \o m
  <2> HIDE DEF r, m, e
  <2>1. QED
    BY <1>1, <1>7, ConsParts DEF e
<1>9. QED
  BY <1>2, <1>6, <1>7, <1>8

\* The files do not change, so neither does what the segments hold.
LEMMA SegmentStreamStill ==
  ASSUME files' = files
  PROVE  SegmentStream' = SegmentStream
BY DEF SegmentStream, Exists, Readable, FileNumbers

\* ToDo after a step of the loop, in terms of the source after it.
LEMMA NextToDo ==
  ASSUME files' = files, pc' # "open"
  PROVE  /\ ~g_data_source_opened' => ToDo' = <<>>
         /\ g_data_source_opened' =>
              ToDo' = ReadableFrom(files[g_segment'], pos') \o After(g_segment', pos')
<1>1. SegmentStream' = SegmentStream
  BY SegmentStreamStill
<1>2. CASE ~g_data_source_opened'
  BY <1>2 DEF ToDo
<1>3. CASE g_data_source_opened'
  BY <1>1, <1>3 DEF ToDo, After
<1>4. QED
  BY <1>2, <1>3

\* Getting an event delivers the next one, or changes nothing.
LEMMA GetEventDelivers ==
  ASSUME Inductive, StreamInv, GetEvent
  PROVE  \/ ToDo # <<>> /\ craw' = Head(ToDo) /\ ToDo' = Tail(ToDo)
         \/ craw' = craw /\ ToDo' = ToDo
<1>1. pc = "get" /\ pc' # "open" /\ ~problems
  BY GetEventCases DEF Inductive, StageInv, InEvent
<1>2. files \in AllDisks /\ g_segment \in -1 .. MaxSegments /\ pos \in Nat
  BY DEF Inductive, TypeOK, SourceTypeOK
<1>3. g_data_source_opened => /\ Exists(g_segment)
                              /\ pos \in 0 .. Len(files[g_segment])
                              /\ g_segment > 0 => pos > 0
                              /\ ToDo = ReadableFrom(files[g_segment], pos) \o After(g_segment, pos)
  <2>1. ASSUME g_data_source_opened
        PROVE  Exists(g_segment) /\ pos <= Len(files[g_segment]) /\ (g_segment > 0 => pos # 0)
    BY <1>1, <2>1, Zenon DEF Inductive, StageInv, StreamInv
  <2>2. ASSUME g_data_source_opened
        PROVE  Len(files[g_segment]) \in Nat
    BY <1>2, <2>1, <2>2, FileType
  <2>3. QED
    BY <1>1, <1>2, <2>1, <2>2, ToDoIs
<1>4. ASSUME SegmentEnds
      PROVE  /\ ToDo = SegmentStream[g_segment + 1]
             /\ g_segment + 1 \in 0 .. MaxSegments
  <2>1. g_data_source_opened /\ ~Readable(g_segment, pos) /\ g_segment >= 0
    BY <1>4 DEF SegmentEnds
  <2>2. files[g_segment] \in Seq(Events \union {Bad})
    BY <1>2, <1>3, <2>1, FileType
  <2>3. ReadableFrom(files[g_segment], pos) = <<>>
    BY <1>3, <2>1, <2>2, ReadableFromSteps DEF Readable
  <2>4. g_segment + 1 \in 0 .. MaxSegments
    BY <1>3, <2>1, SourceAssumption DEF Exists, FileNumbers
  <2>5. After(g_segment, pos) = SegmentStream[g_segment + 1]
    BY <1>2, <1>3, <2>1 DEF After
  <2>6. SegmentStream[g_segment + 1] \in Seq(Events)
    BY <1>2, <2>4, SegmentStreamIs
  <2>7. QED
    BY <1>3, <2>1, <2>3, <2>4, <2>5, <2>6, ConcatEmptySeq
<1>5. CASE ReadCurrent
  <2>1. /\ g_data_source_opened /\ Readable(g_segment, pos)
        /\ g_data_source_opened' = TRUE /\ g_segment' = g_segment /\ pos' = pos + 1
        /\ craw' = files[g_segment][pos + 1] /\ files' = files
    BY <1>5 DEF ReadCurrent, ReadFrom
  <2>2. ToDo' = ReadableFrom(files[g_segment], pos + 1) \o After(g_segment, pos + 1)
    BY <1>1, <2>1, NextToDo
  <2>3. QED
    BY <1>2, <1>3, <2>1, <2>2, ReadDelivers
<1>6. CASE ReadNextSegment
  <2> DEFINE n == g_segment + 1
  <2>1. /\ SegmentEnds /\ Exists(n) /\ Readable(n, 0)
        /\ g_data_source_opened' = TRUE /\ g_segment' = n /\ pos' = 1
        /\ craw' = files[n][1] /\ files' = files
    BY <1>6 DEF ReadNextSegment, ReadFrom
  <2>2. n > 0 /\ n \in 0 .. MaxSegments
    BY <1>2, <1>4, <2>1 DEF SegmentEnds
  <2>3. ToDo' = ReadableFrom(files[n], 1) \o After(n, 1)
    BY <1>1, <2>1, NextToDo
  <2>4. After(n, 1) = SegmentStream[n + 1]
    BY <2>2 DEF After
  <2>5. ToDo = ReadableFrom(files[n], 0) \o SegmentStream[n + 1]
    BY <1>2, <1>4, <2>1, <2>2, SegmentStreamIs
  <2>6. files[n] \in Seq(Events \union {Bad}) /\ 0 \in 0 .. Len(files[n]) /\ files[n][1] \in Events
    BY <1>2, <2>1, FileType DEF Readable
  <2>7. /\ ReadableFrom(files[n], 0) = <<files[n][1]>> \o ReadableFrom(files[n], 1)
        /\ 1 \in 0 .. Len(files[n])
    <3>1. 0 < Len(files[n]) /\ 0 + 1 = 1
      BY <2>1 DEF Readable
    <3>2. /\ ReadableFrom(files[n], 0) = <<files[n][0 + 1]>> \o ReadableFrom(files[n], 0 + 1)
          /\ 0 + 1 \in 0 .. Len(files[n])
      <4> HIDE DEF n
      <4>1. QED
        BY <2>6, <3>1, ReadableFromSteps
    <3>3. QED
      BY <3>1, <3>2
  <2>8. ReadableFrom(files[n], 1) \in Seq(Events)
    BY <2>6, <2>7, ReadableFromSteps
  <2>9. SegmentStream[n + 1] \in Seq(Events)
    <3>1. n + 1 \in 0 .. MaxSegments
      BY <2>1, <2>2, SourceAssumption DEF Exists, FileNumbers
    <3>2. QED
      BY <1>2, <3>1, SegmentStreamIs
  <2> DEFINE r == ReadableFrom(files[n], 1)
             m == SegmentStream[n + 1]
             e == files[n][1]
  <2>10. ToDo = <<e>> \o (r \o m) /\ r \o m \in Seq(Events)
    <3>1. ToDo = (<<e>> \o r) \o m /\ e \in Events
      BY <2>5, <2>6, <2>7
    <3>2. r \in Seq(Events) /\ m \in Seq(Events)
      BY <2>8, <2>9
    <3> HIDE DEF e, r, m
    <3>3. QED
      BY <3>1, <3>2, ConsConcat
  <2>11. ToDo' = r \o m /\ craw' = e
    BY <2>1, <2>3, <2>4
  <2>12. e \in Events
    BY <2>6
  <2> HIDE DEF e, r, m
  <2>13. QED
    BY <2>10, <2>11, <2>12, ConsParts
<1>7. CASE problems' /\ (NoSource \/ UnsegmentedError)
  <2>1. UNCHANGED sourceVars
    BY <1>7 DEF NoSource, UnsegmentedError
  <2>2. QED
    BY <1>1, <2>1, NextToDo, ToDoIs
<1>8. CASE problems' /\ NextSegmentUnreadable
  <2> DEFINE n == g_segment + 1
  <2>1. /\ SegmentEnds /\ Exists(n) /\ ~Readable(n, 0) /\ g_data_source_opened
        /\ g_segment' = n /\ pos' = 0 /\ craw' = craw /\ files' = files
        /\ g_data_source_opened' = g_data_source_opened
    BY <1>8 DEF NextSegmentUnreadable, SegmentEnds
  <2>2. n > 0 /\ n \in 0 .. MaxSegments
    BY <1>2, <1>4, <2>1 DEF SegmentEnds
  <2>3. ToDo' = ReadableFrom(files[n], 0) \o After(n, 0)
    BY <1>1, <2>1, NextToDo
  <2>4. After(n, 0) = <<>>
    BY <2>2 DEF After
  <2>5. files[n] \in Seq(Events \union {Bad}) /\ 0 \in 0 .. Len(files[n])
    BY <1>2, <2>1, FileType
  <2>6. ReadableFrom(files[n], 0) = <<>>
    BY <2>1, <2>5, ReadableFromSteps DEF Readable
  <2>7. ToDo = <<>>
    BY <1>2, <1>4, <2>1, <2>2, SegmentStreamIs
  <2>8. ToDo' = <<>>
    BY <2>3, <2>4, <2>6
  <2>9. QED
    BY <2>1, <2>7, <2>8
<1>9. CASE problems' /\ NoNextSegment
  <2>1. /\ SegmentEnds /\ ~Exists(g_segment + 1)
        /\ g_data_source_opened' = FALSE /\ craw' = craw /\ files' = files
    BY <1>9 DEF NoNextSegment
  <2>2. ToDo = <<>>
    BY <1>2, <1>4, <2>1, SegmentStreamIs
  <2>3. ToDo' = <<>>
    BY <1>1, <2>1, NextToDo
  <2>4. QED
    BY <2>1, <2>2, <2>3
<1>10. QED
  BY <1>5, <1>6, <1>7, <1>8, <1>9, GetEventCases

\* Opening the source settles where the events come from: what was to be
\* done stays to be done, or the replay ends at once.
LEMMA OpenSourceKeeps ==
  ASSUME Inductive, OpenSource
  PROVE  ToDo' = ToDo /\ craw' = craw /\ pc' \in {"clear", "done"}
<1>1. pc = "open" /\ pc' \in {"clear", "done"}
  BY DEF OpenSource
<1>2. PICK abort \in BOOLEAN : G_open_source(abort)
  BY DEF OpenSource
<1>3. /\ files' = files /\ craw' = craw /\ pos' = 0
      /\ g_segment' = (IF Exists(-1) THEN -1 ELSE IF TriesSegments THEN 0 ELSE g_segment)
      /\ g_data_source_opened' = (Exists(-1) \/ (TriesSegments /\ Exists(0)))
  BY <1>2 DEF G_open_source
<1>4. files \in AllDisks
  BY DEF Inductive, TypeOK, SourceTypeOK
<1>5. CASE Exists(-1)
  <2>1. ToDo = ReadableFrom(files[-1], 0)
    BY <1>1, <1>5 DEF ToDo
  <2>2. ToDo' = ReadableFrom(files[-1], 0) \o After(-1, 0)
    BY <1>1, <1>3, <1>5, NextToDo
  <2>3. After(-1, 0) = <<>>
    BY DEF After
  <2>4. ReadableFrom(files[-1], 0) \in Seq(Events)
    BY <1>4, <1>5, FileType, ReadableFromSteps
  <2>5. QED
    BY <1>1, <1>3, <2>1, <2>2, <2>3, <2>4
<1>6. CASE ~Exists(-1) /\ TriesSegments /\ Exists(0)
  <2>1. ToDo = ReadableFrom(files[0], 0) \o SegmentStream[1]
    BY <1>1, <1>6 DEF ToDo
  <2>2. ToDo' = ReadableFrom(files[0], 0) \o After(0, 0)
    BY <1>1, <1>3, <1>6, NextToDo
  <2>3. After(0, 0) = SegmentStream[1]
    BY DEF After
  <2>4. QED
    BY <1>1, <1>3, <2>1, <2>2, <2>3
<1>7. CASE ~Exists(-1) /\ ~(TriesSegments /\ Exists(0))
  <2>1. ToDo = <<>>
    BY <1>1, <1>7 DEF ToDo
  <2>2. ToDo' = <<>>
    BY <1>1, <1>3, <1>7, NextToDo
  <2>3. QED
    BY <1>1, <1>3, <2>1, <2>2
<1>8. QED
  BY <1>5, <1>6, <1>7

\* Before the source is opened there is one stream of events to do.
LEMMA DeliveryInit == Init => Delivery!Init
<1> SUFFICES ASSUME Init
             PROVE  Delivery!Init
  OBVIOUS
<1>1. pc = "open" /\ files \in AllDisks
  BY SourceAssumption DEF Init, SourceInit
<1>2. ToDo \in Seq(Events)
  <2>1. CASE Exists(-1)
    <3>1. ToDo = ReadableFrom(files[-1], 0)
      BY <1>1, <2>1 DEF ToDo
    <3>2. QED
      BY <1>1, <2>1, <3>1, FileType, ReadableFromSteps
  <2>2. CASE ~Exists(-1) /\ TriesSegments /\ Exists(0)
    <3>1. ToDo = ReadableFrom(files[0], 0) \o SegmentStream[1]
      BY <1>1, <2>2 DEF ToDo
    <3>2. ReadableFrom(files[0], 0) \in Seq(Events)
      BY <1>1, <2>2, FileType, ReadableFromSteps
    <3>3. 1 \in 0 .. MaxSegments
      BY SourceAssumption
    <3>4. SegmentStream[1] \in Seq(Events)
      BY <1>1, <3>3, SegmentStreamIs
    <3>5. QED
      BY <3>1, <3>2, <3>4, ConcatProperties
  <2>3. CASE ~Exists(-1) /\ ~(TriesSegments /\ Exists(0))
    <3>1. ToDo = <<>>
      BY <1>1, <2>3 DEF ToDo
    <3>2. QED
      BY <3>1
  <2>4. QED
    BY <2>1, <2>2, <2>3
<1>3. QED
  BY <1>1, <1>2 DEF Delivery!Init, AllStreams

\* Every step of the replay delivers the next event, ends the replay for
\* good, or changes nothing of the stream.
LEMMA DeliveryStep == Inductive /\ StreamInv /\ [Next]_vars => [Delivery!Next]_(Delivery!vars)
<1> SUFFICES ASSUME Inductive, StreamInv, [Next]_vars
             PROVE  [Delivery!Next]_(Delivery!vars)
  OBVIOUS
<1> DEFINE running == pc \notin {"shutdown", "done"}
<1>1. TypeOK
  BY DEF Inductive
<1>2. ASSUME ToDo' = ToDo, craw' = craw, running \/ running' = running
      PROVE  [Delivery!Next]_(Delivery!vars)
  <2>1. CASE running' = running
    BY <1>2, <2>1 DEF Delivery!vars
  <2>2. CASE running /\ ~running'
    BY <1>2, <2>2 DEF Delivery!Next, Delivery!Stop
  <2>3. QED
    BY <1>2, <2>1, <2>2
<1>3. CASE OpenSource
  <2>1. ToDo' = ToDo /\ craw' = craw
    BY <1>3, OpenSourceKeeps
  <2>2. running
    BY <1>3 DEF OpenSource
  <2> HIDE DEF running
  <2>3. QED
    BY <1>2, <2>1, <2>2
<1>4. CASE GetEvent
  <2>1. running /\ running'
    BY <1>4, GetEventCases
  <2>2. CASE ToDo # <<>> /\ craw' = Head(ToDo) /\ ToDo' = Tail(ToDo)
    BY <2>1, <2>2 DEF Delivery!Next, Delivery!Deliver
  <2>3. CASE craw' = craw /\ ToDo' = ToDo
    BY <2>1, <2>3 DEF Delivery!vars
  <2>4. QED
    BY <1>4, <2>2, <2>3, GetEventDelivers
<1>5. CASE pc # "open" /\ ~GetEvent
  <2>1. /\ UNCHANGED sourceVars
        /\ pc' # "open"
        /\ pc \in {"shutdown", "done"} => pc' \in {"shutdown", "done"}
    BY <1>1, <1>5, OtherSteps
  <2>2. ToDo' = ToDo /\ craw' = craw
    BY <1>5, <2>1, NextToDo, ToDoIs
  <2>3. running \/ running' = running
    BY <2>1
  <2> HIDE DEF running
  <2>4. QED
    BY <1>2, <2>2, <2>3
<1>6. CASE UNCHANGED vars
  <2>1. pc' = pc /\ UNCHANGED sourceVars
    BY <1>6 DEF vars
  <2>2. ToDo' = ToDo
    BY <2>1, SegmentStreamStill DEF ToDo, Exists, FileNumbers
  <2>3. QED
    BY <2>1, <2>2 DEF Delivery!vars
<1>7. QED
  <2>1. pc = "open" => OpenSource \/ UNCHANGED vars
    BY DEF Next, ClearEvent, GetEvent, Dispatch, AnalyzeScalers, DumpHistograms, ExamineControl,
           ExaminePhysics, Decode, Pedestals, Arms, Account, KeepResults, Preprocess, ServiceRPC,
           EndIteration, LeaveLoop, Shutdown, Finished
  <2>2. QED
    BY <1>3, <1>4, <1>5, <1>6, <2>1

\* The replay implements EventStream: whatever the loop does with the events
\* of a file or of a run's segments, it takes them in their order, takes each
\* once and passes none over (engine.f with g_get_next_event.f).
THEOREM ReplayDeliversStream == Spec => DeliversStream
<1>1. Init => StreamInv
  BY DEF Init, SourceInit, StreamInv
<1>2. Spec => []Inductive
  BY EngineInductive
<1>3. Init => Delivery!Init
  BY DeliveryInit
<1>4. Inductive /\ StreamInv /\ [Next]_vars => StreamInv'
  BY StreamStep
<1>5. Inductive /\ StreamInv /\ [Next]_vars => [Delivery!Next]_(Delivery!vars)
  BY DeliveryStep
<1>6. QED
  BY <1>1, <1>2, <1>3, <1>4, <1>5, PTL DEF Spec, DeliversStream, Delivery!Spec
=============================================================================
