------------------------------ MODULE MCEngine -------------------------------
(***************************************************************************)
(* Instances of Engine: the events and the files the runs use.             *)
(***************************************************************************)
EXTENDS Engine, SequencesExt

CONSTANTS MaxEvents, EventKinds

\* rpc_control as engine.f sets it: RPC requests never block the loop.
NoBlocking == -1

Trigger(t, n, b) == [tag |-> "10CC", type |-> t, id |-> n, body |-> b]
Control(t, b) == [tag |-> "01CC", type |-> t, id |-> 0, body |-> b]

\* Triggers of each kind, with and without an event ID.
TriggerKinds == {Trigger(1, 1, "banks"), Trigger(2, 2, "banks"), Trigger(3, 1, "big"),
                 Trigger(4, 1, "banks"), Trigger(8, 2, "banks"), Trigger(2, 0, "empty"),
                 Trigger(5, 1, "banks")}

\* A run with its control, scaler and EPICS events.
ControlKinds == {Trigger(0, 1, "banks"), Trigger(0, 0, "noID"), Trigger(1, 2, "banks"),
                 Trigger(15, 1, "banks"), Trigger(131, 1, "banks"), Control(17, "banks"),
                 Control(16, "banks"), Control(16, "badsync"), Control(20, "banks"),
                 Control(129, "banks"), Control(133, "banks"),
                 [tag |-> "other", type |-> 18, id |-> 0, body |-> "banks"]}

\* Few kinds, for the runs about files.
FileKinds == {Trigger(3, 1, "banks"), Trigger(3, 0, "noID")}

\* One unsegmented file.
PlainDisks == {[n \in FileNumbers |-> IF n = -1 THEN s ELSE NoFile] :
                 s \in BoundedSeq(EventKinds, MaxEvents)}

\* Every combination of short files.
SegmentDisks ==
  [FileNumbers -> BoundedSeq(EventKinds \union {Bad}, MaxEvents) \union {NoFile}]
\* All of them: triggers, a whole run, segments.
RunDisks ==
  LET Only(S) == {[n \in FileNumbers |-> IF n = -1 THEN s ELSE NoFile] : s \in S}
      Short == BoundedSeq(FileKinds \union {Bad}, 2) \union {NoFile}
  IN  Only(BoundedSeq(TriggerKinds, MaxEvents)) \union Only(BoundedSeq(ControlKinds, MaxEvents - 1))
        \union [FileNumbers -> Short]
RunKinds == TriggerKinds \union ControlKinds \union FileKinds
=============================================================================
