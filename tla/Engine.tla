------------------------------- MODULE Engine --------------------------------
(***************************************************************************)
(* The replay's main program: the event loop of engine.f with the routines *)
(* it hands an event to, down to the point where an event's data go to the *)
(* tracking code.  pc names the stage of the loop body an event is in.     *)
(***************************************************************************)
EXTENDS EventSource, FiniteSets

CONSTANTS
  Enabled,        \* types with gen_run_enable(type-1) # 0
  StartEvent,     \* gen_run_starting_event
  StopEvent,      \* gen_run_stopping_event, 0: no limit
  PreprocOn,      \* g_preproc_on # 0
  PreprocOpened,  \* whether g_preproc_open could open its file
  DumpInterval,   \* gen_run_hist_dump_interval, 0: no dumps
  PedAna,         \* g_decode_pedana # 0
  RpcOn,          \* rpc_on # 0
  RpcControl,     \* rpc_control as the setup files leave it
  Faults          \* the calls that may report an error

gen_MAX_trigger_types == 15
TriggerTypes == 0 .. gen_MAX_trigger_types
SYNC == 16
END_RUN == 20

Bodies == {"banks",    \* first bank is the event ID bank
           "noID",     \* first bank is another one
           "big",      \* longer than g_decode_event_by_banks decodes
           "empty",    \* no bank at all
           "badsync"}  \* a SYNC event that reports a ROC out of step

ASSUME EngineAssumption ==
  /\ Events \subseteq [tag: {"10CC", "01CC", "other"}, type: Nat, id: Nat, body: Bodies]
  /\ \A e \in Events : e.type <= gen_MAX_trigger_types => e.tag = "10CC"
  /\ Enabled \subseteq TriggerTypes \ {0}
  /\ StartEvent \in Nat /\ StopEvent \in Nat /\ DumpInterval \in Nat
  /\ PreprocOn \in BOOLEAN /\ PreprocOpened \in BOOLEAN
  /\ PedAna \in BOOLEAN /\ RpcOn \in BOOLEAN
  /\ RpcControl \in Int
  /\ Faults \subseteq {"write", "report", "hks", "keep"}

VARIABLES
  pc, ABORT, problems, eof,
  gen_event_type, gen_event_ID_number,
  recorded_events, analyzed_events, sum_recorded, sum_analyzed,
  physics_events, total_event_count, num_events_skipped, lastdump,
  update_peds,           \* SAVEd in g_reconstruction
  rpc_control, rpc_pend,
  \* History of the run, for the properties.
  failed,                \* a call of this iteration returned ABORT
  newPeds,               \* pedestal events since the last g_calc_pedestal
  skippedTypes,          \* types of the events skipped
  idless,                \* events analyzed while gen_event_ID_number was 0
  kept,                  \* events whose results were kept
  written                \* writes of the current event to the preprocessor file

loopVars == <<pc, ABORT, problems, eof>>
eventVars == <<gen_event_type, gen_event_ID_number>>
recordVars == <<recorded_events, sum_recorded, total_event_count>>
analysisVars == <<analyzed_events, sum_analyzed, physics_events>>
pedVars == <<update_peds, newPeds>>
rpcVars == <<rpc_control, rpc_pend>>
skipVars == <<num_events_skipped, skippedTypes>>

vars == <<sourceVars, loopVars, eventVars, recordVars, analysisVars, pedVars,
          rpcVars, skipVars, lastdump, failed, idless, kept, written>>

Stages == {"open", "clear", "get", "dispatch", "scaler", "dump", "control",
           "examine", "decode", "pedestal", "arms", "account", "keep",
           "preproc", "rpc", "tail", "shutdown", "done"}

\* The results a call that may fail can have.
Outcomes(call) == IF call \in Faults THEN BOOLEAN ELSE {FALSE}

\* g_write_event of the event in craw.
G_write_event(abort) ==
  /\ abort \in IF PreprocOpened THEN Outcomes("write") ELSE {TRUE}
  /\ written' = IF abort THEN written ELSE written + 1

Report(abort) == failed' = (failed \/ abort)

-----------------------------------------------------------------------------

Init ==
  /\ SourceInit
  /\ pc = "open"
  /\ ABORT = FALSE /\ problems = FALSE /\ eof = FALSE
  /\ gen_event_type = 0 /\ gen_event_ID_number = 0
  /\ recorded_events = [t \in TriggerTypes |-> 0]
  /\ analyzed_events = [t \in TriggerTypes |-> 0]
  /\ sum_recorded = 0 /\ sum_analyzed = 0
  /\ physics_events = 0 /\ total_event_count = 0
  /\ num_events_skipped = 0 /\ lastdump = 0
  /\ update_peds = FALSE
  /\ rpc_control = RpcControl /\ rpc_pend = 0
  /\ failed = FALSE /\ newPeds = 0 /\ skippedTypes = {}
  /\ idless = 0 /\ kept = 0 /\ written = 0

\* A source that cannot be opened stops the program at once.
OpenSource ==
  /\ pc = "open"
  /\ \E abort \in BOOLEAN :
       /\ G_open_source(abort)
       /\ pc' = IF abort THEN "done" ELSE "clear"
  /\ UNCHANGED <<ABORT, problems, eof, eventVars, recordVars, analysisVars,
                 pedVars, rpcVars, skipVars, lastdump, failed, idless, kept, written>>

\* G_clear_event only clears; none of the three it calls can abort.
ClearEvent ==
  /\ pc = "clear"
  /\ ~problems /\ ~ABORT /\ ~eof
  /\ pc' = "get"
  /\ ABORT' = FALSE
  /\ failed' = FALSE
  /\ written' = 0
  /\ UNCHANGED <<sourceVars, problems, eof, eventVars, recordVars, analysisVars,
                 pedVars, rpcVars, skipVars, lastdump, idless, kept>>

\* (GetEventUnnoticed: a mutant, a failed read sets neither flag.)
GetEventUnnoticed ==
  /\ pc = "get"
  /\ \E abort \in BOOLEAN :
       /\ G_get_next_event(abort)
       /\ total_event_count' = IF abort THEN total_event_count ELSE total_event_count + 1
       /\ pc' = IF abort THEN "tail" ELSE "dispatch"
       /\ Report(abort)
  /\ UNCHANGED <<ABORT, problems, eof, eventVars, recorded_events, sum_recorded,
                 analysisVars, pedVars, rpcVars, skipVars, lastdump, idless, kept, written>>

GetEvent ==
  /\ pc = "get"
  /\ \E abort \in BOOLEAN :
       /\ G_get_next_event(abort)
       /\ ABORT' = abort
       /\ problems' = (problems \/ abort)
       /\ total_event_count' = IF abort THEN total_event_count ELSE total_event_count + 1
       /\ pc' = IF abort THEN "tail" ELSE "dispatch"
       /\ Report(abort)
  /\ UNCHANGED <<eof, eventVars, recorded_events, sum_recorded, analysisVars,
                 pedVars, rpcVars, skipVars, lastdump, idless, kept, written>>

\* Where the event type and the tag send an event.
Destination(e) ==
  IF e.tag # "10CC" THEN IF e.type = 129 THEN "tail" ELSE "control"
  ELSE IF e.type = 0 THEN "scaler"
  ELSE IF e.type \in Enabled THEN "examine"
  ELSE "tail"  \* EPICS and run info change nothing that is modelled

\* (CountRecordedBelow: a mutant, the last type is not counted.)
CountRecordedBelow(type) ==
  IF type < gen_MAX_trigger_types
  THEN /\ recorded_events' = [recorded_events EXCEPT ![type] = @ + 1]
       /\ sum_recorded' = IF type = 0 THEN sum_recorded ELSE sum_recorded + 1
  ELSE UNCHANGED <<recorded_events, sum_recorded>>

CountRecorded(type) ==
  IF type <= gen_MAX_trigger_types
  THEN /\ recorded_events' = [recorded_events EXCEPT ![type] = @ + 1]
       /\ sum_recorded' = IF type = 0 THEN sum_recorded ELSE sum_recorded + 1
  ELSE UNCHANGED <<recorded_events, sum_recorded>>

\* (CopiesAll: a mutant, it copies every event.)
CopiesAll(type) == PreprocOn

\* The preprocessor copies every event of type 14 and above here.
Copies(type) == PreprocOn /\ type >= gen_MAX_trigger_types - 1

Dispatch ==
  /\ pc = "dispatch"
  /\ gen_event_type' = craw.type
  /\ CountRecorded(craw.type)
  /\ IF Copies(craw.type)
     THEN \E abort \in BOOLEAN : G_write_event(abort) /\ ABORT' = abort /\ Report(abort)
     ELSE UNCHANGED <<ABORT, failed, written>>
  /\ pc' = Destination(craw)
  /\ UNCHANGED <<sourceVars, problems, eof, gen_event_ID_number, total_event_count,
                 analysisVars, pedVars, rpcVars, skipVars, lastdump, idless, kept>>

-----------------------------------------------------------------------------
(* Scaler and control events.                                              *)

\* The write's ABORT replaces the one of the scaler analysis.
AnalyzeScalers ==
  /\ pc = "scaler"
  /\ analyzed_events' = [analyzed_events EXCEPT ![0] = @ + 1]
  /\ LET bad == craw.body # "banks" IN
       IF PreprocOn
       THEN \E abort \in BOOLEAN : G_write_event(abort) /\ ABORT' = abort /\ Report(bad \/ abort)
       ELSE ABORT' = bad /\ Report(bad) /\ UNCHANGED written
  /\ pc' = "dump"
  /\ UNCHANGED <<sourceVars, problems, eof, eventVars, recordVars, sum_analyzed,
                 physics_events, pedVars, rpcVars, skipVars, lastdump, idless, kept>>

DumpDue == DumpInterval > 0 /\ physics_events - lastdump >= DumpInterval

\* G_proper_shutdown aborts when its report cannot be written, and its ABORT
\* replaces the one there was.
DumpHistograms ==
  /\ pc = "dump"
  /\ pc' = "tail"
  /\ IF DumpDue
     THEN /\ lastdump' = physics_events
          /\ \E abort \in Outcomes("report") : ABORT' = abort /\ Report(abort)
     ELSE UNCHANGED <<lastdump, ABORT, failed>>
  /\ UNCHANGED <<sourceVars, problems, eof, eventVars, recordVars, analysisVars,
                 pedVars, rpcVars, skipVars, idless, kept, written>>

\* g_examine_go_info (133) leaves ABORT alone, and so does
\* g_examine_control_event but for SYNC events and for a wrong tag.
ExamineControl ==
  /\ pc = "control"
  /\ pc' = "tail"
  /\ LET abort == \/ craw.tag # "01CC"
                  \/ IF craw.type = SYNC THEN craw.body = "badsync" ELSE ABORT
     IN  IF craw.type = 133
         THEN UNCHANGED <<ABORT, failed, gen_event_ID_number>>
         ELSE /\ ABORT' = abort
              /\ Report(abort)
              /\ gen_event_ID_number' = IF craw.tag = "01CC" THEN 0 ELSE gen_event_ID_number
  /\ UNCHANGED <<sourceVars, problems, eof, gen_event_type, recordVars, analysisVars,
                 pedVars, rpcVars, skipVars, lastdump, idless, kept, written>>

-----------------------------------------------------------------------------
(* Triggers.                                                               *)

\* (BeforeStartLate: a mutant, one event too many is skipped.)
BeforeStartLate == num_events_skipped + 1 <= StartEvent

BeforeStart == num_events_skipped + 1 < StartEvent

\* g_examine_physics_event, then the test of the starting event.  A trivial
\* event keeps the previous event's ID.
ExaminePhysics ==
  /\ pc = "examine"
  /\ ABORT' = FALSE
  /\ gen_event_ID_number' =
       CASE craw.body \in {"banks", "big"} -> craw.id
         [] craw.body = "noID" -> 0
         [] OTHER -> gen_event_ID_number
  /\ IF BeforeStart /\ gen_event_type # 4
     THEN /\ num_events_skipped' = num_events_skipped + 1
          /\ skippedTypes' = skippedTypes \union {gen_event_type}
          /\ pc' = "tail"
     ELSE /\ UNCHANGED skipVars
          /\ pc' = IF problems THEN "keep" ELSE "decode"
  /\ UNCHANGED <<sourceVars, problems, eof, gen_event_type, recordVars, analysisVars,
                 pedVars, rpcVars, lastdump, failed, idless, kept, written>>

\* The first bank must be the event ID bank; an event that is too long is
\* not decoded at all; in an event without banks the word tested is whatever
\* an earlier event left in the buffer.
DecodeAborts ==
  CASE craw.body = "noID" -> {TRUE}
    [] craw.body = "empty" -> BOOLEAN
    [] OTHER -> {FALSE}

\* (DecodeDropping: a mutant, an event that fails is not counted.)
DecodeDropping ==
  /\ pc = "decode"
  /\ \E abort \in DecodeAborts :
       /\ ABORT' = abort
       /\ Report(abort)
       /\ pc' = IF abort THEN "tail" ELSE "pedestal"
  /\ UNCHANGED <<sourceVars, problems, eof, eventVars, recordVars, analysisVars,
                 pedVars, rpcVars, skipVars, lastdump, idless, kept, written>>

Decode ==
  /\ pc = "decode"
  /\ \E abort \in DecodeAborts :
       /\ ABORT' = abort
       /\ Report(abort)
       /\ pc' = IF abort THEN "account" ELSE "pedestal"
  /\ UNCHANGED <<sourceVars, problems, eof, eventVars, recordVars, analysisVars,
                 pedVars, rpcVars, skipVars, lastdump, idless, kept, written>>

PedestalTypes == {4, 8}

\* (PedestalsForgotten: a mutant, update_peds is not set.)
PedestalsForgotten ==
  /\ pc = "pedestal"
  /\ IF gen_event_type \in PedestalTypes /\ ~PedAna
     THEN /\ newPeds' = newPeds + 1
          /\ pc' = "account"
          /\ UNCHANGED update_peds
     ELSE /\ update_peds' = FALSE
          /\ newPeds' = IF update_peds \/ gen_event_type \in PedestalTypes THEN 0 ELSE newPeds
          /\ pc' = "arms"
  /\ UNCHANGED <<sourceVars, ABORT, problems, eof, eventVars, recordVars, analysisVars,
                 rpcVars, skipVars, lastdump, failed, idless, kept, written>>

\* Pedestal events are added up and, unless they are to be analyzed, end
\* there; the next event that is not one has the pedestals calculated first.
Pedestals ==
  /\ pc = "pedestal"
  /\ IF gen_event_type \in PedestalTypes /\ ~PedAna
     THEN /\ update_peds' = TRUE
          /\ newPeds' = newPeds + 1
          /\ pc' = "account"
     ELSE /\ update_peds' = FALSE
          /\ newPeds' = IF update_peds \/ gen_event_type \in PedestalTypes THEN 0 ELSE newPeds
          /\ pc' = "arms"
  /\ UNCHANGED <<sourceVars, ABORT, problems, eof, eventVars, recordVars, analysisVars,
                 rpcVars, skipVars, lastdump, failed, idless, kept, written>>

\* The miscellaneous, trigger, HES and coincidence code runs whatever the
\* HKS code returned and cannot abort; h_reconstruction can (in h_tof).
UsesHKS == gen_event_type \in {1, 3, 4}

Arms ==
  /\ pc = "arms"
  /\ \E abort \in IF UsesHKS THEN Outcomes("hks") ELSE {FALSE} :
       /\ ABORT' = (ABORT \/ abort)
       /\ Report(abort)
  /\ pc' = "account"
  /\ UNCHANGED <<sourceVars, problems, eof, eventVars, recordVars, analysisVars,
                 pedVars, rpcVars, skipVars, lastdump, idless, kept, written>>

\* G_reconstruction has returned: the event counts as analyzed even if it
\* aborted.
Account ==
  /\ pc = "account"
  /\ physics_events' = physics_events + 1
  /\ analyzed_events' = [analyzed_events EXCEPT ![gen_event_type] = @ + 1]
  /\ sum_analyzed' = sum_analyzed + 1
  /\ problems' = (problems \/ ABORT)
  /\ idless' = IF gen_event_ID_number = 0 THEN idless + 1 ELSE idless
  /\ pc' = "keep"
  /\ UNCHANGED <<sourceVars, ABORT, eof, eventVars, recordVars, pedVars, rpcVars,
                 skipVars, lastdump, failed, kept, written>>

\* (KeptTypesSingle: a mutant, coincidences are not kept.)
KeptTypesSingle == {1, 2}

\* groupname: hks, hes and both are kept, ped and blank are not.
KeptTypes == {1, 2, 3}

KeepResults ==
  /\ pc = "keep"
  /\ IF ~problems /\ gen_event_type \in KeptTypes
     THEN \E abort \in Outcomes("keep") :
            /\ ABORT' = abort
            /\ problems' = abort
            /\ Report(abort)
            /\ kept' = kept + 1
     ELSE UNCHANGED <<ABORT, problems, failed, kept>>
  /\ pc' = "preproc"
  /\ UNCHANGED <<sourceVars, eof, eventVars, recordVars, analysisVars, pedVars,
                 rpcVars, skipVars, lastdump, idless, written>>

\* g_preproc_event: coincidences and pedestals, and the even-numbered events.
PreprocKeeps ==
  \/ gen_event_type \in {3, 4}
  \/ gen_event_type \in 1 .. 4 /\ gen_event_ID_number % 2 = 0

Preprocess ==
  /\ pc = "preproc"
  /\ IF PreprocOn /\ ~problems /\ PreprocKeeps
     THEN \E abort \in BOOLEAN : G_write_event(abort) /\ ABORT' = abort /\ Report(abort)
     ELSE UNCHANGED <<ABORT, failed, written>>
  /\ pc' = IF RpcOn THEN "rpc" ELSE "tail"
  /\ UNCHANGED <<sourceVars, problems, eof, eventVars, recordVars, analysisVars,
                 pedVars, rpcVars, skipVars, lastdump, idless, kept>>

\* thservone and thcallback: the number of requests left pending, or -1
\* when the last one has just been answered.  With rpc_control = 0 and
\* nothing pending the loop blocks until a request is.
CallbackResults == {-1, 0, 1}

ServiceRPC ==
  /\ pc = "rpc"
  /\ \E pend \in CallbackResults :
       IF rpc_pend = 0 /\ rpc_control = 0 /\ pend = 0
       THEN UNCHANGED <<pc, rpcVars>>
       ELSE /\ rpc_pend' = IF pend < 0 THEN 0 ELSE pend
            /\ rpc_control' = IF rpc_control > 0 THEN rpc_control - 1 ELSE rpc_control
            /\ pc' = "tail"
  /\ UNCHANGED <<sourceVars, ABORT, problems, eof, eventVars, recordVars, analysisVars,
                 pedVars, skipVars, lastdump, failed, idless, kept, written>>

-----------------------------------------------------------------------------
(* The end of an iteration and of the run.                                 *)

\* (LimitReachedLate: a mutant, the test is one event late.)
LimitReachedLate ==
  /\ StopEvent > 0
  /\ gen_event_ID_number > 0
  /\ StopEvent < sum_analyzed - analyzed_events[4]

LimitReached ==
  /\ StopEvent > 0
  /\ gen_event_ID_number > 0
  /\ StopEvent <= sum_analyzed - analyzed_events[4]

\* (EndIterationAbove: a mutant, any later type ends the run.)
EndIterationAbove ==
  /\ pc = "tail"
  /\ eof' = (gen_event_type >= END_RUN \/ LimitReached)
  /\ pc' = "clear"
  /\ UNCHANGED <<sourceVars, ABORT, problems, eventVars, recordVars, analysisVars,
                 pedVars, rpcVars, skipVars, lastdump, failed, idless, kept, written>>

EndIteration ==
  /\ pc = "tail"
  /\ eof' = (gen_event_type = END_RUN \/ LimitReached)
  /\ pc' = "clear"
  /\ UNCHANGED <<sourceVars, ABORT, problems, eventVars, recordVars, analysisVars,
                 pedVars, rpcVars, skipVars, lastdump, failed, idless, kept, written>>

LeaveLoop ==
  /\ pc = "clear"
  /\ problems \/ ABORT \/ eof
  /\ pc' = "shutdown"
  /\ UNCHANGED <<sourceVars, ABORT, problems, eof, eventVars, recordVars, analysisVars,
                 pedVars, rpcVars, skipVars, lastdump, failed, idless, kept, written>>

\* G_proper_shutdown, g_ntuple_shutdown, and the pedestal dumps: errors are
\* reported and the rest is done all the same.
Shutdown ==
  /\ pc = "shutdown"
  /\ \E abort \in Outcomes("report") : ABORT' = abort
  /\ pc' = "done"
  /\ UNCHANGED <<sourceVars, problems, eof, eventVars, recordVars, analysisVars,
                 pedVars, rpcVars, skipVars, lastdump, failed, idless, kept, written>>

Finished == pc = "done" /\ UNCHANGED vars

Next ==
  \/ OpenSource \/ ClearEvent \/ GetEvent \/ Dispatch
  \/ AnalyzeScalers \/ DumpHistograms \/ ExamineControl
  \/ ExaminePhysics \/ Decode \/ Pedestals \/ Arms \/ Account
  \/ KeepResults \/ Preprocess \/ ServiceRPC
  \/ EndIteration \/ LeaveLoop \/ Shutdown \/ Finished

Blocked == pc = "rpc" /\ rpc_pend = 0 /\ rpc_control = 0

\* One sequential program: every step but a blocking wait for an RPC client
\* is taken in the end.
Spec == Init /\ [][Next]_vars
FairSpec == Spec /\ WF_vars(~Blocked /\ Next)

-----------------------------------------------------------------------------
(* Properties.                                                             *)

\* The state of the loop is of its type: flags, counters, stage.
TypeOK ==
  /\ SourceTypeOK
  /\ pc \in Stages
  /\ ABORT \in BOOLEAN /\ problems \in BOOLEAN /\ eof \in BOOLEAN
  /\ gen_event_type \in Nat /\ gen_event_ID_number \in Nat
  /\ recorded_events \in [TriggerTypes -> Nat] /\ sum_recorded \in Nat
  /\ analyzed_events \in [TriggerTypes -> Nat] /\ sum_analyzed \in Nat
  /\ physics_events \in Nat /\ total_event_count \in Nat
  /\ num_events_skipped \in Nat /\ lastdump \in Nat
  /\ update_peds \in BOOLEAN
  /\ rpc_control \in Int /\ rpc_pend \in 0 .. 1
  /\ failed \in BOOLEAN /\ skippedTypes \subseteq Enabled
  /\ newPeds \in Nat /\ idless \in Nat /\ kept \in Nat /\ written \in Nat

\* Between two iterations every trigger recorded is accounted for: an event
\* of an enabled type was analyzed or skipped before the starting event, and
\* the others were not analyzed (engine.f, the report at the end of the run).
Accounting ==
  pc = "clear" =>
    /\ \A t \in TriggerTypes \ {0} : /\ analyzed_events[t] <= recorded_events[t]
                                     /\ t \notin Enabled => analyzed_events[t] = 0
                                     /\ t \in Enabled \ skippedTypes =>
                                          analyzed_events[t] = recorded_events[t]
    /\ analyzed_events[0] = recorded_events[0]
    /\ sum_analyzed = physics_events

\* No event but a pedestal one (type 4) is analyzed before
\* gen_run_starting_event - 1 events were skipped, and no more than those
\* are ever skipped.
StartHonoured ==
  /\ num_events_skipped <= IF StartEvent > 0 THEN StartEvent - 1 ELSE 0
  /\ (sum_analyzed > analyzed_events[4]) => num_events_skipped + 1 >= StartEvent

\* The stopping event limits what is analyzed, pedestal events not counted;
\* the loop tests it only after events that carry an ID, so that only events
\* without one can go past it.
StopHonoured ==
  StopEvent > 0 => sum_analyzed - analyzed_events[4] <= StopEvent + idless

\* Every HKS, HES and coincidence event analyzed has its results kept, once,
\* unless the event ended the run.
ResultsKept ==
  pc = "clear" /\ ~problems =>
    kept = analyzed_events[1] + analyzed_events[2] + analyzed_events[3]

\* The preprocessor file gets an event at most once, although three places
\* of the loop write to it.
WrittenOnce == written <= 1

\* No event is reconstructed while pedestal events have been added up that
\* the pedestals in use do not include (g_reconstruction's update_peds).
PedestalsCurrent == pc = "arms" => newPeds = 0

\* The run ends, or waits for the RPC client it was told to wait for.
RunEnds == <>[](pc = "done" \/ Blocked)

\* A stopped run did stop for a reason: the loop is left only after an END
\* event, at the stopping event or after a call that failed.
LeftForAReason ==
  pc = "shutdown" => \/ gen_event_type = END_RUN
                     \/ StopEvent > 0 /\ sum_analyzed - analyzed_events[4] >= StopEvent
                     \/ failed

\* engine.f:67, "Loops through data until it encounters an error": no event
\* is read after an iteration in which a call returned ABORT.
ErrorEndsRun == [][pc = "clear" /\ failed => pc' = "shutdown"]_vars

\* engine.f:404, "always analyze peds": no pedestal event is skipped.
PedestalsNotSkipped == skippedTypes \intersect PedestalTypes = {}

\* g_open_source.f:76, "If filename doesn't end in a digit, try adding .0":
\* a name that ends in a digit is never taken as a segmented run.
DigitNotSegmented ==
  g_data_source_opened /\ NameEnd # "letter" => g_segment = -1

-----------------------------------------------------------------------------
(* What holds at every stage, from which the invariants follow.            *)

InTrigger == pc \in {"examine", "decode", "pedestal", "arms", "account"}
InEvent == InTrigger \/ pc \in {"get", "dispatch", "scaler", "dump", "control"}

\* The stage fits the event being processed.
StageInv ==
  /\ g_data_source_opened => Exists(g_segment)
  /\ pc \in {"dispatch", "scaler", "control", "examine", "decode"} => craw \in Events
  /\ (InTrigger \/ pc \in {"keep", "preproc"}) => gen_event_type \in Enabled
  /\ InEvent => ~problems

\* How often the event may have been written before the stage.
WriteInv ==
  /\ written <= 1
  /\ pc \in {"get", "dispatch", "scaler"} => written = 0
  /\ (InTrigger \/ pc \in {"keep", "preproc"}) =>
       (gen_event_type < gen_MAX_trigger_types - 1 => written = 0)

\* The event under way is the only one recorded and not yet analyzed.
CountInv ==
  /\ sum_analyzed = physics_events
  /\ \A t \in TriggerTypes \ {0} :
       LET done == analyzed_events[t] + (IF InTrigger /\ gen_event_type = t THEN 1 ELSE 0)
       IN  /\ done <= recorded_events[t]
           /\ t \notin Enabled => analyzed_events[t] = 0
           /\ t \in Enabled \ skippedTypes => done = recorded_events[t]
  /\ analyzed_events[0] + (IF pc = "scaler" THEN 1 ELSE 0) = recorded_events[0]

KeepInv ==
  ~problems =>
    kept + (IF pc = "keep" /\ gen_event_type \in KeptTypes THEN 1 ELSE 0)
      = analyzed_events[1] + analyzed_events[2] + analyzed_events[3]

PedestalInv ==
  /\ newPeds > 0 => update_peds
  /\ pc = "arms" => newPeds = 0

StartInv ==
  /\ StartHonoured
  /\ pc \in {"decode", "pedestal", "arms", "account"} /\ BeforeStart => gen_event_type = 4

MayGoOn ==
  \/ InEvent
  \/ pc = "open"
  \/ pc = "clear" /\ ~eof
  \/ pc \in {"keep", "preproc", "rpc", "tail"} /\ gen_event_ID_number = 0

\* The loop goes on below the limit, events without an ID not counted.
StopInv ==
  StopEvent > 0 =>
    /\ sum_analyzed - analyzed_events[4] <= StopEvent + idless
    /\ MayGoOn => sum_analyzed - analyzed_events[4] < StopEvent + idless

\* ABORT and problems are true for a call that failed, until the shutdown
\* reports on its own; eof for an END event or for the limit.
ReasonInv ==
  /\ pc # "done" /\ (ABORT \/ problems) => failed
  /\ pc \notin {"clear", "shutdown", "done"} => ~eof
  /\ pc \in {"clear", "shutdown"} /\ eof =>
       \/ gen_event_type = END_RUN
       \/ StopEvent > 0 /\ sum_analyzed - analyzed_events[4] >= StopEvent
  /\ pc = "shutdown" => problems \/ ABORT \/ eof

\* A segment stays open without having been read only after its first read
\* failed, which ends the run.
StreamInv ==
  g_data_source_opened => /\ pos <= Len(files[g_segment])
                          /\ g_segment > 0 /\ pos = 0 => problems

Inductive ==
  /\ TypeOK
  /\ StageInv
  /\ WriteInv
  /\ CountInv
  /\ KeepInv
  /\ PedestalInv
  /\ StartInv
  /\ StopInv

-----------------------------------------------------------------------------
(* The replay delivers one stream of events: the file, or its segments up  *)
(* to the first record that cannot be read of each, up to the first one    *)
(* that is missing or, past segment 0, has no readable event.              *)

\* What can be read of the file s after its first p records.
ReadableFrom(s, p) ==
  LET q == CHOOSE q \in p .. Len(s) : /\ \A i \in p + 1 .. q : s[i] \in Events
                                      /\ ~(q < Len(s) /\ s[q + 1] \in Events)
  IN  SubSeq(s, p + 1, q)

SegmentStream[n \in 0 .. MaxSegments] ==
  IF Exists(n) /\ Readable(n, 0) THEN ReadableFrom(files[n], 0) \o SegmentStream[n + 1] ELSE <<>>

ToDo ==
  CASE pc = "open" -> IF Exists(-1) THEN ReadableFrom(files[-1], 0)
                      ELSE IF TriesSegments /\ Exists(0)
                           THEN ReadableFrom(files[0], 0) \o SegmentStream[1]
                           ELSE <<>>
    [] pc # "open" /\ ~g_data_source_opened -> <<>>
    [] pc # "open" /\ g_data_source_opened ->
         ReadableFrom(files[g_segment], pos)
           \o (IF g_segment = 0 \/ (g_segment > 0 /\ pos > 0)
               THEN SegmentStream[g_segment + 1] ELSE <<>>)

AllStreams == Seq(Events)

Delivery == INSTANCE EventStream
  WITH Stream <- AllStreams, todo <- ToDo, current <- craw,
       running <- (pc \notin {"shutdown", "done"})

\* Whatever the loop does with the events, it takes them in the order of the
\* stream and passes none over.
DeliversStream == Delivery!Spec
=============================================================================
