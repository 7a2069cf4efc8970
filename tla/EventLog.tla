------------------------------- MODULE EventLog -------------------------------
(***************************************************************************)
(* What the CODA file routines promise their caller: the events a reader   *)
(* gets are those that were written, whole and in order.                   *)
(***************************************************************************)
EXTENDS Naturals, Sequences

VARIABLES
  log,        \* the events written
  delivered   \* the events read

vars == <<log, delivered>>

Init == log = <<>> /\ delivered = <<>>

\* An event goes to the end; those before it stay as they are.
Write ==
  /\ Len(log') = Len(log) + 1
  /\ SubSeq(log', 1, Len(log)) = log
  /\ UNCHANGED delivered

Read ==
  /\ Len(delivered) < Len(log)
  /\ delivered' = Append(delivered, log[Len(delivered) + 1])
  /\ UNCHANGED log

Next == Write \/ Read

Spec == Init /\ [][Next]_vars
=============================================================================
