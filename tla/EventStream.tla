----------------------------- MODULE EventStream -----------------------------
(***************************************************************************)
(* What a replay promises about its input, whatever files hold it: the     *)
(* events of one stream are processed in its order, each once, none is     *)
(* passed over, and the replay stops for good.                             *)
(***************************************************************************)
EXTENDS Sequences

CONSTANT Stream  \* the streams there may be

VARIABLES
  todo,      \* events not yet delivered
  current,   \* the event delivered last
  running

vars == <<todo, current, running>>

Init ==
  /\ todo \in Stream
  /\ running = TRUE

Deliver ==
  /\ running
  /\ todo # <<>>
  /\ current' = Head(todo)
  /\ todo' = Tail(todo)
  /\ UNCHANGED running

Stop ==
  /\ running
  /\ running' = FALSE
  /\ UNCHANGED <<todo, current>>

Next == Deliver \/ Stop

Spec == Init /\ [][Next]_vars
=============================================================================
