-------------------------------- MODULE MCRpc ---------------------------------
(***************************************************************************)
(* Instances of Rpc: clients with their lists and tests.                   *)
(***************************************************************************)
EXTENDS Rpc

\* One client gets all its variables, the other asks for one that the
\* analyzer does not have.
TwoLists == [c \in Clients |-> IF c = "display" THEN {<<"x", "y">>} ELSE {<<"x", "z">>}]
TwoCalls == [c \in Clients |-> IF c = "display" THEN 2 ELSE 1]

OneList == [c \in Clients |-> {<<"x", "y">>}]

\* Each test there is.
AnyTest == [c \in Clients |-> Conditions]

\* The clients of TwoLists keep to one question, as SuccessIsOneEvent asks.
ASSUME TwoListsAssumption == Lists = TwoLists /\ Tests = AnyTest /\ Conditions = {"hit"} => OneQuestion
=============================================================================
