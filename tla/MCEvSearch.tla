----------------------------- MODULE MCEvSearch ------------------------------
(***************************************************************************)
(* Instances of EvSearch.                                                  *)
(***************************************************************************)
EXTENDS EvSearch

OneSpecial == {{}, {1}, {2}, {3}}
AnyJunk == [len : {1}, physics : BOOLEAN, number : {2, 5}]

\* So FileDeliversLog is about it.
ASSUME OtherSizesAssumption == OtherSizes
=============================================================================
