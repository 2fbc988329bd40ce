-------------------------- MODULE MC_DataConverter --------------------------
(* Instances of DataConverter for TLC. *)
EXTENDS DataConverter, TLC
=============================================================================
