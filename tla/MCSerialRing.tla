---------------------------- MODULE MCSerialRing ----------------------------
(* Instances of SerialRing for TLC. *)
EXTENDS SerialRing

MCCounts == {1, 3}
MCStarts == {0, 1}
=============================================================================
