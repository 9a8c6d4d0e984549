------------------------- MODULE MCModbusRtuMaster -------------------------
(* Instances of ModbusRtuMaster for TLC. *)
EXTENDS ModbusRtuMaster

CONSTANTS s1, s2

MCSlaves == {s1, s2}

(* Too short, exact, and too long for the buffer of three bytes. *)
MCReplyLens == {1, 2, 4}
MCOneSlave == {s1}
MCOneLen == {2}
(* The length that fills the buffer exactly. *)
MCFullReply == {2, 3}
============================================================================
