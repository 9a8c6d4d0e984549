-------------------------- MODULE ModbusAsciiMaster --------------------------
(***************************************************************************)
(* The Modbus ASCII master (modbus/ascii/mbascii.c): a frame is a colon,   *)
(* two characters for each byte, CR and LF.  The receiver finds it in what *)
(* arrives, the transmitter is driven by the loop of eMBASCIISend.  The    *)
(* LRC is right when the characters between colon and CR are those of one  *)
(* undamaged frame, all of them and in order.                              *)
(***************************************************************************)
EXTENDS MasterPort

CONSTANTS PduMax, PduMin, ReqLen, ReplyLen, AsciiLens

ASSUME AsciiAssumption ==
  {PduMax, PduMin, ReqLen, ReplyLen} \cup AsciiLens \subseteq Nat \ {0}

Ascii == mode = "ascii"
Nibble(f, i) == [kind |-> IF f.good THEN "digit" ELSE "bad", frame |-> f, i |-> i]
Sign(k)      == [NoChar EXCEPT !.kind = k]

----------------------------------------------------------------------------
(* eMBMReadRegisters, eMBMSendData and eMBASCIISend.                       *)
eMBASCIISend ==
  /\ TaskRuns /\ Ascii /\ pc = "send" /\ pc' = "xmit"
  /\ \/ /\ eRcvState = "IDLE"
        /\ eSndState' = "START" /\ usSndBufferCount' = ReqLen /\ vMBPortSerialEnable(FALSE)
        /\ UNCHANGED status
     \/ /\ eRcvState # "IDLE" /\ status' = "EIO"
        /\ UNCHANGED <<eSndState, usSndBufferCount, rxOn>>
  /\ UNCHANGED <<mode, tid, req, parts, result, eRcvState, eBytePos, buf,
                 event, timerOn, t4if, t4, line, abort>>

SendNibble ==
  /\ usSndBufferCount > 0 /\ UNCHANGED eSndState
  /\ \/ eBytePos = "HIGH" /\ eBytePos' = "LOW" /\ UNCHANGED usSndBufferCount
     \/ eBytePos = "LOW" /\ eBytePos' = "HIGH"
        /\ usSndBufferCount' = usSndBufferCount - 1

SendNext ==
  \/ eSndState = "START" /\ eSndState' = "DATA" /\ eBytePos' = "HIGH"
     /\ UNCHANGED usSndBufferCount
  \/ eSndState = "DATA" /\ SendNibble
  \/ /\ \/ eSndState = "DATA" /\ usSndBufferCount = 0 /\ eSndState' = "END"
        \/ eSndState = "END" /\ eSndState' = "NOTIFY"
        \/ eSndState = "NOTIFY" /\ eSndState' = "IDLE"
     /\ UNCHANGED <<usSndBufferCount, eBytePos>>

xMBASCIITransmitFSM ==
  /\ TaskRuns /\ Ascii /\ pc = "xmit"
  /\ \/ /\ eRcvState # "IDLE" /\ abort' = TRUE
        /\ UNCHANGED <<pc, eSndState, usSndBufferCount, eBytePos, rxOn, pending>>
     \/ /\ eRcvState = "IDLE" /\ SendNext
        /\ UNCHANGED <<pc, rxOn, pending, abort>>
     \/ /\ eRcvState = "IDLE" /\ eSndState = "IDLE" /\ SendIdle
        /\ UNCHANGED <<eSndState, usSndBufferCount, eBytePos, abort>>
  /\ UNCHANGED <<mode, tid, req, status, parts, result, eRcvState, buf,
                 event, timerOn, t4if, t4, shift, wire>>

----------------------------------------------------------------------------
(* The U2RX interrupt.                                                     *)
Nibbles   == Len(buf)              \* twice usRcvBufferPos, one more between two
NewFrame  == buf' = <<>> /\ eBytePos' = "HIGH"
KeepFrame == UNCHANGED <<eBytePos, buf>>

(* Mutant: there is room for one byte more than the buffer has.            *)
RoomForOneMore == Nibbles <= 2 * PduMax

RoomForByte == Nibbles < 2 * PduMax

(* T4 is started before the character is looked at, and stopped when the   *)
(* buffer is full.                                                         *)
Data(c) ==
  \/ /\ eBytePos = "HIGH" => RoomForByte
     /\ buf' = Append(buf, c) /\ vMBPortTimersEnable
     /\ eBytePos' = IF eBytePos = "HIGH" THEN "LOW" ELSE "HIGH"
     /\ UNCHANGED eRcvState
  \/ /\ eBytePos = "HIGH" /\ ~RoomForByte
     /\ eRcvState' = "IDLE" /\ timerOn' = FALSE /\ t4if' = FALSE
     /\ KeepFrame

InFrame(c) ==
  /\ \/ c.kind = "colon" /\ NewFrame /\ vMBPortTimersEnable /\ UNCHANGED eRcvState
     \/ c.kind = "cr" /\ eRcvState' = "WAIT_EOF" /\ vMBPortTimersEnable /\ KeepFrame
     \/ c.kind \notin {"colon", "cr"} /\ Data(c)
  /\ UNCHANGED <<event, rxOn>>

(* Mutant: T4 runs on when the frame is complete.                          *)
CompleteRunsOn ==
  /\ eRcvState' = "IDLE" /\ UNCHANGED <<timerOn, t4if>>
  /\ xMBPortEventPost /\ vMBPortSerialEnable(FALSE) /\ KeepFrame

Complete ==
  /\ eRcvState' = "IDLE" /\ vMBPortTimersDisable
  /\ xMBPortEventPost /\ vMBPortSerialEnable(FALSE) /\ KeepFrame

(* A character that is no LF leaves T4 running over an idle receiver.      *)
AfterCr(c) ==
  \/ c.kind = "lf" /\ Complete
  \/ /\ c.kind = "colon" /\ NewFrame /\ eRcvState' = "RCV" /\ vMBPortTimersEnable
     /\ UNCHANGED <<event, rxOn>>
  \/ /\ c.kind \notin {"lf", "colon"} /\ eRcvState' = "IDLE" /\ KeepFrame
     /\ UNCHANGED <<event, rxOn, timerOn, t4if>>

Between(c) ==
  /\ \/ c.kind = "colon" /\ NewFrame /\ eRcvState' = "RCV" /\ vMBPortTimersEnable
     \/ c.kind # "colon" /\ KeepFrame /\ UNCHANGED <<eRcvState, timerOn, t4if>>
  /\ UNCHANGED <<event, rxOn>>

xMBASCIIReceiveFSM ==
  /\ Running /\ Ascii /\ xMBPortSerialGetByte
  /\ \/ /\ eSndState # "IDLE" /\ abort' = TRUE
        /\ KeepFrame /\ UNCHANGED <<eRcvState, port>>
     \/ /\ eSndState = "IDLE" /\ UNCHANGED <<abort, t4>>
        /\ \/ eRcvState = "RCV" /\ InFrame(shift)
           \/ eRcvState = "WAIT_EOF" /\ AfterCr(shift)
           \/ eRcvState = "IDLE" /\ Between(shift)
  /\ UNCHANGED <<task, eSndState, usSndBufferCount, pending, wire>>

----------------------------------------------------------------------------
(* eMBASCIIReceive, then the address, function code and count in mb.c.     *)
Decoded ==
  LET f == Head(buf).frame
      n == Nibbles \div 2
  IN  IF n < PduMin THEN NoFrame
      ELSE IF /\ f.len = n /\ f.good
              /\ SubSeq(buf, 1, 2 * n) = [i \in 1 .. 2 * n |-> Nibble(f, i)]
           THEN f ELSE NoFrame

(* A read is answered by ReplyLen bytes; what else comes is passed on too.  *)
Verdict(f) ==
  CASE f = NoFrame -> "EIO"
    [] f # NoFrame /\ ~f.own -> "ETIMEDOUT"
    [] f.own /\ req.kind = "read" /\ f.len # ReplyLen -> "ENOREG"
    [] OTHER -> "ENOERR"

eMBASCIIReceive ==
  /\ TaskRuns /\ Ascii /\ pc = "receive"
  /\ \/ Nibbles >= 2 * PduMax /\ abort' = TRUE /\ UNCHANGED <<pc, status, parts>>
     \/ /\ Nibbles < 2 * PduMax /\ pc' = "reply" /\ status' = Verdict(Decoded)
        /\ parts' = IF status' \in {"ENOERR", "ENOREG"} THEN <<Decoded>> ELSE <<>>
        /\ UNCHANGED abort
  /\ UNCHANGED <<mode, tid, req, result, fsm, port, line>>

AsciiTask == eMBASCIISend \/ xMBASCIITransmitFSM \/ eMBASCIIReceive

(* What a slave sends: bytes counted with address and LRC.                 *)
AsciiFrame(f) ==
  <<Sign("colon")>> \o [i \in 1 .. 2 * f.len |-> Nibble(f, i)]
    \o <<Sign("cr"), Sign("lf")>>

AsciiAnswer ==
  /\ Ascii
  /\ \E f \in Frames(0, AsciiLens) :
       \/ \E s \in Spoilt(f, AsciiFrame(f)) : Answers(s)
       \/ "nolf" \in Noise /\ Answers(Front(AsciiFrame(f)) \o <<Sign("cr")>>)
===============================================================================
