---------------------------- MODULE PowerOneMaster ----------------------------
(***************************************************************************)
(* The PowerOne master (modbus/powerone/powerone.c): a read of registers   *)
(* is a sequence of requests of ten bytes, one for each group of three,    *)
(* answered by eight bytes of which six are kept.  An answer says nothing  *)
(* of the request it belongs to.                                           *)
(***************************************************************************)
EXTENDS MasterPort

PowerOne  == mode = "powerone"
AnswerLen == 8
Room      == 93      \* the last register a command may start at

----------------------------------------------------------------------------
(* ePoweroneReadRegisters: the groups from that of the first register on.  *)
(* Mutant: the registers of the last, incomplete group are not asked for.  *)
WholeGroups == 3 * Len(parts) + 3 <= req.regs

ePoweroneNextCmd == 3 * Len(parts) < req.regs

Group == req.start \div 3 + Len(parts) + 1     \* 0 is no group

Refused ==
  /\ req.kind = "send"
  /\ req.start > Room \/ req.start % 3 # 0 \/ req.regs % 3 # 0

ePoweroneSend ==
  /\ TaskRuns /\ PowerOne /\ pc = "send"
  /\ \/ /\ Refused /\ pc' = "reply" /\ status' = "ENOREG"
        /\ UNCHANGED <<eSndState, usSndBufferCount, rxOn>>
     \/ /\ ~Refused /\ ~ePoweroneNextCmd /\ pc' = "reply"
        /\ UNCHANGED <<status, eSndState, usSndBufferCount, rxOn>>
     \/ /\ ~Refused /\ ePoweroneNextCmd /\ eRcvState = "IDLE" /\ pc' = "xmit"
        /\ eSndState' = "XMIT" /\ usSndBufferCount' = 10 /\ vMBPortSerialEnable(FALSE)
        /\ UNCHANGED status
     \/ /\ ~Refused /\ ePoweroneNextCmd /\ eRcvState # "IDLE" /\ pc' = "xmit"
        /\ status' = "EIO" /\ UNCHANGED <<eSndState, usSndBufferCount, rxOn>>
  /\ UNCHANGED <<mode, tid, req, parts, result, eRcvState, eBytePos, buf,
                 event, timerOn, t4if, t4, line, abort>>

xPoweroneTransmitFSM ==
  /\ TaskRuns /\ PowerOne /\ pc = "xmit"
  /\ \/ /\ eRcvState # "IDLE" /\ abort' = TRUE
        /\ UNCHANGED <<pc, eSndState, usSndBufferCount, rxOn, pending>>
     \/ /\ eRcvState = "IDLE" /\ eSndState = "XMIT" /\ usSndBufferCount # 0
        /\ usSndBufferCount' = usSndBufferCount - 1
        /\ UNCHANGED <<pc, eSndState, rxOn, pending, abort>>
     \/ /\ eRcvState = "IDLE" /\ eSndState = "XMIT" /\ usSndBufferCount = 0
        /\ eSndState' = "IDLE"
        /\ UNCHANGED <<pc, usSndBufferCount, rxOn, pending, abort>>
     \/ /\ eRcvState = "IDLE" /\ eSndState = "IDLE" /\ SendIdle
        /\ UNCHANGED <<eSndState, usSndBufferCount, abort>>
  /\ UNCHANGED <<mode, tid, req, status, parts, result, eRcvState, eBytePos,
                 buf, event, timerOn, t4if, t4, shift, wire>>

----------------------------------------------------------------------------
(* The U2RX interrupt: the eighth byte ends the answer.                    *)
FirstByte ==
  /\ eRcvState = "IDLE" /\ eRcvState' = "RCV"
  /\ buf' = <<shift>> /\ vMBPortTimersEnable /\ UNCHANGED <<event, rxOn>>

NextByte ==
  /\ eRcvState = "RCV" /\ buf' = Append(buf, shift) /\ vMBPortTimersEnable
  /\ eRcvState' = IF Len(buf') = 7 THEN "WAIT_EOF" ELSE "RCV"
  /\ UNCHANGED <<event, rxOn>>

LastByte ==
  /\ eRcvState = "WAIT_EOF" /\ buf' = Append(buf, shift)
  /\ eRcvState' = "IDLE" /\ vMBPortTimersDisable
  /\ xMBPortEventPost /\ vMBPortSerialEnable(FALSE)

xPoweroneReceiveFSM ==
  /\ Running /\ PowerOne /\ xMBPortSerialGetByte
  /\ \/ /\ eSndState # "IDLE" /\ abort' = TRUE
        /\ UNCHANGED <<eRcvState, buf, port>>
     \/ /\ eSndState = "IDLE" /\ (FirstByte \/ NextByte \/ LastByte)
        /\ UNCHANGED <<abort, t4>>
  /\ UNCHANGED <<task, eSndState, usSndBufferCount, eBytePos, pending, wire>>

----------------------------------------------------------------------------
(* ePoweroneReceive: the length is asserted, the CRC of six bytes checked. *)
PowerOneFrame(f) ==
  [i \in 1 .. AnswerLen |-> [kind |-> "byte", frame |-> f, i |-> i]]

Whole == Head(buf).frame.good /\ buf = PowerOneFrame(Head(buf).frame)

ePoweroneReceive ==
  /\ TaskRuns /\ PowerOne /\ pc = "receive"
  /\ \/ Len(buf) # AnswerLen /\ abort' = TRUE /\ UNCHANGED <<pc, status, parts>>
     \/ /\ Len(buf) = AnswerLen /\ ~Whole
        /\ pc' = "reply" /\ status' = "EIO" /\ UNCHANGED <<parts, abort>>
     \/ /\ Len(buf) = AnswerLen /\ Whole
        /\ pc' = "send" /\ parts' = Append(parts, Head(buf).frame)
        /\ UNCHANGED <<status, abort>>
  /\ UNCHANGED <<mode, tid, req, result, fsm, port, line>>

PowerOneTask == ePoweroneSend \/ xPoweroneTransmitFSM \/ ePoweroneReceive

PowerOneAnswer ==
  /\ PowerOne
  /\ \E f \in Frames(Group, {AnswerLen}) :
       /\ f.own
       /\ \E s \in Spoilt(f, PowerOneFrame(f)) : Answers(s)
===============================================================================
