------------------------------ MODULE SerialModes ------------------------------
(***************************************************************************)
(* The serial master in the modes that are not RTU: one UART, one timer    *)
(* and one event queue serve the ASCII and the PowerOne master in turn, as *)
(* the configurations of the gateway set the mode.                         *)
(***************************************************************************)
EXTENDS ModbusAsciiMaster, PowerOneMaster

CONSTANTS
  Starts,   \* the first registers of the requests
  Counts    \* the numbers of registers they ask for

ASSUME RequestAssumption ==
  \A s \in Starts, n \in Counts : s \in Nat /\ n \in 1 .. 255 /\ s + n <= 96

Init == PortInit

Working == AsciiTask \/ PowerOneTask \/ xMBPortEventGet \/ Timeout \/ Reply

TaskModbus ==
  \/ \E k \in {"read", "send"}, s \in Starts, n \in Counts : Begin(k, s, n)
  \/ \E m \in Modes : eMBInit(m)
  \/ Working \/ NothingDue

_U2RXInterrupt == xMBASCIIReceiveFSM \/ xPoweroneReceiveFSM

Line == AsciiAnswer \/ PowerOneAnswer \/ LineByte

Next == TaskModbus \/ TimerExpires \/ _T4Interrupt \/ _U2RXInterrupt \/ Line

(* Task, timer, interrupts and slave all go on while they can; no request  *)
(* and no configuration need come.                                         *)
Fairness ==
  /\ WF_vars(Working) /\ WF_vars(TimerExpires) /\ WF_vars(_T4Interrupt)
  /\ WF_vars(_U2RXInterrupt) /\ WF_vars(Line)

Spec == Init /\ [][Next]_vars /\ Fairness

----------------------------------------------------------------------------
(* The variables keep their types and no receiver leaves its buffer: in    *)
(* ASCII the length of a frame is the slave's choice (mbascii.c:266).      *)
TypeOK ==
  /\ PortTypeOK
  /\ Len(buf) <= (IF Ascii THEN 2 * PduMax ELSE AnswerLen)
  /\ eSndState \in {"IDLE", "START", "DATA", "END", "NOTIFY", "XMIT"}

(* What a transaction reports as its registers is the slave's: undamaged,  *)
(* sent by the slave asked in answer to the requests of this transaction,  *)
(* and for PowerOne, whose answers do not say what they answer             *)
(* (powerone.c:189), the groups asked for, in order and all of them.       *)
SuccessIsTheAnswer ==
  LET r == result
  IN  r.status = "ENOERR" =>
        /\ \A k \in DOMAIN r.parts :
             r.parts[k].tid = r.tid /\ r.parts[k].good /\ r.parts[k].own
        /\ \/ Len(r.parts) = 1 /\ r.parts[1].part = 0
           \/ /\ Len(r.parts) = (r.req.regs + 2) \div 3
              /\ \A k \in DOMAIN r.parts :
                   r.parts[k].part = r.req.start \div 3 + k

(* Every transaction ends, whatever the slave sends or leaves out, at the  *)
(* latest with a timeout; no assertion stops it (powerone.c:388,           *)
(* mbascii.c:435: one that fails leaves the processor in assert's loop).   *)
TransactionEnds == (pc # "idle") ~> (pc = "idle")
===============================================================================
