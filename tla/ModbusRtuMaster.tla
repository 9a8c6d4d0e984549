-------------------------- MODULE ModbusRtuMaster --------------------------
(***************************************************************************)
(* The Modbus RTU master of the gateway: one transaction of TaskModbus     *)
(* (eMBMReadRegisters / eMBMSendData), the receive and transmit state      *)
(* machines of modbus/rtu/mbrtu.c, the event queue of portevent.c, the     *)
(* T4 timer of porttimer.c, and the RS485 line with its slaves.            *)
(*                                                                         *)
(* Four actors interleave:                                                 *)
(*   - TaskModbus, whose program counter is pc;                            *)
(*   - FlyportTask, which may suspend TaskModbus and run eMBInit/eMBEnable *)
(*     (do_config), with program counter cfg;                              *)
(*   - the T4 interrupt (priority 1), masked by ENTER_CRITICAL_SECTION,    *)
(*     with program counter t4;                                            *)
(*   - the U2RX interrupt (priority 4), which no critical section of the   *)
(*     port masks and which nests over everything else.                    *)
(* A byte is the pair of the frame it belongs to and its index there, so   *)
(* the CRC check is: the received bytes are all the bytes of one good      *)
(* frame, in order.                                                        *)
(***************************************************************************)
EXTENDS Naturals

CONSTANTS
  Slaves,       \* slave addresses
  MaxReq,       \* bound on the number of transactions
  PduMax,       \* MB_SER_PDU_SIZE_MAX
  PduMin,       \* MB_SER_PDU_SIZE_MIN
  ReqLen,       \* bytes of a request on the line
  ReplyLens,    \* bytes a slave may answer with
  LateReplies,  \* a slave may answer after the master gave up
  FrameGaps,    \* a slave may pause for more than t3.5 inside a frame
  Reconfigure   \* do_config may run while a transaction is open

ASSUME SizesAssumption ==
  /\ MaxReq \in Nat /\ PduMax \in Nat /\ PduMin \in Nat /\ ReqLen \in Nat
  /\ 1 <= PduMin /\ PduMin <= ReqLen /\ ReqLen < PduMax
  /\ ReplyLens \subseteq Nat \ {0}
ASSUME EnvAssumption ==
  {LateReplies, FrameGaps, Reconfigure} \subseteq BOOLEAN

Kinds    == {"read", "send"}
Statuses == {"ENOERR", "ENOREG", "EIO", "ETIMEDOUT"}
Asserts  == {"none", "len163", "rx242", "tx301", "t35_362"}

(***************************************************************************)
(* Frames.  dir is "req" or "rep"; good says that its CRC is right; fits   *)
(* says that function code and byte count answer the read of transaction   *)
(* tid (mb.c:489).                                                         *)
(***************************************************************************)
NoFrame == [dir |-> "none", tid |-> 0, slave |-> 0, len |-> 0,
            good |-> FALSE, fits |-> FALSE]
Request(t, s) == [dir |-> "req", tid |-> t, slave |-> s, len |-> ReqLen,
                  good |-> TRUE, fits |-> FALSE]
Frame == [dir : {"none", "req", "rep"}, tid : Nat, slave : Slaves \cup {0},
          len : Nat, good : BOOLEAN, fits : BOOLEAN]
Byte  == Frame \X Nat
NoByte  == <<NoFrame, 0>>
NoEvent == 0

VARIABLES
  pc,        \* TaskModbus inside a transaction
  tid,       \* transactions begun
  req,       \* the open transaction: kind and request frame
  status,    \* eStatus of the open transaction
  rcvLen,    \* length eMBRTUReceive returned
  result,    \* what the last finished transaction returned to TaskModbus
  eRcvState, eSndState, usSndBufferCount, usRcvBufferPos,
  buf,       \* ucRTUBuf, shared by both directions
  event,     \* the event in xQueueHdl: the tid it was posted in, or NoEvent
  timerOn,   \* T4CON.TON
  t4if,      \* T4IF: the timer expired and its interrupt is pending
  t4,        \* where the T4 interrupt routine is
  rxOn,      \* RS485 direction: TRUE when the receiver is enabled
  shift,     \* the byte the UART is receiving
  struck,    \* a hardware event fell into the short window now open
  cfg,       \* where do_config is in FlyportTask
  startBy,   \* who runs eMBRTUStart
  startAt,   \* how far eMBRTUStart got
  pending,   \* requests slaves heard and did not answer yet
  wire,      \* the frame a slave is sending, and the bytes already sent
  answers,   \* every reply any slave began to send
  abort      \* the assertion that stopped the program

task  == <<pc, tid, req, status, rcvLen, result>>
port  == <<event, timerOn, t4if, t4, rxOn, shift, struck>>
conf  == <<cfg, startBy, startAt>>
line  == <<pending, wire, answers>>
fsm   == <<eRcvState, eSndState, usSndBufferCount, usRcvBufferPos, buf>>
vars  == <<task, fsm, port, conf, line, abort>>

NoResult == [tid |-> 0, status |-> "ETIMEDOUT", frame |-> NoFrame]
NoWire   == [frame |-> NoFrame, sent |-> 0]

(***************************************************************************)
(* Who may run.  A task runs when no interrupt routine is active; a        *)
(* pending T4 interrupt is taken at once, unless a critical section of     *)
(* either task keeps it out.                                               *)
(***************************************************************************)
Running     == abort = "none"
Critical    == pc = "arm" \/ startBy # "nobody"
TasksMayRun == Running /\ t4 = "out" /\ (t4if => Critical)
TaskRuns    == TasksMayRun /\ cfg = "none"
LineQuiet   == wire = NoWire /\ shift = NoByte

(***************************************************************************)
(* A critical section and the T4 routine last microseconds; a byte takes   *)
(* longer than 0.08 ms at any baud rate the gateway is given and t3.5 at   *)
(* least 1.75 ms, so at most one of them begins or ends in such a window.  *)
(***************************************************************************)
ShortWindow == Critical \/ t4 # "out"
Strike      == ~(ShortWindow /\ struck) /\ struck' = ShortWindow

(* The frame the first n bytes of the buffer make up, NoFrame when the CRC *)
(* over them is wrong.                                                     *)
FrameOf(b, n) ==
  LET f == b[0][1]
  IN  IF f.good /\ f.len = n /\ \A i \in 0 .. n - 1 : b[i] = <<f, i>>
      THEN f ELSE NoFrame

Init ==
  /\ pc = "idle" /\ tid = 0 /\ status = "ENOERR" /\ rcvLen = 0
  /\ req = [kind |-> "read", frame |-> NoFrame]
  /\ result = NoResult
  /\ eRcvState = "IDLE" /\ eSndState = "IDLE"
  /\ usSndBufferCount = 0 /\ usRcvBufferPos = 0
  /\ buf = [i \in 0 .. PduMax - 1 |-> NoByte]
  /\ event = NoEvent /\ timerOn = FALSE /\ t4if = FALSE /\ t4 = "out"
  /\ rxOn = FALSE /\ shift = NoByte /\ struck = FALSE
  /\ cfg = "none" /\ startBy = "nobody" /\ startAt = "state"
  /\ pending = {} /\ wire = NoWire /\ answers = {}
  /\ abort = "none"

(***************************************************************************)
(* Plausible slips in this code, to test the properties with: each stands  *)
(* for the definition of the name without its suffix.                      *)
(***************************************************************************)

(* The receiver is turned on when the last byte is written to the UART.    *)
TransmitFSMEarly ==
  /\ TaskRuns /\ pc = "xmit" /\ eRcvState = "IDLE"
  /\ \/ /\ eSndState = "XMIT" /\ usSndBufferCount # 0
        /\ usSndBufferCount' = usSndBufferCount - 1
        /\ rxOn' = (usSndBufferCount = 1)
        /\ UNCHANGED <<pc, eSndState, pending>>
     \/ /\ eSndState = "XMIT" /\ usSndBufferCount = 0
        /\ eSndState' = "IDLE" /\ pc' = "wait"
        /\ pending' = pending \cup {req.frame}
        /\ UNCHANGED <<usSndBufferCount, rxOn>>
  /\ UNCHANGED <<tid, req, status, rcvLen, result, eRcvState, usRcvBufferPos,
                 buf, event, timerOn, t4if, t4, shift, struck, conf, wire,
                 answers, abort>>

(* A timeout makes the master wait again.                                  *)
TimeoutRetries ==
  /\ TaskRuns /\ pc = "wait" /\ event = NoEvent
  /\ status' = "ETIMEDOUT"
  /\ UNCHANGED <<pc, tid, req, rcvLen, result, fsm, port, conf, line, abort>>

(* A bad CRC is not an error.                                              *)
VerdictNoCrc(f) ==
  IF f = NoFrame \/ f.slave = req.frame.slave THEN "ENOERR" ELSE "ETIMEDOUT"

(* eMBRTUStart does not reset the receive state.                           *)
StartIdleNot ==
  /\ TasksMayRun /\ startBy # "nobody" /\ startAt = "state"
  /\ startAt' = "serial"
  /\ UNCHANGED <<task, fsm, port, cfg, startBy, line, abort>>

(* eMBRTUStart leaves the receiver on.                                     *)
StartSerialNot ==
  /\ TasksMayRun /\ startBy # "nobody" /\ startAt = "serial"
  /\ startAt' = "timer"
  /\ UNCHANGED <<task, fsm, port, cfg, startBy, line, abort>>

(* The configuration ends without resuming TaskModbus.                     *)
StartTimerNoResume ==
  /\ TasksMayRun /\ startBy # "nobody" /\ startAt = "timer"
  /\ timerOn' = FALSE
  /\ startAt' = "state" /\ startBy' = "nobody"
  /\ pc' = IF startBy = "task" THEN "reply" ELSE pc
  /\ UNCHANGED <<tid, req, status, rcvLen, result, fsm, event, t4if, t4, rxOn,
                 shift, struck, cfg, line, abort>>

(* T4 does not stop itself.                                                *)
T35TimerRuns ==
  /\ Running /\ t4 = "timer"
  /\ t4' = "state"
  /\ UNCHANGED <<task, fsm, event, timerOn, t4if, rxOn, shift, struck, conf,
                 line, abort>>

(* T4 does not put the receiver back to idle.                              *)
T35LeaveNot ==
  /\ Running /\ t4 = "state"
  /\ t4if' = FALSE
  /\ t4' = "out"
  /\ UNCHANGED <<task, fsm, event, timerOn, rxOn, shift, struck, conf, line,
                 abort>>

(* The first byte of a frame is stored and not counted.                    *)
StoreByteUncounted ==
  \/ /\ eRcvState = "IDLE"
     /\ buf' = [buf EXCEPT ![0] = shift]
     /\ usRcvBufferPos' = 0
     /\ eRcvState' = "RCV"
  \/ /\ eRcvState # "IDLE" /\ usRcvBufferPos < PduMax
     /\ buf' = [buf EXCEPT ![usRcvBufferPos] = shift]
     /\ usRcvBufferPos' = usRcvBufferPos + 1
     /\ eRcvState' = eRcvState

(* The test for a full buffer is off by one.                               *)
StoreByteOffByOne ==
  \/ /\ eRcvState = "IDLE"
     /\ buf' = [buf EXCEPT ![0] = shift]
     /\ usRcvBufferPos' = 1
     /\ eRcvState' = "RCV"
  \/ /\ eRcvState = "RCV" /\ usRcvBufferPos <= PduMax
     /\ buf' = [buf EXCEPT ![usRcvBufferPos] = shift]
     /\ usRcvBufferPos' = usRcvBufferPos + 1
     /\ eRcvState' = eRcvState

(***************************************************************************)
(* TaskModbus: a poll or a command starts a transaction.  A command is     *)
(* received by copying a whole queue item over the shared buffer.          *)
(***************************************************************************)
Begin(k, s) ==
  /\ TaskRuns /\ pc = "idle" /\ tid < MaxReq
  /\ pc' = "send" /\ tid' = tid + 1
  /\ req' = [kind |-> k, frame |-> Request(tid + 1, s)]
  /\ status' = "ENOERR"
  /\ buf' = IF k = "send" THEN [i \in 0 .. PduMax - 1 |-> NoByte] ELSE buf
  /\ UNCHANGED <<rcvLen, result, eRcvState, eSndState, usSndBufferCount,
                 usRcvBufferPos, port, conf, line, abort>>

(* The TaskModbus loop with nothing received and no poll due.              *)
NothingDue ==
  /\ TaskRuns /\ pc = "idle"
  /\ UNCHANGED vars

(* eMBRTUSend: the test of eRcvState, inside the critical section.         *)
SendTest ==
  /\ TaskRuns /\ pc = "send"
  /\ struck' = FALSE
  /\ \/ eRcvState = "IDLE" /\ pc' = "arm" /\ status' = status
     \/ eRcvState # "IDLE" /\ pc' = "armed" /\ status' = "EIO"
  /\ UNCHANGED <<tid, req, rcvLen, result, fsm, event, timerOn, t4if, t4, rxOn,
                 shift, conf, line, abort>>

(* eMBRTUSend: the frame is completed in the buffer, the driver turned on. *)
SendArm ==
  /\ TaskRuns /\ pc = "arm"
  /\ pc' = "armed"
  /\ buf' = [i \in 0 .. PduMax - 1 |->
               IF i < ReqLen THEN <<req.frame, i>> ELSE buf[i]]
  /\ usSndBufferCount' = ReqLen
  /\ eSndState' = "XMIT"
  /\ rxOn' = FALSE
  /\ UNCHANGED <<tid, req, status, rcvLen, result, eRcvState, usRcvBufferPos,
                 event, timerOn, t4if, t4, shift, struck, conf, line, abort>>

(* vTaskSuspendAll between the critical section and the transmit loop.     *)
SuspendAll ==
  /\ TaskRuns /\ pc = "armed"
  /\ pc' = "xmit"
  /\ UNCHANGED <<tid, req, status, rcvLen, result, fsm, port, conf, line, abort>>

(* One call of xMBRTUTransmitFSM.  In the idle state it waits until the    *)
(* last byte has left the UART, so only then has a slave heard the request.*)
TransmitFSM ==
  /\ TaskRuns /\ pc = "xmit"
  /\ IF eRcvState # "IDLE"
     THEN /\ abort' = "tx301"
          /\ UNCHANGED <<pc, result, eSndState, usSndBufferCount, rxOn, pending>>
     ELSE /\ abort' = abort
          /\ \/ /\ eSndState = "XMIT" /\ usSndBufferCount # 0
                /\ usSndBufferCount' = usSndBufferCount - 1
                /\ UNCHANGED <<pc, result, eSndState, rxOn, pending>>
             \/ /\ eSndState = "XMIT" /\ usSndBufferCount = 0
                /\ eSndState' = "IDLE"
                /\ UNCHANGED <<pc, result, usSndBufferCount, rxOn, pending>>
             \/ /\ eSndState = "IDLE"
                /\ rxOn' = TRUE
                /\ IF status = "ENOERR"
                   THEN /\ pc' = "wait" /\ result' = result
                        /\ pending' = pending \cup {req.frame}
                   ELSE /\ pc' = "idle" /\ pending' = pending
                        /\ result' = [tid |-> tid, status |-> status,
                                      frame |-> NoFrame]
                /\ UNCHANGED <<eSndState, usSndBufferCount>>
  /\ UNCHANGED <<tid, req, status, rcvLen, eRcvState, usRcvBufferPos, buf,
                 event, timerOn, t4if, t4, shift, struck, conf, wire, answers>>

(* xMBPortEventGet: an event is there.                                     *)
GetEvent ==
  /\ TaskRuns /\ pc = "wait" /\ event # NoEvent
  /\ event' = NoEvent
  /\ pc' = "receive"
  /\ UNCHANGED <<tid, req, status, rcvLen, result, fsm, timerOn, t4if, t4, rxOn,
                 shift, struck, conf, line, abort>>

(***************************************************************************)
(* xMBPortEventGet: MB_EVENT_GET_TIMEOUT_MS passed.  When every slave is   *)
(* prompt, it answers completely within that time or not at all.           *)
(***************************************************************************)
Settled ==
  /\ pending = {} /\ LineQuiet
  /\ ~timerOn /\ ~t4if /\ t4 = "out"

Timeout ==
  /\ TaskRuns /\ pc = "wait" /\ event = NoEvent
  /\ LateReplies \/ Settled
  /\ pc' = "stop" /\ status' = "ETIMEDOUT"
  /\ UNCHANGED <<tid, req, rcvLen, result, fsm, port, conf, line, abort>>

(* eMBStopTxRx calls eMBRTUStart and enters its critical section.          *)
StopTxRx ==
  /\ TaskRuns /\ pc = "stop" /\ startBy = "nobody"
  /\ startBy' = "task" /\ startAt' = "state" /\ struck' = FALSE
  /\ UNCHANGED <<task, fsm, event, timerOn, t4if, t4, rxOn, shift, cfg, line, abort>>

(* eMBRTUReceive and the checks that follow it in mb.c.                    *)
Verdict(f) ==
  IF f = NoFrame THEN "EIO"
  ELSE IF f.slave # req.frame.slave THEN "ETIMEDOUT"
  ELSE IF req.kind = "read" /\ ~f.fits THEN "ENOREG"
  ELSE "ENOERR"

Receive ==
  /\ TaskRuns /\ pc = "receive"
  /\ IF usRcvBufferPos >= PduMax
     THEN /\ abort' = "len163"
          /\ UNCHANGED <<pc, status, rcvLen>>
     ELSE LET f == IF usRcvBufferPos >= PduMin
                   THEN FrameOf(buf, usRcvBufferPos) ELSE NoFrame
          IN  /\ abort' = abort
              /\ pc' = "reply"
              /\ status' = Verdict(f)
              /\ rcvLen' = IF f = NoFrame THEN rcvLen ELSE usRcvBufferPos
  /\ UNCHANGED <<tid, req, result, fsm, port, conf, line>>

(* TaskModbus copies the frame out of the shared buffer (send_msg).        *)
Reply ==
  /\ TaskRuns /\ pc = "reply"
  /\ pc' = "idle"
  /\ result' = [tid |-> tid, status |-> status,
                frame |-> IF status \in {"ENOERR", "ENOREG"}
                          THEN FrameOf(buf, rcvLen) ELSE NoFrame]
  /\ UNCHANGED <<tid, req, status, rcvLen, fsm, port, conf, line, abort>>

(***************************************************************************)
(* eMBRTUStart, run by TaskModbus after a timeout or by FlyportTask in     *)
(* eMBEnable: three writes in a critical section U2RX is not masked by.    *)
(***************************************************************************)
StartIdle ==
  /\ TasksMayRun /\ startBy # "nobody" /\ startAt = "state"
  /\ eRcvState' = "IDLE"
  /\ startAt' = "serial"
  /\ UNCHANGED <<task, eSndState, usSndBufferCount, usRcvBufferPos, buf, port,
                 cfg, startBy, line, abort>>

StartSerial ==
  /\ TasksMayRun /\ startBy # "nobody" /\ startAt = "serial"
  /\ rxOn' = FALSE
  /\ startAt' = "timer"
  /\ UNCHANGED <<task, fsm, event, timerOn, t4if, t4, shift, struck, cfg, startBy, line,
                 abort>>

(* vMBPortTimersDisable clears T4CON and leaves T4IF as it is.             *)
StartTimer ==
  /\ TasksMayRun /\ startBy # "nobody" /\ startAt = "timer"
  /\ timerOn' = FALSE
  /\ startAt' = "state" /\ startBy' = "nobody"
  /\ IF startBy = "task" THEN pc' = "reply" /\ cfg' = cfg
                         ELSE cfg' = "none" /\ pc' = pc
  /\ UNCHANGED <<tid, req, status, rcvLen, result, fsm, event, t4if, t4, rxOn,
                 shift, struck, line, abort>>

(***************************************************************************)
(* FlyportTask: mqtt_callback suspends TaskModbus wherever it is preempted *)
(* and do_config runs eMBInit (UART off and on again, in a critical        *)
(* section) and eMBEnable.                                                 *)
(***************************************************************************)
ConfigInit ==
  /\ Reconfigure
  /\ TaskRuns /\ ~Critical /\ pc # "xmit"
  /\ cfg' = "enable"
  /\ shift' = NoByte
  /\ UNCHANGED <<task, fsm, event, timerOn, t4if, t4, rxOn, struck, startBy, startAt,
                 line, abort>>

ConfigEnable ==
  /\ TasksMayRun /\ cfg = "enable" /\ startBy = "nobody"
  /\ startBy' = "config" /\ startAt' = "state" /\ struck' = FALSE
  /\ UNCHANGED <<task, fsm, event, timerOn, t4if, t4, rxOn, shift, cfg, line, abort>>

(***************************************************************************)
(* The T4 interrupt: xMBRTUTimerT35Expired.  U2RX may come between any two *)
(* of its writes.                                                          *)
(***************************************************************************)
TimerExpires ==
  /\ Running /\ timerOn /\ ~t4if /\ t4 = "out"
  /\ FrameGaps \/ LineQuiet
  /\ t4if' = TRUE /\ Strike
  /\ UNCHANGED <<task, fsm, event, timerOn, t4, rxOn, shift, conf, line, abort>>

T35Enter ==
  /\ Running /\ t4 = "out" /\ t4if /\ ~Critical
  /\ struck' = FALSE
  /\ CASE eRcvState = "RCV" ->
            /\ event' = IF event = NoEvent THEN tid ELSE event
            /\ t4' = "serial" /\ abort' = abort
       [] eRcvState = "ERROR" -> t4' = "timer" /\ UNCHANGED <<event, abort>>
       [] OTHER -> abort' = "t35_362" /\ UNCHANGED <<event, t4>>
  /\ UNCHANGED <<task, fsm, timerOn, t4if, rxOn, shift, conf, line>>

T35Serial ==
  /\ Running /\ t4 = "serial"
  /\ rxOn' = FALSE
  /\ t4' = "timer"
  /\ UNCHANGED <<task, fsm, event, timerOn, t4if, shift, struck, conf, line, abort>>

T35Timer ==
  /\ Running /\ t4 = "timer"
  /\ timerOn' = FALSE
  /\ t4' = "state"
  /\ UNCHANGED <<task, fsm, event, t4if, rxOn, shift, struck, conf, line, abort>>

T35Leave ==
  /\ Running /\ t4 = "state"
  /\ eRcvState' = "IDLE"
  /\ t4if' = FALSE
  /\ t4' = "out"
  /\ UNCHANGED <<task, eSndState, usSndBufferCount, usRcvBufferPos, buf, event,
                 timerOn, rxOn, shift, struck, conf, line, abort>>

(***************************************************************************)
(* The U2RX interrupt: xMBRTUReceiveFSM.  vMBPortTimersEnable restarts T4  *)
(* and clears T4IF.                                                        *)
(***************************************************************************)
StoreByte ==
  \/ /\ eRcvState = "IDLE"
     /\ buf' = [buf EXCEPT ![0] = shift]
     /\ usRcvBufferPos' = 1
     /\ eRcvState' = "RCV"
  \/ /\ eRcvState = "RCV" /\ usRcvBufferPos < PduMax
     /\ buf' = [buf EXCEPT ![usRcvBufferPos] = shift]
     /\ usRcvBufferPos' = usRcvBufferPos + 1
     /\ eRcvState' = eRcvState
  \/ /\ eRcvState = "ERROR" \/ (eRcvState = "RCV" /\ usRcvBufferPos >= PduMax)
     /\ eRcvState' = "ERROR"
     /\ UNCHANGED <<buf, usRcvBufferPos>>

ReceiveFSM ==
  /\ Running /\ shift # NoByte
  /\ shift' = NoByte /\ Strike
  /\ IF eSndState # "IDLE"
     THEN /\ abort' = "rx242"
          /\ UNCHANGED <<eRcvState, usRcvBufferPos, buf, timerOn, t4if>>
     ELSE /\ abort' = abort
          /\ StoreByte
          /\ timerOn' = TRUE /\ t4if' = FALSE
  /\ UNCHANGED <<task, eSndState, usSndBufferCount, event, t4, rxOn, conf, line>>

(***************************************************************************)
(* The slaves and the line.                                                *)
(***************************************************************************)
SlaveAnswers(r, n, good, fits) ==
  /\ Running /\ wire = NoWire
  /\ LET f == [dir |-> "rep", tid |-> r.tid, slave |-> r.slave, len |-> n,
               good |-> good, fits |-> fits]
     IN  /\ wire' = [frame |-> f, sent |-> 0]
         /\ answers' = answers \cup {f}
  /\ pending' = pending \ {r}
  /\ UNCHANGED <<task, fsm, port, conf, abort>>

SlaveSilent(r) ==
  /\ Running
  /\ pending' = pending \ {r}
  /\ UNCHANGED <<task, fsm, port, conf, wire, answers, abort>>

(* A byte passes: the UART takes it when the receiver is enabled.          *)
LineByte ==
  /\ Running /\ wire.sent < wire.frame.len
  /\ \/ rxOn /\ shift = NoByte /\ Strike /\ shift' = <<wire.frame, wire.sent>>
     \/ ~rxOn /\ UNCHANGED <<shift, struck>>
  /\ wire' = [frame |-> wire.frame, sent |-> wire.sent + 1]
  /\ UNCHANGED <<task, fsm, event, timerOn, t4if, t4, rxOn, conf, pending,
                 answers, abort>>

LineEnd ==
  /\ Running /\ wire # NoWire /\ shift = NoByte /\ wire.sent = wire.frame.len
  /\ wire' = NoWire
  /\ UNCHANGED <<task, fsm, port, conf, pending, answers, abort>>

----------------------------------------------------------------------------
TaskStep ==
  \/ SendTest \/ SendArm \/ SuspendAll \/ TransmitFSM
  \/ GetEvent \/ Timeout \/ StopTxRx \/ Receive \/ Reply
StartStep  == StartIdle \/ StartSerial \/ StartTimer
TimerISR   == T35Enter \/ T35Serial \/ T35Timer \/ T35Leave
SlaveStep  ==
  \E r \in pending :
    \/ SlaveSilent(r)
    \/ \E n \in ReplyLens, good \in BOOLEAN, fits \in BOOLEAN :
         SlaveAnswers(r, n, good, fits)
LineStep   == LineByte \/ LineEnd

Next ==
  \/ \E k \in Kinds, s \in Slaves : Begin(k, s)
  \/ NothingDue
  \/ TaskStep \/ StartStep
  \/ ConfigInit \/ ConfigEnable
  \/ TimerExpires \/ TimerISR
  \/ ReceiveFSM
  \/ SlaveStep \/ LineStep

Spec == Init /\ [][Next]_vars

(***************************************************************************)
(* Fairness: an enabled interrupt is taken, time passes (the timer and the *)
(* event timeout expire), the processor is given to every ready task (all  *)
(* tasks have equal priority and the tick preempts), a frame on the line   *)
(* ends.  The task is granted strong fairness: interrupts and new          *)
(* configurations hold it up again and again, but between two of them      *)
(* FlyportTask waits for the network and TaskModbus runs.  Whether there   *)
(* is work to begin, and whether a new configuration arrives, is left open.*)
(***************************************************************************)
Fairness ==
  /\ SF_vars(TaskStep) /\ WF_vars(StartStep) /\ WF_vars(ConfigEnable)
  /\ WF_vars(TimerExpires) /\ WF_vars(TimerISR) /\ WF_vars(ReceiveFSM)
  /\ WF_vars(SlaveStep) /\ WF_vars(LineStep)

FairSpec == Spec /\ Fairness

(***************************************************************************)
(* Properties.                                                             *)
(***************************************************************************)

FlagsOK == {timerOn, t4if, rxOn, struck} \subseteq BOOLEAN

FramesOK ==
  /\ req \in [kind : Kinds, frame : Frame]
  /\ result \in [tid : Nat, status : Statuses, frame : Frame]
  /\ buf \in [0 .. PduMax - 1 -> Byte] /\ shift \in Byte
  /\ pending \subseteq Frame /\ answers \subseteq Frame
  /\ wire \in [frame : Frame, sent : Nat]

(* Every variable has its type; the receive position never leaves the      *)
(* buffer (mbrtu.c:282).                                                   *)
TypeOK ==
  /\ FlagsOK /\ FramesOK
  /\ pc \in {"idle", "send", "arm", "armed", "xmit", "wait", "receive",
             "stop", "reply"}
  /\ tid \in 0 .. MaxReq /\ status \in Statuses /\ rcvLen \in 0 .. PduMax
  /\ eRcvState \in {"IDLE", "RCV", "ERROR"} /\ eSndState \in {"IDLE", "XMIT"}
  /\ usSndBufferCount \in 0 .. ReqLen /\ usRcvBufferPos \in 0 .. PduMax
  /\ event \in 0 .. MaxReq
  /\ t4 \in {"out", "serial", "timer", "state"}
  /\ cfg \in {"none", "enable"} /\ startBy \in {"nobody", "task", "config"}
  /\ startAt \in {"state", "serial", "timer"}
  /\ abort \in Asserts

(* No assertion of mbrtu.c fails: the receive machine never runs while the *)
(* transmitter is busy (242), the transmitter never starts while a frame   *)
(* comes in (301), T4 never fires on an idle receiver (361), and no frame  *)
(* fills the whole buffer (163).                                           *)
AssertsHold == abort = "none"

(* A transaction leaves nothing behind: when TaskModbus begins one, the    *)
(* receiver is idle and off the bus, T4 is stopped with no interrupt       *)
(* pending, no event is queued and no byte is on its way.  Everything      *)
(* eMBRTUSend and xMBPortEventGet take for granted.                        *)
CleanStart ==
  pc \in {"idle", "send", "arm", "armed"} =>
    /\ eRcvState = "IDLE" /\ ~rxOn
    /\ ~timerOn /\ ~t4if /\ t4 = "out"
    /\ event = NoEvent /\ LineQuiet

(* A success is the addressed slave's good answer to this very request,    *)
(* with all its bytes, and not an older answer or the request itself,      *)
(* which lies in the same buffer.                                          *)
SuccessIsTheAnswer ==
  result.status \in {"ENOERR", "ENOREG"} =>
    /\ result.frame \in answers
    /\ result.frame.tid = result.tid /\ result.frame.good

(* A failure is the slave's: the master reports a timeout only when the    *)
(* slave sent no good frame that fits the buffer, and a framing error only *)
(* when what it sent was damaged or too short.                             *)
FailureIsTheSlaves ==
  result.status \in {"EIO", "ETIMEDOUT"} =>
    ~ \E f \in answers : /\ f.tid = result.tid /\ f.good
                         /\ f.len >= PduMin /\ f.len < PduMax

(* Outside the T4 interrupt the timer runs exactly while a frame is being  *)
(* received: a receiver left in STATE_RX_RCV with the timer stopped makes  *)
(* eMBRTUSend answer EIO forever.                                          *)
ReceiverIsTimed ==
  t4 = "out" /\ startBy = "nobody" => (timerOn <=> eRcvState # "IDLE")

(* The master never listens to its own request: while the transmitter has  *)
(* bytes to send the receiver is off the bus, whatever T4, U2RX and a new  *)
(* configuration do in between.                                            *)
HalfDuplex == eSndState = "XMIT" => ~rxOn

(* Every transaction ends: the send loop, the wait for the event and the   *)
(* receive path all come back to TaskModbus.                               *)
TransactionEnds == pc # "idle" ~> pc = "idle"

(* The same with slaves that answer late or with pauses and with           *)
(* configurations that arrive at any moment: the transaction still ends,   *)
(* unless one of the assertions stopped the program.                       *)
EndsOrAborts == pc # "idle" ~> (pc = "idle" \/ ~Running)

(***************************************************************************)
(* What the code says of itself and does not keep.                         *)
(***************************************************************************)

(* mbrtu.c:163: a received frame is shorter than the buffer.               *)
LengthAssert == abort # "len163"

(* mbrtu.c:301: the receiver is idle when the transmitter is driven.       *)
TransmitAssert == abort # "tx301"

(* mb.c:483, "Check if the frame is for us. If not ignore the frame": what *)
(* is passed on as an answer is not the master's own request.              *)
AnswerIsNotTheRequest == result.frame.dir # "req"

(***************************************************************************)
(* The inductive invariant of the orderly environment: prompt slaves,      *)
(* frames without pauses, no reconfiguration inside a transaction, and no  *)
(* frame that fills the buffer exactly.                                    *)
(***************************************************************************)
Orderly ==
  ~LateReplies /\ ~FrameGaps /\ ~Reconfigure /\ PduMax \notin ReplyLens

Quiet ==
  /\ eRcvState = "IDLE" /\ ~timerOn /\ ~t4if /\ t4 = "out"
  /\ wire = NoWire /\ shift = NoByte /\ pending = {} /\ event = NoEvent

(* The buffer holds the first n bytes of f and the position counts them.   *)
Stored(f, n) == usRcvBufferPos = n /\ \A i \in 0 .. n - 1 : buf[i] = <<f, i>>

(* The buffer holds the whole answer to the open transaction.              *)
Holds == \E f \in answers : f.tid = tid /\ Stored(f, f.len)

(* Bytes of the frame on the line the receive machine was given.           *)
Taken == wire.sent - (IF shift = NoByte THEN 0 ELSE 1)

(* Where each phase of a transaction finds the two tasks.                  *)
PhaseInv ==
  /\ abort = "none" /\ cfg = "none" /\ startBy \in {"nobody", "task"}
  /\ startBy = "task" => pc = "stop"
  /\ pc # "wait" => Quiet
  /\ pc \notin {"wait", "stop"} => ~rxOn
  /\ pc = "stop" /\ startBy = "task" /\ startAt = "timer" => ~rxOn
  /\ pc \notin {"armed", "xmit"} => eSndState = "IDLE"
  /\ pc \in {"send", "arm", "armed", "xmit", "wait"} => status = "ENOERR"
  /\ pc = "stop" => status = "ETIMEDOUT"
  /\ pc # "idle" => req.frame.tid = tid /\ tid > 0

(* The timer and the T4 interrupt while the master waits for the answer.   *)
TimerInv ==
  /\ timerOn <=> (eRcvState # "IDLE" /\ t4 # "state")
  /\ t4if => pending = {} /\ LineQuiet /\ eRcvState # "IDLE"
  /\ t4 # "out" => t4if
  /\ t4 = "serial" => eRcvState = "RCV" /\ event # NoEvent
  /\ t4 \in {"timer", "state"} /\ eRcvState = "RCV" => event # NoEvent /\ ~rxOn
  /\ eRcvState = "ERROR" => event = NoEvent
  /\ event # NoEvent => pending = {} /\ LineQuiet
  /\ event # NoEvent /\ t4 = "out" => eRcvState = "IDLE" /\ ~rxOn /\ ~t4if
  /\ event = NoEvent => rxOn

(* The answer on its way from the slave into the buffer.                   *)
LineInv ==
  /\ pending \subseteq {req.frame}
  /\ pending # {} => LineQuiet /\ eRcvState = "IDLE" /\ event = NoEvent
  /\ wire = NoWire => shift = NoByte
  /\ event # NoEvent => Holds
  /\ eRcvState = "RCV" /\ wire = NoWire => Holds
  /\ wire # NoWire =>
       /\ wire.frame \in answers /\ wire.frame.tid = tid
       /\ wire.sent \in 0 .. wire.frame.len
       /\ shift # NoByte => wire.sent > 0 /\ shift = <<wire.frame, wire.sent - 1>>
       /\ Taken = 0 <=> eRcvState = "IDLE"
       /\ eRcvState = "RCV" => Stored(wire.frame, Taken)
       /\ eRcvState = "ERROR" => Taken > PduMax

(* The answer on its way from the buffer to TaskModbus.                    *)
ReplyInv ==
  /\ \A f \in answers : f.len \in ReplyLens
  /\ pc = "receive" => Holds

OrderlyInv ==
  /\ PhaseInv /\ ReplyInv
  /\ pc = "wait" => TimerInv /\ LineInv

(* What a master that reports a failure could have missed: nothing, for    *)
(* the answers to the open transaction are all the one that is on the line,*)
(* or in the buffer, or longer than the buffer.                            *)
Own == {f \in answers : f.tid = tid}

Fits(f) == f.good /\ f.len >= PduMin /\ f.len < PduMax

FailureInv ==
  /\ FailureIsTheSlaves
  /\ \A f \in answers : f.tid \in 1 .. tid
  /\ result.tid <= tid /\ (pc # "idle" => result.tid < tid)
  /\ \A f \in Own : pc # "idle" => f.slave = req.frame.slave
  /\ pc \in {"send", "arm", "armed", "xmit"} => Own = {}
  /\ pc = "wait" /\ pending # {} => Own = {}
  /\ pc = "wait" /\ wire # NoWire => Own = {wire.frame}
  /\ \A f \in Own :
       /\ pc = "wait" /\ wire = NoWire /\ (eRcvState = "RCV" \/ event # NoEvent) =>
            Stored(f, f.len)
       /\ pc = "wait" /\ wire = NoWire /\ eRcvState # "RCV" /\ event = NoEvent =>
            f.len > PduMax
       /\ pc = "receive" => Stored(f, f.len)
       /\ pc = "stop" => f.len > PduMax
       /\ pc = "reply" /\ status \in {"EIO", "ETIMEDOUT"} => ~Fits(f)

(***************************************************************************)
(* The inductive invariant of prompt slaves whose frames have no pauses,   *)
(* with configurations at any moment and frames of any length.  A          *)
(* configuration may lose bytes of the answer, stop the timer under a      *)
(* frame, or leave T4 an idle receiver, which stops the program: what the  *)
(* buffer holds is no longer known, but its first byte is of an answer to  *)
(* the open transaction whenever a frame came in.                          *)
(***************************************************************************)
Prompt == ~LateReplies /\ ~FrameGaps

OpenAnswer(f) == f \in answers /\ f.tid = tid

(* Nothing on the line, in the port or in the queue can reach the task.    *)
Still ==
  /\ ~timerOn /\ ~t4if /\ t4 = "out" /\ event = NoEvent
  /\ LineQuiet /\ pending = {}

(* Where each phase of a transaction finds the port, and who may be        *)
(* resetting it.                                                           *)
PortInv ==
  /\ startBy = "task" => pc = "stop" /\ cfg = "none"
  /\ startBy = "config" => cfg = "enable"
  /\ pc # "wait" => Still
  /\ pc \notin {"wait", "stop"} => eRcvState = "IDLE" /\ ~rxOn
  /\ startBy = "task" /\ startAt # "state" => eRcvState = "IDLE"
  /\ startBy = "task" /\ startAt = "timer" => ~rxOn
  /\ pc \in {"send", "arm", "armed", "xmit"} => status = "ENOERR"
  /\ pc = "stop" => status = "ETIMEDOUT"
  /\ pc # "idle" => req.frame.tid = tid /\ tid > 0

(* The wait for the answer: T4 and the event come after the line is quiet, *)
(* and the event after the receiver has left the bus.                      *)
WaitInv ==
  /\ pending \subseteq {req.frame}
  /\ wire # NoWire => OpenAnswer(wire.frame)
  /\ shift # NoByte => shift[1] = wire.frame /\ wire # NoWire
  /\ pending # {} => LineQuiet /\ eRcvState = "IDLE" /\ ~timerOn
  /\ timerOn \/ t4if \/ eRcvState # "IDLE" \/ event # NoEvent => pending = {}
  /\ t4if => LineQuiet
  /\ t4 # "out" => t4if
  /\ t4 = "state" => ~timerOn
  /\ t4 \in {"timer", "state"} /\ event # NoEvent => ~rxOn
  /\ t4 = "out" /\ event # NoEvent =>
       eRcvState = "IDLE" /\ ~rxOn /\ ~timerOn /\ ~t4if /\ LineQuiet
  /\ eRcvState # "IDLE" => usRcvBufferPos > 0 /\ OpenAnswer(buf[0][1])
  /\ event # NoEvent => OpenAnswer(buf[0][1])

PromptInv ==
  /\ PortInv /\ SuccessIsTheAnswer
  /\ pc = "wait" => WaitInv
  /\ pc = "receive" => OpenAnswer(buf[0][1])
  /\ pc = "reply" /\ status \in {"ENOERR", "ENOREG"} =>
       OpenAnswer(buf[0][1]) /\ FrameOf(buf, rcvLen) # NoFrame

============================================================================
