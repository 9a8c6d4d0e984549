---------------------- MODULE ModbusRtuMaster_proofs ----------------------
(***************************************************************************)
(* Proofs about ModbusRtuMaster.                                           *)
(***************************************************************************)
EXTENDS ModbusRtuMaster, TLAPS

(***************************************************************************)
(* Type correctness.  The flags are proved apart from the rest: the SMT    *)
(* encoding of Boolean values and that of intervals do not mix well.       *)
(***************************************************************************)
LEMMA FlagsStep == FlagsOK /\ [Next]_vars => FlagsOK'
<1> SUFFICES ASSUME FlagsOK, [Next]_vars
             PROVE  FlagsOK'
  OBVIOUS
<1> USE DEF FlagsOK, port
<1>1. \A k \in Kinds, s \in Slaves : Begin(k, s) => FlagsOK'
  BY DEF Begin
<1>2. TaskStep => FlagsOK'
  BY DEF TaskStep, SendTest, SendArm, SuspendAll, TransmitFSM, GetEvent,
         Timeout, StopTxRx, Receive, Reply
<1>3. StartStep => FlagsOK'
  BY DEF StartStep, StartIdle, StartSerial, StartTimer
<1>4. ConfigInit \/ ConfigEnable => FlagsOK'
  BY DEF ConfigInit, ConfigEnable
<1>5. TimerExpires => FlagsOK'
  BY DEF TimerExpires, Strike, ShortWindow
<1>6. TimerISR => FlagsOK'
  BY DEF TimerISR, T35Enter, T35Serial, T35Timer, T35Leave
<1>7. ReceiveFSM => FlagsOK'
  BY DEF ReceiveFSM, Strike, ShortWindow
<1>8. SlaveStep => FlagsOK'
  BY DEF SlaveStep, SlaveSilent, SlaveAnswers
<1>9. LineStep => FlagsOK'
  BY DEF LineStep, LineByte, LineEnd, Strike, ShortWindow
<1>10. QED
  BY <1>1, <1>2, <1>3, <1>4, <1>5, <1>6, <1>7, <1>8, <1>9
  DEF Next, NothingDue, vars

(***************************************************************************)
(* Frames, bytes and the buffer.  Frame itself stays closed: a frame is    *)
(* made in three places only.                                              *)
(***************************************************************************)
LEMMA FrameFacts ==
  /\ NoFrame \in Frame /\ NoByte \in Byte
  /\ \A t \in Nat, s \in Slaves : Request(t, s) \in Frame
  /\ \A b \in [0 .. PduMax - 1 -> Byte], n \in Nat : FrameOf(b, n) \in Frame
<1>1. NoFrame \in Frame /\ NoByte \in Byte
  BY DEF NoFrame, NoByte, Frame, Byte
<1>2. \A t \in Nat, s \in Slaves : Request(t, s) \in Frame
  BY SizesAssumption DEF Request, Frame
<1>3. ASSUME NEW b \in [0 .. PduMax - 1 -> Byte], NEW n \in Nat
      PROVE  FrameOf(b, n) \in Frame
  <2>1. b[0] \in Byte
    BY SizesAssumption
  <2>2. b[0][1] \in Frame
    BY <2>1 DEF Byte
  <2>3. QED
    BY <1>1, <2>2 DEF FrameOf
<1>4. QED
  BY <1>1, <1>2, <1>3

LEMMA FramesStep == TypeOK /\ [Next]_vars => FramesOK'
<1> SUFFICES ASSUME TypeOK, [Next]_vars
             PROVE  FramesOK'
  OBVIOUS
<1> USE SizesAssumption, FrameFacts
    DEF TypeOK, FramesOK, task, fsm, port, conf, line
<1>1. ASSUME NEW k \in Kinds, NEW s \in Slaves, Begin(k, s)
      PROVE  FramesOK'
  BY <1>1 DEF Begin
<1>2. CASE TaskStep
  <2>1. CASE SendArm
    BY <2>1 DEF SendArm, Byte
  <2>2. CASE TransmitFSM
    BY <2>2 DEF TransmitFSM, Statuses
  <2>3. CASE Reply
    BY <2>3 DEF Reply, Statuses
  <2>4. QED
    BY <1>2, <2>1, <2>2, <2>3 DEF TaskStep, SendTest, SuspendAll, GetEvent,
       Timeout, StopTxRx, Receive
<1>3. CASE StartStep
  BY <1>3 DEF StartStep, StartIdle, StartSerial, StartTimer
<1>4. CASE ConfigInit \/ ConfigEnable
  BY <1>4 DEF ConfigInit, ConfigEnable
<1>5. CASE TimerExpires \/ TimerISR
  BY <1>5 DEF TimerExpires, TimerISR, T35Enter, T35Serial, T35Timer, T35Leave
<1>6. CASE ReceiveFSM
  BY <1>6 DEF ReceiveFSM, StoreByte
<1>7. CASE SlaveStep
  <2>1. PICK r \in pending :
          \/ SlaveSilent(r)
          \/ \E n \in ReplyLens, good \in BOOLEAN, fits \in BOOLEAN :
               SlaveAnswers(r, n, good, fits)
    BY <1>7 DEF SlaveStep
  <2>2. CASE SlaveSilent(r)
    BY <2>2 DEF SlaveSilent
  <2>3. ASSUME NEW n \in ReplyLens, NEW good \in BOOLEAN, NEW fits \in BOOLEAN,
               SlaveAnswers(r, n, good, fits)
        PROVE  FramesOK'
    <3> DEFINE f == [dir |-> "rep", tid |-> r.tid, slave |-> r.slave,
                     len |-> n, good |-> good, fits |-> fits]
    <3>1. f \in Frame
      BY DEF Frame
    <3> HIDE DEF f
    <3>2. /\ wire' = [frame |-> f, sent |-> 0]
          /\ answers' = answers \cup {f}
          /\ pending' = pending \ {r}
          /\ UNCHANGED <<req, result, buf, shift>>
      BY <2>3 DEF SlaveAnswers, f
    <3>3. QED
      BY <3>1, <3>2
  <2>4. QED
    BY <2>1, <2>2, <2>3
<1>8. CASE LineStep
  <2>1. CASE LineByte
    <3>1. /\ \/ shift' = shift \/ shift' = <<wire.frame, wire.sent>>
          /\ wire' = [frame |-> wire.frame, sent |-> wire.sent + 1]
          /\ UNCHANGED <<req, result, buf, pending, answers>>
      BY <2>1 DEF LineByte
    <3>2. <<wire.frame, wire.sent>> \in Byte
      BY DEF Byte
    <3>3. [frame |-> wire.frame, sent |-> wire.sent + 1] \in [frame : Frame, sent : Nat]
      OBVIOUS
    <3>4. QED
      <4>1. shift' \in Byte
        BY <3>1, <3>2
      <4>2. wire' \in [frame : Frame, sent : Nat]
        BY <3>1, <3>3
      <4>3. QED
        BY <3>1, <4>1, <4>2
  <2>2. CASE LineEnd
    BY <2>2 DEF LineEnd, NoWire
  <2>3. QED
    BY <1>8, <2>1, <2>2 DEF LineStep
<1>9. CASE UNCHANGED vars
  BY <1>9 DEF vars
<1>10. QED
  BY <1>1, <1>2, <1>3, <1>4, <1>5, <1>6, <1>7, <1>8, <1>9
  DEF Next, NothingDue

LEMMA TypeStep == TypeOK /\ [Next]_vars => TypeOK'
<1> SUFFICES ASSUME TypeOK, [Next]_vars
             PROVE  TypeOK'
  OBVIOUS
<1>1. FlagsOK' /\ FramesOK'
  BY FlagsStep, FramesStep DEF TypeOK
<1> USE SizesAssumption, <1>1 DEF TypeOK, task, fsm, port, conf, line,
        NoEvent, Statuses, Kinds, Asserts
<1>2. ASSUME NEW k \in Kinds, NEW s \in Slaves, Begin(k, s)
      PROVE  TypeOK'
  BY <1>2 DEF Begin
<1>3. CASE TaskStep
  <2>1. CASE SendTest
    BY <2>1 DEF SendTest
  <2>2. CASE SendArm
    BY <2>2 DEF SendArm
  <2>3. CASE SuspendAll
    BY <2>3 DEF SuspendAll
  <2>4. CASE TransmitFSM
    BY <2>4 DEF TransmitFSM
  <2>5. CASE GetEvent
    BY <2>5 DEF GetEvent
  <2>6. CASE Timeout
    BY <2>6 DEF Timeout
  <2>7. CASE StopTxRx
    BY <2>7 DEF StopTxRx
  <2>8. CASE Receive
    <3>1. \A f : Verdict(f) \in Statuses
      BY DEF Verdict
    <3>2. QED
      BY <2>8, <3>1 DEF Receive
  <2>9. CASE Reply
    BY <2>9 DEF Reply
  <2>10. QED
    BY <1>3, <2>1, <2>2, <2>3, <2>4, <2>5, <2>6, <2>7, <2>8, <2>9 DEF TaskStep
<1>4. CASE StartStep
  BY <1>4 DEF StartStep, StartIdle, StartSerial, StartTimer
<1>5. CASE ConfigInit \/ ConfigEnable
  BY <1>5 DEF ConfigInit, ConfigEnable
<1>6. CASE TimerExpires
  BY <1>6 DEF TimerExpires
<1>7. CASE TimerISR
  BY <1>7 DEF TimerISR, T35Enter, T35Serial, T35Timer, T35Leave
<1>8. CASE ReceiveFSM
  BY <1>8 DEF ReceiveFSM, StoreByte
<1>9. CASE SlaveStep
  BY <1>9 DEF SlaveStep, SlaveSilent, SlaveAnswers
<1>10. CASE LineStep
  BY <1>10 DEF LineStep, LineByte, LineEnd
<1>11. CASE UNCHANGED vars
  BY <1>11 DEF vars
<1>12. QED
  BY <1>2, <1>3, <1>4, <1>5, <1>6, <1>7, <1>8, <1>9, <1>10, <1>11
  DEF Next, NothingDue

(* Every variable keeps its type whatever the line, the interrupts and     *)
(* FlyportTask do; in particular usRcvBufferPos never leaves the buffer.   *)
THEOREM TypeCorrect == Spec => []TypeOK
<1>1. Init => TypeOK
  <2> SUFFICES ASSUME Init
               PROVE  TypeOK
    OBVIOUS
  <2>1. FlagsOK
    BY DEF Init, FlagsOK
  <2>2. FramesOK
    BY FrameFacts DEF Init, FramesOK, NoResult, NoWire, Kinds, Statuses
  <2>3. QED
    BY <2>1, <2>2, SizesAssumption
    DEF Init, TypeOK, NoEvent, Statuses, Kinds, Asserts
<1>2. QED
  BY <1>1, TypeStep, PTL DEF Spec


(***************************************************************************)
(* The orderly environment.  OrderlyInv is inductive there: outside the    *)
(* wait for an event the port is quiet (PhaseInv); during the wait the     *)
(* timer runs exactly while a frame comes in (TimerInv), the buffer holds  *)
(* exactly the bytes of the answer that passed (LineInv), and the event    *)
(* comes when it holds all of them (ReplyInv).                             *)
(***************************************************************************)
USE SizesAssumption DEF task, fsm, port, conf, line, vars

(* The received answer never fills the buffer, so mbrtu.c:163 holds.       *)
LEMMA AnswerFits ==
  ASSUME Orderly, TypeOK, OrderlyInv, Receive
  PROVE  usRcvBufferPos < PduMax
<1>1. PICK f \in answers : Stored(f, f.len)
  BY DEF OrderlyInv, ReplyInv, Receive, Holds
<1>2. f.len \in ReplyLens /\ f.len # PduMax /\ usRcvBufferPos = f.len
  BY <1>1 DEF OrderlyInv, ReplyInv, Orderly, Stored
<1>3. QED
  BY <1>2 DEF TypeOK

LEMMA PhaseStep ==
  ASSUME Orderly, TypeOK, OrderlyInv, [Next]_vars
  PROVE  PhaseInv'
<1> USE DEF OrderlyInv, Orderly, PhaseInv, Quiet, NoEvent
<1> USE DEF LineQuiet, TasksMayRun, TaskRuns, Running, Critical
<1>1. ASSUME NEW k \in Kinds, NEW s \in Slaves, Begin(k, s)
      PROVE  PhaseInv'
  BY <1>1 DEF Begin, Request, TypeOK
<1>2. CASE TaskStep
  <2>1. CASE SendTest \/ SendArm \/ SuspendAll \/ StopTxRx
    BY <2>1 DEF SendTest, SendArm, SuspendAll, StopTxRx
  <2>2. CASE TransmitFSM
    BY <2>2 DEF TransmitFSM
  <2>3. CASE GetEvent
    BY <2>3 DEF GetEvent, TimerInv
  <2>4. CASE Timeout
    BY <2>4 DEF Timeout, Settled, TimerInv
  <2>5. CASE Receive
    <3>1. ~(usRcvBufferPos >= PduMax)
      BY <2>5, AnswerFits DEF TypeOK
    <3>2. /\ pc = "receive" /\ pc' = "reply" /\ abort' = "none"
          /\ UNCHANGED <<tid, req, fsm, port, conf, line>>
      BY <2>5, <3>1 DEF Receive
    <3>3. QED
      BY <3>2
  <2>6. CASE Reply
    BY <2>6 DEF Reply
  <2>7. QED
    BY <1>2, <2>1, <2>2, <2>3, <2>4, <2>5, <2>6 DEF TaskStep
<1>3. CASE StartStep
  BY <1>3 DEF StartStep, StartIdle, StartSerial, StartTimer
<1>4. CASE ConfigInit \/ ConfigEnable
  BY <1>4 DEF ConfigInit, ConfigEnable
<1>5. CASE TimerExpires \/ TimerISR
  BY <1>5 DEF TimerExpires, TimerISR, T35Enter, T35Serial, T35Timer, T35Leave,
     TimerInv, TypeOK
<1>6. CASE ReceiveFSM
  BY <1>6 DEF ReceiveFSM
<1>7. CASE SlaveStep
  BY <1>7 DEF SlaveStep, SlaveSilent, SlaveAnswers
<1>8. CASE LineStep
  BY <1>8 DEF LineStep, LineByte, LineEnd, NoWire, NoFrame
<1>9. CASE UNCHANGED vars
  BY <1>9
<1>10. QED
  BY <1>1, <1>2, <1>3, <1>4, <1>5, <1>6, <1>7, <1>8, <1>9 DEF Next, NothingDue

LEMMA TimerStep ==
  ASSUME Orderly, TypeOK, OrderlyInv, [Next]_vars
  PROVE  (pc = "wait" => TimerInv)'
<1> USE DEF OrderlyInv, Orderly, PhaseInv, TimerInv, NoEvent
<1> USE DEF LineQuiet, TasksMayRun, TaskRuns, Running, Critical
<1>1. ASSUME NEW k \in Kinds, NEW s \in Slaves, Begin(k, s)
      PROVE  (pc = "wait" => TimerInv)'
  BY <1>1 DEF Begin
<1>2. CASE TaskStep
  BY <1>2 DEF TaskStep, SendTest, SendArm, SuspendAll, TransmitFSM, GetEvent,
     StopTxRx, Receive, Reply, Timeout, Quiet
<1>3. CASE StartStep
  BY <1>3 DEF StartStep, StartIdle, StartSerial, StartTimer
<1>4. CASE ConfigInit \/ ConfigEnable
  BY <1>4 DEF ConfigInit, ConfigEnable
<1>5. CASE TimerExpires 
  BY <1>5 DEF TimerExpires, LineInv, Quiet, TypeOK
<1>6. CASE TimerISR
  BY <1>6 DEF TimerISR, T35Enter, T35Serial, T35Timer, T35Leave, TypeOK
<1>7. CASE ReceiveFSM
  BY <1>7 DEF ReceiveFSM, StoreByte
<1>8. CASE SlaveStep
  BY <1>8 DEF SlaveStep, SlaveSilent, SlaveAnswers, LineInv
<1>9. CASE LineStep
  BY <1>9 DEF LineStep, LineByte, LineEnd, NoWire, NoFrame, LineInv, Quiet
<1>10. CASE UNCHANGED vars
  BY <1>10
<1>11. QED
  BY <1>1, <1>2, <1>3, <1>4, <1>5, <1>6, <1>7, <1>8, <1>9, <1>10
  DEF Next, NothingDue

(* A byte leaves the line and is shifted into the UART.                    *)
LEMMA LineByteStep ==
  ASSUME Orderly, TypeOK, OrderlyInv, LineByte, pc = "wait"
  PROVE  LineInv'
<1> USE DEF OrderlyInv
<1> DEFINE f == wire.frame
<1>1. wire # NoWire /\ event = NoEvent /\ pending = {} /\ rxOn
  BY DEF LineByte, NoWire, NoFrame, TimerInv, LineInv, LineQuiet
<1>2. /\ f \in answers /\ f.tid = tid
      /\ f.len \in Nat \ {0} /\ wire.sent \in 0 .. f.len
  BY <1>1 DEF LineInv, ReplyInv
<1>3. /\ wire.sent < f.len /\ shift = NoByte /\ shift' = <<f, wire.sent>>
      /\ wire' = [frame |-> f, sent |-> wire.sent + 1]
  BY <1>1 DEF LineByte
<1>4. wire' # NoWire /\ shift' # NoByte
  BY <1>2, <1>3 DEF NoWire, NoFrame, NoByte
<1>5. Taken' = Taken /\ Taken = wire.sent
  BY <1>2, <1>3, <1>4 DEF Taken
<1>6. UNCHANGED <<eRcvState, usRcvBufferPos, buf, answers, tid, event,
                 pending, req>>
  BY DEF LineByte
<1>7. /\ Taken' = 0 <=> eRcvState' = "IDLE"
      /\ eRcvState' = "RCV" => Stored(f, Taken)'
      /\ eRcvState' = "ERROR" => Taken' > PduMax
  BY <1>1, <1>3, <1>5, <1>6 DEF LineInv, Stored
<1>8. QED
  BY <1>1, <1>2, <1>3, <1>4, <1>6, <1>7 DEF LineInv

(* U2RX stores a byte of the answer behind those already stored.           *)
LEMMA ReceiveStep ==
  ASSUME Orderly, TypeOK, OrderlyInv, ReceiveFSM, pc = "wait"
  PROVE  LineInv'
<1> USE DEF OrderlyInv
<1> DEFINE f == wire.frame
           n == wire.sent - 1
<1>1. /\ wire # NoWire /\ event = NoEvent /\ pending = {} /\ rxOn
      /\ t4 = "out" /\ ~t4if /\ shift # NoByte /\ shift' = NoByte
      /\ abort' = "none" /\ eSndState = "IDLE"
      /\ StoreByte
  <2>1. shift # NoByte /\ shift' = NoByte /\ ~LineQuiet
    BY DEF ReceiveFSM, LineQuiet
  <2>2. eSndState = "IDLE" /\ abort = "none"
    BY DEF PhaseInv
  <2>3. wire # NoWire /\ pending = {} /\ event = NoEvent /\ rxOn
    BY <2>1 DEF LineInv, TimerInv
  <2>4. ~t4if /\ t4 = "out"
    BY <2>1 DEF TimerInv
  <2>5. StoreByte /\ abort' = "none"
    BY <2>2 DEF ReceiveFSM
  <2>6. QED
    BY <2>1, <2>2, <2>3, <2>4, <2>5
<1>2. /\ f \in answers /\ f.tid = tid
      /\ f.len \in Nat \ {0} /\ wire.sent \in 1 .. f.len
      /\ shift = <<f, n>> /\ n \in Nat
  <2>1. f \in answers /\ f.tid = tid /\ wire.sent \in 0 .. f.len
        /\ wire.sent > 0 /\ shift = <<f, n>>
    BY <1>1 DEF LineInv
  <2>2. f.len \in Nat \ {0}
    BY <2>1 DEF ReplyInv
  <2>3. QED
    BY <2>1, <2>2
<1>3. UNCHANGED <<wire, answers, tid, event, pending, req>>
  BY DEF ReceiveFSM, line, task
<1>4. Taken = n /\ Taken' = n + 1
  BY <1>1, <1>2, <1>3 DEF Taken
<1>5. /\ eRcvState' # "IDLE"
      /\ eRcvState' = "RCV" => Stored(f, n + 1)'
      /\ eRcvState' = "ERROR" => n + 1 > PduMax
  <2>1. CASE eRcvState = "IDLE"
    <3>1. n = 0 
      BY <1>1, <1>4, <2>1 DEF LineInv
    <3>2. /\ eRcvState' = "RCV" /\ usRcvBufferPos' = 1
          /\ buf' = [buf EXCEPT ![0] = <<f, 0>>]
      BY <1>1, <1>2, <2>1, <3>1 DEF StoreByte
    <3>3. buf'[0] = <<f, 0>>
      BY <3>2, <1>2, <3>1 DEF TypeOK, FramesOK
    <3>4. QED
      BY <1>3, <3>1, <3>2, <3>3 DEF Stored
  <2>2. CASE eRcvState = "RCV" /\ usRcvBufferPos < PduMax
    <3>1. usRcvBufferPos = n /\ \A i \in 0 .. n - 1 : buf[i] = <<f, i>>
      BY <1>1, <1>4, <2>2 DEF LineInv, Stored
    <3>2. /\ eRcvState' = "RCV" /\ usRcvBufferPos' = n + 1
          /\ buf' = [buf EXCEPT ![n] = <<f, n>>]
      BY <1>1, <1>2, <2>2, <3>1 DEF StoreByte
    <3>3. \A i \in 0 .. n : buf'[i] = <<f, i>>
      BY <1>2, <2>2, <3>1, <3>2 DEF TypeOK, FramesOK
    <3>4. QED
      BY <1>2, <1>3, <3>2, <3>3 DEF Stored
  <2>3. CASE \/ eRcvState = "ERROR"
             \/ eRcvState = "RCV" /\ usRcvBufferPos >= PduMax
    <3>1. eRcvState' = "ERROR"
      BY <1>1, <2>3 DEF StoreByte, TypeOK
    <3>2. n >= PduMax
      BY <1>1, <1>2, <1>4, <2>3 DEF LineInv, Stored
    <3>3. QED
      BY <1>2, <3>1, <3>2
  <2>4. QED
    BY <2>1, <2>2, <2>3 DEF TypeOK
<1>6. QED
  BY <1>1, <1>2, <1>3, <1>4, <1>5 DEF LineInv

LEMMA LineInvStep ==
  ASSUME Orderly, TypeOK, OrderlyInv, [Next]_vars
  PROVE  (pc = "wait" => LineInv)'
<1> USE DEF OrderlyInv, Orderly, PhaseInv, NoEvent, Holds, Stored, Taken
<1> USE DEF LineQuiet, TasksMayRun, TaskRuns, Running, Critical
<1>1. ASSUME NEW k \in Kinds, NEW s \in Slaves, Begin(k, s)
      PROVE  (pc = "wait" => LineInv)'
  BY <1>1 DEF Begin
<1>2. CASE TaskStep
  BY <1>2 DEF TaskStep, SendTest, SendArm, SuspendAll, TransmitFSM, GetEvent,
     StopTxRx, Receive, Reply, Timeout, Quiet, LineInv
<1>3. CASE StartStep
  BY <1>3 DEF StartStep, StartIdle, StartSerial, StartTimer
<1>4. CASE ConfigInit \/ ConfigEnable
  BY <1>4 DEF ConfigInit, ConfigEnable
<1>5. CASE TimerExpires 
  BY <1>5 DEF TimerExpires, LineInv
<1>6. CASE TimerISR
  BY <1>6 DEF TimerISR, T35Enter, T35Serial, T35Timer, T35Leave, LineInv,
     TimerInv
<1>7. CASE SlaveStep
  <2>1. PICK r \in pending :
          \/ SlaveSilent(r)
          \/ \E n \in ReplyLens, good \in BOOLEAN, fits \in BOOLEAN :
               SlaveAnswers(r, n, good, fits)
    BY <1>7 DEF SlaveStep
  <2>2. CASE SlaveSilent(r)
    BY <2>2 DEF SlaveSilent, LineInv
  <2>3. ASSUME NEW n \in ReplyLens, NEW good \in BOOLEAN, NEW fits \in BOOLEAN,
               SlaveAnswers(r, n, good, fits), pc = "wait"
        PROVE  LineInv'
    <3> DEFINE f == [dir |-> "rep", tid |-> r.tid, slave |-> r.slave,
                     len |-> n, good |-> good, fits |-> fits]
    <3>1. /\ wire' = [frame |-> f, sent |-> 0] /\ f \in answers'
          /\ pending' = pending \ {r}
          /\ UNCHANGED <<tid, req, event, eRcvState, usRcvBufferPos, buf,
                       shift, pc>>
      BY <2>3 DEF SlaveAnswers
    <3>2. r = req.frame /\ LineQuiet /\ eRcvState = "IDLE" /\ event = NoEvent
      BY <2>3 DEF LineInv
    <3>3. wire' # NoWire
      BY <3>1 DEF NoWire, NoFrame
    <3>4. f.tid = tid /\ f.len \in Nat /\ pending' = {}
      BY <2>3, <3>1, <3>2 DEF LineInv
    <3>5. QED
      BY <2>3, <3>1, <3>2, <3>3, <3>4 DEF LineInv
  <2>4. pc' = pc
    BY <1>7 DEF SlaveStep, SlaveSilent, SlaveAnswers
  <2>5. QED
    BY <2>1, <2>2, <2>3, <2>4
<1>8. CASE LineEnd
  BY <1>8 DEF LineEnd, LineInv, NoWire, TypeOK
<1>9. CASE UNCHANGED vars
  BY <1>9 DEF LineInv
<1>10. CASE LineByte
  <2>1. pc' = pc
    BY <1>10 DEF LineByte
  <2>2. QED
    BY <1>10, <2>1, LineByteStep
<1>11. CASE ReceiveFSM
  <2>1. pc' = pc
    BY <1>11 DEF ReceiveFSM
  <2>2. QED
    BY <1>11, <2>1, ReceiveStep
<1>12. QED
  BY <1>1, <1>2, <1>3, <1>4, <1>5, <1>6, <1>7, <1>8, <1>9, <1>10, <1>11
  DEF Next, NothingDue, LineStep

LEMMA ReplyStep ==
  ASSUME Orderly, TypeOK, OrderlyInv, [Next]_vars
  PROVE  ReplyInv'
<1> USE DEF OrderlyInv, Orderly, PhaseInv, ReplyInv, NoEvent, Holds, Stored
<1> USE DEF LineQuiet, TasksMayRun, TaskRuns, Running, Critical
<1>1. ASSUME NEW k \in Kinds, NEW s \in Slaves, Begin(k, s)
      PROVE  ReplyInv'
  BY <1>1 DEF Begin
<1>2. CASE TaskStep
  BY <1>2 DEF TaskStep, SendTest, SendArm, SuspendAll, TransmitFSM, GetEvent,
     StopTxRx, Receive, Reply, Timeout, LineInv, Verdict
<1>3. CASE StartStep
  BY <1>3 DEF StartStep, StartIdle, StartSerial, StartTimer
<1>4. CASE ConfigInit \/ ConfigEnable
  BY <1>4 DEF ConfigInit, ConfigEnable
<1>5. CASE TimerExpires  \/ TimerISR
  BY <1>5 DEF TimerExpires, TimerISR, T35Enter, T35Serial, T35Timer, T35Leave
<1>6. CASE ReceiveFSM
  BY <1>6 DEF ReceiveFSM, Quiet
<1>7. CASE SlaveStep
  BY <1>7 DEF SlaveStep, SlaveSilent, SlaveAnswers, Quiet
<1>8. CASE LineStep
  BY <1>8 DEF LineStep, LineByte, LineEnd
<1>9. CASE UNCHANGED vars
  BY <1>9
<1>10. QED
  BY <1>1, <1>2, <1>3, <1>4, <1>5, <1>6, <1>7, <1>8, <1>9 DEF Next, NothingDue

LEMMA OrderlyStep ==
  ASSUME Orderly
  PROVE  TypeOK /\ OrderlyInv /\ [Next]_vars => OrderlyInv'
<1> SUFFICES ASSUME TypeOK, OrderlyInv, [Next]_vars
             PROVE  OrderlyInv'
  OBVIOUS
<1>1. PhaseInv' /\ ReplyInv'
  BY PhaseStep, ReplyStep
<1>2. (pc = "wait" => TimerInv)' /\ (pc = "wait" => LineInv)'
  BY TimerStep, LineInvStep
<1>3. QED
  BY <1>1, <1>2 DEF OrderlyInv

LEMMA OrderlyAlways ==
  ASSUME Orderly
  PROVE  Spec => [](TypeOK /\ OrderlyInv)
<1>1. Init => OrderlyInv
  BY DEF Init, OrderlyInv, PhaseInv, Quiet, ReplyInv
<1>2. TypeOK /\ OrderlyInv /\ [Next]_vars => OrderlyInv'
  BY OrderlyStep
<1>3. QED
  BY <1>1, <1>2, TypeCorrect, PTL DEF Spec

(* With prompt slaves no assertion of mbrtu.c fails, whatever the          *)
(* interleaving of the task with T4 and U2RX.                              *)
THEOREM NoAssertFails ==
  ASSUME Orderly
  PROVE  Spec => []AssertsHold
<1>1. OrderlyInv => AssertsHold
  BY DEF OrderlyInv, PhaseInv, AssertsHold
<1>2. QED
  BY <1>1, OrderlyAlways, PTL

(* With prompt slaves the receiver is never left waiting for a frame       *)
(* without a running timer, so eMBRTUSend cannot come to answer EIO.       *)
THEOREM TheReceiverIsTimed ==
  ASSUME Orderly
  PROVE  Spec => []ReceiverIsTimed
<1>1. OrderlyInv /\ TypeOK => ReceiverIsTimed
  BY DEF OrderlyInv, PhaseInv, Quiet, TimerInv, ReceiverIsTimed
<1>2. QED
  BY <1>1, OrderlyAlways, PTL

(***************************************************************************)
(* Failures.  FailureInv says where the answers to the open transaction    *)
(* are, so that none is left when the master gives up.                     *)
(***************************************************************************)
USE DEF Own, Fits

(* The steps that neither end a transaction nor meet an answer.            *)
LEMMA FailureStutter ==
  ASSUME FailureInv,
         UNCHANGED <<pc, tid, req, status, result, pending, answers>>,
         pc = "wait" => UNCHANGED <<wire, eRcvState, event, usRcvBufferPos, buf>>,
         pc = "receive" => UNCHANGED <<usRcvBufferPos, buf>>
  PROVE  FailureInv'
BY DEF FailureInv, FailureIsTheSlaves, Stored

(* What TaskModbus does with the answers before it looks at one.           *)
LEMMA FailureTask ==
  ASSUME Orderly, TypeOK, OrderlyInv, FailureInv,
         \/ SendTest \/ SendArm \/ SuspendAll \/ TransmitFSM
         \/ GetEvent \/ Timeout \/ StopTxRx
  PROVE  FailureInv'
<1> USE DEF OrderlyInv, PhaseInv, FailureInv, FailureIsTheSlaves, Stored
<1>1. CASE SendTest \/ SendArm \/ SuspendAll \/ StopTxRx
  BY <1>1 DEF SendTest, SendArm, SuspendAll, StopTxRx
<1>2. CASE TransmitFSM
  <2>1. /\ pc = "xmit" /\ Own = {} /\ pc' \in {"xmit", "wait"}
        /\ wire = NoWire /\ UNCHANGED <<tid, req, status, result, wire, answers>>
    BY <1>2 DEF TransmitFSM, Quiet
  <2>2. (\A f \in answers : f.tid # tid) /\ Own' = {}
    BY <2>1
  <2>3. FailureIsTheSlaves' /\ result.tid < tid /\ result.tid <= tid
    BY <2>1
  <2>4. \A f \in answers' : f.tid \in 1 .. tid'
    BY <2>1
  <2>5. QED
    BY <2>1, <2>2, <2>3, <2>4
<1>3. CASE GetEvent
  BY <1>3 DEF GetEvent, TimerInv, LineQuiet
<1>4. CASE Timeout
  <2>1. wire = NoWire /\ eRcvState # "RCV" /\ event = NoEvent
    BY <1>4 DEF Timeout, Settled, LineQuiet, TimerInv, Orderly
  <2>2. QED
    BY <1>4, <2>1 DEF Timeout
<1>5. QED
  BY <1>1, <1>2, <1>3, <1>4

(* TaskModbus looks at the buffer: what it rejects is not an answer it     *)
(* could have taken.                                                       *)
LEMMA FailureReceive ==
  ASSUME Orderly, TypeOK, OrderlyInv, FailureInv, Receive
  PROVE  FailureInv'
<1>1. /\ pc = "receive" /\ pc' = "reply" /\ usRcvBufferPos < PduMax
      /\ UNCHANGED <<tid, req, result, fsm, port, conf, line>>
  BY AnswerFits DEF Receive, TypeOK
<1>2. ASSUME NEW f \in Own, Fits(f) PROVE status' \notin {"EIO", "ETIMEDOUT"}
  <2>1. Stored(f, f.len) /\ f.slave = req.frame.slave
    BY <1>1, <1>2 DEF FailureInv
  <2>2. f.len \in Nat \ {0} /\ usRcvBufferPos = f.len
    BY <1>2, <2>1 DEF OrderlyInv, ReplyInv, Stored
  <2>3. buf[0] = <<f, 0>>
    BY <2>1, <2>2 DEF Stored
  <2>4. FrameOf(buf, usRcvBufferPos) = f /\ f # NoFrame
    BY <1>2, <2>1, <2>2, <2>3 DEF FrameOf, Stored, NoFrame
  <2>5. status' = Verdict(f)
    BY <1>1, <1>2, <2>2, <2>4 DEF Receive, TypeOK
  <2>6. QED
    BY <2>1, <2>4, <2>5 DEF Verdict
<1>3. QED
  BY <1>1, <1>2 DEF FailureInv, FailureIsTheSlaves

(* A byte is stored: the answer it belongs to is still on the line.        *)
LEMMA FailureByte ==
  ASSUME Orderly, TypeOK, OrderlyInv, FailureInv, ReceiveFSM
  PROVE  FailureInv'
<1>1. shift # NoByte /\ UNCHANGED <<pc, tid, req, status, result, pending, answers, wire>>
  BY DEF ReceiveFSM
<1>2. pc = "wait" /\ wire # NoWire
  BY <1>1 DEF OrderlyInv, PhaseInv, Quiet, LineInv
<1>3. QED
  BY <1>1, <1>2 DEF FailureInv, FailureIsTheSlaves

(* The last byte is stored, or did not fit, when the line is quiet again.  *)
LEMMA FailureLine ==
  ASSUME Orderly, TypeOK, OrderlyInv, FailureInv, LineStep
  PROVE  FailureInv'
<1>1. UNCHANGED <<pc, tid, req, status, result, pending, answers, eRcvState, event,
                  usRcvBufferPos, buf>>
  BY DEF LineStep, LineByte, LineEnd
<1>2. wire # NoWire
  BY DEF LineStep, LineByte, LineEnd, NoWire, NoFrame
<1>3. pc = "wait" /\ event = NoEvent
  BY <1>2 DEF OrderlyInv, PhaseInv, Quiet, LineInv, TimerInv, LineQuiet
<1>4. Own = {wire.frame} /\ Own' = Own
  BY <1>1, <1>2, <1>3 DEF FailureInv
<1>5. CASE LineByte
  <2>1. wire' = [frame |-> wire.frame, sent |-> wire.sent + 1] /\ wire.frame \in answers
    BY <1>2, <1>3, <1>5 DEF LineByte, OrderlyInv, LineInv
  <2>2. wire.frame.len \in Nat \ {0}
    BY <2>1 DEF OrderlyInv, ReplyInv
  <2>3. wire' # NoWire /\ wire'.frame = wire.frame
    BY <2>1, <2>2 DEF NoWire, NoFrame
  <2>4. QED
    BY <1>1, <1>3, <1>4, <2>3 DEF FailureInv, FailureIsTheSlaves
<1>6. CASE LineEnd
  <2>1. /\ wire' = NoWire /\ shift = NoByte /\ wire.sent = wire.frame.len
        /\ wire.frame \in answers
    BY <1>2, <1>3, <1>6 DEF LineEnd, OrderlyInv, LineInv
  <2>2. wire.frame.len \in Nat \ {0}
    BY <2>1 DEF OrderlyInv, ReplyInv
  <2>3. Taken = wire.frame.len
    BY <2>1, <2>2 DEF Taken
  <2>4. \/ eRcvState = "RCV" /\ Stored(wire.frame, wire.frame.len)
        \/ eRcvState = "ERROR" /\ wire.frame.len > PduMax
    BY <1>2, <1>3, <2>2, <2>3 DEF OrderlyInv, LineInv, TypeOK
  <2>5. QED
    BY <1>1, <1>3, <1>4, <2>1, <2>4 DEF FailureInv, FailureIsTheSlaves, Stored
<1>7. QED
  BY <1>5, <1>6 DEF LineStep

(* A slave answers, or keeps silent.                                       *)
LEMMA FailureSlave ==
  ASSUME Orderly, TypeOK, OrderlyInv, FailureInv, SlaveStep
  PROVE  FailureInv'
<1>1. PICK r \in pending :
        \/ SlaveSilent(r)
        \/ \E n \in ReplyLens, good \in BOOLEAN, fits \in BOOLEAN :
             SlaveAnswers(r, n, good, fits)
  BY DEF SlaveStep
<1>2. /\ pc = "wait" /\ r = req.frame /\ pending = {r} /\ r.tid = tid /\ tid > 0
      /\ Own = {} /\ LineQuiet /\ eRcvState = "IDLE" /\ event = NoEvent
  BY <1>1 DEF OrderlyInv, PhaseInv, Quiet, LineInv, FailureInv
<1>3. UNCHANGED <<pc, tid, req, status, result, eRcvState, event>>
  BY <1>1 DEF SlaveSilent, SlaveAnswers
<1>4. CASE SlaveSilent(r)
  BY <1>2, <1>3, <1>4 DEF SlaveSilent, FailureInv, FailureIsTheSlaves, LineQuiet
<1>5. ASSUME NEW n \in ReplyLens, NEW good \in BOOLEAN, NEW fits \in BOOLEAN,
             SlaveAnswers(r, n, good, fits)
      PROVE  FailureInv'
  <2> DEFINE f == [dir |-> "rep", tid |-> r.tid, slave |-> r.slave,
                   len |-> n, good |-> good, fits |-> fits]
  <2>1. /\ wire' = [frame |-> f, sent |-> 0] /\ answers' = answers \cup {f}
        /\ pending' = pending \ {r}
    BY <1>5 DEF SlaveAnswers
  <2>2. f.tid = tid /\ f.slave = req.frame.slave
    BY <1>2
  <2>3. wire' # NoWire /\ wire'.frame = f
    BY <2>1 DEF NoWire, NoFrame
  <2>4. pending' = {} /\ Own' = {f}
    BY <1>2, <1>3, <2>1, <2>2
  <2>5. tid \in Nat /\ result.tid < tid
    BY <1>2 DEF FailureInv, TypeOK
  <2> HIDE DEF f
  <2>6. FailureIsTheSlaves'
    BY <1>3, <2>1, <2>2, <2>5 DEF FailureInv, FailureIsTheSlaves
  <2>7. \A g \in answers' : g.tid \in 1 .. tid
    BY <1>2, <2>1, <2>2, <2>5 DEF FailureInv
  <2>8. QED
    BY <1>2, <1>3, <2>2, <2>3, <2>4, <2>5, <2>6, <2>7 DEF FailureInv
<1>6. QED
  BY <1>1, <1>4, <1>5

LEMMA FailureStep ==
  ASSUME Orderly, TypeOK, OrderlyInv, FailureInv, [Next]_vars
  PROVE  FailureInv'
<1>1. ASSUME NEW k \in Kinds, NEW s \in Slaves, Begin(k, s)
      PROVE  FailureInv'
  <2>1. /\ pc = "idle" /\ pc' = "send" /\ tid' = tid + 1 /\ tid \in Nat
        /\ UNCHANGED <<result, answers>>
    BY <1>1 DEF Begin, TypeOK
  <2>2. Own' = {}
    BY <2>1 DEF FailureInv
  <2>3. result.tid \in Nat /\ result.tid <= tid
    BY DEF FailureInv, TypeOK, FramesOK
  <2>4. \A f \in answers' : f.tid \in 1 .. tid'
    BY <2>1 DEF FailureInv
  <2>5. FailureIsTheSlaves'
    BY <2>1 DEF FailureInv, FailureIsTheSlaves
  <2>6. QED
    BY <2>1, <2>2, <2>3, <2>4, <2>5 DEF FailureInv
<1>2. CASE TaskStep
  <2>1. CASE Reply
    BY <2>1 DEF Reply, FailureInv, FailureIsTheSlaves, TypeOK
  <2>2. QED
    BY <1>2, <2>1, FailureTask, FailureReceive DEF TaskStep
<1>3. CASE StartStep
  <2>1. startBy = "task" /\ pc = "stop"
    BY <1>3 DEF StartStep, StartIdle, StartSerial, StartTimer, OrderlyInv, PhaseInv
  <2>2. status = "ETIMEDOUT" /\ UNCHANGED <<tid, req, status, result, answers, wire, pending>>
    BY <1>3, <2>1 DEF StartStep, StartIdle, StartSerial, StartTimer, OrderlyInv, PhaseInv
  <2>3. pc' \in {"stop", "reply"}
    BY <1>3, <2>1 DEF StartStep, StartIdle, StartSerial, StartTimer
  <2>4. ASSUME NEW f \in Own PROVE ~Fits(f)
    <3>1. f.len \in Nat /\ f.len > PduMax
      BY <2>1 DEF FailureInv, OrderlyInv, ReplyInv
    <3>2. QED
      BY <3>1
  <2>5. QED
    BY <2>1, <2>2, <2>3, <2>4 DEF FailureInv, FailureIsTheSlaves
<1>4. CASE ConfigInit \/ ConfigEnable
  BY <1>4, FailureStutter DEF ConfigInit, ConfigEnable
<1>5. CASE TimerExpires
  BY <1>5, FailureStutter DEF TimerExpires
<1>6. CASE TimerISR
  <2>1. pc = "wait" /\ wire = NoWire /\ shift = NoByte
    BY <1>6 DEF TimerISR, T35Enter, T35Serial, T35Timer, T35Leave, OrderlyInv,
       PhaseInv, Quiet, TimerInv, LineQuiet
  <2>2. UNCHANGED <<pc, tid, req, status, result, pending, answers, wire, usRcvBufferPos, buf>>
    BY <1>6 DEF TimerISR, T35Enter, T35Serial, T35Timer, T35Leave
  <2>3. \/ eRcvState = "RCV" \/ event # NoEvent
        \/ eRcvState' # "RCV" /\ event' = NoEvent /\ eRcvState # "RCV" /\ event = NoEvent
    BY <1>6, <2>1 DEF TimerISR, T35Enter, T35Serial, T35Timer, T35Leave, OrderlyInv,
       TimerInv, TypeOK
  <2>4. eRcvState = "RCV" \/ event # NoEvent => eRcvState' = "RCV" \/ event' # NoEvent
    BY <1>6, <2>1 DEF TimerISR, T35Enter, T35Serial, T35Timer, T35Leave, OrderlyInv,
       TimerInv, TypeOK, PhaseInv, NoEvent
  <2>5. QED
    BY <2>1, <2>2, <2>3, <2>4 DEF FailureInv, FailureIsTheSlaves, Stored
<1>7. CASE ReceiveFSM
  BY <1>7, FailureByte
<1>8. CASE SlaveStep
  BY <1>8, FailureSlave
<1>9. CASE LineStep
  BY <1>9, FailureLine
<1>10. CASE UNCHANGED vars
  BY <1>10, FailureStutter
<1>11. QED
  BY <1>1, <1>2, <1>3, <1>4, <1>5, <1>6, <1>7, <1>8, <1>9, <1>10 DEF Next, NothingDue

(* With prompt slaves a master that reports a failure missed nothing: the  *)
(* slave sent no good answer that fits the buffer.                         *)
THEOREM EveryFailureIsTheSlaves ==
  ASSUME Orderly
  PROVE  Spec => []FailureIsTheSlaves
<1>1. Init => FailureInv
  BY DEF Init, FailureInv, FailureIsTheSlaves, NoResult
<1>2. TypeOK /\ OrderlyInv /\ FailureInv /\ [Next]_vars => FailureInv'
  BY FailureStep
<1>3. FailureInv => FailureIsTheSlaves
  BY DEF FailureInv
<1>4. QED
  BY <1>1, <1>2, <1>3, OrderlyAlways, PTL DEF Spec

(***************************************************************************)
(* Prompt slaves, with configurations at any moment.  PromptInv is         *)
(* inductive there: outside the wait nothing can reach the task (PortInv); *)
(* during it whatever moves is of the one answer to the open transaction   *)
(* (WaitInv), so the first byte in the buffer is, and with it the frame.   *)
(***************************************************************************)

(* Where each phase finds the port.                                        *)
LEMMA PortStep ==
  ASSUME Prompt, TypeOK, PromptInv, [Next]_vars
  PROVE  PortInv'
<1> USE DEF PromptInv, Prompt, PortInv, Still, NoEvent
<1> USE DEF LineQuiet, TasksMayRun, TaskRuns, Running, Critical
<1>1. ASSUME NEW k \in Kinds, NEW s \in Slaves, Begin(k, s)
      PROVE  PortInv'
  BY <1>1 DEF Begin, Request, TypeOK
<1>2. CASE TaskStep
  <2>1. CASE SendTest \/ SendArm \/ SuspendAll \/ StopTxRx
    BY <2>1 DEF SendTest, SendArm, SuspendAll, StopTxRx
  <2>2. CASE TransmitFSM
    BY <2>2 DEF TransmitFSM
  <2>3. CASE GetEvent
    BY <2>3 DEF GetEvent, WaitInv
  <2>4. CASE Timeout
    BY <2>4 DEF Timeout, Settled
  <2>5. CASE Receive
    BY <2>5 DEF Receive
  <2>6. CASE Reply
    BY <2>6 DEF Reply
  <2>7. QED
    BY <1>2, <2>1, <2>2, <2>3, <2>4, <2>5, <2>6 DEF TaskStep
<1>3. CASE StartStep
  BY <1>3 DEF StartStep, StartIdle, StartSerial, StartTimer
<1>4. CASE ConfigInit \/ ConfigEnable
  BY <1>4 DEF ConfigInit, ConfigEnable
<1>5. CASE TimerExpires \/ TimerISR
  BY <1>5 DEF TimerExpires, TimerISR, T35Enter, T35Serial, T35Timer, T35Leave,
     WaitInv
<1>6. CASE ReceiveFSM
  BY <1>6 DEF ReceiveFSM
<1>7. CASE SlaveStep
  BY <1>7 DEF SlaveStep, SlaveSilent, SlaveAnswers
<1>8. CASE LineStep
  BY <1>8 DEF LineStep, LineByte, LineEnd, NoWire, NoFrame
<1>9. CASE UNCHANGED vars
  BY <1>9
<1>10. QED
  BY <1>1, <1>2, <1>3, <1>4, <1>5, <1>6, <1>7, <1>8, <1>9 DEF Next, NothingDue

(* A byte on its way comes from the answer on the line, so T4 is not       *)
(* running its interrupt and no event is queued.                           *)
LEMMA ByteInFlight ==
  ASSUME PromptInv, wire # NoWire \/ shift # NoByte
  PROVE  /\ pc = "wait" /\ wire # NoWire /\ OpenAnswer(wire.frame) /\ tid > 0
         /\ pending = {} /\ event = NoEvent /\ ~t4if /\ t4 = "out"
         /\ shift # NoByte => shift[1] = wire.frame
<1>1. pc = "wait"
  BY DEF PromptInv, PortInv, Still, LineQuiet
<1>2. wire # NoWire /\ OpenAnswer(wire.frame) /\ tid > 0
      /\ (shift # NoByte => shift[1] = wire.frame)
  BY <1>1 DEF PromptInv, PortInv, WaitInv
<1>3. ~LineQuiet
  BY <1>2 DEF LineQuiet
<1>4. pending = {} /\ ~t4if /\ t4 = "out"
  BY <1>1, <1>3 DEF PromptInv, WaitInv
<1>5. event = NoEvent
  BY <1>1, <1>3, <1>4 DEF PromptInv, WaitInv
<1>6. QED
  BY <1>1, <1>2, <1>4, <1>5

(* A byte leaves the line, and the UART takes it or not.                   *)
LEMMA WaitLine ==
  ASSUME TypeOK, PromptInv, LineStep
  PROVE  (pc = "wait" => WaitInv)'
<1>1. wire # NoWire
  BY DEF LineStep, LineByte, LineEnd, NoWire, NoFrame
<1>2. /\ pc = "wait" /\ OpenAnswer(wire.frame) /\ tid > 0
      /\ pending = {} /\ event = NoEvent /\ ~t4if /\ t4 = "out"
  BY <1>1, ByteInFlight
<1>3. UNCHANGED <<pc, tid, req, eRcvState, usRcvBufferPos, buf, event, timerOn, t4if,
                  t4, rxOn, pending, answers>>
  BY DEF LineStep, LineByte, LineEnd
<1>4. CASE LineByte
  <2>1. /\ wire' = [frame |-> wire.frame, sent |-> wire.sent + 1]
        /\ shift' = shift \/ shift' = <<wire.frame, wire.sent>>
    BY <1>4 DEF LineByte
  <2>2. wire.frame # NoFrame
    BY <1>2 DEF OpenAnswer, NoFrame
  <2>3. wire'.frame = wire.frame /\ wire' # NoWire
    BY <2>1, <2>2 DEF NoWire
  <2>4. shift' # NoByte => shift'[1] = wire'.frame
    BY <1>1, <2>1, <2>3, ByteInFlight
  <2>5. OpenAnswer(wire.frame)'
    BY <1>2, <1>3, <2>3 DEF OpenAnswer
  <2>6. QED
    BY <1>2, <1>3, <2>3, <2>4, <2>5 DEF PromptInv, WaitInv, OpenAnswer
<1>5. CASE LineEnd
  BY <1>2, <1>3, <1>5 DEF LineEnd, PromptInv, WaitInv, OpenAnswer
<1>6. QED
  BY <1>4, <1>5 DEF LineStep

(* U2RX stores the byte, first or behind others of the same answer.        *)
LEMMA WaitByte ==
  ASSUME TypeOK, PromptInv, ReceiveFSM
  PROVE  (pc = "wait" => WaitInv)'
<1>1. shift # NoByte /\ shift' = NoByte
      /\ UNCHANGED <<task, event, t4, rxOn, conf, line>>
  BY DEF ReceiveFSM
<1>2. /\ pc = "wait" /\ wire # NoWire /\ OpenAnswer(wire.frame) /\ tid > 0
      /\ pending = {} /\ event = NoEvent /\ ~t4if /\ t4 = "out"
      /\ shift[1] = wire.frame
  BY <1>1, ByteInFlight
<1>3. CASE eSndState # "IDLE"
  <2>1. UNCHANGED <<eRcvState, usRcvBufferPos, buf, timerOn, t4if>>
    BY <1>3 DEF ReceiveFSM
  <2>2. QED
    BY <1>1, <1>2, <2>1 DEF PromptInv, WaitInv, OpenAnswer
<1>4. CASE eSndState = "IDLE"
  <2>1. StoreByte /\ ~t4if'
    BY <1>4 DEF ReceiveFSM
  <2>2. eRcvState' # "IDLE" => usRcvBufferPos' > 0 /\ OpenAnswer(buf'[0][1])
    <3>1. CASE eRcvState = "IDLE"
      <4>1. usRcvBufferPos' = 1 /\ buf'[0] = shift
        BY <2>1, <3>1 DEF StoreByte, TypeOK, FramesOK
      <4>2. QED
        BY <1>2, <4>1
    <3>2. CASE eRcvState # "IDLE"
      <4>1. usRcvBufferPos > 0 /\ OpenAnswer(buf[0][1])
        BY <1>2, <3>2 DEF PromptInv, WaitInv
      <4>2. usRcvBufferPos' > 0 /\ buf'[0] = buf[0]
        BY <2>1, <3>2, <4>1 DEF StoreByte, TypeOK, FramesOK
      <4>3. QED
        BY <4>1, <4>2
    <3>3. QED
      BY <3>1, <3>2
  <2>3. (eRcvState # "IDLE" => usRcvBufferPos > 0 /\ OpenAnswer(buf[0][1]))'
    BY <1>1, <2>2 DEF OpenAnswer
  <2>4. QED
    BY <1>1, <1>2, <2>1, <2>3 DEF PromptInv, WaitInv, OpenAnswer
<1>5. QED
  BY <1>3, <1>4

(* A slave answers the one request it heard, or keeps silent.              *)
LEMMA WaitSlave ==
  ASSUME TypeOK, PromptInv, SlaveStep
  PROVE  (pc = "wait" => WaitInv)'
<1>1. PICK r \in pending :
        \/ SlaveSilent(r)
        \/ \E n \in ReplyLens, good \in BOOLEAN, fits \in BOOLEAN :
             SlaveAnswers(r, n, good, fits)
  BY DEF SlaveStep
<1>2. pc = "wait"
  BY <1>1 DEF PromptInv, PortInv, Still
<1>3. /\ r = req.frame /\ pending = {r} /\ r.tid = tid /\ tid > 0
      /\ LineQuiet /\ eRcvState = "IDLE" /\ ~timerOn /\ ~t4if /\ event = NoEvent
  BY <1>1, <1>2 DEF PromptInv, PortInv, WaitInv
<1>4. UNCHANGED <<pc, tid, req, fsm, port>> /\ pending' = {}
  BY <1>1, <1>3 DEF SlaveSilent, SlaveAnswers
<1>5. CASE SlaveSilent(r)
  BY <1>2, <1>3, <1>4, <1>5 DEF SlaveSilent, PromptInv, WaitInv, LineQuiet, OpenAnswer
<1>6. ASSUME NEW n \in ReplyLens, NEW good \in BOOLEAN, NEW fits \in BOOLEAN,
             SlaveAnswers(r, n, good, fits)
      PROVE  (pc = "wait" => WaitInv)'
  <2> DEFINE f == [dir |-> "rep", tid |-> r.tid, slave |-> r.slave,
                   len |-> n, good |-> good, fits |-> fits]
  <2>1. wire' = [frame |-> f, sent |-> 0] /\ answers' = answers \cup {f}
    BY <1>6 DEF SlaveAnswers
  <2>2. f.tid = tid
    BY <1>3
  <2> HIDE DEF f
  <2>3. wire'.frame = f /\ OpenAnswer(wire.frame)'
    BY <1>4, <2>1, <2>2 DEF OpenAnswer
  <2>4. shift' = NoByte /\ t4' = "out"
    BY <1>2, <1>3, <1>4 DEF LineQuiet, PromptInv, WaitInv
  <2>5. QED
    BY <1>3, <1>4, <2>3, <2>4 DEF WaitInv
<1>7. QED
  BY <1>1, <1>5, <1>6

LEMMA WaitStep ==
  ASSUME Prompt, TypeOK, PromptInv, [Next]_vars
  PROVE  (pc = "wait" => WaitInv)'
<1> USE DEF PromptInv, Prompt, PortInv, Still, WaitInv, NoEvent, OpenAnswer
<1> USE DEF LineQuiet, TasksMayRun, TaskRuns, Running, Critical
<1>1. ASSUME NEW k \in Kinds, NEW s \in Slaves, Begin(k, s)
      PROVE  (pc = "wait" => WaitInv)'
  BY <1>1 DEF Begin
<1>2. CASE TaskStep
  BY <1>2 DEF TaskStep, SendTest, SendArm, SuspendAll, TransmitFSM, GetEvent,
     Timeout, StopTxRx, Receive, Reply
<1>3. CASE StartStep
  BY <1>3 DEF StartStep, StartIdle, StartSerial, StartTimer
<1>4. CASE ConfigInit \/ ConfigEnable
  BY <1>4 DEF ConfigInit, ConfigEnable
<1>5. CASE TimerExpires
  BY <1>5 DEF TimerExpires
<1>6. CASE TimerISR
  BY <1>6 DEF TimerISR, T35Enter, T35Serial, T35Timer, T35Leave, TypeOK
<1>7. CASE UNCHANGED vars
  BY <1>7
<1>8. QED
  BY <1>1, <1>2, <1>3, <1>4, <1>5, <1>6, <1>7, WaitByte, WaitSlave, WaitLine
  DEF Next, NothingDue

(* From the event to the verdict the buffer is left alone.                 *)
LEMMA VerdictStep ==
  ASSUME Prompt, TypeOK, PromptInv, [Next]_vars
  PROVE  /\ (pc = "receive" => OpenAnswer(buf[0][1]))'
         /\ (pc = "reply" /\ status \in {"ENOERR", "ENOREG"} =>
               OpenAnswer(buf[0][1]) /\ FrameOf(buf, rcvLen) # NoFrame)'
<1> USE DEF PromptInv, OpenAnswer
<1>1. ASSUME NEW k \in Kinds, NEW s \in Slaves, Begin(k, s)
      PROVE  pc' \notin {"receive", "reply"}
  BY <1>1 DEF Begin
<1>2. CASE \/ SendTest \/ SendArm \/ SuspendAll \/ TransmitFSM \/ Timeout
           \/ StopTxRx \/ Reply
  BY <1>2 DEF SendTest, SendArm, SuspendAll, TransmitFSM, Timeout, StopTxRx,
     Reply, TaskRuns, PortInv
<1>3. CASE GetEvent
  BY <1>3 DEF GetEvent, WaitInv
<1>4. CASE Receive
  <2>1. pc = "receive" /\ OpenAnswer(buf[0][1])
        /\ UNCHANGED <<tid, req, result, fsm, port, conf, line>>
    BY <1>4 DEF Receive
  <2>2. pc' = "reply" /\ status' \in {"ENOERR", "ENOREG"} =>
          FrameOf(buf, rcvLen') # NoFrame
    BY <1>4 DEF Receive, Verdict
  <2>3. QED
    BY <1>4, <2>1, <2>2 DEF Receive
<1>5. CASE StartStep
  <2>1. pc' = "reply" => pc = "reply" \/ (pc = "stop" /\ startBy = "task")
    BY <1>5 DEF StartStep, StartIdle, StartSerial, StartTimer, PortInv
  <2>2. pc' = "receive" => pc = "receive"
    BY <1>5 DEF StartStep, StartIdle, StartSerial, StartTimer
  <2>3. pc = "stop" => status = "ETIMEDOUT"
    BY DEF PortInv
  <2>4. UNCHANGED <<tid, status, rcvLen, buf, answers>>
    BY <1>5 DEF StartStep, StartIdle, StartSerial, StartTimer
  <2>5. QED
    BY <2>1, <2>2, <2>3, <2>4
<1>6. CASE ConfigInit \/ ConfigEnable
  BY <1>6 DEF ConfigInit, ConfigEnable
<1>7. CASE TimerExpires \/ TimerISR
  BY <1>7 DEF TimerExpires, TimerISR, T35Enter, T35Serial, T35Timer, T35Leave
<1>8. CASE ReceiveFSM
  <2>1. pc = "wait" /\ pc' = pc
    BY <1>8, ByteInFlight DEF ReceiveFSM
  <2>2. QED
    BY <2>1
<1>9. CASE SlaveStep
  BY <1>9 DEF SlaveStep, SlaveSilent, SlaveAnswers
<1>10. CASE LineStep
  BY <1>10 DEF LineStep, LineByte, LineEnd
<1>11. CASE UNCHANGED vars
  BY <1>11
<1>12. QED
  BY <1>1, <1>2, <1>3, <1>4, <1>5, <1>6, <1>7, <1>8, <1>9, <1>10, <1>11
  DEF Next, NothingDue, TaskStep

(* TaskModbus reports the frame the buffer holds, if its CRC is right.     *)
LEMMA SuccessStep ==
  ASSUME TypeOK, PromptInv, [Next]_vars
  PROVE  SuccessIsTheAnswer'
<1> USE DEF PromptInv, SuccessIsTheAnswer
<1>1. ASSUME NEW k \in Kinds, NEW s \in Slaves, Begin(k, s)
      PROVE  SuccessIsTheAnswer'
  BY <1>1 DEF Begin
<1>2. CASE \/ SendTest \/ SendArm \/ SuspendAll \/ GetEvent \/ Timeout
           \/ StopTxRx \/ Receive
  BY <1>2 DEF SendTest, SendArm, SuspendAll, GetEvent,
     StopTxRx, Receive, Timeout
<1>3. CASE TransmitFSM
  BY <1>3 DEF TransmitFSM, PortInv
<1>4. CASE StartStep \/ ConfigInit \/ ConfigEnable
  BY <1>4 DEF StartStep, StartIdle, StartSerial, StartTimer, ConfigInit, ConfigEnable
<1>5. CASE TimerExpires \/ TimerISR \/ ReceiveFSM
  BY <1>5 DEF TimerExpires, TimerISR, T35Enter, T35Serial, T35Timer, T35Leave,
     ReceiveFSM
<1>6. CASE SlaveStep \/ LineStep
  BY <1>6 DEF SlaveStep, SlaveSilent, SlaveAnswers, LineStep, LineByte, LineEnd
<1>7. CASE UNCHANGED vars
  BY <1>7
<1>8. CASE Reply
  <2>1. CASE status \notin {"ENOERR", "ENOREG"}
    BY <1>8, <2>1 DEF Reply
  <2>2. CASE status \in {"ENOERR", "ENOREG"}
    <3> DEFINE f == FrameOf(buf, rcvLen)
    <3>1. /\ result' = [tid |-> tid, status |-> status, frame |-> f]
          /\ UNCHANGED answers
      BY <1>8, <2>2 DEF Reply
    <3>2. OpenAnswer(buf[0][1]) /\ f # NoFrame
      BY <1>8, <2>2 DEF Reply
    <3>3. f = buf[0][1] /\ f.good
      BY <3>2 DEF FrameOf
    <3>4. QED
      BY <3>1, <3>2, <3>3 DEF OpenAnswer
  <2>3. QED
    BY <2>1, <2>2
<1>9. QED
  BY <1>1, <1>2, <1>3, <1>4, <1>5, <1>6, <1>7, <1>8 DEF Next, NothingDue, TaskStep

LEMMA PromptAlways ==
  ASSUME Prompt
  PROVE  Spec => []PromptInv
<1>1. Init => PromptInv
  BY DEF Init, PromptInv, PortInv, Still, LineQuiet, SuccessIsTheAnswer, NoResult
<1>2. TypeOK /\ PromptInv /\ [Next]_vars => PromptInv'
  <2> SUFFICES ASSUME TypeOK, PromptInv, [Next]_vars
               PROVE  PromptInv'
    OBVIOUS
  <2>1. PortInv' /\ SuccessIsTheAnswer' /\ (pc = "wait" => WaitInv)'
    BY PortStep, SuccessStep, WaitStep
  <2>2. /\ (pc = "receive" => OpenAnswer(buf[0][1]))'
        /\ (pc = "reply" /\ status \in {"ENOERR", "ENOREG"} =>
              OpenAnswer(buf[0][1]) /\ FrameOf(buf, rcvLen) # NoFrame)'
    BY VerdictStep
  <2>3. QED
    BY <2>1, <2>2 DEF PromptInv
<1>3. QED
  BY <1>1, <1>2, TypeCorrect, PTL DEF Spec

(* With prompt slaves every transaction begins on a quiet line with an     *)
(* idle receiver, a stopped timer and no event left in the queue, whenever *)
(* FlyportTask configures the port and whatever the length of the frames.  *)
THEOREM EveryStartIsClean ==
  ASSUME Prompt
  PROVE  Spec => []CleanStart
<1>1. PromptInv => CleanStart
  BY DEF PromptInv, PortInv, Still, CleanStart
<1>2. QED
  BY <1>1, PromptAlways, PTL

(* With prompt slaves what a transaction reports as a success is a good    *)
(* answer a slave sent to this very request, complete and in order, even   *)
(* when a configuration reset the receiver in the middle of an answer.     *)
THEOREM EverySuccessIsTheAnswer ==
  ASSUME Prompt
  PROVE  Spec => []SuccessIsTheAnswer
<1>1. PromptInv => SuccessIsTheAnswer
  BY DEF PromptInv
<1>2. QED
  BY <1>1, PromptAlways, PTL

(***************************************************************************)
(* Every environment: slaves that answer late or with pauses, and          *)
(* FlyportTask configuring the port inside a transaction.                  *)
(***************************************************************************)

(* The master never listens while it transmits: SendArm turns the driver   *)
(* on before the first byte, nothing turns the receiver on before the last.*)
THEOREM TheLineIsHalfDuplex == Spec => []HalfDuplex
<1>1. Init => HalfDuplex
  BY DEF Init, HalfDuplex
<1>2. HalfDuplex /\ [Next]_vars => HalfDuplex'
  <2> SUFFICES ASSUME HalfDuplex, [Next]_vars
               PROVE  HalfDuplex'
    OBVIOUS
  <2> USE DEF HalfDuplex
  <2>1. CASE TransmitFSM
    BY <2>1 DEF TransmitFSM
  <2>2. CASE TaskStep /\ ~TransmitFSM
    BY <2>2 DEF TaskStep, SendTest, SendArm, SuspendAll, GetEvent, Timeout,
       StopTxRx, Receive, Reply
  <2>3. CASE StartStep \/ ConfigInit \/ ConfigEnable
    BY <2>3 DEF StartStep, StartIdle, StartSerial, StartTimer, ConfigInit,
       ConfigEnable
  <2>4. CASE TimerExpires \/ TimerISR \/ ReceiveFSM
    BY <2>4 DEF TimerExpires, TimerISR, T35Enter, T35Serial, T35Timer,
       T35Leave, ReceiveFSM
  <2>5. CASE SlaveStep \/ LineStep
    BY <2>5 DEF SlaveStep, SlaveSilent, SlaveAnswers, LineStep, LineByte,
       LineEnd
  <2>6. CASE UNCHANGED vars \/ \E k \in Kinds, s \in Slaves : Begin(k, s)
    BY <2>6 DEF Begin
  <2>7. QED
    BY <2>1, <2>2, <2>3, <2>4, <2>5, <2>6 DEF Next, NothingDue
<1>3. QED
  BY <1>1, <1>2, PTL DEF Spec

=============================================================================
