------------------------------ MODULE MasterPort ------------------------------
(***************************************************************************)
(* What the ASCII and the PowerOne master have in common: TaskModbus and   *)
(* its transaction (modbus/mb.c), the ports (modbus/port: event queue, T4, *)
(* the direction of the RS485 driver) and the line with a slave.           *)
(*                                                                         *)
(* Each master has receive and transmit variables of its own; those of the *)
(* mode in use are the ones here, for the mode changes between two         *)
(* transactions, when both are idle.  U2RX nests over the tasks and over   *)
(* the T4 interrupt, one byte at most during that routine.                 *)
(*                                                                         *)
(* A character is the frame it belongs to, its kind and its index there.   *)
(* Slaves answer within the two seconds of xMBPortEventGet or not at all,  *)
(* whatever they send.                                                     *)
(***************************************************************************)
EXTENDS Integers, Sequences, SequencesExt

CONSTANTS
  Modes,    \* "ascii", "powerone": what a configuration may set
  MaxReq,   \* bound on the number of transactions
  Noise     \* what an answer may suffer

ASSUME PortAssumption ==
  /\ Modes \subseteq {"ascii", "powerone"} /\ MaxReq \in Nat
  /\ Noise \subseteq {"silent", "cut", "pause", "damage", "restart", "foreign",
                      "nolf"}

VARIABLES
  mode,                       \* eMBCurrentMode
  pc, tid, req, status,       \* TaskModbus and its open transaction
  parts,                      \* the answers it has got
  result,                     \* of the last transaction, until the next begins
  eRcvState, eSndState, usSndBufferCount, eBytePos,
  buf,                        \* the characters that usRcvBufferPos counts
  event,                      \* the queue of one event
  timerOn, t4if, t4,          \* TON, T4IF, where the T4 routine is
  rxOn,                       \* direction of the RS485 driver
  shift, pending, wire,       \* the byte that arrived, the slave, the line
  abort                       \* an assertion failed

task  == <<mode, pc, tid, req, status, parts, result>>
fsm   == <<eRcvState, eSndState, usSndBufferCount, eBytePos, buf>>
port  == <<event, timerOn, t4if, t4, rxOn>>
line  == <<shift, pending, wire>>
vars  == <<task, fsm, port, line, abort>>

NoFrame  == [tid |-> 0, part |-> 0, len |-> 0, good |-> FALSE, own |-> FALSE]
NoChar   == [kind |-> "none", frame |-> NoFrame, i |-> 0]
Gap      == [NoChar EXCEPT !.kind = "gap"]
NoReq    == [kind |-> "read", start |-> 0, regs |-> 0]
NoResult == [tid |-> 0, req |-> NoReq, status |-> "EIO", parts |-> <<>>]
Running  == ~abort
TaskRuns == Running /\ t4 = "out" /\ ~t4if
Quiet    == shift = NoChar /\ (IF wire = <<>> THEN TRUE ELSE Head(wire) = Gap)

PortInit ==
  /\ mode \in Modes
  /\ pc = "idle" /\ tid = 0 /\ req = NoReq /\ status = "ENOERR" /\ parts = <<>>
  /\ result = NoResult
  /\ eRcvState = "IDLE" /\ eSndState = "IDLE" /\ eBytePos = "HIGH"
  /\ usSndBufferCount = 0 /\ buf = <<>>
  /\ event = FALSE /\ timerOn = FALSE /\ t4if = FALSE /\ t4 = "out"
  /\ rxOn = FALSE /\ shift = NoChar /\ pending = FALSE /\ wire = <<>>
  /\ abort = FALSE

RS485TxEnable        == rxOn' = FALSE
RS485TxDisable       == rxOn' = TRUE
vMBPortSerialEnable(rx) == IF rx THEN RS485TxDisable ELSE RS485TxEnable
xMBPortSerialInit    == shift' = NoChar      \* the UART goes off and on
xMBPortSerialGetByte == shift # NoChar /\ shift' = NoChar
vMBPortTimersEnable  == timerOn' = TRUE /\ t4if' = FALSE
vMBPortTimersDisable == timerOn' = FALSE /\ UNCHANGED t4if
xMBPortEventPost     == event' = TRUE

----------------------------------------------------------------------------
(* TaskModbus.  A configuration between two transactions may change the    *)
(* mode: eMBInit switches the UART off and on, eMBEnable starts it.  What  *)
(* the buffers hold then is never read again.                              *)
Begin(k, s, n) ==
  /\ TaskRuns /\ pc = "idle" /\ tid < MaxReq
  /\ tid' = tid + 1 /\ req' = [kind |-> k, start |-> s, regs |-> n]
  /\ pc' = "send" /\ status' = "ENOERR" /\ parts' = <<>> /\ result' = NoResult
  /\ UNCHANGED <<mode, fsm, port, line, abort>>

pvMBFrameStartCur ==
  /\ eRcvState' = "IDLE" /\ vMBPortSerialEnable(FALSE) /\ vMBPortTimersDisable
  /\ UNCHANGED <<eSndState, usSndBufferCount, eBytePos, event, t4>>

eMBInit(m) ==
  /\ TaskRuns /\ pc = "idle" /\ mode' = m /\ xMBPortSerialInit
  /\ pvMBFrameStartCur /\ buf' = <<>>
  /\ UNCHANGED <<pc, tid, req, status, parts, result, pending, wire, abort>>

(* Nothing is due, or an assertion failed, which loops for ever.           *)
NothingDue == (abort \/ (TaskRuns /\ pc = "idle")) /\ UNCHANGED vars

(* The transmitter is idle: the receiver is turned on, the request is out, *)
(* and so is what was left of an earlier answer: a request takes longer.   *)
SendIdle ==
  /\ wire = <<>> /\ shift = NoChar /\ vMBPortSerialEnable(TRUE)
  /\ IF status = "ENOERR" THEN pc' = "wait" /\ pending' = TRUE
                          ELSE pc' = "reply" /\ UNCHANGED pending

xMBPortEventGet ==
  /\ TaskRuns /\ pc = "wait" /\ event
  /\ event' = FALSE /\ pc' = "receive"
  /\ UNCHANGED <<mode, tid, req, status, parts, result, fsm, timerOn, t4if, t4,
                 rxOn, line, abort>>

(* Two seconds are over, and with them all the slave sent: eMBStopTxRx.    *)
Settled == ~pending /\ wire = <<>> /\ shift = NoChar /\ ~timerOn

Timeout ==
  /\ TaskRuns /\ pc = "wait" /\ ~event /\ Settled
  /\ pvMBFrameStartCur
  /\ pc' = "reply" /\ status' = "ETIMEDOUT"
  /\ UNCHANGED <<mode, tid, req, parts, result, buf, line, abort>>

Reply ==
  /\ TaskRuns /\ pc = "reply" /\ pc' = "idle"
  /\ result' = [tid |-> tid, req |-> req, status |-> status, parts |-> parts]
  /\ parts' = <<>> /\ req' = NoReq /\ status' = "ENOERR"
  /\ UNCHANGED <<mode, tid, fsm, port, line, abort>>

----------------------------------------------------------------------------
(* T4: the handler meets a frame that stopped, or its assertion fails.     *)
TimerExpires ==
  /\ Running /\ timerOn /\ ~t4if /\ t4 = "out" /\ Quiet
  /\ t4if' = TRUE
  /\ UNCHANGED <<task, fsm, event, timerOn, t4, rxOn, line, abort>>

TimerEnters ==
  /\ Running /\ t4if /\ t4 = "out"
  /\ IF eRcvState = "IDLE" THEN abort' = TRUE /\ UNCHANGED <<t4, eRcvState>>
     ELSE t4' = "disable" /\ eRcvState' = "IDLE" /\ UNCHANGED abort
  /\ UNCHANGED <<task, eSndState, usSndBufferCount, eBytePos, buf, event,
                 timerOn, t4if, rxOn, line>>

TimerStops ==
  /\ Running /\ t4 = "disable" /\ t4' = "leave" /\ vMBPortTimersDisable
  /\ UNCHANGED <<task, fsm, event, rxOn, line, abort>>

TimerLeaves ==
  /\ Running /\ t4 = "leave" /\ t4' = "out" /\ t4if' = FALSE
  /\ UNCHANGED <<task, fsm, event, timerOn, rxOn, line, abort>>

_T4Interrupt == TimerEnters \/ TimerStops \/ TimerLeaves

----------------------------------------------------------------------------
(* The line.  A slave sends a sequence of characters, Gap among them where *)
(* it pauses for longer than T4 and its interrupt routine take.            *)
Answers(s) ==
  /\ Running /\ pending /\ pending' = FALSE /\ wire' = s
  /\ UNCHANGED <<task, fsm, port, shift, abort>>

LineByte ==
  /\ Running /\ t4 = "out" /\ wire # <<>> /\ shift = NoChar
  /\ Head(wire) = Gap => ~timerOn /\ ~t4if
  /\ shift' = IF rxOn /\ Head(wire) # Gap THEN Head(wire) ELSE NoChar
  /\ wire' = Tail(wire)
  /\ UNCHANGED <<task, fsm, port, pending, abort>>

(* What may become of the answer s of f: its characters after the first n  *)
(* are lost or follow a pause, or it is begun again after them, if nothing *)
(* else is wrong with it.                                                  *)
Spoilt(f, s) ==
  {s} \cup IF ~(f.good /\ f.own) THEN {} ELSE
  (IF "silent" \in Noise THEN {<<>>} ELSE {})
  \cup (IF "cut" \in Noise THEN {SubSeq(s, 1, n) : n \in 1 .. Len(s) - 1} ELSE {})
  \cup (IF "pause" \in Noise
        THEN {SubSeq(s, 1, n) \o <<Gap>> \o SubSeq(s, n + 1, Len(s)) :
                n \in 1 .. Len(s) - 1} ELSE {})
  \cup (IF "restart" \in Noise
        THEN {SubSeq(s, 1, n) \o s : n \in 1 .. Len(s) - 1} ELSE {})

Frames(p, lens) ==
  {f \in [tid : {tid}, part : {p}, len : lens, good : BOOLEAN, own : BOOLEAN] :
     /\ ~f.good => "damage" \in Noise
     /\ ~f.own  => "foreign" \in Noise}

PortTypeOK ==
  /\ mode \in Modes /\ tid \in 0 .. MaxReq
  /\ pc \in {"idle", "send", "xmit", "wait", "receive", "reply"}
  /\ status \in {"ENOERR", "ENOREG", "EIO", "ETIMEDOUT"}
  /\ eRcvState \in {"IDLE", "RCV", "WAIT_EOF"} /\ eBytePos \in {"HIGH", "LOW"}
  /\ t4 \in {"out", "disable", "leave"}
  /\ {event, timerOn, t4if, rxOn, pending, abort} \subseteq BOOLEAN
===============================================================================
