------------------------- MODULE SerialModes_proofs -------------------------
(***************************************************************************)
(* The ASCII and the PowerOne master, for every length of buffers and      *)
(* frames, every noise on the line and every order of modes: no receiver   *)
(* leaves its buffer, and a success is the answer to its own request.      *)
(***************************************************************************)
EXTENDS SerialModes, SequenceTheorems, TLAPS

Frame == [tid : Nat, part : Nat, len : Nat, good : BOOLEAN, own : BOOLEAN]
Kind  == {"none", "gap", "colon", "digit", "bad", "cr", "lf", "byte"}
Char  == [kind : Kind, frame : Frame, i : Nat]

(* What a slave may send in answer to the request that is out.             *)
Slot == IF Ascii THEN 0 ELSE Group

Mine ==
  {c \in Char : c.frame # NoFrame =>
     c.frame.tid = tid /\ c.frame.part = Slot /\ (PowerOne => c.frame.own)}

Open == pc \in {"send", "xmit", "wait", "receive"}

Types ==
  /\ PortTypeOK
  /\ eSndState \in {"IDLE", "START", "DATA", "END", "NOTIFY", "XMIT"}
  /\ req \in [kind : {"read", "send"}, start : Nat, regs : Nat]
  /\ parts \in Seq(Frame) /\ buf \in Seq(Char)
  /\ Open => status = "ENOERR"

(* The receiver is off but for the wait; then it takes one answer.         *)
Silence ==
  pc # "wait" =>
    ~rxOn /\ shift = NoChar /\ eRcvState = "IDLE" /\ ~event /\ ~pending

Waiting ==
  pc = "wait" =>
    /\ pending => wire = <<>> /\ shift = NoChar /\ eRcvState = "IDLE" /\ ~event
    /\ event => ~rxOn /\ shift = NoChar /\ eRcvState = "IDLE"
    /\ wire \in Seq(Mine) /\ shift \in Mine
    /\ event \/ eRcvState # "IDLE" => buf \in Seq(Mine)

Received == pc = "receive" => buf \in Seq(Mine)

(* How much is in the buffer.                                              *)
Even(n) == n % 2 = 0

AsciiSize ==
  Ascii =>
    /\ Len(buf) <= 2 * PduMax
    /\ eRcvState # "IDLE" => (eBytePos = "HIGH" <=> Even(Len(buf)))

PowerOneSize ==
  PowerOne =>
    /\ Len(buf) <= AnswerLen
    /\ eRcvState = "RCV" => Len(buf) \in 1 .. 6
    /\ eRcvState = "WAIT_EOF" => Len(buf) = 7

(* The answers so far are those to the groups so far.                      *)
Own(t, p) == \A k \in DOMAIN p : p[k].tid = t /\ p[k].good /\ p[k].own

InOrder(q, p) == \A k \in DOMAIN p : p[k].part = q.start \div 3 + k

Gathered(t, q, p) ==
  Own(t, p) /\ InOrder(q, p) /\ 0 < q.regs /\ 3 * Len(p) < q.regs + 3

AllAnswered(t, q, p) ==
  /\ Own(t, p)
  /\ \/ Len(p) = 1 /\ p[1].part = 0
     \/ Len(p) = (q.regs + 2) \div 3 /\ InOrder(q, p)

Collected ==
  /\ Ascii /\ Open => parts = <<>>
  /\ PowerOne /\ Open => Gathered(tid, req, parts)
  /\ PowerOne /\ Open /\ pc # "send" => 3 * Len(parts) < req.regs
  /\ pc = "reply" /\ status = "ENOERR" => AllAnswered(tid, req, parts)

Reported ==
  result.status = "ENOERR" => AllAnswered(result.tid, result.req, result.parts)

IInv ==
  /\ Types /\ Silence /\ Waiting /\ Received /\ AsciiSize /\ PowerOneSize
  /\ Collected /\ Reported

-----------------------------------------------------------------------------
(* What a slave sends, whatever becomes of it, is its own.                 *)
LEMMA NoChars == NoFrame \in Frame /\ NoChar \in Mine /\ Gap \in Mine
<1>1. NoFrame \in Frame
  BY DEF NoFrame, Frame
<1>2. NoChar \in Char /\ NoChar.frame = NoFrame
  BY <1>1 DEF NoChar, Kind, Char
<1>3. Gap \in Char /\ Gap.frame = NoFrame
  BY <1>1 DEF NoChar, Kind, Char, Gap
<1> QED
  BY <1>1, <1>2, <1>3 DEF Mine

LEMMA PduNat == PduMax \in Nat /\ PduMin \in Nat /\ PduMin > 0
<1>1. PduMax \in Nat \ {0} /\ PduMin \in Nat \ {0}
  BY AsciiAssumption
<1> QED
  BY <1>1

LEMMA RequestNat ==
  ASSUME NEW s \in Starts, NEW n \in Counts PROVE s \in Nat /\ n \in Nat /\ 0 < n
<1>1. s \in Nat /\ n \in 1 .. 255
  BY RequestAssumption
<1> QED
  BY <1>1

LEMMA SignMine == ASSUME NEW k \in Kind PROVE Sign(k) \in Mine
<1>1. Sign(k) \in Char /\ Sign(k).frame = NoFrame
  BY NoChars DEF NoChar, Kind, Char, Sign
<1> QED
  BY <1>1 DEF Mine

LEMMA MineKept == ASSUME UNCHANGED <<mode, tid, req, parts>> PROVE Mine' = Mine
BY DEF Mine, Slot, Ascii, PowerOne, Group

LEMMA SeqMine == ASSUME NEW s \in Seq(Mine) PROVE s \in Seq(Char)
BY DEF Mine

LEMMA SpoiltMine ==
  ASSUME NEW f, NEW s \in Seq(Mine), NEW x \in Spoilt(f, s) PROVE x \in Seq(Mine)
<1>1. \A n \in 1 .. Len(s) - 1 :
        SubSeq(s, 1, n) \in Seq(Mine) /\ SubSeq(s, n + 1, Len(s)) \in Seq(Mine)
  BY SubSeqProperties
<1>2. <<>> \in Seq(Mine) /\ <<Gap>> \in Seq(Mine)
  BY NoChars
<1>3. \A t, u \in Seq(Mine) : t \o u \in Seq(Mine)
  BY ConcatProperties
<1>4. CASE x = s
  BY <1>4
<1>5. CASE x = <<>>
  BY <1>2, <1>5
<1>6. CASE x \in {SubSeq(s, 1, n) : n \in 1 .. Len(s) - 1}
  BY <1>1, <1>6
<1>7. CASE x \in {SubSeq(s, 1, n) \o <<Gap>> \o SubSeq(s, n + 1, Len(s)) :
                    n \in 1 .. Len(s) - 1}
  BY <1>1, <1>2, <1>3, <1>7
<1>8. CASE x \in {SubSeq(s, 1, n) \o s : n \in 1 .. Len(s) - 1}
  BY <1>1, <1>3, <1>8
<1> QED
  BY <1>4, <1>5, <1>6, <1>7, <1>8 DEF Spoilt

LEMMA AsciiMine ==
  ASSUME Ascii, tid \in Nat, NEW f \in Frames(0, AsciiLens)
  PROVE  AsciiFrame(f) \in Seq(Mine)
<1>1. f \in Frame /\ f.tid = tid /\ f.part = 0 /\ f.len \in Nat
  BY AsciiAssumption DEF Frames, Frame
<1>2. ~PowerOne
  BY DEF Ascii, PowerOne
<1>3. \A i \in 1 .. 2 * f.len : Nibble(f, i) \in Mine
  <2> SUFFICES ASSUME NEW i \in 1 .. 2 * f.len PROVE Nibble(f, i) \in Mine
    OBVIOUS
  <2>1. Nibble(f, i) \in Char /\ Nibble(f, i).frame = f
    BY <1>1 DEF Nibble, Kind, Char
  <2> QED
    BY <1>1, <1>2, <2>1 DEF Mine, Slot
<1>4. [i \in 1 .. 2 * f.len |-> Nibble(f, i)] \in Seq(Mine)
  <2> DEFINE n == 2 * f.len
  <2>1. n \in Nat
    BY <1>1
  <2> HIDE DEF n
  <2>2. [i \in 1 .. n |-> Nibble(f, i)] \in [1 .. n -> Mine]
    BY <1>3 DEF n
  <2>3. [i \in 1 .. n |-> Nibble(f, i)] \in Seq(Mine)
    BY <2>1, <2>2
  <2> QED
    BY <2>3 DEF n
<1> DEFINE a == Sign("colon")  b == Sign("cr")  c == Sign("lf")
<1>5. a \in Mine /\ b \in Mine /\ c \in Mine
  BY SignMine DEF Kind
<1>6. <<a>> \in Seq(Mine) /\ <<b, c>> \in Seq(Mine)
  <2> HIDE DEF a, b, c
  <2> QED
    BY <1>5
<1> QED
  BY <1>4, <1>6, ConcatProperties DEF AsciiFrame

LEMMA PowerOneMine ==
  ASSUME PowerOne, tid \in Nat, req.start \in Nat, parts \in Seq(Frame),
         NEW f \in Frames(Group, {AnswerLen}), f.own
  PROVE  PowerOneFrame(f) \in Seq(Mine)
<1>1. Group \in Nat
  BY DEF Group
<1>2. f \in Frame /\ f.tid = tid /\ f.part = Group
  BY <1>1 DEF Frames, Frame, AnswerLen
<1>3. Slot = Group
  BY DEF Slot, Ascii, PowerOne
<1>4. \A i \in 1 .. AnswerLen : PowerOneFrame(f)[i] \in Mine
  <2> SUFFICES ASSUME NEW i \in 1 .. AnswerLen PROVE PowerOneFrame(f)[i] \in Mine
    OBVIOUS
  <2> DEFINE c == [kind |-> "byte", frame |-> f, i |-> i]
  <2>1. PowerOneFrame(f)[i] = c
    BY DEF PowerOneFrame
  <2>2. c \in Char /\ c.frame = f
    BY <1>2 DEF Kind, Char, AnswerLen
  <2> HIDE DEF c
  <2>3. c \in Mine
    BY <1>2, <1>3, <2>2 DEF Mine
  <2> QED
    BY <2>1, <2>3
<1> QED
  BY <1>4 DEF PowerOneFrame, AnswerLen

LEMMA eMBASCIISendStep == ASSUME IInv, eMBASCIISend PROVE IInv'
<1> USE DEF eMBASCIISend, TaskRuns, vMBPortSerialEnable, RS485TxEnable,
         RS485TxDisable, fsm, port, line, task
<1>0. Mine' = Mine
  BY MineKept
<1>1. Types'
    BY DEF IInv, Types, PortTypeOK, Open, Silence
<1>2. Silence'
    BY DEF IInv, Silence
<1>3. Waiting'
    BY <1>0 DEF IInv, Waiting
<1>4. Received'
    BY <1>0 DEF IInv, Received
<1>5. AsciiSize'
    BY DEF IInv, AsciiSize, Ascii
<1>6. PowerOneSize'
    BY DEF IInv, PowerOneSize, PowerOne
<1>7. Collected'
    BY DEF IInv, Collected, Ascii, PowerOne, Open
<1>8. Reported'
    BY DEF IInv, Reported
<1> QED
  BY <1>1, <1>2, <1>3, <1>4, <1>5, <1>6, <1>7, <1>8 DEF IInv

LEMMA xMBASCIITransmitFSMStep == ASSUME IInv, xMBASCIITransmitFSM PROVE IInv'
<1> USE DEF xMBASCIITransmitFSM, TaskRuns, SendNext, SendNibble, SendIdle,
         vMBPortSerialEnable, RS485TxEnable, RS485TxDisable, fsm, port, line,
         task
<1>0. Mine' = Mine
  BY MineKept
<1>1. Types'
    BY DEF IInv, Types, PortTypeOK, Open
<1>2. Silence'
    BY DEF IInv, Silence, Types, Open
<1>3. Waiting'
    BY <1>0, NoChars DEF IInv, Waiting, Silence
<1>4. Received'
    BY <1>0 DEF IInv, Received
<1>5. AsciiSize'
    BY DEF IInv, AsciiSize, Ascii
<1>6. PowerOneSize'
    BY DEF IInv, PowerOneSize, PowerOne
<1>7. Collected'
    BY DEF IInv, Collected, Ascii, PowerOne, Open
<1>8. Reported'
    BY DEF IInv, Reported
<1> QED
  BY <1>1, <1>2, <1>3, <1>4, <1>5, <1>6, <1>7, <1>8 DEF IInv

LEMMA ePoweroneSendStep == ASSUME IInv, ePoweroneSend PROVE IInv'
<1> USE DEF ePoweroneSend, TaskRuns, vMBPortSerialEnable, RS485TxEnable,
         RS485TxDisable, fsm, port, line, task
<1>0. Mine' = Mine
  BY MineKept
<1>1. Types'
    BY DEF IInv, Types, PortTypeOK, Open, Silence
<1>2. Silence'
    BY DEF IInv, Silence
<1>3. Waiting'
    BY <1>0 DEF IInv, Waiting
<1>4. Received'
    BY <1>0 DEF IInv, Received
<1>5. AsciiSize'
    BY DEF IInv, AsciiSize, Ascii
<1>6. PowerOneSize'
    BY DEF IInv, PowerOneSize, PowerOne
<1>7. Collected'
  <2>1. PowerOne /\ ~Ascii /\ Gathered(tid, req, parts) /\ status = "ENOERR"
    BY DEF IInv, Collected, Types, Open, PowerOne, Ascii
  <2>2. \/ pc' = "xmit" /\ ePoweroneNextCmd
        \/ pc' = "reply" /\ ~ePoweroneNextCmd
        \/ pc' = "reply" /\ status' = "ENOREG"
    BY DEF Refused, ePoweroneNextCmd
  <2>3. UNCHANGED <<mode, tid, req, parts>>
    OBVIOUS
  <2>4. CASE pc' = "reply" /\ ~ePoweroneNextCmd
    <3>1. Len(parts) \in Nat /\ req.regs \in Nat
      BY DEF IInv, Types
    <3>2. 3 * Len(parts) < req.regs + 3 /\ ~(3 * Len(parts) < req.regs)
      BY <2>1, <2>4 DEF Gathered, ePoweroneNextCmd
    <3>3. Len(parts) = (req.regs + 2) \div 3
      BY <3>1, <3>2
    <3>4. AllAnswered(tid, req, parts)
      BY <2>1, <3>3 DEF Gathered, AllAnswered
    <3> QED
      BY <2>1, <2>3, <2>4, <3>4 DEF Collected, Open, PowerOne, Ascii
  <2>5. CASE pc' = "xmit" /\ ePoweroneNextCmd
    BY <2>1, <2>3, <2>5 DEF Collected, Open, PowerOne, Ascii, ePoweroneNextCmd
  <2>6. CASE pc' = "reply" /\ status' = "ENOREG"
    BY <2>1, <2>3, <2>6 DEF Collected, Open, PowerOne, Ascii
  <2> QED
    BY <2>2, <2>4, <2>5, <2>6
<1>8. Reported'
    BY DEF IInv, Reported
<1> QED
  BY <1>1, <1>2, <1>3, <1>4, <1>5, <1>6, <1>7, <1>8 DEF IInv

LEMMA xPoweroneTransmitFSMStep == ASSUME IInv, xPoweroneTransmitFSM PROVE IInv'
<1> USE DEF xPoweroneTransmitFSM, TaskRuns, SendIdle, vMBPortSerialEnable,
         RS485TxEnable, RS485TxDisable, fsm, port, line, task
<1>0. Mine' = Mine
  BY MineKept
<1>1. Types'
    BY DEF IInv, Types, PortTypeOK, Open
<1>2. Silence'
    BY DEF IInv, Silence, Types, Open
<1>3. Waiting'
    BY <1>0, NoChars DEF IInv, Waiting, Silence
<1>4. Received'
    BY <1>0 DEF IInv, Received
<1>5. AsciiSize'
    BY DEF IInv, AsciiSize, Ascii
<1>6. PowerOneSize'
    BY DEF IInv, PowerOneSize, PowerOne
<1>7. Collected'
    BY DEF IInv, Collected, Ascii, PowerOne, Open
<1>8. Reported'
    BY DEF IInv, Reported
<1> QED
  BY <1>1, <1>2, <1>3, <1>4, <1>5, <1>6, <1>7, <1>8 DEF IInv

LEMMA xMBPortEventGetStep == ASSUME IInv, xMBPortEventGet PROVE IInv'
<1> USE DEF xMBPortEventGet, TaskRuns, fsm, port, line, task
<1>0. Mine' = Mine
  BY MineKept
<1>1. Types'
    BY DEF IInv, Types, PortTypeOK, Open
<1>2. Silence'
    BY DEF IInv, Silence, Waiting
<1>3. Waiting'
    BY <1>0 DEF IInv, Waiting
<1>4. Received'
    BY <1>0 DEF IInv, Received, Silence, Waiting
<1>5. AsciiSize'
    BY DEF IInv, AsciiSize, Ascii
<1>6. PowerOneSize'
    BY DEF IInv, PowerOneSize, PowerOne
<1>7. Collected'
    BY DEF IInv, Collected, Ascii, PowerOne, Open
<1>8. Reported'
    BY DEF IInv, Reported
<1> QED
  BY <1>1, <1>2, <1>3, <1>4, <1>5, <1>6, <1>7, <1>8 DEF IInv

LEMMA TimerExpiresStep == ASSUME IInv, TimerExpires PROVE IInv'
<1> USE DEF TimerExpires, fsm, port, line, task
<1>0. Mine' = Mine
  BY MineKept
<1>1. Types'
    BY DEF IInv, Types, PortTypeOK, Open
<1>2. Silence'
    BY DEF IInv, Silence
<1>3. Waiting'
    BY <1>0 DEF IInv, Waiting
<1>4. Received'
    BY <1>0 DEF IInv, Received
<1>5. AsciiSize'
    BY DEF IInv, AsciiSize, Ascii
<1>6. PowerOneSize'
    BY DEF IInv, PowerOneSize, PowerOne
<1>7. Collected'
    BY DEF IInv, Collected, Ascii, PowerOne, Open
<1>8. Reported'
    BY DEF IInv, Reported
<1> QED
  BY <1>1, <1>2, <1>3, <1>4, <1>5, <1>6, <1>7, <1>8 DEF IInv

LEMMA TimerEntersStep == ASSUME IInv, TimerEnters PROVE IInv'
<1> USE DEF TimerEnters, fsm, port, line, task
<1>0. Mine' = Mine
  BY MineKept
<1>1. Types'
    BY DEF IInv, Types, PortTypeOK, Open
<1>2. Silence'
    BY DEF IInv, Silence
<1>3. Waiting'
    BY <1>0 DEF IInv, Waiting
<1>4. Received'
    BY <1>0 DEF IInv, Received
<1>5. AsciiSize'
    BY DEF IInv, AsciiSize, Ascii
<1>6. PowerOneSize'
    BY DEF IInv, PowerOneSize, PowerOne
<1>7. Collected'
    BY DEF IInv, Collected, Ascii, PowerOne, Open
<1>8. Reported'
    BY DEF IInv, Reported
<1> QED
  BY <1>1, <1>2, <1>3, <1>4, <1>5, <1>6, <1>7, <1>8 DEF IInv

LEMMA TimerStopsStep == ASSUME IInv, TimerStops PROVE IInv'
<1> USE DEF TimerStops, vMBPortTimersDisable, fsm, port, line, task
<1>0. Mine' = Mine
  BY MineKept
<1>1. Types'
    BY DEF IInv, Types, PortTypeOK, Open
<1>2. Silence'
    BY DEF IInv, Silence
<1>3. Waiting'
    BY <1>0 DEF IInv, Waiting
<1>4. Received'
    BY <1>0 DEF IInv, Received
<1>5. AsciiSize'
    BY DEF IInv, AsciiSize, Ascii
<1>6. PowerOneSize'
    BY DEF IInv, PowerOneSize, PowerOne
<1>7. Collected'
    BY DEF IInv, Collected, Ascii, PowerOne, Open
<1>8. Reported'
    BY DEF IInv, Reported
<1> QED
  BY <1>1, <1>2, <1>3, <1>4, <1>5, <1>6, <1>7, <1>8 DEF IInv

LEMMA TimerLeavesStep == ASSUME IInv, TimerLeaves PROVE IInv'
<1> USE DEF TimerLeaves, fsm, port, line, task
<1>0. Mine' = Mine
  BY MineKept
<1>1. Types'
    BY DEF IInv, Types, PortTypeOK, Open
<1>2. Silence'
    BY DEF IInv, Silence
<1>3. Waiting'
    BY <1>0 DEF IInv, Waiting
<1>4. Received'
    BY <1>0 DEF IInv, Received
<1>5. AsciiSize'
    BY DEF IInv, AsciiSize, Ascii
<1>6. PowerOneSize'
    BY DEF IInv, PowerOneSize, PowerOne
<1>7. Collected'
    BY DEF IInv, Collected, Ascii, PowerOne, Open
<1>8. Reported'
    BY DEF IInv, Reported
<1> QED
  BY <1>1, <1>2, <1>3, <1>4, <1>5, <1>6, <1>7, <1>8 DEF IInv

LEMMA LineByteStep == ASSUME IInv, LineByte PROVE IInv'
<1> USE DEF LineByte, fsm, port, line, task
<1>0. Mine' = Mine
  BY MineKept
<1>1. Types'
    BY DEF IInv, Types, PortTypeOK, Open
<1>2. Silence'
    BY DEF IInv, Silence
<1>3. Waiting'
    BY <1>0 DEF IInv, Waiting
<1>4. Received'
    BY <1>0 DEF IInv, Received
<1>5. AsciiSize'
    BY DEF IInv, AsciiSize, Ascii
<1>6. PowerOneSize'
    BY DEF IInv, PowerOneSize, PowerOne
<1>7. Collected'
    BY DEF IInv, Collected, Ascii, PowerOne, Open
<1>8. Reported'
    BY DEF IInv, Reported
<1> QED
  BY <1>1, <1>2, <1>3, <1>4, <1>5, <1>6, <1>7, <1>8 DEF IInv

LEMMA TimeoutStep == ASSUME IInv, Timeout PROVE IInv'
<1> USE DEF Timeout, Settled, pvMBFrameStartCur, vMBPortSerialEnable,
         RS485TxEnable, RS485TxDisable, vMBPortTimersDisable, fsm, port, line,
         task
<1>0. Mine' = Mine
  BY MineKept
<1>1. Types'
    BY DEF IInv, Types, PortTypeOK, Open
<1>2. Silence'
    BY DEF IInv, Silence
<1>3. Waiting'
    BY <1>0 DEF IInv, Waiting
<1>4. Received'
    BY <1>0 DEF IInv, Received
<1>5. AsciiSize'
    BY DEF IInv, AsciiSize, Ascii
<1>6. PowerOneSize'
    BY DEF IInv, PowerOneSize, PowerOne
<1>7. Collected'
    BY DEF IInv, Collected, Ascii, PowerOne, Open
<1>8. Reported'
    BY DEF IInv, Reported
<1> QED
  BY <1>1, <1>2, <1>3, <1>4, <1>5, <1>6, <1>7, <1>8 DEF IInv

LEMMA ReplyStep == ASSUME IInv, Reply PROVE IInv'
<1> USE DEF Reply, TaskRuns, NoReq, fsm, port, line, task
<1>1. Types'
    BY DEF IInv, Types, PortTypeOK, Open
<1>2. Silence'
    BY DEF IInv, Silence
<1>3. Waiting'
    BY DEF IInv, Waiting
<1>4. Received'
    BY DEF IInv, Received
<1>5. AsciiSize'
    BY DEF IInv, AsciiSize, Ascii
<1>6. PowerOneSize'
    BY DEF IInv, PowerOneSize, PowerOne
<1>7. Collected'
    BY DEF IInv, Collected, Ascii, PowerOne, Open
<1>8. Reported'
  BY DEF IInv, Collected, Reported, Types
<1> QED
  BY <1>1, <1>2, <1>3, <1>4, <1>5, <1>6, <1>7, <1>8 DEF IInv

LEMMA BeginStep ==
  ASSUME IInv, NEW k \in {"read", "send"}, NEW s \in Starts, NEW n \in Counts,
         Begin(k, s, n)
  PROVE  IInv'
<1> USE DEF Begin, TaskRuns, NoResult, fsm, port, line
<1>a. s \in Nat /\ n \in Nat /\ 0 < n
  BY RequestNat
<1>b. req' \in [kind : {"read", "send"}, start : Nat, regs : Nat] /\ req'.regs = n
  BY <1>a
<1>c. tid \in Nat /\ tid' \in 0 .. MaxReq
  BY PortAssumption DEF IInv, Types, PortTypeOK
<1>1. Types'
  <2>1. PortTypeOK'
    BY <1>c DEF IInv, Types, PortTypeOK
  <2>2. parts' \in Seq(Frame) /\ buf' \in Seq(Char)
    BY NoChars DEF IInv, Types
  <2> QED
    BY <1>b, <2>1, <2>2 DEF IInv, Types, Open
<1>2. Silence'
    BY DEF IInv, Silence
<1>3. Waiting'
    BY DEF IInv, Waiting
<1>4. Received'
    BY DEF IInv, Received
<1>5. AsciiSize'
    BY DEF IInv, AsciiSize, Ascii
<1>6. PowerOneSize'
    BY DEF IInv, PowerOneSize, PowerOne
<1>7. Collected'
  <2>1. parts' = <<>> /\ Len(parts') = 0 /\ DOMAIN parts' = {}
    BY NoChars
  <2>2. Gathered(tid', req', parts')
    BY <1>a, <1>b, <2>1 DEF Gathered, Own, InOrder
  <2> QED
    BY <2>1, <2>2 DEF Collected, Open, Ascii, PowerOne
<1>8. Reported'
    BY DEF IInv, Reported
<1> QED
  BY <1>1, <1>2, <1>3, <1>4, <1>5, <1>6, <1>7, <1>8 DEF IInv

LEMMA eMBInitStep ==
  ASSUME IInv, NEW m \in Modes, eMBInit(m) PROVE IInv'
<1> USE DEF eMBInit, TaskRuns, xMBPortSerialInit, pvMBFrameStartCur,
         vMBPortSerialEnable, RS485TxEnable, vMBPortTimersDisable
<1>a. buf' \in Seq(Char) /\ Len(buf') = 0 /\ eRcvState' = "IDLE"
  OBVIOUS
<1>1. Types'
  <2>1. PortTypeOK'
    BY DEF IInv, Types, PortTypeOK
  <2> QED
    BY <1>a, <2>1 DEF IInv, Types, Open
<1>2. Silence'
    BY DEF IInv, Silence
<1>3. Waiting'
    BY DEF IInv, Waiting
<1>4. Received'
    BY DEF IInv, Received
<1>5. AsciiSize'
  BY <1>a, AsciiAssumption DEF AsciiSize
<1>6. PowerOneSize'
  BY <1>a DEF PowerOneSize, AnswerLen
<1>7. Collected'
    BY DEF IInv, Collected, Ascii, PowerOne, Open
<1>8. Reported'
    BY DEF IInv, Reported
<1> QED
  BY <1>1, <1>2, <1>3, <1>4, <1>5, <1>6, <1>7, <1>8 DEF IInv

LEMMA AnswersStep == ASSUME IInv, NEW s \in Seq(Mine), Answers(s) PROVE IInv'
<1> USE DEF Answers, task, fsm, port
<1>0. Mine' = Mine
  BY MineKept
<1>1. Types'
  BY DEF IInv, Types, PortTypeOK, Open
<1>2. Silence'
  BY DEF IInv, Silence
<1>3. Waiting'
  BY <1>0 DEF IInv, Silence, Waiting
<1>4. Received'
  BY <1>0 DEF IInv, Received
<1>5. AsciiSize' /\ PowerOneSize'
  BY DEF IInv, AsciiSize, PowerOneSize, Ascii, PowerOne
<1>6. Collected' /\ Reported'
  BY DEF IInv, Collected, Reported, Ascii, PowerOne, Open
<1> QED
  BY <1>1, <1>2, <1>3, <1>4, <1>5, <1>6 DEF IInv

LEMMA AsciiAnswerStep == ASSUME IInv, AsciiAnswer PROVE IInv'
<1>1. Ascii /\ tid \in Nat
  BY PortAssumption DEF IInv, Types, PortTypeOK, AsciiAnswer
<1>2. PICK f \in Frames(0, AsciiLens) :
        \/ \E s \in Spoilt(f, AsciiFrame(f)) : Answers(s)
        \/ Answers(Front(AsciiFrame(f)) \o <<Sign("cr")>>)
  BY DEF AsciiAnswer
<1>3. AsciiFrame(f) \in Seq(Mine)
  BY <1>1, AsciiMine
<1>4. CASE \E s \in Spoilt(f, AsciiFrame(f)) : Answers(s)
  BY <1>3, <1>4, SpoiltMine, AnswersStep
<1>5. CASE Answers(Front(AsciiFrame(f)) \o <<Sign("cr")>>)
  <2> DEFINE s == AsciiFrame(f)
  <2>1. s \in Seq(Mine)
    BY <1>3
  <2> HIDE DEF s
  <2>2. SubSeq(s, 1, Len(s) - 1) \in Seq(Mine)
    BY <2>1, SubSeqProperties
  <2>3. Sign("cr") \in Mine
    BY SignMine DEF Kind
  <2>4. <<Sign("cr")>> \in Seq(Mine)
    BY <2>3
  <2>5. Front(s) \o <<Sign("cr")>> \in Seq(Mine)
    BY <2>2, <2>4, ConcatProperties DEF Front
  <2> QED
    BY <1>5, <2>5, AnswersStep DEF s
<1> QED
  BY <1>2, <1>4, <1>5

LEMMA PowerOneAnswerStep == ASSUME IInv, PowerOneAnswer PROVE IInv'
<1>1. PowerOne /\ tid \in Nat /\ req.start \in Nat /\ parts \in Seq(Frame)
  BY PortAssumption DEF IInv, Types, PortTypeOK, PowerOneAnswer
<1>2. PICK f \in Frames(Group, {AnswerLen}) :
        f.own /\ \E s \in Spoilt(f, PowerOneFrame(f)) : Answers(s)
  BY DEF PowerOneAnswer
<1>3. PowerOneFrame(f) \in Seq(Mine)
  BY <1>1, <1>2, PowerOneMine
<1> QED
  BY <1>2, <1>3, SpoiltMine, AnswersStep

-----------------------------------------------------------------------------
(* The receivers take what the slave sent and stay within their buffers.   *)
LEMMA Arrived ==
  ASSUME IInv, xMBPortSerialGetByte
  PROVE  /\ pc = "wait" /\ ~pending /\ ~event /\ shift' = NoChar
         /\ wire \in Seq(Mine) /\ shift \in Mine /\ buf \in Seq(Char)
         /\ eRcvState # "IDLE" => buf \in Seq(Mine)
BY DEF IInv, Types, Silence, Waiting, xMBPortSerialGetByte

LEMMA Parity ==
  ASSUME NEW p \in Nat, NEW n \in Nat, n <= 2 * p
  PROVE  /\ Even(n + 1) <=> ~Even(n)
         /\ ~Even(n) => n + 1 <= 2 * p
         /\ Even(0)
BY DEF Even

LEMMA OneMore ==
  ASSUME NEW n, NEW m, m = n + 1
  PROVE  /\ n \in 1 .. 6 => m <= 8 /\ (m = 7 \/ m \in 1 .. 6)
         /\ n = 7 => m <= 8
OBVIOUS

LEMMA AppendMine ==
  ASSUME NEW s \in Seq(Mine), NEW c \in Mine
  PROVE  /\ Append(s, c) \in Seq(Mine) /\ Len(Append(s, c)) = Len(s) + 1
         /\ <<c>> \in Seq(Mine) /\ Len(<<c>>) = 1
OBVIOUS

LEMMA HeadMine == ASSUME NEW s \in Seq(Mine), Len(s) > 0 PROVE Head(s) \in Mine
OBVIOUS

LEMMA xPoweroneReceiveFSMStep == ASSUME IInv, xPoweroneReceiveFSM PROVE IInv'
<1> USE DEF xPoweroneReceiveFSM, port, task
<1>0. Mine' = Mine
  BY MineKept
<1>a. /\ pc = "wait" /\ ~pending /\ ~event /\ shift' = NoChar
      /\ wire \in Seq(Mine) /\ shift \in Mine /\ buf \in Seq(Char)
      /\ eRcvState # "IDLE" => buf \in Seq(Mine)
  BY Arrived
<1>b. /\ PowerOne /\ ~Ascii
      /\ UNCHANGED <<mode, pc, tid, req, status, parts, result>>
      /\ UNCHANGED <<eSndState, eBytePos, pending, wire>>
  BY DEF PowerOne, Ascii
<1>c. /\ eRcvState \in {"IDLE", "RCV", "WAIT_EOF"}
      /\ t4 \in {"out", "disable", "leave"}
      /\ timerOn \in BOOLEAN /\ t4if \in BOOLEAN /\ rxOn \in BOOLEAN
      /\ abort \in BOOLEAN /\ event \in BOOLEAN /\ pending \in BOOLEAN
  BY DEF IInv, Types, PortTypeOK
<1>d. \/ /\ UNCHANGED <<buf, eRcvState, event, timerOn, t4if, t4, rxOn>>
         /\ abort' = TRUE
      \/ /\ eRcvState = "IDLE" /\ eRcvState' = "RCV" /\ buf' = <<shift>>
         /\ timerOn' = TRUE /\ t4if' = FALSE
         /\ UNCHANGED <<event, rxOn, t4, abort>>
      \/ /\ eRcvState = "RCV" /\ buf' = Append(buf, shift)
         /\ Len(buf') = 7 => eRcvState' = "WAIT_EOF"
         /\ Len(buf') # 7 => eRcvState' = "RCV"
         /\ timerOn' = TRUE /\ t4if' = FALSE
         /\ UNCHANGED <<event, rxOn, t4, abort>>
      \/ /\ eRcvState = "WAIT_EOF" /\ buf' = Append(buf, shift)
         /\ eRcvState' = "IDLE" /\ event' = TRUE /\ rxOn' = FALSE
         /\ timerOn' = FALSE /\ UNCHANGED <<t4if, t4, abort>>
  BY DEF FirstByte, NextByte, LastByte, vMBPortTimersEnable,
     vMBPortTimersDisable,
     xMBPortEventPost, vMBPortSerialEnable, RS485TxEnable
<1>e. UNCHANGED <<buf, eRcvState, event>> \/ buf' \in Seq(Mine)
  <2>1. <<shift>> \in Seq(Mine)
    BY <1>a, AppendMine
  <2>2. eRcvState # "IDLE" => Append(buf, shift) \in Seq(Mine)
    BY <1>a, AppendMine
  <2> QED
    BY <1>d, <2>1, <2>2
<1> HIDE DEF xPoweroneReceiveFSM
<1>1. Types'
  <2>1. buf' \in Seq(Char)
    BY <1>a, <1>e, SeqMine
  <2> QED
    BY <1>a, <1>b, <1>c, <1>d, <2>1 DEF IInv, Types, PortTypeOK, Open
<1>2. Silence' /\ Received'
  BY <1>a, <1>b DEF Silence, Received
<1>3. Waiting'
  BY <1>0, <1>a, <1>b, <1>d, <1>e, NoChars DEF Waiting
<1>4. AsciiSize'
  BY <1>b DEF AsciiSize, Ascii, PowerOne
<1>5. PowerOneSize'
  <2>1. /\ Len(buf) <= 8 /\ Len(buf) \in Nat
        /\ eRcvState = "RCV" => Len(buf) \in 1 .. 6
        /\ eRcvState = "WAIT_EOF" => Len(buf) = 7
    BY <1>a, <1>b DEF IInv, PowerOneSize, AnswerLen
  <2>2. buf' = <<shift>> => Len(buf') = 1
    BY <1>a, AppendMine
  <2>3. eRcvState # "IDLE" /\ buf' = Append(buf, shift) => Len(buf') = Len(buf) + 1
    BY <1>a, AppendMine
  <2>4. /\ Len(buf') <= 8
        /\ eRcvState' = "RCV" => Len(buf') \in 1 .. 6
        /\ eRcvState' = "WAIT_EOF" => Len(buf') = 7
    <3>1. CASE buf' = buf /\ eRcvState' = eRcvState
      BY <2>1, <3>1
    <3>2. CASE eRcvState' = "RCV" /\ buf' = <<shift>>
      BY <2>2, <3>2
    <3>3. CASE /\ eRcvState = "RCV" /\ buf' = Append(buf, shift)
               /\ Len(buf') = 7 => eRcvState' = "WAIT_EOF"
               /\ Len(buf') # 7 => eRcvState' = "RCV"
      <4>1. Len(buf) \in 1 .. 6 /\ Len(buf') = Len(buf) + 1
        BY <2>1, <2>3, <3>3
      <4>2. Len(buf') <= 8 /\ (Len(buf') = 7 \/ Len(buf') \in 1 .. 6)
        BY <4>1, OneMore
      <4>3. CASE Len(buf') = 7
        BY <3>3, <4>2, <4>3
      <4>4. CASE Len(buf') # 7
        BY <3>3, <4>2, <4>4
      <4> QED
        BY <4>3, <4>4
    <3>4. CASE /\ eRcvState = "WAIT_EOF" /\ buf' = Append(buf, shift)
               /\ eRcvState' = "IDLE"
      <4>1. Len(buf) = 7 /\ Len(buf') = Len(buf) + 1
        BY <2>1, <2>3, <3>4
      <4>2. Len(buf') <= 8
        BY <4>1, OneMore
      <4> QED
        BY <3>4, <4>2
    <3>5. \/ buf' = buf /\ eRcvState' = eRcvState
          \/ eRcvState' = "RCV" /\ buf' = <<shift>>
          \/ /\ eRcvState = "RCV" /\ buf' = Append(buf, shift)
             /\ Len(buf') = 7 => eRcvState' = "WAIT_EOF"
             /\ Len(buf') # 7 => eRcvState' = "RCV"
          \/ /\ eRcvState = "WAIT_EOF" /\ buf' = Append(buf, shift)
             /\ eRcvState' = "IDLE"
      BY <1>d
    <3> QED
      BY <3>1, <3>2, <3>3, <3>4, <3>5
  <2> QED
    BY <2>4 DEF PowerOneSize, AnswerLen
<1>6. Collected' /\ Reported'
  BY <1>a, <1>b DEF IInv, Collected, Reported, Open, Ascii, PowerOne
<1> QED
  BY <1>1, <1>2, <1>3, <1>4, <1>5, <1>6 DEF IInv

LEMMA xMBASCIIReceiveFSMStep == ASSUME IInv, xMBASCIIReceiveFSM PROVE IInv'
<1> USE DEF xMBASCIIReceiveFSM, port, task
<1>0. Mine' = Mine
  BY MineKept
<1>a. /\ pc = "wait" /\ ~pending /\ ~event /\ shift' = NoChar
      /\ wire \in Seq(Mine) /\ shift \in Mine /\ buf \in Seq(Char)
      /\ eRcvState # "IDLE" => buf \in Seq(Mine)
  BY Arrived
<1>b. /\ Ascii /\ ~PowerOne
      /\ UNCHANGED <<mode, pc, tid, req, status, parts, result>>
      /\ UNCHANGED <<eSndState, pending, wire>>
  BY DEF PowerOne, Ascii
<1>c. /\ eRcvState \in {"IDLE", "RCV", "WAIT_EOF"} /\ eBytePos \in {"HIGH", "LOW"}
      /\ t4 \in {"out", "disable", "leave"}
      /\ timerOn \in BOOLEAN /\ t4if \in BOOLEAN /\ rxOn \in BOOLEAN
      /\ abort \in BOOLEAN /\ event \in BOOLEAN /\ pending \in BOOLEAN
  BY DEF IInv, Types, PortTypeOK
<1>d. /\ \/ UNCHANGED <<eRcvState, buf, eBytePos, event>>
         \/ eRcvState # "IDLE" /\ UNCHANGED <<buf, eBytePos>>
         \/ buf' = <<>> /\ eBytePos' = "HIGH"
         \/ /\ eRcvState # "IDLE" /\ eRcvState' # "IDLE" /\ buf' = Append(buf, shift)
            /\ eBytePos = "HIGH" => RoomForByte
            /\ eBytePos' = IF eBytePos = "HIGH" THEN "LOW" ELSE "HIGH"
      /\ eRcvState' \in {eRcvState, "IDLE", "RCV", "WAIT_EOF"} /\ t4' = t4
      /\ timerOn' \in {timerOn, TRUE, FALSE} /\ t4if' \in {t4if, FALSE}
      /\ abort' \in {abort, TRUE}
      /\ \/ UNCHANGED <<event, rxOn>>
         \/ event' = TRUE /\ rxOn' = FALSE /\ eRcvState' = "IDLE"
  BY DEF InFrame, Data, AfterCr, Between, Complete, NewFrame, KeepFrame,
     vMBPortTimersEnable, vMBPortTimersDisable, xMBPortEventPost,
     vMBPortSerialEnable, RS485TxEnable
<1> HIDE DEF xMBASCIIReceiveFSM
<1>e. UNCHANGED <<buf, eRcvState, event>> \/ buf' \in Seq(Mine)
  <2>1. eRcvState # "IDLE" => Append(buf, shift) \in Seq(Mine)
    BY <1>a, AppendMine
  <2>2. <<>> \in Seq(Mine)
    OBVIOUS
  <2> QED
    BY <1>a, <1>d, <2>1, <2>2
<1>1. Types'
  <2>1. buf' \in Seq(Char)
    BY <1>a, <1>e, SeqMine
  <2> QED
    <3>1. /\ eRcvState' \in {"IDLE", "RCV", "WAIT_EOF"} /\ eBytePos' \in {"HIGH", "LOW"}
          /\ {event', timerOn', t4if', rxOn', pending', abort'} \subseteq BOOLEAN
      BY <1>a, <1>b, <1>c, <1>d
    <3>2. PortTypeOK'
      BY <1>b, <1>d, <3>1 DEF IInv, Types, PortTypeOK
    <3> QED
      BY <1>b, <2>1, <3>2 DEF IInv, Types, Open
<1>2. Silence' /\ Received'
  BY <1>a, <1>b DEF Silence, Received
<1>3. Waiting'
  BY <1>0, <1>a, <1>b, <1>d, <1>e, NoChars DEF Waiting
<1>4. AsciiSize'
  <2> DEFINE n == Len(buf)  p == PduMax
  <2>1. /\ n \in Nat /\ p \in Nat /\ n <= 2 * p
        /\ eRcvState # "IDLE" => (eBytePos = "HIGH" <=> Even(n))
    BY <1>a, <1>b, PduNat DEF IInv, AsciiSize
  <2>2. (Even(n + 1) <=> ~Even(n)) /\ (~Even(n) => n + 1 <= 2 * p) /\ Even(0)
    BY <2>1, Parity
  <2>3. CASE UNCHANGED <<eRcvState, buf, eBytePos, event>>
    BY <2>1, <2>3 DEF AsciiSize
  <2>4. CASE eRcvState # "IDLE" /\ UNCHANGED <<buf, eBytePos>>
    BY <2>1, <2>4 DEF AsciiSize
  <2>5. CASE buf' = <<>> /\ eBytePos' = "HIGH"
    <3>1. Len(buf') = 0 /\ 0 <= 2 * p
      BY <2>1, <2>5
    <3> QED
      BY <2>2, <2>5, <3>1 DEF AsciiSize
  <2>6. CASE /\ eRcvState # "IDLE" /\ eRcvState' # "IDLE"
             /\ buf' = Append(buf, shift)
             /\ eBytePos = "HIGH" => RoomForByte
             /\ eBytePos' = IF eBytePos = "HIGH" THEN "LOW" ELSE "HIGH"
    <3>1. Len(buf') = n + 1
      BY <1>a, <2>6, AppendMine
    <3>2. RoomForByte => n + 1 <= 2 * p
      BY <2>1 DEF RoomForByte, Nibbles
    <3>3. n + 1 <= 2 * p
      BY <2>1, <2>2, <2>6, <3>2
    <3>4. eBytePos' = "HIGH" <=> Even(n + 1)
      BY <2>1, <2>2, <2>6
    <3> HIDE DEF n, p
    <3> QED
      BY <3>1, <3>3, <3>4 DEF AsciiSize, p
  <2> QED
    BY <1>d, <2>3, <2>4, <2>5, <2>6
<1>5. PowerOneSize'
  BY <1>b DEF PowerOneSize, Ascii, PowerOne
<1>6. Collected' /\ Reported'
  BY <1>a, <1>b DEF IInv, Collected, Reported, Open, Ascii, PowerOne
<1> QED
  BY <1>1, <1>2, <1>3, <1>4, <1>5, <1>6 DEF IInv

-----------------------------------------------------------------------------
(* What is taken for an answer is the frame that the slave sent.           *)
LEMMA DecodedMine ==
  ASSUME Ascii, buf \in Seq(Mine), Decoded # NoFrame
  PROVE  /\ Decoded \in Frame /\ Decoded.good
         /\ Decoded.tid = tid /\ Decoded.part = 0
<1> DEFINE f == Head(buf).frame
<1>1. Decoded = f /\ f.good /\ ~(Len(buf) \div 2 < PduMin)
  BY DEF Decoded, Nibbles
<1>2. Len(buf) > 0
  BY <1>1, PduNat
<1>3. Head(buf) \in Mine
  BY <1>2, HeadMine
<1>4. f \in Frame /\ (f # NoFrame => f.tid = tid /\ f.part = 0)
  BY <1>3 DEF Mine, Char, Slot
<1> QED
  BY <1>1, <1>4

LEMMA eMBASCIIReceiveStep == ASSUME IInv, eMBASCIIReceive PROVE IInv'
<1> USE DEF eMBASCIIReceive, TaskRuns, fsm, port, line
<1>a. /\ Ascii /\ ~PowerOne /\ buf \in Seq(Mine) /\ pc = "receive"
      /\ UNCHANGED <<mode, tid, req, result>>
  BY DEF IInv, Received, Ascii, PowerOne
<1>b. \/ pc' = "receive" /\ UNCHANGED <<status, parts>>
      \/ /\ pc' = "reply" /\ status' = Verdict(Decoded)
         /\ parts' = IF status' \in {"ENOERR", "ENOREG"} THEN <<Decoded>> ELSE <<>>
  BY <1>a
<1>c. status' \in {"ENOERR", "ENOREG"} /\ pc' = "reply" => Decoded # NoFrame
  <2>1. Decoded = NoFrame => Verdict(Decoded) = "EIO"
    BY DEF Verdict, NoFrame
  <2> QED
    BY <1>a, <1>b, <2>1
<1>d. Decoded # NoFrame =>
        /\ Decoded \in Frame /\ Decoded.good
        /\ Decoded.tid = tid /\ Decoded.part = 0
  BY <1>a, DecodedMine
<1>e. Mine' = Mine \/ pc' = "reply"
  BY <1>a, <1>b, MineKept
<1>f. /\ UNCHANGED <<eRcvState, eSndState, eBytePos, buf, event, timerOn, t4if>>
      /\ UNCHANGED <<t4, rxOn, shift, pending, wire>> /\ abort' \in BOOLEAN
  BY DEF IInv, Types, PortTypeOK
<1> HIDE DEF eMBASCIIReceive, fsm, port, line
<1>1. Types'
  <2>1. parts' \in Seq(Frame)
    <3>1. CASE UNCHANGED parts
      BY <3>1 DEF IInv, Types
    <3>2. CASE parts' = <<>>
      BY <3>2
    <3>3. CASE parts' = <<Decoded>> /\ Decoded \in Frame
      BY <3>3
    <3> QED
      BY <1>b, <1>c, <1>d, <3>1, <3>2, <3>3
  <2>2. status' \in {"ENOERR", "ENOREG", "EIO", "ETIMEDOUT"}
    BY <1>b DEF IInv, Types, PortTypeOK, Verdict
  <2>3. PortTypeOK'
    BY <1>a, <1>b, <1>f, <2>2 DEF IInv, Types, PortTypeOK
  <2> QED
    BY <1>a, <1>b, <1>f, <2>1, <2>3 DEF IInv, Types, Open
<1>2. Silence'
  BY <1>a, <1>f DEF IInv, Silence
<1>3. Waiting' /\ Received'
  BY <1>a, <1>b, <1>e, <1>f DEF Waiting, Received
<1>4. AsciiSize' /\ PowerOneSize'
  BY <1>a, <1>f DEF IInv, AsciiSize, PowerOneSize, Ascii, PowerOne
<1>5. Collected'
  <2>1. CASE pc' = "receive" /\ UNCHANGED <<status, parts>>
    BY <1>a, <2>1 DEF IInv, Collected, Open, Ascii, PowerOne
  <2>2. CASE pc' = "reply" /\ status' = "ENOERR"
    <3>1. parts' = <<Decoded>> /\ Decoded # NoFrame
      BY <1>b, <1>c, <2>2
    <3>2. Decoded.own
      BY <1>b, <2>2, <3>1 DEF Verdict
    <3>3. Len(parts') = 1 /\ DOMAIN parts' = {1} /\ parts'[1] = Decoded
      BY <3>1
    <3>4. AllAnswered(tid, req, parts')
      BY <1>d, <3>1, <3>2, <3>3 DEF AllAnswered, Own
    <3> QED
      BY <1>a, <2>2, <3>4 DEF Collected, Open, Ascii, PowerOne
  <2>3. CASE pc' = "reply" /\ status' # "ENOERR"
    BY <1>a, <2>3 DEF Collected, Open, PowerOne
  <2> QED
    BY <1>b, <2>1, <2>2, <2>3
<1>6. Reported'
  BY <1>a DEF IInv, Reported
<1> QED
  BY <1>1, <1>2, <1>3, <1>4, <1>5, <1>6 DEF IInv

LEMMA ePoweroneReceiveStep == ASSUME IInv, ePoweroneReceive PROVE IInv'
<1> USE DEF ePoweroneReceive, TaskRuns, fsm, port, line
<1> DEFINE f == Head(buf).frame
<1>a. /\ PowerOne /\ ~Ascii /\ buf \in Seq(Mine) /\ pc = "receive"
      /\ UNCHANGED <<mode, tid, req, result>>
  BY DEF IInv, Received, Ascii, PowerOne
<1>b. \/ pc' = "receive" /\ UNCHANGED <<status, parts>>
      \/ pc' = "reply" /\ status' = "EIO" /\ UNCHANGED parts
      \/ /\ pc' = "send" /\ parts' = Append(parts, f) /\ UNCHANGED status
         /\ Len(buf) = AnswerLen /\ f.good
  BY <1>a DEF Whole
<1>c. Len(buf) = AnswerLen /\ f.good =>
        f \in Frame /\ f.tid = tid /\ f.part = Group /\ f.own
  <2> SUFFICES ASSUME Len(buf) = AnswerLen, f.good
               PROVE  f \in Frame /\ f.tid = tid /\ f.part = Group /\ f.own
    OBVIOUS
  <2>1. Head(buf) \in Mine
    BY <1>a, HeadMine DEF AnswerLen
  <2>2. f # NoFrame
    BY DEF NoFrame
  <2> QED
    BY <1>a, <2>1, <2>2 DEF Mine, Char, Slot
<1>d. /\ UNCHANGED <<eRcvState, eSndState, eBytePos, buf, event, timerOn, t4if>>
      /\ UNCHANGED <<t4, rxOn, shift, pending, wire>> /\ abort' \in BOOLEAN
  BY DEF IInv, Types, PortTypeOK
<1>e. Mine' = Mine \/ pc' = "send"
  BY <1>a, <1>b, MineKept
<1>f. /\ parts \in Seq(Frame) /\ status = "ENOERR"
      /\ req.start \in Nat /\ req.regs \in Nat
  BY <1>a DEF IInv, Types, Open
<1> HIDE DEF f, ePoweroneReceive, fsm, port, line
<1>1. Types'
  <2>1. parts' \in Seq(Frame)
    BY <1>b, <1>c, <1>f
  <2>2. PortTypeOK'
    BY <1>a, <1>b, <1>d DEF IInv, Types, PortTypeOK
  <2> QED
    BY <1>a, <1>b, <1>d, <1>f, <2>1, <2>2 DEF IInv, Types, Open
<1>2. Silence'
  BY <1>a, <1>d DEF IInv, Silence
<1>3. Waiting' /\ Received'
  BY <1>a, <1>b, <1>d, <1>e DEF Waiting, Received
<1>4. AsciiSize' /\ PowerOneSize'
  BY <1>a, <1>d DEF IInv, AsciiSize, PowerOneSize, Ascii, PowerOne
<1>5. Collected'
  <2>1. CASE pc' = "receive" /\ UNCHANGED <<status, parts>>
    BY <1>a, <2>1 DEF IInv, Collected, Open, Ascii, PowerOne
  <2>2. CASE pc' = "reply" /\ status' = "EIO"
    BY <1>a, <2>2 DEF Collected, Open, Ascii, PowerOne
  <2>3. CASE pc' = "send" /\ parts' = Append(parts, f) /\ f.good /\ f \in Frame
               /\ f.tid = tid /\ f.part = Group /\ f.own
    <3>1. Gathered(tid, req, parts) /\ 3 * Len(parts) < req.regs
      BY <1>a DEF IInv, Collected, Open
    <3>2. /\ Len(parts') = Len(parts) + 1 /\ Len(parts) \in Nat
          /\ parts'[Len(parts) + 1] = f /\ DOMAIN parts' = 1 .. Len(parts) + 1
          /\ \A k \in 1 .. Len(parts) : parts'[k] = parts[k]
          /\ DOMAIN parts = 1 .. Len(parts)
      BY <1>f, <2>3
    <3>3. Own(tid, parts')
      BY <2>3, <3>1, <3>2 DEF Gathered, Own
    <3>4. InOrder(req, parts')
      <4> DEFINE g == req.start \div 3
      <4>1. g \in Int
        BY <1>f
      <4>2. f.part = g + Len(parts) + 1 /\ \A k \in DOMAIN parts : parts[k].part = g + k
        BY <2>3, <3>1 DEF Gathered, InOrder, Group
      <4> HIDE DEF g
      <4>3. \A k \in DOMAIN parts' : parts'[k].part = g + k
        BY <3>2, <4>1, <4>2
      <4> QED
        BY <4>3 DEF InOrder, g
    <3>5. Gathered(tid, req, parts')
      BY <1>f, <3>1, <3>2, <3>3, <3>4 DEF Gathered
    <3> QED
      BY <1>a, <2>3, <3>5 DEF Collected, Open, Ascii, PowerOne
  <2> QED
    BY <1>b, <1>c, <2>1, <2>2, <2>3
<1>6. Reported'
  BY <1>a DEF IInv, Reported
<1> QED
  BY <1>1, <1>2, <1>3, <1>4, <1>5, <1>6 DEF IInv

-----------------------------------------------------------------------------
LEMMA InitIInv == Init => IInv
<1> SUFFICES ASSUME Init PROVE IInv
  OBVIOUS
<1> USE NoChars DEF Init, PortInit
<1>1. Types
  <2>1. req \in [kind : {"read", "send"}, start : Nat, regs : Nat]
    BY DEF NoReq
  <2>2. PortTypeOK
    <3>1. tid \in 0 .. MaxReq
      BY PortAssumption
    <3> QED
      BY <3>1 DEF PortTypeOK
  <2> QED
    BY <2>1, <2>2 DEF Types, Open
<1>2. Silence /\ Waiting /\ Received
  BY DEF Silence, Waiting, Received
<1>3. Len(buf) = 0
  OBVIOUS
<1>4. AsciiSize /\ PowerOneSize
  BY <1>3, PduNat DEF AsciiSize, PowerOneSize, AnswerLen
<1>5. Collected /\ Reported
  BY DEF Collected, Reported, Open, NoResult
<1> QED
  BY <1>1, <1>2, <1>4, <1>5 DEF IInv

LEMMA Stutter == ASSUME IInv, UNCHANGED vars PROVE IInv'
BY DEF IInv, vars, task, fsm, port, line, Types, PortTypeOK, Silence, Waiting,
   Received, AsciiSize, PowerOneSize, Collected, Reported, Open, Mine, Slot, Group,
   Ascii, PowerOne

LEMMA NextIInv == IInv /\ [Next]_vars => IInv'
<1> SUFFICES ASSUME IInv, [Next]_vars PROVE IInv'
  OBVIOUS
<1>1. CASE TaskModbus
  <2>1. CASE \E k \in {"read", "send"}, s \in Starts, n \in Counts : Begin(k, s, n)
    BY <2>1, BeginStep
  <2>2. CASE \E m \in Modes : eMBInit(m)
    BY <2>2, eMBInitStep
  <2>3. CASE Working
    BY <2>3, eMBASCIISendStep, xMBASCIITransmitFSMStep, eMBASCIIReceiveStep,
       ePoweroneSendStep, xPoweroneTransmitFSMStep, ePoweroneReceiveStep,
       xMBPortEventGetStep, TimeoutStep, ReplyStep
       DEF Working, AsciiTask, PowerOneTask
  <2>4. CASE NothingDue
    BY <2>4, Stutter DEF NothingDue
  <2> QED
    BY <1>1, <2>1, <2>2, <2>3, <2>4 DEF TaskModbus
<1>2. CASE TimerExpires \/ _T4Interrupt
  BY <1>2, TimerExpiresStep, TimerEntersStep, TimerStopsStep, TimerLeavesStep
     DEF _T4Interrupt
<1>3. CASE _U2RXInterrupt
  BY <1>3, xMBASCIIReceiveFSMStep, xPoweroneReceiveFSMStep DEF _U2RXInterrupt
<1>4. CASE Line
  BY <1>4, AsciiAnswerStep, PowerOneAnswerStep, LineByteStep DEF Line
<1>5. CASE UNCHANGED vars
  BY <1>5, Stutter
<1> QED
  BY <1>1, <1>2, <1>3, <1>4, <1>5 DEF Next

LEMMA Inductive == Spec => []IInv
BY InitIInv, NextIInv, PTL DEF Spec

(* The variables keep their types, and whatever a slave sends and wherever *)
(* it stops, neither receiver writes past the end of its buffer            *)
(* (mbascii.c:266, powerone.c:189).                                        *)
THEOREM BuffersHold == Spec => []TypeOK
<1>1. IInv => TypeOK
  BY PortAssumption DEF IInv, Types, AsciiSize, PowerOneSize, TypeOK,
     PortTypeOK,
     Ascii, PowerOne
<1> QED
  BY <1>1, Inductive, PTL

(* A transaction that reports success has the registers it asked for from  *)
(* the slave it asked: in PowerOne, whose answers do not say what they     *)
(* answer, because no answer is left over for the next request.            *)
THEOREM AnswerToItsRequest == Spec => []SuccessIsTheAnswer
<1>1. IInv => SuccessIsTheAnswer
  BY DEF IInv, Reported, AllAnswered, Own, InOrder, SuccessIsTheAnswer
<1> QED
  BY <1>1, Inductive, PTL
=============================================================================
