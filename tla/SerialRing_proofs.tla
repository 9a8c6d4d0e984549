------------------------- MODULE SerialRing_proofs -------------------------
(***************************************************************************)
(* Proofs about SerialRing, for every size of the ring, every depth of the *)
(* hardware FIFO and any number of bytes.                                  *)
(***************************************************************************)
EXTENDS SerialRing, Sequences, TLAPS

USE RingAssumption DEF ring, call, sizing, loop, ghost, vars, Index

(***************************************************************************)
(* No index leaves the ring, whether it fills or not.                      *)
(***************************************************************************)
LEMMA FlagsStep == FlagsOK /\ [Next]_vars => FlagsOK'
  BY DEF FlagsOK, Next, RxInt, Begin, BufferSize, CopyLoop, Finish, Flush,
         RxByte, RxOverflow, RxEnd, Call, SizeLastOp, SizeConf, SizeResult,
         Copy, TestEnd, Advance, SeekFrom, Limit, SeekRefuses, SeekDone,
         Report, ClearOver, MarkRead, FlushW, FlushR, FlushLastOp, FlushNul,
         Store, Arrives

LEMMA IndexStep == TypeOK /\ IndexInv /\ [Next]_vars => (TypeOK /\ IndexInv)'
<1> SUFFICES ASSUME TypeOK, IndexInv, [Next]_vars PROVE (TypeOK /\ IndexInv)'
  OBVIOUS
<1>0. FlagsOK'
  BY FlagsStep DEF TypeOK
<1> USE <1>0 DEF TypeOK, IndexInv, At, Go, Steps, Ops, Cursor
<1>1. CASE RxByte
  BY <1>1 DEF RxByte, Arrives, Store, After
<1>2. CASE RxOverflow
  BY <1>2 DEF RxOverflow, Arrives, Store, After
<1>3. CASE RxEnd
  BY <1>3 DEF RxEnd
<1>4. CASE Begin
  <2>1. PICK o \in Ops, n \in Nat, s \in Nat : Call(o, n, s)
    BY <1>4 DEF Begin
  <2>2. QED
    BY <2>1 DEF Call
<1>5. CASE SizeLastOp
  BY <1>5 DEF SizeLastOp
<1>6. CASE SizeConf
  BY <1>6 DEF SizeConf
<1>7. CASE SizeResult
  BY <1>7 DEF SizeResult
<1>8. CASE SeekFrom
  <2>0. /\ bufind_r \in Index /\ start <= bsize
        /\ bsize <= Size \/ bufind_r + bsize < 2 * Size
    BY <1>8 DEF SeekFrom, Shift
  <2>1. bufind_r + start < 2 * Size
    BY <2>0
  <2>2. from' \in Index
    BY <1>8, <2>1 DEF SeekFrom, Shift
  <2>3. QED
    BY <1>8, <2>2 DEF SeekFrom
<1>9. CASE Limit
  BY <1>9 DEF Limit
<1>10. CASE Copy
  BY <1>10 DEF Copy
<1>11. CASE TestEnd
  <2>1. /\ TypeOK'
        /\ UNCHANGED <<bufind_w, bufind_r, op, from, bsize>> /\ pc' = "advance"
    BY <1>11 DEF TestEnd
  <2>2. atEnd' <=> (Cursor = Size - 1)
    BY <1>11 DEF TestEnd
  <2>3. ~atEnd' => Cursor' < Size - 1
    <3>1. Cursor' = Cursor
      BY <2>1, Zenon
    <3>2. Cursor \in Index
      BY DEF TypeOK
    <3>3. ASSUME NEW c \in Index, c # Size - 1
          PROVE  c < Size - 1
      BY <3>3, RingAssumption DEF Index
    <3>4. QED
      BY <2>2, <3>1, <3>2, <3>3
  <2> HIDE DEF TypeOK, Cursor
  <2>4. IndexInv'
    BY <2>1, <2>3
  <2>5. QED
    BY <2>1, <2>4
<1>12. CASE Advance
  <2>1. Cursor \in Index /\ (~atEnd => Cursor < Size - 1)
    BY <1>12 DEF Advance
  <2>2. PICK next \in Index : next = IF atEnd THEN 0 ELSE Cursor + 1
    BY <2>1, RingAssumption DEF Index
  <2>3. /\ pc' = "loop" /\ irx' = irx + 1
        /\ \/ bufind_r' = next /\ taken' = taken + 1 /\ out' = got /\ from' = from
           \/ bufind_r' = bufind_r /\ taken' = taken /\ out' = out /\ from' = next
        /\ UNCHANGED <<GSMBuffer, bufind_w, last_op, GSMbuffover, isr, call,
                       sizing, atEnd, rd, got, arrived, lost, ok>>
    BY <1>12, <2>2 DEF Advance
  <2> HIDE DEF Index
  <2>4. QED
    BY <2>2, <2>3
<1>13. CASE SeekRefuses
  BY <1>13 DEF SeekRefuses
<1>14. CASE SeekDone
  BY <1>14 DEF SeekDone
<1>15. CASE Report
  BY <1>15 DEF Report, AfterReport
<1>16. CASE ClearOver
  BY <1>16 DEF ClearOver, AfterReport
<1>17. CASE MarkRead
  BY <1>17 DEF MarkRead
<1>18. CASE FlushW
  BY <1>18 DEF FlushW
<1>19. CASE FlushR
  BY <1>19 DEF FlushR
<1>20. CASE FlushLastOp
  BY <1>20 DEF FlushLastOp
<1>21. CASE FlushNul
  BY <1>21 DEF FlushNul
<1>22. CASE UNCHANGED vars
  BY <1>22
<1>23. QED
  BY <1>1, <1>2, <1>3, <1>4, <1>5, <1>6, <1>7, <1>8, <1>9, <1>10, <1>11,
     <1>12, <1>13, <1>14, <1>15, <1>16, <1>17, <1>18, <1>19, <1>20, <1>21,
        <1>22 DEF Next, RxInt, CopyLoop, BufferSize, Finish, Flush

(* However interrupt and reader interleave, and however full the ring is,  *)
(* every index stays inside the buffer and every variable has its type.    *)
THEOREM TypeCorrect == Spec => []TypeOK
<1>1. Init => FlagsOK
  BY DEF Init, FlagsOK
<1>2. Init => TypeOK /\ IndexInv
  BY <1>1 DEF Init, TypeOK, IndexInv, Steps, Ops, Cursor
<1>3. QED
  BY <1>2, IndexStep, PTL DEF Spec

(***************************************************************************)
(* The arithmetic of the ring.                                             *)
(***************************************************************************)
LEMMA DistFacts ==
  ASSUME NEW i \in Index, NEW j \in Index
  PROVE  /\ Dist(i, j) \in 0 .. Size - 1
         /\ Dist(i, j) = 0 <=> i = j
         /\ \A k \in Index : Dist(i, k) = Dist(i, j) => k = j
  BY DEF Dist

LEMMA UnreadInt == TypeOK => Unread \in Int
  BY DEF TypeOK, Unread

(* A step that touches neither the indices nor the bytes keeps them.       *)
Same == UNCHANGED <<GSMBuffer, bufind_w, bufind_r, arrived, taken>>

LEMMA HoldsSame == Holds /\ Same => Holds' /\ Unread' = Unread
  BY DEF Holds, Same, Unread, Dist

(***************************************************************************)
(* The interrupt.                                                          *)
(***************************************************************************)
LEMMA RxByteStep ==
  ASSUME MaxUnread < Size, TypeOK, RingInv, RxByte
  PROVE  RingInv'
<1> USE DEF At, Go
<1>0. Unread \in Int
  BY UnreadInt
<1>1. pc \notin {"flushR", "flushL", "flushN"}
  BY DEF RxByte, Arrives, RingInv, FlushInv
<1>2. /\ Holds /\ Unread < MaxUnread /\ Unread \in Nat
      /\ bufind_w \in Index /\ bufind_r \in Index
  BY <1>0, <1>1 DEF RxByte, Arrives, RingInv, TypeOK
<1>3. Unread' = Unread + 1 /\ UNCHANGED <<bufind_r, taken>>
  BY DEF RxByte, Store, Unread, TypeOK
<1>4. Unread' = Dist(bufind_r', bufind_w')
  <2>1. Dist(bufind_r, bufind_w) = Unread /\ Unread < Size - 1
    BY <1>2 DEF Holds, RingAssumption
  <2>2. bufind_w' = After(bufind_w) /\ bufind_r' = bufind_r
    BY <1>3 DEF RxByte, Store
  <2>3. Dist(bufind_r, After(bufind_w)) = Dist(bufind_r, bufind_w) + 1
    BY <1>2, <2>1 DEF Dist, After
  <2>4. QED
    BY <1>3, <2>1, <2>2, <2>3
<1>5. ASSUME NEW i \in Index, Dist(bufind_r', i) < Unread'
      PROVE  GSMBuffer'[i] = taken' + 1 + Dist(bufind_r', i)
  <2>1. Dist(bufind_r, i) <= Unread /\ Dist(bufind_r, i) \in Nat
    BY <1>2, <1>3, <1>5, DistFacts
  <2>2. CASE i = bufind_w
    BY <1>2, <1>3, <2>2 DEF RxByte, Store, Holds, TypeOK, Unread
  <2>3. CASE i # bufind_w
    <3>1. Dist(bufind_r, i) # Unread
      BY <1>2, <2>3, DistFacts DEF Holds
    <3>2. QED
      BY <1>2, <1>3, <2>1, <2>3, <3>1 DEF RxByte, Store, Holds, TypeOK
  <2>4. QED
    BY <2>2, <2>3
<1>6. Holds'
  BY <1>4, <1>5 DEF Holds
<1>7. /\ UNCHANGED <<bufind_r, last_op, pc, op, count, start, irx, from, atEnd,
                      loc_last_op, conf_buff, bsize, got, taken>>
      /\ isr' = isr + 1 /\ bufind_w' = After(bufind_w)
  BY DEF RxByte, Store
<1>8. EmptyIsKnown'
  BY <1>1, <1>2, <1>3, <1>7 DEF RingInv, EmptyIsKnown, Copying
<1>9. SizeInv'
  <2>1. bufind_w < bufind_r => bufind_w' < bufind_r
    BY <1>2, <1>7 DEF Holds, Dist, After
  <2>2. QED
    BY <1>2, <1>3, <1>7, <2>1 DEF RingInv, SizeInv, TypeOK
<1>10. LoopInv'
  BY <1>2, <1>3, <1>7 DEF RingInv, LoopInv, TypeOK, Cursor, Due
<1>11. FlushInv'
  BY <1>1, <1>7 DEF RingInv, FlushInv, RxByte, Arrives
<1>12. EmptyIsKnown' /\ SizeInv' /\ LoopInv' /\ FlushInv'
  BY <1>8, <1>9, <1>10, <1>11
<1>13. QED
  BY <1>2, <1>3, <1>6, <1>12 DEF RxByte, Store, RingInv

(* The overflow branch is taken on an empty ring only, while GSMRead is    *)
(* between its last byte and last_op = 2; it loses nothing then.           *)
LEMMA RxOverflowStep ==
  ASSUME MaxUnread < Size, TypeOK, TypeOK', RingInv, RxOverflow
  PROVE  RingInv'
<1> USE DEF At, Go
<1>0. Unread \in Int
  BY UnreadInt
<1>1. pc \notin {"flushR", "flushL", "flushN"}
  BY DEF RxOverflow, Arrives, RingInv, FlushInv
<1>2. /\ Holds /\ bufind_w = bufind_r /\ bufind_r \in Index /\ last_op = 1
      /\ EmptyIsKnown /\ LoopInv /\ FlushInv /\ MaxUnread > 0
  BY <1>0, <1>1 DEF RxOverflow, Arrives, RingInv, TypeOK
<1>3. Unread = 0
  BY <1>2, DistFacts DEF Holds
<1>4. op = "read" /\ Copying /\ pc \notin {"wrap", "advance"}
  BY <1>2, <1>3 DEF EmptyIsKnown, LoopInv, TypeOK
<1>5. Unread' = 1 /\ bufind_r' = 0 /\ bufind_w' = After(0) /\ taken' = arrived
  BY <1>3 DEF RxOverflow, Store, Unread, TypeOK
<1>6. Holds'
  <2>1. Unread' = Dist(bufind_r', bufind_w')
    BY <1>5 DEF Dist, After
  <2>2. ASSUME NEW i \in Index, Dist(0, i) < 1 PROVE i = 0
    BY <2>2 DEF Dist
  <2>3. GSMBuffer'[0] = arrived + 1
    BY DEF RxOverflow, Store, TypeOK
  <2>4. ASSUME NEW i \in Index, Dist(bufind_r', i) < Unread'
        PROVE  GSMBuffer'[i] = taken' + 1 + Dist(bufind_r', i)
    <3>1. i = 0
      BY <1>5, <2>2, <2>4
    <3>2. Dist(0, 0) = 0 /\ taken' \in Nat
      BY <1>5 DEF Dist, TypeOK
    <3>3. QED
      BY <1>5, <2>3, <3>1, <3>2
  <2>5. QED
    BY <2>1, <2>4 DEF Holds
<1>7. EmptyIsKnown' /\ SizeInv' /\ LoopInv' /\ FlushInv'
  BY <1>2, <1>3, <1>4, <1>5
     DEF RxOverflow, Store, Arrives, RingInv, EmptyIsKnown, SizeInv, LoopInv,
         FlushInv, TypeOK, Cursor, Copying
<1>8. QED
  BY <1>2, <1>4, <1>5, <1>6, <1>7 DEF RxOverflow, Store, RingInv

(***************************************************************************)
(* The copy loop.                                                          *)
(***************************************************************************)
LEMMA CopyStep ==
  ASSUME TypeOK, TypeOK', RingInv, Copy
  PROVE  RingInv'
<1> USE DEF At, Go
<1>0. Unread \in Int
  BY UnreadInt
<1>1. /\ Same /\ isr = 0 /\ isr' = 0
      /\ pc = "loop" /\ pc' = "wrap" /\ irx < count
      /\ UNCHANGED <<last_op, op, count, start, irx, from, atEnd>>
      /\ got' = GSMBuffer[Cursor] /\ ok' = (ok /\ got' = Due) /\ Due' = Due
  BY DEF Copy, Same, Due
<1>2. Holds /\ Holds' /\ Unread' = Unread
  BY <1>1, HoldsSame DEF RingInv
<1>3. /\ Cursor \in Index /\ Dist(bufind_r, Cursor) < Unread
      /\ Due = taken + 1 + Dist(bufind_r, Cursor)
  <2>1. CASE op = "read"
    <3>1. /\ Cursor = bufind_r /\ bufind_r \in Index
          /\ Due = taken + 1 /\ Unread > 0
      BY <1>0, <1>1, <2>1 DEF RingInv, LoopInv, TypeOK, Cursor, Due
    <3>2. Dist(bufind_r, bufind_r) = 0 /\ taken \in Nat
      BY DEF Dist, TypeOK
    <3>3. QED
      BY <3>1, <3>2
  <2>2. CASE op # "read"
    <3>1. Cursor = from /\ from \in Index /\ Due = taken + 1 + (start + irx)
      BY <2>2 DEF TypeOK, Cursor, Due
    <3>2. Dist(bufind_r, from) = start + irx /\ start + count <= Unread
      BY <1>1, <2>2 DEF RingInv, LoopInv, TypeOK
    <3>3. QED
      BY <1>0, <1>1, <3>1, <3>2 DEF TypeOK
  <2>3. QED
    BY <2>1, <2>2
<1>4. ok' /\ got' = Due'
  BY <1>1, <1>2, <1>3 DEF Holds, RingInv
<1>5. EmptyIsKnown' /\ SizeInv' /\ FlushInv'
  BY <1>1, <1>2 DEF RingInv, EmptyIsKnown, SizeInv, FlushInv, Copying
<1>6. LoopInv'
  BY <1>1, <1>2, <1>4 DEF Same, RingInv, LoopInv
<1>7. QED
  BY <1>0, <1>1, <1>2, <1>4, <1>5, <1>6 DEF RingInv

LEMMA AdvanceStep ==
  ASSUME MaxUnread < Size, TypeOK, TypeOK', RingInv, Advance
  PROVE  RingInv'
<1> USE DEF At, Go
<1>0. Unread \in Int
  BY UnreadInt
<1>1. /\ pc = "advance" /\ pc' = "loop" /\ irx < count /\ isr = 0 /\ isr' = 0
      /\ UNCHANGED <<GSMBuffer, bufind_w, arrived, last_op, op, count, start,
                       atEnd, ok>>
      /\ irx' = irx + 1
  BY DEF Advance, RingInv, LoopInv
<1>2. /\ Holds /\ LoopInv /\ EmptyIsKnown
      /\ atEnd <=> Cursor = Size - 1
      /\ Cursor \in Index
  BY <1>1 DEF RingInv, LoopInv, TypeOK, Cursor
<1>3. (IF atEnd THEN 0 ELSE Cursor + 1) = After(Cursor)
  BY <1>2 DEF After
<1>4. SizeInv' /\ FlushInv'
  BY <1>1 DEF RingInv, SizeInv, FlushInv
<1>5. CASE op = "read"
  <2>1. bufind_r' = After(bufind_r) /\ taken' = taken + 1 /\ UNCHANGED from
    BY <1>3, <1>5 DEF Advance, Cursor
  <2>2. Unread' = Unread - 1 /\ count - irx <= Unread /\ start = 0
    BY <1>1, <1>2, <1>5, <2>1 DEF Unread, TypeOK, LoopInv
  <2>3. bufind_r # bufind_w /\ Unread > 0
    <3>1. Unread > 0
      BY <1>0, <1>1, <2>2 DEF TypeOK
    <3>2. Unread = Dist(bufind_r, bufind_w) /\ bufind_r \in Index
      BY <1>2 DEF Holds, TypeOK
    <3>3. QED
      BY <3>1, <3>2 DEF Dist
  <2>4. Holds'
    <3>1. Unread' = Dist(bufind_r', bufind_w')
      BY <1>1, <1>2, <2>1, <2>2, <2>3 DEF Holds, TypeOK, Dist, After
    <3>2. ASSUME NEW i \in Index, Dist(bufind_r', i) < Unread'
          PROVE  GSMBuffer'[i] = taken' + 1 + Dist(bufind_r', i)
      <4>1. i # bufind_r
        <5>1. Dist(After(bufind_r), bufind_r) = Size - 1
          BY DEF Dist, After, TypeOK
        <5>2. Unread <= Size - 1
          BY <1>0 DEF RingInv
        <5>3. QED
          BY <1>0, <2>1, <2>2, <3>2, <5>1, <5>2
      <4>2. /\ Dist(bufind_r', i) = Dist(bufind_r, i) - 1
            /\ Dist(bufind_r, i) \in Nat
        <5>1. bufind_r \in Index
          BY DEF TypeOK
        <5>2. Dist(After(bufind_r), i) = Dist(bufind_r, i) - 1
          BY <4>1, <5>1 DEF Dist, After
        <5>3. Dist(bufind_r, i) \in Nat
          BY <5>1 DEF Dist
        <5>4. QED
          BY <2>1, <5>2, <5>3
      <4>3. GSMBuffer[i] = taken + 1 + Dist(bufind_r, i)
        <5>1. Dist(bufind_r, i) < Unread
          BY <1>0, <2>2, <3>2, <4>2
        <5>2. QED
          BY <1>2, <5>1, Zenon DEF Holds
      <4>4. taken \in Nat
        BY DEF TypeOK
      <4>5. GSMBuffer' = GSMBuffer
        BY <1>1
      <4> HIDE DEF Index
      <4>6. QED
        BY <2>1, <4>2, <4>3, <4>4, <4>5
    <3>3. QED
      BY <3>1, <3>2 DEF Holds
  <2>5. EmptyIsKnown' /\ LoopInv'
    BY <1>0, <1>1, <1>2, <1>5, <2>2
       DEF EmptyIsKnown, LoopInv, Copying, TypeOK
  <2>6. QED
    BY <1>0, <1>1, <1>4, <2>2, <2>3, <2>4, <2>5 DEF RingInv
<1>6. CASE op # "read"
  <2>1. /\ from' = After(from) /\ Same /\ Cursor = from
        /\ Dist(bufind_r, from) = start + irx /\ start + count <= Unread
    BY <1>1, <1>2, <1>3, <1>6 DEF Advance, Cursor, Same, LoopInv, TypeOK
  <2>2. Holds' /\ Unread' = Unread
    BY <1>2, <2>1, HoldsSame
  <2>3. EmptyIsKnown'
    BY <1>1, <1>2, <1>6, <2>2 DEF EmptyIsKnown
  <2>4. start + irx < Size - 1 /\ start \in Nat /\ irx \in Nat
    BY <1>0, <1>1, <2>1 DEF RingInv, TypeOK
  <2>5. Dist(bufind_r, from') = start + irx + 1
    <3>1. from \in Index /\ bufind_r \in Index
      BY DEF TypeOK
    <3>2. Dist(bufind_r, from) < Size - 1
      BY <2>1, <2>4
    <3>3. Dist(bufind_r, After(from)) = Dist(bufind_r, from) + 1
      BY <3>1, <3>2 DEF Dist, After
    <3>4. QED
      BY <2>1, <3>3
  <2>6. LoopInv'
    BY <1>1, <1>2, <1>6, <2>1, <2>2, <2>4, <2>5 DEF LoopInv, Same, TypeOK
  <2>7. QED
    BY <1>0, <1>1, <1>4, <2>2, <2>3, <2>6 DEF RingInv
<1>7. QED
  BY <1>5, <1>6

(***************************************************************************)
(* Every other step.                                                       *)
(***************************************************************************)
LEMMA RingStep ==
  ASSUME MaxUnread < Size, TypeOK, TypeOK', RingInv, [Next]_vars
  PROVE  RingInv'
<1> USE UnreadInt, HoldsSame DEF At, Go, Cursor, Copying
<1>1. CASE RxByte \/ RxOverflow
  BY <1>1, RxByteStep, RxOverflowStep
<1>2. CASE RxEnd
  <2>1. Same /\ UNCHANGED <<pc, op, irx, count, start, from, atEnd, bsize,
                            loc_last_op, conf_buff, got, ok>>
    BY <1>2 DEF RxEnd, Same
  <2>2. isr > 0 /\ isr' = 0 /\ last_op' = 1
    BY <1>2 DEF RxEnd
  <2>3. Unread > 0
    BY <2>2 DEF RingInv, EmptyIsKnown, FlushInv, TypeOK
  <2>4. Unread' = Unread /\ (pc # "flushR" => Holds')
    BY <2>1 DEF RingInv, Same, Unread, Holds, Dist
  <2>5. EmptyIsKnown' /\ SizeInv' /\ FlushInv'
    BY <2>1, <2>2, <2>3, <2>4
       DEF RingInv, EmptyIsKnown, SizeInv, FlushInv, Same
  <2>6. LoopInv'
    BY <2>1, <2>4 DEF RingInv, LoopInv, Same, Due, Dist
  <2>7. QED
    BY <2>1, <2>4, <2>5, <2>6 DEF RingInv
<1>3. CASE Begin
  <2>1. PICK oo \in {"read", "pread", "seek"}, n \in Nat, s \in Nat :
          Call(oo, n, s) /\ (oo # "seek" => s = 0)
    BY <1>3 DEF Begin
  <2>2. /\ Same /\ UNCHANGED last_op /\ isr = 0 /\ isr' = 0 /\ ok'
        /\ pc = "idle" /\ pc' = "lastop" /\ op' \in {"read", "pread", "seek"}
        /\ op' # "seek" => start' = 0
        /\ irx' = 0 /\ from' = bufind_r /\ bufind_r' = bufind_r
    BY <2>1 DEF Call, Same
  <2>3. Holds' /\ Unread' = Unread
    BY <2>2 DEF RingInv
  <2>4. EmptyIsKnown'
    BY <2>2, <2>3 DEF RingInv, EmptyIsKnown, Copying
  <2>5. SizeInv' /\ LoopInv' /\ FlushInv'
    BY <2>2 DEF SizeInv, LoopInv, FlushInv
  <2>6. QED
    BY <2>2, <2>3, <2>4, <2>5 DEF RingInv
<1>4. CASE SizeLastOp
  BY <1>4
     DEF SizeLastOp, Same, RingInv, EmptyIsKnown, SizeInv, LoopInv, FlushInv,
         TypeOK
<1>5. CASE SizeConf
  <2>1. Holds /\ bufind_r \in Index /\ bufind_w \in Index
    BY <1>5 DEF SizeConf, RingInv, TypeOK
  <2>2. bufind_r = bufind_w => Unread = 0
    BY <2>1, DistFacts DEF Holds
  <2>3. /\ conf_buff' > 0 => bufind_w < bufind_r
        /\ conf_buff' = 0 => bufind_r = bufind_w
    BY <1>5, <2>1 DEF SizeConf
  <2>4. QED
    BY <1>5, <2>2, <2>3
       DEF SizeConf, Same, RingInv, EmptyIsKnown, SizeInv, LoopInv, FlushInv,
           TypeOK
<1>6. CASE SizeResult
  BY <1>6
     DEF SizeResult, Same, Holds, Dist, RingInv, EmptyIsKnown, SizeInv,
         LoopInv, FlushInv, TypeOK
<1>7. CASE SeekFrom
  BY <1>7
     DEF SeekFrom, Shift, Same, Dist, RingInv, EmptyIsKnown, SizeInv, LoopInv,
         FlushInv, TypeOK
<1>8. CASE Limit
  BY <1>8
     DEF Limit, Same, Dist, Ops, RingInv, EmptyIsKnown, SizeInv, LoopInv,
         FlushInv, TypeOK
<1>9. CASE Copy \/ Advance
  BY <1>9, CopyStep, AdvanceStep
<1>10. CASE TestEnd
  <2>1. /\ Same /\ isr = 0 /\ isr' = 0 /\ pc = "wrap" /\ pc' = "advance"
        /\ UNCHANGED <<last_op, op, irx, count, start, from, got, ok>>
    BY <1>10 DEF TestEnd, Same
  <2>2. Holds' /\ Unread' = Unread
    BY <2>1 DEF RingInv
  <2>3. atEnd' = (Cursor = Size - 1)
    BY <1>10 DEF TestEnd
  <2>4. Cursor' = Cursor /\ Due' = Due
    BY <2>1 DEF Same, Due
  <2>5. LoopInv'
    BY <2>1, <2>2, <2>3, <2>4 DEF RingInv, LoopInv, Same
  <2>6. EmptyIsKnown' /\ SizeInv' /\ FlushInv'
    BY <2>1, <2>2 DEF RingInv, EmptyIsKnown, SizeInv, FlushInv
  <2>7. QED
    BY <2>1, <2>2, <2>5, <2>6 DEF RingInv
<1>11. CASE SeekRefuses
  BY <1>11
     DEF SeekRefuses, Same, RingInv, EmptyIsKnown, SizeInv, LoopInv, FlushInv,
         TypeOK
<1>12. CASE SeekDone
  BY <1>12
     DEF SeekDone, Same, RingInv, EmptyIsKnown, SizeInv, LoopInv, FlushInv,
         TypeOK
<1>13. CASE Report
  BY <1>13
     DEF Report, AfterReport, Same, RingInv, EmptyIsKnown, SizeInv, LoopInv,
         FlushInv, TypeOK
<1>14. CASE ClearOver
  BY <1>14
     DEF ClearOver, AfterReport, Same, RingInv, EmptyIsKnown, SizeInv,
         LoopInv, FlushInv, TypeOK
<1>15. CASE MarkRead
  BY <1>15
     DEF MarkRead, Same, RingInv, EmptyIsKnown, SizeInv, LoopInv, FlushInv,
         TypeOK
<1>16. CASE FlushW
  BY <1>16
     DEF FlushW, Unread, RingInv, EmptyIsKnown, SizeInv, LoopInv, FlushInv,
         TypeOK
<1>17. CASE FlushR
  BY <1>17
     DEF FlushR, Unread, Holds, Dist, RingInv, EmptyIsKnown, SizeInv, LoopInv,
         FlushInv, TypeOK
<1>18. CASE FlushLastOp
  BY <1>18
     DEF FlushLastOp, Same, RingInv, EmptyIsKnown, SizeInv, LoopInv, FlushInv,
         TypeOK
<1>19. CASE FlushNul
  BY <1>19, DistFacts
     DEF FlushNul, Unread, Holds, RingInv, EmptyIsKnown, SizeInv, LoopInv,
         FlushInv, TypeOK
<1>20. CASE UNCHANGED vars
  BY <1>20 DEF RingInv, Holds, Unread, Dist, EmptyIsKnown, SizeInv, LoopInv,
     FlushInv, Due
<1>21. QED
  BY <1>1, <1>2, <1>3, <1>4, <1>5, <1>6, <1>7, <1>8, <1>9, <1>10, <1>11,
     <1>12, <1>13, <1>14, <1>15, <1>16, <1>17, <1>18, <1>19, <1>20 DEF Next,
        RxInt, CopyLoop, BufferSize, Finish, Flush

LEMMA RingAlways ==
  ASSUME MaxUnread < Size
  PROVE  Spec => []RingInv
<1>1. Init => RingInv
  BY DEF Init, RingInv, Holds, Unread, Dist, EmptyIsKnown, SizeInv, LoopInv,
         FlushInv, Cursor, Copying, Due
<1>2. QED
  BY <1>1, TypeCorrect, RingStep, PTL DEF Spec

(* As long as the ring never fills, every function that reads it copies    *)
(* the oldest unread bytes in order, wherever the interrupt strikes.       *)
THEOREM ReadsAreInOrder ==
  ASSUME MaxUnread < Size
  PROVE  Spec => []InOrder
<1>1. RingInv => InOrder
  BY DEF RingInv, InOrder
<1>2. QED
  BY <1>1, RingAlways, PTL

(* As long as the ring never fills, no copy loop runs past the last byte   *)
(* that arrived.                                                           *)
THEOREM NoByteIsInvented ==
  ASSUME MaxUnread < Size
  PROVE  Spec => []NothingInvented
<1>1. RingInv => NothingInvented
  BY DEF RingInv, LoopInv, NothingInvented
<1>2. QED
  BY <1>1, RingAlways, PTL

(***************************************************************************)
(* The ring is a queue.                                                    *)
(***************************************************************************)

(* The bytes numbered t + 1 .. t + n.                                      *)
Numbers(t, n) == [k \in 1 .. n |-> t + k]

LEMMA NumbersFacts ==
  ASSUME NEW t \in Nat, NEW n \in Nat
  PROVE  /\ Numbers(t, 0) = <<>>
         /\ Append(Numbers(t, n), t + n + 1) = Numbers(t, n + 1)
         /\ n > 0 => /\ Numbers(t, n) # <<>>
                     /\ Head(Numbers(t, n)) = t + 1
                     /\ Tail(Numbers(t, n)) = Numbers(t + 1, n - 1)
<1>1. Numbers(t, 0) = <<>>
  BY DEF Numbers
<1>2. Numbers(t, n) \in Seq(Nat) /\ Len(Numbers(t, n)) = n
  BY DEF Numbers
<1>3. Append(Numbers(t, n), t + n + 1) = Numbers(t, n + 1)
  BY <1>2 DEF Numbers
<1>4. n > 0 => Numbers(t, n) # <<>>
  BY <1>2
<1>5. n > 0 => Head(Numbers(t, n)) = t + 1
  BY <1>2 DEF Numbers
<1>6. n > 0 => Tail(Numbers(t, n)) = Numbers(t + 1, n - 1)
  BY <1>2 DEF Numbers
<1>7. QED
  BY <1>1, <1>3, <1>4, <1>5, <1>6

LEMMA ContentIs ==
  MaxUnread < Size /\ TypeOK /\ RingInv => Content = Numbers(taken, Unread)
<1> SUFFICES ASSUME MaxUnread < Size, TypeOK, RingInv
             PROVE  Content = Numbers(taken, Unread)
  OBVIOUS
<1>0. Unread \in Nat
  BY UnreadInt DEF RingInv
<1>1. CASE pc \in {"flushR", "flushL"}
  BY <1>1, NumbersFacts DEF Content, RingInv, FlushInv, TypeOK
<1>2. CASE pc \notin {"flushR", "flushL"}
  <2>1. Holds /\ Unread <= Size - 1 /\ bufind_r \in Index
    BY <1>0, <1>2 DEF RingInv, TypeOK
  <2>2. ASSUME NEW k \in 1 .. Unread
        PROVE  GSMBuffer[Shift(bufind_r, k - 1)] = taken + k
    <3>1. Shift(bufind_r, k - 1) \in Index
      BY <1>0, <2>1 DEF Shift
    <3>2. Dist(bufind_r, Shift(bufind_r, k - 1)) = k - 1
      BY <1>0, <2>1 DEF Shift, Dist
    <3>3. \A i \in Index : Dist(bufind_r, i) < Unread =>
            GSMBuffer[i] = taken + 1 + Dist(bufind_r, i)
      BY <2>1 DEF Holds
    <3>4. k - 1 < Unread /\ taken + 1 + (k - 1) = taken + k
      BY <1>0 DEF TypeOK
    <3> HIDE DEF Index
    <3>5. QED
      BY <3>1, <3>2, <3>3, <3>4
  <2>3. Content = [k \in 1 .. Unread |-> GSMBuffer[Shift(bufind_r, k - 1)]]
    <3>1. Unread = Dist(bufind_r, bufind_w)
      BY <2>1 DEF Holds
    <3>2. QED
      BY <1>2, <3>1, Zenon DEF Content
  <2>4. QED
    BY <2>2, <2>3 DEF Numbers
<1>3. QED
  BY <1>1, <1>2

(* What a step does to the numbers of the bytes.                           *)
Quiet   == UNCHANGED <<arrived, taken, out>>
Arrival == arrived' = arrived + 1 /\ UNCHANGED <<taken, out>>
Taking  == /\ Unread > 0 /\ taken' = taken + 1 /\ out' = taken + 1
           /\ UNCHANGED arrived
Letting == taken' = arrived /\ UNCHANGED <<arrived, out>>

LEMMA Counters ==
  ASSUME TypeOK, RingInv, [Next]_vars
  PROVE  Quiet \/ Arrival \/ Taking \/ Letting
<1> USE DEF At, Go
<1>0. Unread \in Int
  BY UnreadInt
<1>1. CASE RxByte
  BY <1>1 DEF RxByte, Store, Arrival
<1>2. CASE RxOverflow
  <2>1. Holds /\ bufind_w = bufind_r /\ bufind_r \in Index
    BY <1>2 DEF RxOverflow, Arrives, RingInv, FlushInv, TypeOK
  <2>2. taken = arrived
    BY <2>1 DEF Holds, Dist, Unread, TypeOK
  <2>3. QED
    BY <1>2, <2>2 DEF RxOverflow, Store, Arrival
<1>3. CASE Advance
  <2>1. irx < count /\ got = Due /\ (op = "read" => count - irx <= Unread)
    BY <1>3 DEF Advance, RingInv, LoopInv
  <2>2. CASE op = "read"
    <3>1. Unread > 0
      BY <1>0, <2>1, <2>2 DEF TypeOK
    <3>2. got = taken + 1
      BY <2>1, <2>2 DEF Due, TypeOK
    <3>3. QED
      BY <1>3, <2>2, <3>1, <3>2 DEF Advance, Taking
  <2>3. CASE op # "read"
    BY <1>3, <2>3 DEF Advance, Quiet
  <2>4. QED
    BY <2>2, <2>3
<1>4. CASE FlushW
  BY <1>4 DEF FlushW, Letting
<1>5. CASE Begin
  BY <1>5 DEF Begin, Call, Quiet
<1>6. CASE RxEnd \/ BufferSize \/ SeekFrom \/ Limit \/ Copy \/ TestEnd
  BY <1>6 DEF RxEnd, BufferSize, SizeLastOp, SizeConf, SizeResult, SeekFrom,
     Limit, Copy, TestEnd, Quiet
<1>7. CASE Finish \/ FlushR \/ FlushLastOp \/ FlushNul \/ UNCHANGED vars
  BY <1>7 DEF Finish, SeekRefuses, SeekDone, Report, ClearOver, MarkRead,
     FlushR, FlushLastOp, FlushNul, Quiet
<1>8. QED
  BY <1>1, <1>2, <1>3, <1>4, <1>5, <1>6, <1>7 DEF Next, RxInt, CopyLoop, Flush

LEMMA FifoStep ==
  ASSUME MaxUnread < Size, TypeOK, TypeOK', RingInv, RingInv', [Next]_vars
  PROVE  [Fifo!Next]_<<Content, arrived, out>>
<1>1. (MaxUnread < Size /\ TypeOK /\ RingInv
         => Content = Numbers(taken, Unread))'
  BY ContentIs, PTL
<1>2. Content = Numbers(taken, Unread) /\ Content' = Numbers(taken', Unread')
  BY <1>1, ContentIs
<1>3. Unread \in Int /\ taken \in Nat /\ arrived \in Nat
  BY DEF Unread, TypeOK
<1>4. (TypeOK => Unread \in Int)'
  BY UnreadInt, PTL
<1>5. Unread \in Nat /\ Unread' \in Nat /\ taken \in Nat /\ arrived \in Nat
  BY <1>3, <1>4 DEF RingInv
<1>6. CASE Quiet
  BY <1>2, <1>6 DEF Quiet, Unread
<1>7. CASE Arrival
  <2>1. Unread' = Unread + 1 /\ arrived + 1 = taken + Unread + 1
    BY <1>5, <1>7 DEF Arrival, Unread
  <2>2. Content' = Append(Content, arrived + 1)
    <3>1. Append(Numbers(taken, Unread), taken + Unread + 1)
            = Numbers(taken, Unread + 1)
      BY <1>5, NumbersFacts
    <3>2. QED
      BY <1>2, <1>7, <2>1, <3>1 DEF Arrival
  <2>3. QED
    BY <1>7, <2>2 DEF Arrival, Fifo!Next, Fifo!Put
<1>8. CASE Taking
  <2>1. Unread' = Unread - 1
    BY <1>5, <1>8 DEF Taking, Unread, TypeOK
  <2>2. Content # <<>> /\ Head(Content) = taken + 1 /\ Content' = Tail(Content)
    BY <1>2, <1>5, <1>8, <2>1, NumbersFacts DEF Taking
  <2>3. QED
    BY <1>8, <2>2 DEF Taking, Fifo!Next, Fifo!Get
<1>9. CASE Letting
  <2>1. Unread' = 0 /\ taken' \in Nat
    BY <1>5, <1>9 DEF Letting, Unread
  <2>2. Content' = <<>>
    BY <1>2, <2>1, NumbersFacts
  <2>3. QED
    BY <1>9, <2>2 DEF Letting, Fifo!Next, Fifo!Clear
<1>10. QED
  BY <1>6, <1>7, <1>8, <1>9, Counters

(* As long as the ring never fills, it is a first-in first-out queue: what *)
(* the interrupt stores comes out once and in order, the false overflow of *)
(* GSMRxInt and a GSMFlush on a quiet line included.                       *)
THEOREM RingIsFifo ==
  ASSUME MaxUnread < Size
  PROVE  Spec => IsFifo
<1>1. Init => Fifo!Init
  BY DEF Init, Fifo!Init, Content, Dist
<1>2. TypeOK /\ TypeOK' /\ RingInv /\ RingInv' /\ [Next]_vars
        => [Fifo!Next]_<<Content, arrived, out>>
  BY FifoStep
<1>3. QED
  BY <1>1, <1>2, TypeCorrect, RingAlways, PTL DEF Spec, IsFifo, Fifo!Spec
=============================================================================
