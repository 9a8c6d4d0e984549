----------------------------- MODULE SerialRing -----------------------------
(***************************************************************************)
(* The receive buffer between the modem's UART and GSMTask (gprs/Hilo.c):  *)
(* a ring written by the UART interrupt and read by one task.  The ring is *)
(* full or empty when its two indices meet; last_op, set to 1 by the       *)
(* interrupt and to 2 by the reader, is meant to tell which.  HWlib.c has  *)
(* the same algorithm for the other ports.                                 *)
(*                                                                         *)
(* The interrupt (priority 4) comes between any two statements of the      *)
(* reader and is atomic to it; it stores up to Burst bytes, the depth of   *)
(* the hardware FIFO.  One statement of the reader is one step.  Byte      *)
(* contents are their numbers in the order of arrival, 0 the NUL that      *)
(* GSMFlush writes.                                                        *)
(***************************************************************************)
EXTENDS Integers

CONSTANTS
  Size,        \* GSM_BUFFER_SIZE
  Burst,       \* bytes one interrupt may find in the hardware FIFO
  MaxBytes,    \* bound on the bytes that arrive
  MaxUnread,   \* the modem sends no byte when so many are unread
  Counts,      \* byte counts the callers ask for
  Starts,      \* start positions GSMpSeek is called with
  Flushes      \* GSMFlush is called; the modem is quiet during it

ASSUME RingAssumption ==
  /\ Size \in Nat /\ Size > 1 /\ Burst \in Nat /\ MaxBytes \in Nat
  /\ MaxUnread \in Nat /\ Flushes \in BOOLEAN
  /\ Counts \subseteq Nat /\ Starts \subseteq Nat

Index == 0 .. Size - 1
Ops   == {"read", "pread", "seek", "flush"}
Steps == {"idle", "lastop", "conf", "bsize", "from", "loop", "wrap", "advance",
          "clear", "mark", "flushR", "flushL", "flushN"}

VARIABLES
  GSMBuffer, bufind_w, bufind_r, last_op, GSMbuffover,
  isr,       \* bytes stored by the interrupt that is running, 0 when none is
  pc,        \* where the reader is
  op,        \* the function it is in: GSMRead, GSMpRead, GSMpSeek, GSMFlush
  count, start, irx,         \* its arguments and its loop index
  loc_last_op, conf_buff, bsize,  \* the locals of GSMBufferSize
  from,      \* bufind_r_temp of the functions that do not consume
  atEnd,     \* outcome of the test for the last index
  rd,        \* what the function returned
  got,       \* the byte just copied out
  out,       \* the byte consumed last
  arrived, taken,  \* bytes stored so far; bytes consumed or given up
  lost,      \* bytes were given up and no caller was told
  ok         \* the call copied the oldest bytes, in order

ring   == <<GSMBuffer, bufind_w, bufind_r, last_op, GSMbuffover>>
call   == <<op, count, start>>
sizing == <<loc_last_op, conf_buff, bsize>>
loop   == <<irx, from, atEnd, got>>
ghost  == <<out, arrived, taken, lost>>
vars   == <<ring, isr, pc, call, sizing, loop, rd, ghost, ok>>

Unread == arrived - taken

(***************************************************************************)
(* Mutated forms of definitions below, each a plausible slip in that code. *)
(***************************************************************************)

\* The wrap test compares with GSM_BUFFER_SIZE instead of the last index.
AfterOffByOne(i) == IF i = Size THEN 0 ELSE i + 1

(* The index after i.                                                      *)
After(i) == IF i = Size - 1 THEN 0 ELSE i + 1

(* The index k places after i.                                             *)
Shift(i, k) == IF i + k >= Size THEN i + k - Size ELSE i + k

(* Steps from index i forward to index j.                                  *)
Dist(i, j) == IF i <= j THEN j - i ELSE Size - i + j

Init ==
  /\ GSMBuffer = [i \in Index |-> 0]
  /\ bufind_w = 0 /\ bufind_r = 0 /\ last_op = 0 /\ GSMbuffover = 0
  /\ isr = 0 /\ pc = "idle" /\ op = "read"
  /\ count = 0 /\ start = 0 /\ irx = 0
  /\ loc_last_op = 0 /\ conf_buff = 0 /\ bsize = 0
  /\ from = 0 /\ atEnd = FALSE /\ rd = 0 /\ got = 0
  /\ out = 0 /\ arrived = 0 /\ taken = 0 /\ lost = FALSE /\ ok = TRUE

(***************************************************************************)
(* GSMRxInt.  One step stores one byte; the interrupt ends when the        *)
(* hardware FIFO is empty.                                                 *)
(***************************************************************************)
Store(i) ==
  /\ GSMBuffer' = [GSMBuffer EXCEPT ![i] = arrived + 1]
  /\ bufind_w' = After(i)
  /\ arrived' = arrived + 1
  /\ isr' = isr + 1
  /\ UNCHANGED <<pc, call, sizing, loop, rd, out, ok>>

Arrives ==
  /\ isr < Burst /\ arrived < MaxBytes /\ Unread < MaxUnread
  /\ op = "flush" => pc = "idle"

RxByte ==
  /\ Arrives /\ ~(bufind_w = bufind_r /\ last_op = 1)
  /\ Store(bufind_w)
  /\ UNCHANGED <<bufind_r, last_op, GSMbuffover, taken, lost>>

\* The overflow branch forgets to reset bufind_r.
RxOverflowKeepsR ==
  /\ Arrives /\ bufind_w = bufind_r /\ last_op = 1
  /\ GSMbuffover' = 1 /\ last_op' = 0
  /\ Store(0)
  /\ taken' = arrived /\ lost' = (lost \/ Unread # 0)
  /\ UNCHANGED bufind_r

RxOverflow ==
  /\ Arrives /\ bufind_w = bufind_r /\ last_op = 1
  /\ GSMbuffover' = 1 /\ last_op' = 0
  /\ bufind_r' = 0
  /\ Store(0)
  /\ taken' = arrived /\ lost' = (lost \/ Unread # 0)

RxEnd ==
  /\ isr > 0
  /\ isr' = 0 /\ last_op' = 1
  /\ UNCHANGED <<GSMBuffer, bufind_w, bufind_r, GSMbuffover, pc, call, sizing,
                 loop, rd, ghost, ok>>

(***************************************************************************)
(* The reader: a call begins.  GSMpRead saves bufind_r before it asks for  *)
(* the size.                                                               *)
(***************************************************************************)
At(step)  == isr = 0 /\ pc = step
Go(step)  == pc' = step

Call(o, n, s) ==
  /\ At("idle") /\ Go("lastop")
  /\ op' = o /\ count' = n /\ start' = s
  /\ irx' = 0 /\ from' = bufind_r /\ ok' = TRUE
  /\ UNCHANGED <<ring, isr, sizing, atEnd, got, rd, ghost>>

(* GSMBufferSize: three statements read what the interrupt writes.         *)
SizeLastOp ==
  /\ At("lastop") /\ Go("conf")
  /\ loc_last_op' = last_op
  /\ UNCHANGED <<ring, isr, call, conf_buff, bsize, loop, rd, ghost, ok>>

\* The two indices are subtracted the wrong way round.
SizeConfSwapped ==
  /\ At("conf") /\ Go("bsize")
  /\ conf_buff' = bufind_w - bufind_r
  /\ UNCHANGED <<ring, isr, call, loc_last_op, bsize, loop, rd, ghost, ok>>

SizeConf ==
  /\ At("conf") /\ Go("bsize")
  /\ conf_buff' = bufind_r - bufind_w
  /\ UNCHANGED <<ring, isr, call, loc_last_op, bsize, loop, rd, ghost, ok>>

SizeResult ==
  /\ At("bsize") /\ Go("from")
  /\ bsize' = IF conf_buff > 0 THEN Size - bufind_r + bufind_w
              ELSE IF conf_buff < 0 THEN bufind_w - bufind_r
              ELSE IF loc_last_op = 1 THEN Size ELSE 0
  /\ UNCHANGED <<ring, isr, call, loc_last_op, conf_buff, loop, rd, ghost, ok>>

(* GSMpSeek refuses when there is not enough; the others take what there is.*)
SeekRefuses ==
  /\ At("from") /\ op = "seek" /\ start + count > bsize
  /\ Go("idle") /\ rd' = 0
  /\ UNCHANGED <<ring, isr, call, sizing, loop, ghost, ok>>

SeekFrom ==
  /\ At("from") /\ op = "seek" /\ start + count <= bsize
  /\ Go("loop")
  /\ from' = Shift(bufind_r, start)
  /\ UNCHANGED <<ring, isr, call, sizing, irx, atEnd, got, rd, ghost, ok>>

Limit ==
  /\ At("from") /\ op # "seek"
  /\ Go("loop")
  /\ count' = IF count > bsize THEN bsize ELSE count
  /\ UNCHANGED <<ring, isr, op, start, sizing, loop, rd, ghost, ok>>

(* The copy loop: the byte, the test for the last index, the new index.    *)
Cursor == IF op = "read" THEN bufind_r ELSE from

Due == taken + 1 + (IF op = "read" THEN 0 ELSE start + irx)

Copy ==
  /\ At("loop") /\ irx < count
  /\ Go("wrap")
  /\ got' = GSMBuffer[Cursor]
  /\ ok' = (ok /\ got' = Due)
  /\ UNCHANGED <<ring, isr, call, sizing, irx, from, atEnd, rd, ghost>>

TestEnd ==
  /\ At("wrap") /\ Go("advance")
  /\ atEnd' = (Cursor = Size - 1)
  /\ UNCHANGED <<ring, isr, call, sizing, irx, from, got, rd, ghost, ok>>

Advance ==
  /\ At("advance") /\ Go("loop")
  /\ LET next == IF atEnd THEN 0 ELSE Cursor + 1
     IN  IF op = "read"
         THEN /\ bufind_r' = next /\ taken' = taken + 1 /\ out' = got
              /\ UNCHANGED from
         ELSE from' = next /\ UNCHANGED <<bufind_r, taken, out>>
  /\ irx' = irx + 1
  /\ UNCHANGED <<GSMBuffer, bufind_w, last_op, GSMbuffover, isr, call, sizing,
                 atEnd, rd, got, arrived, lost, ok>>

(* The end of the loop: GSMpSeek is done, the others report an overflow.   *)
AfterReport == IF op = "read" THEN "mark" ELSE "idle"

SeekDone ==
  /\ At("loop") /\ irx >= count /\ op = "seek"
  /\ Go("idle") /\ rd' = 1
  /\ UNCHANGED <<ring, isr, call, sizing, loop, ghost, ok>>

Report ==
  /\ At("loop") /\ irx >= count /\ op # "seek"
  /\ IF GSMbuffover # 0 THEN rd' = -count /\ Go("clear")
                        ELSE rd' = count  /\ Go(AfterReport)
  /\ UNCHANGED <<ring, isr, call, sizing, loop, ghost, ok>>

ClearOver ==
  /\ At("clear") /\ Go(AfterReport)
  /\ GSMbuffover' = 0 /\ lost' = FALSE
  /\ UNCHANGED <<GSMBuffer, bufind_w, bufind_r, last_op, isr, call, sizing,
                 loop, rd, out, arrived, taken, ok>>

MarkRead ==
  /\ At("mark") /\ Go("idle")
  /\ last_op' = 2
  /\ UNCHANGED <<GSMBuffer, bufind_w, bufind_r, GSMbuffover, isr, call, sizing,
                 loop, rd, ghost, ok>>

(* GSMFlush, statement by statement.                                       *)
FlushW ==
  /\ Flushes /\ At("idle") /\ Go("flushR") /\ op' = "flush"
  /\ bufind_w' = 0 /\ taken' = arrived
  /\ UNCHANGED <<GSMBuffer, bufind_r, last_op, GSMbuffover, isr, count, start,
                 sizing, loop, rd, out, arrived, lost, ok>>

\* GSMFlush forgets bufind_r.
FlushRForgets ==
  /\ At("flushR") /\ Go("flushL")
  /\ UNCHANGED <<ring, isr, call, sizing, loop, rd, ghost, ok>>

FlushR ==
  /\ At("flushR") /\ Go("flushL")
  /\ bufind_r' = 0
  /\ UNCHANGED <<GSMBuffer, bufind_w, last_op, GSMbuffover, isr, call, sizing,
                 loop, rd, ghost, ok>>

FlushLastOp ==
  /\ At("flushL") /\ Go("flushN")
  /\ last_op' = 0
  /\ UNCHANGED <<GSMBuffer, bufind_w, bufind_r, GSMbuffover, isr, call, sizing,
                 loop, rd, ghost, ok>>

FlushNul ==
  /\ At("flushN") /\ Go("idle")
  /\ GSMBuffer' = [GSMBuffer EXCEPT ![0] = 0]
  /\ UNCHANGED <<bufind_w, bufind_r, last_op, GSMbuffover, isr, call, sizing,
                 loop, rd, ghost, ok>>

----------------------------------------------------------------------------
RxInt == RxByte \/ RxOverflow \/ RxEnd
Begin ==
  \E n \in Counts :
    \/ Call("read", n, 0) \/ Call("pread", n, 0)
    \/ \E s \in Starts : Call("seek", n, s)
BufferSize == SizeLastOp \/ SizeConf \/ SizeResult
CopyLoop   == Copy \/ TestEnd \/ Advance
Finish     == SeekRefuses \/ SeekDone \/ Report \/ ClearOver \/ MarkRead
Flush      == FlushW \/ FlushR \/ FlushLastOp \/ FlushNul

Next ==
  \/ RxInt \/ Begin \/ BufferSize \/ SeekFrom \/ Limit \/ CopyLoop \/ Finish
  \/ Flush

Spec == Init /\ [][Next]_vars

(***************************************************************************)
(* Properties.                                                             *)
(***************************************************************************)

FlagsOK == {atEnd, lost, ok} \subseteq BOOLEAN

(* Every variable has its type: no index ever leaves the ring, however     *)
(* interrupt and reader interleave (Hilo.c:664, 791, 829, 869).            *)
TypeOK ==
  /\ FlagsOK
  /\ GSMBuffer \in [Index -> Nat] /\ bufind_w \in Index /\ bufind_r \in Index
  /\ last_op \in 0 .. 2 /\ GSMbuffover \in 0 .. 1
  /\ isr \in Nat /\ pc \in Steps /\ op \in Ops
  /\ count \in Int /\ start \in Nat /\ irx \in Nat
  /\ loc_last_op \in 0 .. 2 /\ conf_buff \in Int /\ bsize \in Int
  /\ from \in Index /\ rd \in Int /\ got \in Nat
  /\ out \in Nat /\ arrived \in Nat /\ taken \in Nat

(* As long as the ring never fills, what any of the read functions copies  *)
(* is exactly the oldest unread bytes, in order: none is skipped, repeated *)
(* or invented, wherever the interrupt strikes.                            *)
InOrder == ok

(* A caller is never promised a byte that did not arrive: what a copy loop *)
(* still has to copy is there.                                             *)
NothingInvented ==
  pc = "loop" /\ irx < count =>
    (IF op = "read" THEN count - irx ELSE start + count) <= Unread

(* The bytes the ring holds, oldest first; a flush under way has already   *)
(* given them up.                                                          *)
Content ==
  IF pc \in {"flushR", "flushL"} THEN <<>>
  ELSE [k \in 1 .. Dist(bufind_r, bufind_w) |->
          GSMBuffer[Shift(bufind_r, k - 1)]]

Fifo == INSTANCE ByteFifo WITH unread <- Content

(* As long as the ring never fills, it is a first-in first-out queue: the  *)
(* false overflow of GSMRxInt, which resets both indices under the reader, *)
(* loses nothing.                                                          *)
IsFifo == Fifo!Spec

(***************************************************************************)
(* What the comments say of the ring and the code does not keep.           *)
(***************************************************************************)

(* HWlib.c:722, "N characters read, but buffer overflow detected": the     *)
(* overflow flag says that bytes were lost.                                *)
OverflowIsReal == GSMbuffover = 1 => lost

(***************************************************************************)
(* The inductive invariants.                                               *)
(***************************************************************************)

(* What keeps the indices in the ring, whether it fills or not.            *)
IndexInv ==
  /\ pc = "advance" /\ ~atEnd => Cursor < Size - 1
  /\ pc = "from" => bsize <= Size \/ bufind_r + bsize < 2 * Size
  /\ pc \in {"lastop", "conf", "bsize", "from"} => count >= 0

(* The ring holds the unread bytes from bufind_r on.                       *)
Holds ==
  /\ Unread = Dist(bufind_r, bufind_w)
  /\ \A i \in Index :
       Dist(bufind_r, i) < Unread =>
         GSMBuffer[i] = taken + 1 + Dist(bufind_r, i)

(* A meeting of the indices is an empty ring, and the interrupt can take   *)
(* it for a full one only while GSMRead is about to set last_op.           *)
Copying == pc \in {"loop", "wrap", "advance", "clear", "mark"}
EmptyIsKnown ==
  /\ isr > 0 => Unread > 0
  /\ last_op = 1 /\ Unread = 0 => op = "read" /\ Copying

(* The size is never more than what is unread, though it may be negative.  *)
SizeInv ==
  /\ pc = "conf" /\ loc_last_op = 1 => Unread > 0
  /\ pc = "bsize" =>
       /\ conf_buff > 0 => bufind_w < bufind_r
       /\ conf_buff = 0 => loc_last_op # 1
  /\ pc = "from" => bsize <= Unread

(* Where the copy loop is.                                                 *)
LoopInv ==
  /\ op \in {"read", "pread"} => start = 0
  /\ pc \in {"lastop", "conf", "bsize", "from"} => irx = 0 /\ from = bufind_r
  /\ pc \in {"loop", "wrap", "advance"} /\ op = "read" => count - irx <= Unread
  /\ pc \in {"loop", "wrap", "advance"} /\ op # "read" =>
       /\ irx < count => start + count <= Unread
       /\ irx <= count => Dist(bufind_r, from) = start + irx
  /\ pc \in {"wrap", "advance"} => irx < count /\ got = Due
  /\ pc = "advance" => atEnd = (Cursor = Size - 1)

FlushInv ==
  /\ pc \in {"flushR", "flushL", "flushN"} =>
       op = "flush" /\ isr = 0 /\ Unread = 0 /\ bufind_w = 0
  /\ pc \in {"flushL", "flushN"} => bufind_r = 0
  /\ pc = "flushN" => last_op = 0
  /\ op = "flush" => pc \in {"idle", "flushR", "flushL", "flushN"}

RingInv ==
  /\ 0 <= Unread /\ Unread <= MaxUnread
  /\ pc # "flushR" => Holds
  /\ pc \notin {"flushR", "flushL"} => EmptyIsKnown
  /\ SizeInv /\ LoopInv /\ FlushInv
  /\ ok

=============================================================================
