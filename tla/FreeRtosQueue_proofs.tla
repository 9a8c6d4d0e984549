------------------------ MODULE FreeRtosQueue_proofs ------------------------
(***************************************************************************)
(* What the kernel of FreeRTOS keeps, for any tasks, calls, lengths and    *)
(* interrupts of its own priority.  A step of the model is a whole critical*)
(* section, which is what the code does under such interrupts only: every  *)
(* theorem assumes PostsInUnlock = FALSE, the rule FreeRTOS gives for the  *)
(* interrupts that call it, and says nothing of the posts of U2RX.         *)
(*                                                                         *)
(* The queues implement BoundedQueue: the storage of a queue changes in a  *)
(* few steps only, and in each of them it stays a ring whose write position*)
(* follows from its read position and its count.                           *)
(*                                                                         *)
(* The scheduler keeps every task in one list of tasks, once.  That takes  *)
(* the event lists and where each task is in its call (KInv): a task is    *)
(* appended to a ready list because it was taken out of the others, one    *)
(* that waits for a queue is not ready, and the processor is given away    *)
(* only while the scheduler is not suspended.                              *)
(*                                                                         *)
(* No wake-up is lost.  While a task is on the list of a queue (WInv),     *)
(* there are at least as many tasks on their way back to its test as there *)
(* are items, those counted whom the lock will yet wake (Enough); a task   *)
(* on that list looks again when it wakes (Waiter); and what came between  *)
(* the test of the queue and the place on its list is in the count of the  *)
(* lock (Placing).                                                         *)
(*                                                                         *)
(* A wait is as long as it was asked to be.  The two lists of delayed      *)
(* tasks are sorted and on their side of the wrap (Times), so that a tick  *)
(* wakes those whose time has come and nobody else (TickPasses).  Then the *)
(* ticks a sleeper has waited and those left to its time make what it      *)
(* asked (Dozing), and the counters a call keeps show how long ago it took *)
(* them, once round at the most (Clocked, Elapses).                        *)
(***************************************************************************)
EXTENDS FreeRtosQueue, ListLemmas, FiniteSetTheorems, TLAPS

Slot == Item \cup {NoItem}

Buffer(n) ==
  [storage : [0 .. n - 1 -> Slot], count : 0 .. n,
   writeTo : 0 .. n - 1, readFrom : 0 .. n - 1, rxLock : Int, txLock : Int]

(* The ring: the next item is written behind those that wait to be read.   *)
Ring(b, n) ==
  /\ b \in Buffer(n)
  /\ b.writeTo = (b.readFrom + 1 + b.count) % n

CallFields == {"op", "q", "item", "wait", "set", "tick", "over", "then"}

CallOK(c) ==
  /\ DOMAIN c = CallFields /\ c.q \in Queue
  /\ c.op = "send" => c.item \in Item

Rings == DOMAIN queue = Queue /\ \A q \in Queue : Ring(queue[q], Length[q])

CallsOK == DOMAIN call = Task /\ \A t \in Task : CallOK(call[t])

IInv == Rings /\ CallsOK

-----------------------------------------------------------------------------
(* The arithmetic of a position that wraps once at the most.               *)
LEMMA ModBelow == ASSUME NEW n \in Nat \ {0}, NEW a \in 0 .. n - 1
                  PROVE a % n = a
  OBVIOUS

LEMMA ModAbove == ASSUME NEW n \in Nat \ {0}, NEW a \in n .. 2 * n - 1
                  PROVE a % n = a - n
  OBVIOUS

LEMMA ModTwice == ASSUME NEW n \in Nat \ {0}, NEW a \in 2 * n .. 3 * n - 1
                  PROVE a % n = a - 2 * n
  OBVIOUS
LEMMA ModRange == ASSUME NEW n \in Nat \ {0}, NEW a \in Nat
                  PROVE a % n \in 0 .. n - 1
  OBVIOUS

(* A new queue is an empty ring.                                           *)
LEMMA Created == ASSUME NEW n \in Nat \ {0}
                 PROVE  Ring(xQueueCreate(n), n) /\ Listed(xQueueCreate(n), n) = <<>>
<1> DEFINE b == xQueueCreate(n)
<1>1. b \in Buffer(n)
  BY DEF xQueueCreate, Buffer, Slot, queueUNLOCKED
<1>2. b.writeTo = 0 /\ b.readFrom = n - 1 /\ b.count = 0
  BY DEF xQueueCreate
<1>3. n % n = 0
  BY ModAbove
<1>4. (b.readFrom + 1 + b.count) % n = 0
  BY <1>2, <1>3
<1>5. Listed(b, n) = <<>>
  BY <1>2 DEF Listed
<1>6. QED
  BY <1>1, <1>2, <1>4, <1>5 DEF Ring

(* Where the items of a ring lie.                                          *)
LEMMA Positions ==
  ASSUME NEW n \in Nat \ {0}, NEW r \in 0 .. n - 1, NEW c \in 0 .. n
  PROVE  /\ \A i \in 1 .. n : (r + i) % n = IF r + i < n THEN r + i ELSE r + i - n
         /\ c < n => (r + 1 + c) % n = IF r + 1 + c < n THEN r + 1 + c
                                       ELSE r + 1 + c - n
         /\ c = n => (r + 1 + c) % n = IF r + 1 < n THEN r + 1 ELSE 0
<1>1. ASSUME NEW i \in 1 .. n
      PROVE  (r + i) % n = IF r + i < n THEN r + i ELSE r + i - n
  <2>1. CASE r + i < n
    BY <2>1, ModBelow
  <2>2. CASE r + i >= n
    BY <2>2, ModAbove
  <2>3. QED
    BY <2>1, <2>2
<1>2. ASSUME c < n
      PROVE  (r + 1 + c) % n = IF r + 1 + c < n THEN r + 1 + c ELSE r + 1 + c - n
  <2>1. CASE r + 1 + c < n
    BY <1>2, <2>1, ModBelow
  <2>2. CASE r + 1 + c >= n
    BY <1>2, <2>2, ModAbove
  <2>3. QED
    BY <2>1, <2>2
<1>3. ASSUME c = n
      PROVE  (r + 1 + c) % n = IF r + 1 < n THEN r + 1 ELSE 0
  <2>1. CASE r + 1 < n
    BY <2>1, <1>3, ModAbove
  <2>2. CASE r + 1 = n
    BY <2>2, <1>3, ModTwice
  <2>3. QED
    BY <2>1, <2>2
<1>4. QED
  BY <1>1, <1>2, <1>3

(* The position written is behind the items, and so is the one after it.   *)
LEMMA WritePosition ==
  ASSUME NEW n \in Nat \ {0}, NEW r \in 0 .. n - 1, NEW c \in 0 .. n - 1,
         NEW w, w = (r + 1 + c) % n
  PROVE  /\ w \in 0 .. n - 1 /\ Wrapped(w + 1, n) \in 0 .. n - 1
         /\ Wrapped(w + 1, n) = (r + 1 + (c + 1)) % n
<1>1. w = IF r + 1 + c < n THEN r + 1 + c ELSE r + 1 + c - n
  <2>1. CASE r + 1 + c < n
    BY <2>1, ModBelow
  <2>2. CASE r + 1 + c >= n
    BY <2>2, ModAbove
  <2>3. QED
    BY <2>1, <2>2
<1>2. w \in 0 .. n - 1 /\ Wrapped(w + 1, n) \in 0 .. n - 1
  BY <1>1 DEF Wrapped
<1>3. Wrapped(w + 1, n) = (r + 1 + (c + 1)) % n
  <2>1. CASE r + 1 + (c + 1) < n
    BY <1>1, <2>1, ModBelow DEF Wrapped
  <2>2. CASE r + 1 + (c + 1) >= n /\ r + 1 + (c + 1) < 2 * n
    BY <1>1, <2>2, ModAbove DEF Wrapped
  <2>3. CASE r + 1 + (c + 1) = 2 * n
    BY <1>1, <2>3, ModTwice DEF Wrapped
  <2>4. QED
    BY <2>1, <2>2, <2>3
<1>4. QED
  BY <1>2, <1>3

LEMMA WriteIsBehind ==
  ASSUME NEW n \in Nat \ {0}, NEW r \in 0 .. n - 1, NEW c \in 0 .. n - 1
  PROVE  LET w == (r + 1 + c) % n
         IN  /\ w \in 0 .. n - 1 /\ (r + (c + 1)) % n = w
             /\ \A i \in 1 .. c : (r + i) % n \in 0 .. n - 1 /\ (r + i) % n # w
<1> DEFINE w == (r + 1 + c) % n
<1>1. w = IF r + 1 + c < n THEN r + 1 + c ELSE r + 1 + c - n
  <2>1. CASE r + 1 + c < n
    BY <2>1, ModBelow
  <2>2. CASE r + 1 + c >= n
    BY <2>2, ModAbove
  <2>3. QED
    BY <2>1, <2>2
<1>2. r + (c + 1) = r + 1 + c
  OBVIOUS
<1>3. (r + (c + 1)) % n = w
  BY <1>2
<1>4. ASSUME NEW i \in 1 .. c
      PROVE  (r + i) % n \in 0 .. n - 1 /\ (r + i) % n # w
  <2> HIDE DEF w
  <2>1. CASE r + i < n
    <3>1. (r + i) % n = r + i
      BY <2>1, ModBelow
    <3>2. QED
      BY <1>1, <2>1, <3>1
  <2>2. CASE r + i >= n
    BY <1>1, <2>2, ModAbove
  <2>3. QED
    BY <2>1, <2>2
<1>5. w \in 0 .. n - 1
  BY ModRange
<1>6. QED
  BY <1>3, <1>4, <1>5

(* The items of a ring, in the order in which they were put.               *)
Cells(f, r, c, n) == [i \in 1 .. c |-> f[(r + i) % n]]

LEMMA CellsPut ==
  ASSUME NEW n \in Nat \ {0}, NEW r \in 0 .. n - 1, NEW c \in 0 .. n - 1,
         NEW f \in [0 .. n - 1 -> Slot], NEW item \in Slot
  PROVE  Cells([f EXCEPT ![(r + 1 + c) % n] = item], r, c + 1, n)
           = Append(Cells(f, r, c, n), item)
<1> DEFINE w == (r + 1 + c) % n
           g == [f EXCEPT ![w] = item]
           old == Cells(f, r, c, n)
<1>1. /\ w \in 0 .. n - 1 /\ (r + (c + 1)) % n = w
      /\ \A i \in 1 .. c : (r + i) % n \in 0 .. n - 1 /\ (r + i) % n # w
  BY WriteIsBehind
<1>2. \A i \in 1 .. c : f[(r + i) % n] \in Slot
  BY <1>1
<1>3. /\ old \in Seq(Slot) /\ Len(old) = c
      /\ \A i \in 1 .. c : old[i] = f[(r + i) % n]
  BY <1>2 DEF Cells
<1>4. \A i \in 1 .. c : g[(r + i) % n] = f[(r + i) % n]
  BY <1>1
<1>5. g[(r + (c + 1)) % n] = item
  BY <1>1
<1>6. Append(old, item) = [i \in 1 .. c + 1 |-> IF i = c + 1 THEN item ELSE old[i]]
  <2> HIDE DEF w, g, old
  <2>1. /\ Append(old, item) \in Seq(Slot) /\ Len(Append(old, item)) = c + 1
        /\ \A i \in 1 .. c : Append(old, item)[i] = old[i]
        /\ Append(old, item)[c + 1] = item
    BY <1>3, AppendProperties
  <2>2. Append(old, item) = [i \in 1 .. c + 1 |-> Append(old, item)[i]]
    BY <2>1
  <2>3. \A i \in 1 .. c + 1 : i = c + 1 \/ i \in 1 .. c
    OBVIOUS
  <2>4. QED
    BY <2>1, <2>2, <2>3
<1>7. ASSUME NEW i \in 1 .. c + 1
      PROVE  g[(r + i) % n] = IF i = c + 1 THEN item ELSE old[i]
  <2>1. CASE i = c + 1
    BY <1>5, <2>1
  <2>2. CASE i # c + 1
    <3>1. i \in 1 .. c
      BY <2>2
    <3>2. QED
      BY <1>3, <1>4, <2>2, <3>1
  <2>3. QED
    BY <2>1, <2>2
<1>8. Cells(g, r, c + 1, n) = [i \in 1 .. c + 1 |-> IF i = c + 1 THEN item ELSE old[i]]
  <2> HIDE DEF g, old
  <2>1. Cells(g, r, c + 1, n) = [i \in 1 .. c + 1 |-> g[(r + i) % n]]
    BY DEF Cells
  <2>2. QED
    BY <1>7, <2>1
<1>9. QED
  BY <1>6, <1>8

(* What is written goes behind the rest.                                   *)
LEMMA Put ==
  ASSUME NEW n \in Nat \ {0}, NEW b, Ring(b, n), b.count < n, NEW item \in Item
  PROVE  LET d == prvCopyDataToQueue(b, n, item)
         IN  Ring(d, n) /\ Listed(d, n) = Append(Listed(b, n), item)
<1> DEFINE d == prvCopyDataToQueue(b, n, item)
<1>1. PICK f, r, c, w : b.storage = f /\ b.readFrom = r /\ b.count = c /\ b.writeTo = w
  OBVIOUS
<1>2. /\ b \in Buffer(n) /\ w = (r + 1 + c) % n /\ r \in 0 .. n - 1
      /\ c \in 0 .. n - 1 /\ w \in 0 .. n - 1 /\ f \in [0 .. n - 1 -> Slot]
  BY <1>1 DEF Ring, Buffer
<1>3. /\ d.readFrom = r /\ d.count = c + 1 /\ d.writeTo = Wrapped(w + 1, n)
      /\ d.storage = [f EXCEPT ![w] = item]
      /\ d = [b EXCEPT !.storage = d.storage, !.count = d.count, !.writeTo = d.writeTo]
  BY <1>1, <1>2 DEF prvCopyDataToQueue, Buffer
<1>4. /\ Wrapped(w + 1, n) \in 0 .. n - 1
      /\ Wrapped(w + 1, n) = (r + 1 + (c + 1)) % n
  BY <1>2, WritePosition
<1>5. Ring(d, n)
  <2>1. [f EXCEPT ![w] = item] \in [0 .. n - 1 -> Slot] /\ c + 1 \in 0 .. n
    BY <1>2 DEF Slot
  <2>2. d.storage \in [0 .. n - 1 -> Slot] /\ d.count \in 0 .. n
    BY <1>3, <2>1
  <2>3. d.writeTo \in 0 .. n - 1 /\ d.writeTo = (d.readFrom + 1 + d.count) % n
    BY <1>3, <1>4
  <2> HIDE DEF d
  <2>4. QED
    BY <1>2, <1>3, <2>2, <2>3 DEF Ring, Buffer
<1>6. Listed(b, n) = Cells(f, r, c, n)
  BY <1>1 DEF Listed, Cells
<1>7. Listed(d, n) = Cells([f EXCEPT ![w] = item], r, c + 1, n)
  <2> HIDE DEF d
  <2>1. Listed(d, n) = Cells(d.storage, d.readFrom, d.count, n)
    BY DEF Listed, Cells
  <2>2. QED
    BY <1>3, <2>1
<1>8. Cells([f EXCEPT ![w] = item], r, c + 1, n) = Append(Cells(f, r, c, n), item)
  <2>1. item \in Slot
    BY DEF Slot
  <2>2. Cells([f EXCEPT ![(r + 1 + c) % n] = item], r, c + 1, n)
          = Append(Cells(f, r, c, n), item)
    BY <1>2, <2>1, CellsPut, Zenon
  <2>3. QED
    BY <1>2, <2>2
<1>9. QED
  BY <1>5, <1>6, <1>7, <1>8

(* The position read is that of the oldest item.                           *)
LEMMA ReadPosition ==
  ASSUME NEW n \in Nat \ {0}, NEW r \in 0 .. n - 1, NEW c \in 1 .. n
  PROVE  LET q == Wrapped(r + 1, n)
         IN  /\ q \in 0 .. n - 1
             /\ (q + 1 + (c - 1)) % n = (r + 1 + c) % n
             /\ \A i \in 1 .. c - 1 :
                  /\ (q + i) % n \in 0 .. n - 1 /\ (q + i) % n # q
                  /\ (q + i) % n = (r + (i + 1)) % n
<1> DEFINE q == Wrapped(r + 1, n)
<1>1. q = IF r + 1 >= n THEN 0 ELSE r + 1
  BY DEF Wrapped
<1>2. (q + 1 + (c - 1)) % n = (r + 1 + c) % n
  <2> HIDE DEF q
  <2>1. CASE r + 1 < n
    <3>1. q + 1 + (c - 1) = r + 1 + c
      BY <1>1, <2>1
    <3>2. QED
      BY <3>1
  <2>2. CASE r + 1 = n /\ c < n
    <3>1. q + 1 + (c - 1) = c /\ r + 1 + c = n + c
      BY <1>1, <2>2
    <3>2. c % n = c /\ (n + c) % n = c
      BY <2>2, ModBelow, ModAbove
    <3>3. QED
      BY <3>1, <3>2
  <2>3. CASE r + 1 = n /\ c = n
    <3>1. q + 1 + (c - 1) = n /\ r + 1 + c = 2 * n
      BY <1>1, <2>3
    <3>2. n % n = 0 /\ (2 * n) % n = 0
      BY ModAbove, ModTwice
    <3>3. QED
      BY <3>1, <3>2
  <2>4. QED
    BY <2>1, <2>2, <2>3
<1>3. ASSUME NEW i \in 1 .. c - 1
      PROVE  /\ (q + i) % n \in 0 .. n - 1 /\ (q + i) % n # q
             /\ (q + i) % n = (r + (i + 1)) % n
  <2> HIDE DEF q
  <2>1. CASE r + 1 = n
    <3>1. q = 0 /\ q + i = i /\ r + (i + 1) = n + i
      BY <1>1, <2>1
    <3>2. i % n = i /\ (n + i) % n = i
      BY ModBelow, ModAbove
    <3>3. QED
      BY <3>1, <3>2
  <2>2. CASE r + 1 < n
    <3>1. q = r + 1 /\ q + i = r + (i + 1)
      BY <1>1, <2>2
    <3>2. CASE q + i < n
      BY <3>1, <3>2, <2>2, ModBelow
    <3>3. CASE q + i >= n
      BY <3>1, <3>3, <2>2, ModAbove
    <3>4. QED
      BY <3>1, <3>2, <3>3, <2>2
  <2>3. QED
    BY <2>1, <2>2
<1>4. QED
  BY <1>1, <1>2, <1>3

LEMMA CellsGet ==
  ASSUME NEW n \in Nat \ {0}, NEW r \in 0 .. n - 1, NEW c \in 1 .. n,
         NEW f \in [0 .. n - 1 -> Slot], NEW x \in Slot
  PROVE  Cells([f EXCEPT ![Wrapped(r + 1, n)] = x], Wrapped(r + 1, n), c - 1, n)
           = Tail(Cells(f, r, c, n))
<1> DEFINE q == Wrapped(r + 1, n)
           g == [f EXCEPT ![q] = x]
           old == Cells(f, r, c, n)
<1>1. /\ q \in 0 .. n - 1
      /\ \A i \in 1 .. c - 1 : /\ (q + i) % n \in 0 .. n - 1 /\ (q + i) % n # q
                              /\ (q + i) % n = (r + (i + 1)) % n
  BY ReadPosition
<1>2. \A i \in 1 .. c : (r + i) % n \in 0 .. n - 1
  <2>1. \A i \in 1 .. c : r + i \in Nat
    OBVIOUS
  <2>2. QED
    BY <2>1, ModRange
<1>3. \A i \in 1 .. c : f[(r + i) % n] \in Slot
  BY <1>2
<1>4. /\ old \in Seq(Slot) /\ Len(old) = c
      /\ \A i \in 1 .. c : old[i] = f[(r + i) % n]
  BY <1>3 DEF Cells
<1>5. Tail(old) = [i \in 1 .. c - 1 |-> old[i + 1]]
  <2> HIDE DEF old
  <2>1. old # <<>>
    BY <1>4
  <2>2. /\ Tail(old) \in Seq(Slot) /\ Len(Tail(old)) = c - 1
        /\ \A i \in 1 .. c - 1 : Tail(old)[i] = old[i + 1]
    BY <1>4, <2>1, HeadTailProperties
  <2>3. Tail(old) = [i \in 1 .. c - 1 |-> Tail(old)[i]]
    BY <2>2
  <2>4. QED
    BY <2>2, <2>3
<1>6. ASSUME NEW i \in 1 .. c - 1
      PROVE  g[(q + i) % n] = old[i + 1]
  <2>1. i + 1 \in 1 .. c
    OBVIOUS
  <2>2. g[(q + i) % n] = f[(q + i) % n]
    BY <1>1
  <2>3. old[i + 1] = f[(r + (i + 1)) % n]
    BY <1>4, <2>1
  <2>4. QED
    BY <1>1, <2>2, <2>3
<1>7. Cells(g, q, c - 1, n) = [i \in 1 .. c - 1 |-> old[i + 1]]
  BY <1>6 DEF Cells
<1>8. QED
  BY <1>5, <1>7

(* What is read is the oldest item.                                        *)
LEMMA Get ==
  ASSUME NEW n \in Nat \ {0}, NEW b, Ring(b, n), b.count # 0
  PROVE  LET d == prvCopyDataFromQueue(b, n)
         IN  Ring(d, n) /\ Listed(d, n) = Tail(Listed(b, n)) /\ Listed(b, n) # <<>>
<1> DEFINE d == prvCopyDataFromQueue(b, n)
<1>1. PICK f, r, c, w : b.storage = f /\ b.readFrom = r /\ b.count = c /\ b.writeTo = w
  OBVIOUS
<1>2. PICK q : q = Wrapped(r + 1, n)
  OBVIOUS
<1>3. /\ b \in Buffer(n) /\ w = (r + 1 + c) % n /\ r \in 0 .. n - 1
      /\ c \in 1 .. n /\ w \in 0 .. n - 1 /\ f \in [0 .. n - 1 -> Slot]
  BY <1>1 DEF Ring, Buffer
<1>4. /\ d.readFrom = q /\ d.count = c - 1 /\ d.writeTo = w
      /\ d.storage = [f EXCEPT ![q] = NoItem]
      /\ d = [b EXCEPT !.storage = d.storage, !.count = d.count, !.readFrom = d.readFrom]
  BY <1>1, <1>2, <1>3 DEF prvCopyDataFromQueue, Buffer
<1>5. q \in 0 .. n - 1 /\ (q + 1 + (c - 1)) % n = (r + 1 + c) % n
  BY <1>2, <1>3, ReadPosition
<1>6. Ring(d, n)
  <2>1. [f EXCEPT ![q] = NoItem] \in [0 .. n - 1 -> Slot] /\ c - 1 \in 0 .. n
    BY <1>3, <1>5 DEF Slot
  <2>2. d.storage \in [0 .. n - 1 -> Slot] /\ d.count \in 0 .. n
    BY <1>4, <2>1
  <2>3. d.readFrom \in 0 .. n - 1 /\ d.writeTo = (d.readFrom + 1 + d.count) % n
    BY <1>3, <1>4, <1>5
  <2> HIDE DEF d
  <2>4. QED
    BY <1>3, <1>4, <2>2, <2>3 DEF Ring, Buffer
<1>7. Listed(b, n) = Cells(f, r, c, n)
  BY <1>1 DEF Listed, Cells
<1>8. Listed(d, n) = Cells([f EXCEPT ![q] = NoItem], q, c - 1, n)
  <2> HIDE DEF d
  <2>1. Listed(d, n) = Cells(d.storage, d.readFrom, d.count, n)
    BY DEF Listed, Cells
  <2>2. QED
    BY <1>4, <2>1
<1>9. Cells([f EXCEPT ![q] = NoItem], q, c - 1, n) = Tail(Cells(f, r, c, n))
  <2>1. NoItem \in Slot
    BY DEF Slot
  <2>2. Cells([f EXCEPT ![Wrapped(r + 1, n)] = NoItem], Wrapped(r + 1, n), c - 1, n)
          = Tail(Cells(f, r, c, n))
    BY <1>3, <2>1, CellsGet, Zenon
  <2>3. QED
    BY <1>2, <2>2
<1>10. Listed(b, n) # <<>>
  <2>1. 1 \in DOMAIN Listed(b, n)
    BY <1>1, <1>3 DEF Listed
  <2>2. QED
    BY <2>1
<1>11. QED
  BY <1>6, <1>7, <1>8, <1>9, <1>10

LEMMA ListedLength ==
  ASSUME NEW n \in Nat \ {0}, NEW b, Ring(b, n)
  PROVE  Len(Listed(b, n)) = b.count /\ b.count \in 0 .. n
<1>1. PICK f, r, c : b.storage = f /\ b.readFrom = r /\ b.count = c
  OBVIOUS
<1>2. r \in 0 .. n - 1 /\ c \in 0 .. n /\ f \in [0 .. n - 1 -> Slot]
  BY <1>1 DEF Ring, Buffer
<1>3. Listed(b, n) = [i \in 1 .. c |-> f[(r + i) % n]]
  BY <1>1 DEF Listed
<1>4. \A i \in 1 .. c : r + i \in Nat
  BY <1>2
<1>5. \A i \in 1 .. c : f[(r + i) % n] \in Slot
  BY <1>2, <1>4, ModRange
<1>6. QED
  BY <1>1, <1>2, <1>3, <1>5

(* The locks are no part of the ring.                                      *)
LEMMA Relocked ==
  ASSUME NEW n \in Nat \ {0}, NEW b, Ring(b, n), NEW rx \in Int, NEW tx \in Int,
         NEW d \in {[b EXCEPT !.rxLock = rx, !.txLock = tx],
                    [b EXCEPT !.rxLock = rx], [b EXCEPT !.txLock = tx]}
  PROVE  Ring(d, n) /\ Listed(d, n) = Listed(b, n)
<1>1. /\ d \in Buffer(n) /\ d.storage = b.storage /\ d.count = b.count
      /\ d.writeTo = b.writeTo /\ d.readFrom = b.readFrom
  <2>1. CASE d = [b EXCEPT !.rxLock = rx, !.txLock = tx]
    BY <2>1 DEF Ring, Buffer
  <2>2. CASE d = [b EXCEPT !.rxLock = rx]
    BY <2>2 DEF Ring, Buffer
  <2>3. CASE d = [b EXCEPT !.txLock = tx]
    BY <2>3 DEF Ring, Buffer
  <2>4. QED
    BY <2>1, <2>2, <2>3
<1>2. QED
  BY <1>1 DEF Ring, Listed

-----------------------------------------------------------------------------
(* One queue changes, one call changes.                                    *)
Contents == [q \in Queue |-> Listed(queue[q], Length[q])]

LEMMA OneQueue ==
  ASSUME Rings, NEW q \in Queue, NEW b, Ring(b, Length[q]),
         queue' = [queue EXCEPT ![q] = b]
  PROVE  Rings' /\ Contents' = [Contents EXCEPT ![q] = Listed(b, Length[q])]
<1>1. DOMAIN queue' = Queue
  BY DEF Rings
<1>2. \A u \in Queue : queue'[u] = IF u = q THEN b ELSE queue[u]
  BY DEF Rings
<1>3. Rings'
  BY <1>1, <1>2 DEF Rings
<1>4. \A u \in Queue : Listed(queue'[u], Length[u]) =
         IF u = q THEN Listed(b, Length[q]) ELSE Listed(queue[u], Length[u])
  BY <1>2
<1>5. QED
  BY <1>3, <1>4 DEF Contents

LEMMA SameQueue ==
  ASSUME Rings, NEW q \in Queue, NEW b, Ring(b, Length[q]),
         Listed(b, Length[q]) = Listed(queue[q], Length[q]),
         queue' = [queue EXCEPT ![q] = b]
  PROVE  Rings' /\ Contents' = Contents
<1>1. Rings' /\ Contents' = [Contents EXCEPT ![q] = Listed(b, Length[q])]
  BY OneQueue
<1>2. Contents[q] = Listed(b, Length[q])
  BY DEF Contents
<1>3. [Contents EXCEPT ![q] = Listed(b, Length[q])] = Contents
  BY <1>2 DEF Contents
<1>4. QED
  BY <1>1, <1>3

LEMMA OneCall ==
  ASSUME CallsOK, NEW t \in Task, NEW c, CallOK(c), call' = [call EXCEPT ![t] = c]
  PROVE  CallsOK'
BY DEF CallsOK, CallOK

LEMMA NoCallOK == CallOK(NoCall)
BY QueueAssumption DEF CallOK, CallFields, NoCall

LEMMA Lengths == \A q \in Queue : Length[q] \in Nat \ {0}
BY QueueAssumption

(* What a step does to the contents.                                       *)
Implemented == Abstract!Next \/ Contents' = Contents

LEMMA SendStep ==
  ASSUME Rings, NEW q \in Queue, NEW item \in Item, ~prvIsQueueFull(q),
         NEW b, Ring(b, Length[q]),
         Listed(b, Length[q]) = Append(Listed(queue[q], Length[q]), item),
         queue' = [queue EXCEPT ![q] = b]
  PROVE  Rings' /\ Implemented
<1>1. Rings' /\ Contents' = [Contents EXCEPT ![q] = Listed(b, Length[q])]
  BY OneQueue
<1>2. Len(Contents[q]) = queue[q].count /\ queue[q].count < Length[q]
  BY Lengths, ListedLength DEF Contents, Rings, prvIsQueueFull
<1>3. Contents' = [Contents EXCEPT ![q] = Append(@, item)]
  BY <1>1 DEF Contents
<1>4. Abstract!Put(q, item)
  BY <1>2, <1>3 DEF Abstract!Put, Contents
<1>5. QED
  BY <1>1, <1>4 DEF Implemented, Abstract!Next

LEMMA SentStep == ASSUME IInv, NEW t \in Task, Sent(t) PROVE IInv' /\ Implemented
<1> DEFINE c == call[t]
           b == prvCopyDataToQueue(queue[c.q], Length[c.q], c.item)
<1>1. c.q \in Queue /\ c.item \in Item /\ Ring(queue[c.q], Length[c.q])
  BY DEF IInv, Rings, CallsOK, CallOK, Sent
<1>2. ~prvIsQueueFull(c.q) /\ queue' = [queue EXCEPT ![c.q] = b]
  BY DEF Sent
<1>3. queue[c.q].count < Length[c.q]
  BY <1>1, <1>2, Lengths DEF Ring, Buffer, prvIsQueueFull
<1>4. /\ Ring(b, Length[c.q])
      /\ Listed(b, Length[c.q]) = Append(Listed(queue[c.q], Length[c.q]), c.item)
  BY <1>1, <1>3, Lengths, Put
<1>5. Rings' /\ Implemented
  <2> HIDE DEF b
  <2>1. QED
    BY <1>1, <1>2, <1>4, SendStep DEF IInv
<1>6. CallsOK'
  BY NoCallOK, OneCall DEF Sent, Return, IInv
<1>7. QED
  BY <1>5, <1>6 DEF IInv

LEMMA ReceivedStep == ASSUME IInv, NEW t \in Task, Received(t) PROVE IInv' /\ Implemented
<1> DEFINE q == call[t].q
           b == prvCopyDataFromQueue(queue[q], Length[q])
<1>1. q \in Queue /\ Ring(queue[q], Length[q])
  BY DEF IInv, Rings, CallsOK, CallOK
<1>2. queue[q].count # 0 /\ queue' = [queue EXCEPT ![q] = b]
  BY DEF Received, prvIsQueueEmpty
<1>3. /\ Ring(b, Length[q]) /\ Listed(queue[q], Length[q]) # <<>>
      /\ Listed(b, Length[q]) = Tail(Listed(queue[q], Length[q]))
  BY <1>1, <1>2, Lengths, Get
<1>4. Rings' /\ Contents' = [Contents EXCEPT ![q] = Listed(b, Length[q])]
  <2> HIDE DEF b
  <2>1. QED
    BY <1>1, <1>2, <1>3, OneQueue DEF IInv
<1>5. Contents[q] = Listed(queue[q], Length[q])
  BY <1>1 DEF Contents
<1>6. Abstract!Get(q)
  <2> HIDE DEF b, q
  <2>1. QED
    BY <1>3, <1>4, <1>5 DEF Abstract!Get, Contents
<1>7. CallsOK'
  BY NoCallOK, OneCall DEF Received, Return, IInv
<1>8. QED
  BY <1>1, <1>4, <1>6, <1>7 DEF IInv, Implemented, Abstract!Next

LEMMA LockStep == ASSUME IInv, NEW t \in Task, prvLockQueue(t) PROVE IInv' /\ Implemented
<1> DEFINE q == call[t].q
           b == [queue[q] EXCEPT !.rxLock = Locked(@), !.txLock = Locked(@)]
<1>1. q \in Queue /\ Ring(queue[q], Length[q])
  BY DEF IInv, Rings, CallsOK, CallOK
<1>2. Locked(queue[q].rxLock) \in Int /\ Locked(queue[q].txLock) \in Int
  BY <1>1 DEF Ring, Buffer, Locked, queueUNLOCKED, queueLOCKED_UNMODIFIED
<1>3. b = [queue[q] EXCEPT !.rxLock = Locked(queue[q].rxLock),
                          !.txLock = Locked(queue[q].txLock)]
  OBVIOUS
<1>4. Ring(b, Length[q]) /\ Listed(b, Length[q]) = Listed(queue[q], Length[q])
  BY <1>1, <1>2, <1>3, Lengths, Relocked
<1>5. queue' = [queue EXCEPT ![q] = b]
  BY DEF prvLockQueue
<1>6. Rings' /\ Contents' = Contents
  <2> HIDE DEF b
  <2>1. QED
    BY <1>1, <1>4, <1>5, SameQueue DEF IInv
<1>7. CallsOK'
  BY DEF prvLockQueue, IInv, CallsOK
<1>8. QED
  BY <1>6, <1>7 DEF IInv, Implemented

LEMMA OpenStep == ASSUME IInv, NEW t \in Task, OpenTx(t) PROVE IInv' /\ Implemented
<1> DEFINE q == call[t].q
           b == [queue[q] EXCEPT !.txLock = queueUNLOCKED]
<1>1. q \in Queue /\ Ring(queue[q], Length[q])
  BY DEF IInv, Rings, CallsOK, CallOK
<1>2. queueUNLOCKED \in Int
  BY DEF queueUNLOCKED
<1>3. Ring(b, Length[q]) /\ Listed(b, Length[q]) = Listed(queue[q], Length[q])
  BY <1>1, <1>2, Lengths, Relocked
<1>4. queue' = [queue EXCEPT ![q] = b]
  BY DEF OpenTx
<1>5. Rings' /\ Contents' = Contents
  <2> HIDE DEF b
  <2>1. QED
    BY <1>1, <1>3, <1>4, SameQueue DEF IInv
<1>6. CallsOK'
  BY DEF OpenTx, IInv, CallsOK
<1>7. QED
  BY <1>5, <1>6 DEF IInv, Implemented

LEMMA UnlockStep == ASSUME IInv, NEW t \in Task, UnlockRx(t) PROVE IInv' /\ Implemented
<1> DEFINE q == call[t].q
           b == [queue[q] EXCEPT !.rxLock = queueUNLOCKED]
<1>1. q \in Queue /\ Ring(queue[q], Length[q])
  BY DEF IInv, Rings, CallsOK, CallOK
<1>2. queueUNLOCKED \in Int
  BY DEF queueUNLOCKED
<1>3. Ring(b, Length[q]) /\ Listed(b, Length[q]) = Listed(queue[q], Length[q])
  BY <1>1, <1>2, Lengths, Relocked
<1>4. queue' = [queue EXCEPT ![q] = b]
  BY DEF UnlockRx
<1>5. Rings' /\ Contents' = Contents
  <2> HIDE DEF b
  <2>1. QED
    BY <1>1, <1>3, <1>4, SameQueue DEF IInv
<1>6. CallsOK'
  BY DEF UnlockRx, IInv, CallsOK
<1>7. QED
  BY <1>5, <1>6 DEF IInv, Implemented

LEMMA PostStep ==
  ASSUME IInv, NEW q \in PostsTo, NEW item \in Posted, xQueueGenericSendFromISR(q, item)
  PROVE  IInv' /\ Implemented
<1> DEFINE d == prvCopyDataToQueue(queue[q], Length[q], item)
           b == [d EXCEPT !.txLock = Counted(@)]
<1>1. q \in Queue /\ item \in Item /\ Ring(queue[q], Length[q])
  BY QueueAssumption DEF IInv, Rings
<1>2. ~prvIsQueueFull(q) /\ queue' = [queue EXCEPT ![q] = b]
  BY DEF xQueueGenericSendFromISR
<1>3. queue[q].count < Length[q]
  BY <1>1, <1>2, Lengths DEF Ring, Buffer, prvIsQueueFull
<1>4. /\ Ring(d, Length[q])
      /\ Listed(d, Length[q]) = Append(Listed(queue[q], Length[q]), item)
  BY <1>1, <1>3, Lengths, Put
<1>5. b = [d EXCEPT !.txLock = Counted(d.txLock)] /\ Counted(d.txLock) \in Int
  <2> HIDE DEF d
  <2>1. QED
    BY <1>4 DEF Ring, Buffer, Counted, queueUNLOCKED
<1>6. /\ Ring(b, Length[q])
      /\ Listed(b, Length[q]) = Append(Listed(queue[q], Length[q]), item)
  <2> HIDE DEF d
  <2>1. QED
    BY <1>1, <1>4, <1>5, Lengths, Relocked
<1>7. Rings' /\ Implemented
  <2> HIDE DEF b
  <2>1. QED
    BY <1>1, <1>2, <1>6, SendStep DEF IInv
<1>8. CallsOK'
  BY DEF xQueueGenericSendFromISR, IInv, CallsOK
<1>9. QED
  BY <1>7, <1>8 DEF IInv

(* The other steps leave the queues as they are.                           *)
LEMMA QuietQueue == ASSUME IInv, UNCHANGED queue, CallsOK' PROVE IInv' /\ Implemented
BY DEF IInv, Rings, Implemented, Contents

LEMMA CallSteps ==
  ASSUME IInv, NEW t \in Task,
         \/ \E c \in Calls[t] : Request(t, c)
         \/ \E n \in Delays[t] : vTaskDelay(t, n)
         \/ Refused(t) \/ WillWait(t) \/ xTaskCheckForTimeOut(t) \/ Test(t)
         \/ Resume(t) \/ Sleep(t) \/ Awake(t)
  PROVE  UNCHANGED queue /\ CallsOK'
<1> DEFINE c == call[t]
<1>1. CallsOK /\ CallOK(c)
  BY DEF IInv, CallsOK
<1>2. ASSUME NEW d \in Calls[t], Request(t, d)
      PROVE  UNCHANGED queue /\ CallsOK'
  <2> DEFINE e == [NoCall EXCEPT !.op = d.op, !.q = d.q, !.item = d.item, !.wait = d.wait]
  <2>1. CallOK(e)
    BY NoCallOK, QueueAssumption DEF CallOK, CallFields
  <2>2. UNCHANGED queue /\ call' = [call EXCEPT ![t] = e]
    BY <1>2 DEF Request
  <2> HIDE DEF e
  <2>3. QED
    BY <1>1, <2>1, <2>2, OneCall
<1>3. ASSUME NEW n \in Delays[t], vTaskDelay(t, n)
      PROVE  UNCHANGED queue /\ CallsOK'
  <2> DEFINE e == [NoCall EXCEPT !.op = "delay", !.wait = n]
  <2>1. CallOK(e)
    BY NoCallOK DEF CallOK, CallFields
  <2>2. UNCHANGED queue /\ call' = [call EXCEPT ![t] = e]
    BY <1>3 DEF vTaskDelay
  <2> HIDE DEF e
  <2>3. QED
    BY <1>1, <2>1, <2>2, OneCall
<1>4. CASE Refused(t) \/ Awake(t)
  BY <1>1, <1>4, NoCallOK, OneCall DEF Refused, Awake, Return
<1>5. CASE WillWait(t)
  <2>1. CallOK(Timed(c))
    BY <1>1 DEF Timed, CallOK, CallFields
  <2>2. UNCHANGED queue /\ call' = [call EXCEPT ![t] = Timed(c)]
    BY <1>5 DEF WillWait
  <2>3. QED
    BY <1>1, <2>1, <2>2, OneCall
<1>6. ASSUME NEW x, call' = [call EXCEPT ![t].then = x]
      PROVE  CallsOK'
  <2>1. CallOK([c EXCEPT !.then = x])
    BY <1>1 DEF CallOK, CallFields
  <2>2. call' = [call EXCEPT ![t] = [c EXCEPT !.then = x]]
    BY <1>6
  <2>3. QED
    BY <1>1, <2>1, <2>2, OneCall
<1>7. CASE xTaskCheckForTimeOut(t)
  <2> DEFINE elapsed == (k.tick - c.tick) % TickModulus
             e == [c EXCEPT !.wait = @ - elapsed, !.tick = k.tick, !.over = k.overflows]
  <2>1. CallOK(e)
    <3> HIDE DEF elapsed
    <3>1. QED
      BY <1>1 DEF CallOK, CallFields
  <2>2. /\ UNCHANGED queue
        /\ \/ UNCHANGED call \/ call' = [call EXCEPT ![t].then = "late"]
           \/ call' = [call EXCEPT ![t] = e]
    BY <1>7 DEF xTaskCheckForTimeOut
  <2> HIDE DEF e
  <2>3. QED
    BY <1>1, <1>6, <2>1, <2>2, OneCall DEF CallsOK
<1>8. CASE Test(t)
  <2>1. UNCHANGED queue /\ \E x : call' = [call EXCEPT ![t].then = x]
    BY <1>8 DEF Test
  <2>2. QED
    BY <1>6, <2>1
<1>9. CASE Resume(t)
  BY <1>1, <1>9, NoCallOK, OneCall DEF Resume, CallsOK
<1>10. CASE Sleep(t)
  <2>1. UNCHANGED queue /\ call' = [call EXCEPT ![t].then = "yield"]
    BY <1>10 DEF Sleep
  <2>2. QED
    BY <1>6, <2>1
<1>11. QED
  BY <1>2, <1>3, <1>4, <1>5, <1>7, <1>8, <1>9, <1>10

(* A step of the system keeps the rings and is a step of the bounded lists,*)
(* or changes nothing in them.                                             *)
LEMMA Step == ASSUME IInv, [Next]_vars PROVE IInv' /\ Implemented
<1>1. CASE UNCHANGED vars
  BY <1>1 DEF vars, IInv, Rings, CallsOK, Implemented, Contents
<1>2. CASE Interrupts
  <2>1. CASE Tick
    BY <2>1, QuietQueue DEF Tick, IInv, CallsOK
  <2>2. CASE \E q \in PostsTo, item \in Posted : xQueueGenericSendFromISR(q, item)
    BY <2>2, PostStep
  <2>3. QED
    BY <1>2, <2>1, <2>2 DEF Interrupts
<1>3. ASSUME NEW t \in Task, Task1(t)
      PROVE  IInv' /\ Implemented
  <2>1. CASE \/ \E c \in Calls[t] : Request(t, c)
             \/ \E n \in Delays[t] : vTaskDelay(t, n)
             \/ Refused(t) \/ WillWait(t) \/ xTaskCheckForTimeOut(t) \/ Test(t)
             \/ Resume(t) \/ Sleep(t) \/ Awake(t)
    <3>1. UNCHANGED queue /\ CallsOK'
      BY <2>1, CallSteps
    <3>2. QED
      BY <3>1, QuietQueue
  <2>2. CASE \/ Suspend(t) \/ Place(t) \/ InspectTx(t) \/ Yield(t)
             \/ Hold(t) \/ Unhold(t) \/ \E u \in Task : Create(t, u)
             \/ \E u \in Task : SuspendTask(t, u) \/ ResumeTask(t, u)
    <3>1. UNCHANGED <<queue, call>>
      BY <2>2 DEF Suspend, Place, InspectTx, Yield, Hold, Unhold, Create,
         SuspendTask, ResumeTask
    <3>2. QED
      BY <3>1, QuietQueue DEF IInv, CallsOK
  <2>3. CASE Sent(t)
    BY <2>3, SentStep
  <2>4. CASE Received(t)
    BY <2>4, ReceivedStep
  <2>5. CASE prvLockQueue(t)
    BY <2>5, LockStep
  <2>6. CASE OpenTx(t)
    BY <2>6, OpenStep
  <2>7. CASE UnlockRx(t)
    BY <2>7, UnlockStep
  <2>8. QED
    BY <1>3, <2>1, <2>2, <2>3, <2>4, <2>5, <2>6, <2>7 DEF Task1
<1>4. QED
  BY <1>1, <1>2, <1>3 DEF Next

LEMMA Start == ASSUME Init PROVE IInv /\ Contents = [q \in Queue |-> <<>>]
<1>1. \A q \in Queue : queue[q] = xQueueCreate(Length[q])
  BY DEF Init
<1>2. \A q \in Queue : Ring(queue[q], Length[q]) /\ Listed(queue[q], Length[q]) = <<>>
  BY <1>1, Lengths, Created
<1>3. DOMAIN queue = Queue
  BY DEF Init
<1>4. CallsOK
  BY NoCallOK DEF Init, CallsOK
<1>5. QED
  BY <1>2, <1>3, <1>4 DEF IInv, Rings, Contents

(* The queues of the kernel are bounded first-in first-out lists: prvCopy- *)
(* DataToQueue, prvCopyDataFromQueue and their callers, in tasks and in    *)
(* interrupts their sections mask, put an item once and take the oldest.   *)
THEOREM QueuesAreLists ==
  ASSUME PostsInUnlock = FALSE PROVE Spec => ImplementsQueue
<1>1. Init => IInv /\ Abstract!Init
  BY Start DEF Abstract!Init, Contents
<1>2. IInv /\ [Next]_vars => IInv'
  BY Step
<1>3. IInv /\ [Next]_vars => [Abstract!Next]_Contents
  BY Step DEF Implemented
<1>4. QED
  BY <1>1, <1>2, <1>3, PTL DEF Spec, ImplementsQueue, Abstract!Spec, Contents

-----------------------------------------------------------------------------
(***************************************************************************)
(* The scheduler's lists: what each function of FreeRtosTasks does to a    *)
(* kernel whose lists are in order.                                        *)
(***************************************************************************)
Members == Task \cup {Idle}

Lists == {s \in Seq(Members) : Once(s)}

Kernel ==
  [ready : [Priorities -> Lists], pending : Lists, suspended : Lists,
   delayed : Lists, overflow : Lists, wake : [Task -> Nat],
   waiting : [Queue -> [Sides -> Lists]],
   tick : 0 .. TickModulus - 1, overflows : Nat, missedTicks : Nat,
   missedYield : BOOLEAN, depth : 0 .. 1, top : Nat, current : Members]

Ready(j, t) == Contains(j.ready[Prio(t)], t)
Waits(j, t) == \E q \in Queue, side \in Sides : Contains(j.waiting[q][side], t)

(* Every task of H is in one list of tasks, once, and no other is in any,  *)
(* but for the idle task, which is always ready.                           *)
Homes(j, H) ==
  /\ \A t \in H : \/ Contains(j.delayed, t) \/ Contains(j.overflow, t)
                  \/ Contains(j.suspended, t) \/ Ready(j, t)
  /\ \A t \in Members :
       /\ Contains(j.delayed, t) => /\ t \in H /\ ~Contains(j.overflow, t)
                                   /\ ~Contains(j.suspended, t) /\ ~Ready(j, t)
       /\ Contains(j.overflow, t) => t \in H /\ ~Contains(j.suspended, t) /\ ~Ready(j, t)
       /\ Contains(j.suspended, t) => t \in H /\ ~Ready(j, t)
       /\ \A p \in Priorities : Contains(j.ready[p], t) => Prio(t) = p /\ t \in H \cup {Idle}

(* A task that waits for a queue is not ready, and waits for one only.     *)
Events(j, H) ==
  /\ \A t \in Members : Contains(j.pending, t) => t \in H
  /\ \A q \in Queue, side \in Sides : \A t \in Members :
       Contains(j.waiting[q][side], t) =>
         /\ t \in H /\ ~Contains(j.pending, t) /\ ~Ready(j, t)
         /\ \A r \in Queue, s \in Sides : Contains(j.waiting[r][s], t) => r = q /\ s = side

Good(j, H) == j \in Kernel /\ Homes(j, H) /\ Events(j, H)

IdleReady(j) == Contains(j.ready[0], Idle)

-----------------------------------------------------------------------------
LEMMA PrioIs == /\ \A t \in Members : Prio(t) \in Priorities /\ Prio(t) \in Nat
                /\ 0 \in Priorities /\ Priorities \subseteq Nat /\ Prio(Idle) = 0
BY TasksAssumption DEF Prio, Priorities, Members

LEMMA Listed1 ==
  ASSUME NEW s \in Lists
  PROVE  /\ s \in Seq(Members) /\ Once(s)
         /\ \A t : Contains(s, t) => t \in Members
BY DEF Lists, Contains

LEMMA EmptyList == <<>> \in Lists /\ \A t : ~Contains(<<>>, t)
BY DEF Lists, Once, Contains

LEMMA NonEmptyList ==
  ASSUME NEW s \in Lists, NEW t, Contains(s, t)
  PROVE  s # <<>>
BY DEF Lists, Contains

LEMMA WithoutIs ==
  ASSUME NEW s \in Lists, NEW t
  PROVE  /\ Without(s, t) \in Lists
         /\ \A u : Contains(Without(s, t), u) <=> Contains(s, u) /\ u # t
<1>1. s \in Seq(Members) /\ Once(s)
  BY DEF Lists
<1> QED
  BY <1>1, RemoveIs DEF Without, Lists

LEMMA AppendedIs ==
  ASSUME NEW s \in Lists, NEW t \in Members, ~Contains(s, t)
  PROVE  /\ Append(s, t) \in Lists
         /\ \A u : Contains(Append(s, t), u) <=> Contains(s, u) \/ u = t
<1>1. s \in Seq(Members) /\ Once(s)
  BY DEF Lists
<1> QED
  BY <1>1, AppendIs DEF Lists

LEMMA PlacesBelow ==
  ASSUME NEW n \in Nat, NEW I \in SUBSET (1 .. n)
  PROVE  Cardinality(I) \in 0 .. n
<1>1. IsFiniteSet(1 .. n) /\ Cardinality(1 .. n) = n
  BY FS_Interval
<1>2. IsFiniteSet(I) /\ Cardinality(I) <= Cardinality(1 .. n)
  BY <1>1, FS_Subset
<1>3. Cardinality(I) \in Nat
  BY <1>2, FS_CardinalityType
<1> QED
  BY <1>1, <1>2, <1>3

LEMMA InsertedIs ==
  ASSUME NEW s \in Lists, NEW t \in Members, ~Contains(s, t), NEW value
  PROVE  /\ Inserted(s, t, value) \in Lists
         /\ \A u : Contains(Inserted(s, t, value), u) <=> Contains(s, u) \/ u = t
<1> DEFINE I == {i \in DOMAIN s : value[s[i]] <= value[t]}
           n == Cardinality(I)
<1>1. s \in Seq(Members) /\ Once(s) /\ Len(s) \in Nat /\ DOMAIN s = 1 .. Len(s)
  BY DEF Lists
<1>2. I \in SUBSET (1 .. Len(s))
  BY <1>1
<1>3. n \in 0 .. Len(s)
  <2> HIDE DEF I
  <2> QED
    BY <1>1, <1>2, PlacesBelow
<1>4. Inserted(s, t, value) = SubSeq(s, 1, n) \o <<t>> \o SubSeq(s, n + 1, Len(s))
  BY DEF Inserted
<1> HIDE DEF n
<1>5. LET r == SubSeq(s, 1, n) \o <<t>> \o SubSeq(s, n + 1, Len(s))
      IN  /\ r \in Seq(Members) /\ Once(r)
          /\ \A u : Contains(r, u) <=> Contains(s, u) \/ u = t
  BY <1>1, <1>3, InsertIs
<1> QED
  BY <1>4, <1>5 DEF Lists


-----------------------------------------------------------------------------
LEMMA KernelFields ==
  ASSUME NEW j \in Kernel
  PROVE  /\ j.ready \in [Priorities -> Lists] /\ j.pending \in Lists /\ j.suspended \in Lists
         /\ j.delayed \in Lists /\ j.overflow \in Lists /\ j.wake \in [Task -> Nat]
         /\ j.waiting \in [Queue -> [Sides -> Lists]] /\ j.tick \in 0 .. TickModulus - 1
         /\ j.overflows \in Nat /\ j.missedTicks \in Nat /\ j.missedYield \in BOOLEAN
         /\ j.depth \in 0 .. 1 /\ j.top \in Nat /\ j.current \in Members
         /\ \A t \in Members : j.ready[Prio(t)] \in Lists
BY PrioIs DEF Kernel

SameRun(i, j) == j.depth = i.depth /\ j.current = i.current /\ j.missedTicks = i.missedTicks

SameTimes(i, j) ==
  /\ j.delayed = i.delayed /\ j.overflow = i.overflow /\ j.wake = i.wake
  /\ j.tick = i.tick /\ j.overflows = i.overflows

LEMMA GenericRemovedIs ==
  ASSUME NEW j \in Kernel, NEW t \in Task
  PROVE  LET r == GenericRemoved(j, t)
         IN  /\ r \in Kernel /\ SameRun(j, r)
             /\ r.pending = j.pending /\ r.waiting = j.waiting
             /\ \A u : /\ Contains(r.delayed, u) <=> Contains(j.delayed, u) /\ u # t
                       /\ Contains(r.overflow, u) <=> Contains(j.overflow, u) /\ u # t
                       /\ Contains(r.suspended, u) <=> Contains(j.suspended, u) /\ u # t
             /\ \A p \in Priorities : \A u :
                  Contains(r.ready[p], u) <=> Contains(j.ready[p], u) /\ u # t
<1> DEFINE r == GenericRemoved(j, t)
           ready == [p \in Priorities |-> Without(j.ready[p], t)]
<1>1. ready \in [Priorities -> Lists]
  BY KernelFields, WithoutIs
<1>2. /\ Without(j.delayed, t) \in Lists /\ Without(j.overflow, t) \in Lists
      /\ Without(j.suspended, t) \in Lists
  BY KernelFields, WithoutIs
<1>3. /\ r \in Kernel /\ SameRun(j, r)
      /\ r.pending = j.pending /\ r.waiting = j.waiting
      /\ r.ready = ready /\ r.delayed = Without(j.delayed, t)
      /\ r.overflow = Without(j.overflow, t) /\ r.suspended = Without(j.suspended, t)
  <2> HIDE DEF ready
  <2>1. r = [j EXCEPT !.wake[t] = 0, !.ready = ready, !.delayed = Without(j.delayed, t),
                      !.overflow = Without(j.overflow, t), !.suspended = Without(j.suspended, t)]
    BY DEF GenericRemoved, ready, Kernel
  <2> HIDE DEF r
  <2> QED
    BY <1>1, <1>2, <2>1 DEF Kernel, SameRun
<1> HIDE DEF r
<1>4. \A p \in Priorities : \A u : Contains(r.ready[p], u) <=> Contains(j.ready[p], u) /\ u # t
  BY <1>3, KernelFields, WithoutIs
<1>5. \A u : /\ Contains(r.delayed, u) <=> Contains(j.delayed, u) /\ u # t
             /\ Contains(r.overflow, u) <=> Contains(j.overflow, u) /\ u # t
             /\ Contains(r.suspended, u) <=> Contains(j.suspended, u) /\ u # t
  BY <1>3, KernelFields, WithoutIs
<1> QED
  BY <1>3, <1>4, <1>5 DEF r

LEMMA EventRemovedIs ==
  ASSUME NEW j \in Kernel, NEW t
  PROVE  LET r == EventRemoved(j, t)
         IN  /\ r \in Kernel /\ SameRun(j, r)
             /\ r.ready = j.ready /\ r.delayed = j.delayed /\ r.overflow = j.overflow
             /\ r.suspended = j.suspended /\ r.tick = j.tick /\ r.top = j.top
             /\ \A u : Contains(r.pending, u) <=> Contains(j.pending, u) /\ u # t
             /\ r.pending = Without(j.pending, t)
             /\ \A q \in Queue, side \in Sides :
                  /\ r.waiting[q][side] = Without(j.waiting[q][side], t)
                  /\ \A u : Contains(r.waiting[q][side], u) <=>
                              Contains(j.waiting[q][side], u) /\ u # t
<1> DEFINE r == EventRemoved(j, t)
           w == [q \in Queue |-> [side \in Sides |-> Without(j.waiting[q][side], t)]]
<1>1. \A q \in Queue, side \in Sides : Without(j.waiting[q][side], t) \in Lists
  BY KernelFields, WithoutIs
<1>2. w \in [Queue -> [Sides -> Lists]]
  BY <1>1
<1>3. Without(j.pending, t) \in Lists
  BY KernelFields, WithoutIs
<1>4. /\ r \in Kernel /\ SameRun(j, r)
      /\ r.ready = j.ready /\ r.delayed = j.delayed /\ r.overflow = j.overflow
      /\ r.suspended = j.suspended /\ r.tick = j.tick /\ r.top = j.top
      /\ r.pending = Without(j.pending, t) /\ r.waiting = w
  <2> HIDE DEF w
  <2>1. r = [j EXCEPT !.pending = Without(j.pending, t), !.waiting = w]
    BY DEF EventRemoved, w, Kernel
  <2> HIDE DEF r
  <2> QED
    BY <1>2, <1>3, <2>1 DEF Kernel, SameRun
<1> HIDE DEF r
<1>5. \A q \in Queue, side \in Sides :
        /\ r.waiting[q][side] = Without(j.waiting[q][side], t)
        /\ \A u : Contains(r.waiting[q][side], u) <=> Contains(j.waiting[q][side], u) /\ u # t
  <2> TAKE q \in Queue, side \in Sides
  <2>1. r.waiting[q][side] = Without(j.waiting[q][side], t)
    BY <1>4
  <2>2. j.waiting[q][side] \in Lists
    BY KernelFields
  <2> QED
    BY <2>1, <2>2, WithoutIs
<1>6. \A u : Contains(r.pending, u) <=> Contains(j.pending, u) /\ u # t
  BY <1>4, KernelFields, WithoutIs
<1> HIDE DEF w
<1> QED
  BY <1>4, <1>5, <1>6 DEF r

LEMMA AddedIs ==
  ASSUME NEW j \in Kernel, NEW t \in Members, ~Ready(j, t)
  PROVE  LET r == prvAddTaskToReadyQueue(j, t)
         IN  /\ r \in Kernel /\ SameRun(j, r)
             /\ r.pending = j.pending /\ r.waiting = j.waiting /\ r.delayed = j.delayed
             /\ r.overflow = j.overflow /\ r.suspended = j.suspended
             /\ \A p \in Priorities : \A u :
                  Contains(r.ready[p], u) <=> Contains(j.ready[p], u) \/ (u = t /\ p = Prio(t))
<1> DEFINE r == prvAddTaskToReadyQueue(j, t)
           list == Append(j.ready[Prio(t)], t)
           top == IF Prio(t) > j.top THEN Prio(t) ELSE j.top
<1>1. Prio(t) \in Priorities /\ Prio(t) \in Nat
  BY PrioIs
<1>2. list \in Lists /\ \A u : Contains(list, u) <=> Contains(j.ready[Prio(t)], u) \/ u = t
  BY <1>1, KernelFields, AppendedIs DEF Ready
<1>3. top \in Nat
  BY <1>1, KernelFields
<1>4. /\ r \in Kernel /\ SameRun(j, r)
      /\ r.pending = j.pending /\ r.waiting = j.waiting /\ r.delayed = j.delayed
      /\ r.overflow = j.overflow /\ r.suspended = j.suspended
      /\ \A p \in Priorities : r.ready[p] = IF p = Prio(t) THEN list ELSE j.ready[p]
  <2>1. r = [j EXCEPT !.ready = [j.ready EXCEPT ![Prio(t)] = list], !.top = top]
    BY DEF prvAddTaskToReadyQueue, Kernel
  <2> HIDE DEF r, list, top
  <2>2. [j.ready EXCEPT ![Prio(t)] = list] \in [Priorities -> Lists]
    BY <1>1, <1>2, KernelFields
  <2>3. \A p \in Priorities : [j.ready EXCEPT ![Prio(t)] = list][p]
                               = IF p = Prio(t) THEN list ELSE j.ready[p]
    BY <1>1, KernelFields
  <2> QED
    BY <1>3, <2>1, <2>2, <2>3 DEF Kernel, SameRun
<1> HIDE DEF r, list, top
<1>5. \A p \in Priorities : \A u :
        Contains(r.ready[p], u) <=> Contains(j.ready[p], u) \/ (u = t /\ p = Prio(t))
  BY <1>1, <1>2, <1>4
<1> QED
  BY <1>4, <1>5 DEF r

LEMMA RemovedGood ==
  ASSUME NEW j \in Kernel, NEW H \in SUBSET Task, Homes(j, H), NEW t \in Task
  PROVE  LET r == GenericRemoved(j, t)
         IN  /\ Homes(r, H \ {t}) /\ \A G : Events(j, G) => Events(r, G)
             /\ \A u \in Members : Ready(r, u) <=> Ready(j, u) /\ u # t
<1> DEFINE r == GenericRemoved(j, t)
<1>1. /\ r \in Kernel /\ SameRun(j, r)
      /\ r.pending = j.pending /\ r.waiting = j.waiting
      /\ \A u : /\ Contains(r.delayed, u) <=> Contains(j.delayed, u) /\ u # t
                /\ Contains(r.overflow, u) <=> Contains(j.overflow, u) /\ u # t
                /\ Contains(r.suspended, u) <=> Contains(j.suspended, u) /\ u # t
      /\ \A p \in Priorities : \A u :
           Contains(r.ready[p], u) <=> Contains(j.ready[p], u) /\ u # t
  BY GenericRemovedIs
<1> HIDE DEF r
<1>2. \A u \in Members : Ready(r, u) <=> Ready(j, u) /\ u # t
  BY <1>1, PrioIs DEF Ready
<1>3. t \in Members /\ t # Idle
  BY TasksAssumption DEF Members
<1>4. Homes(r, H \ {t})
  <2>1. \A u \in Members : u = t => /\ ~Contains(r.delayed, u) /\ ~Contains(r.overflow, u)
                                    /\ ~Contains(r.suspended, u)
                                    /\ \A p \in Priorities : ~Contains(r.ready[p], u)
    BY <1>1
  <2>2. ASSUME NEW u \in H \ {t}
        PROVE  \/ Contains(r.delayed, u) \/ Contains(r.overflow, u)
               \/ Contains(r.suspended, u) \/ Ready(r, u)
    <3>1. CASE Ready(j, u)
      BY <1>2, <3>1 DEF Members
    <3>2. CASE ~Ready(j, u)
      BY <1>1, <3>2 DEF Homes
    <3> QED
      BY <3>1, <3>2
  <2>3. \A u \in Members :
       /\ Contains(r.delayed, u) => /\ u \in H \ {t} /\ ~Contains(r.overflow, u)
                                   /\ ~Contains(r.suspended, u) /\ ~Ready(r, u)
       /\ Contains(r.overflow, u) => u \in H \ {t} /\ ~Contains(r.suspended, u) /\ ~Ready(r, u)
       /\ Contains(r.suspended, u) => u \in H \ {t} /\ ~Ready(r, u)
    BY <1>1, <1>2 DEF Homes
  <2>4. \A u \in Members :
          \A p \in Priorities : Contains(r.ready[p], u) => Prio(u) = p /\ u \in (H \ {t}) \cup {Idle}
    BY <1>1 DEF Homes
  <2> QED
    BY <2>2, <2>3, <2>4 DEF Homes
<1>5. ASSUME NEW G, Events(j, G) PROVE Events(r, G)
  BY <1>1, <1>2, <1>5 DEF Events
<1> QED
  BY <1>2, <1>4, <1>5 DEF r

LEMMA AddedGood ==
  ASSUME NEW j \in Kernel, NEW H \in SUBSET Task, NEW G \in SUBSET Task,
         Homes(j, H), Events(j, G), NEW t \in G, t \notin H, ~Waits(j, t)
  PROVE  LET r == prvAddTaskToReadyQueue(j, t)
         IN  /\ r \in Kernel /\ SameRun(j, r) /\ Homes(r, H \cup {t}) /\ Events(r, G)
             /\ r.pending = j.pending /\ r.waiting = j.waiting
             /\ IdleReady(j) => IdleReady(r)
             /\ \A u \in Members : Ready(r, u) <=> Ready(j, u) \/ u = t
<1> DEFINE r == prvAddTaskToReadyQueue(j, t)
<1>1. t \in Members /\ t # Idle /\ t \in Task
  BY TasksAssumption DEF Members
<1>2. ~Ready(j, t)
  BY <1>1, PrioIs DEF Homes, Ready
<1>3. /\ r \in Kernel /\ SameRun(j, r)
      /\ r.pending = j.pending /\ r.waiting = j.waiting /\ r.delayed = j.delayed
      /\ r.overflow = j.overflow /\ r.suspended = j.suspended
      /\ \A p \in Priorities : \A u :
           Contains(r.ready[p], u) <=> Contains(j.ready[p], u) \/ (u = t /\ p = Prio(t))
  BY <1>1, <1>2, AddedIs
<1> HIDE DEF r
<1>4. \A u \in Members : Ready(r, u) <=> Ready(j, u) \/ u = t
  BY <1>3, PrioIs DEF Ready
<1>5. IdleReady(j) => IdleReady(r)
  BY <1>3, PrioIs DEF IdleReady
<1>6. Homes(r, H \cup {t})
  <2>1. \A u \in H \cup {t} : \/ Contains(r.delayed, u) \/ Contains(r.overflow, u)
                              \/ Contains(r.suspended, u) \/ Ready(r, u)
    BY <1>1, <1>3, <1>4 DEF Homes, Members
  <2>2. \A u \in Members :
       /\ Contains(r.delayed, u) => /\ u \in H \cup {t} /\ ~Contains(r.overflow, u)
                                   /\ ~Contains(r.suspended, u) /\ ~Ready(r, u)
       /\ Contains(r.overflow, u) => u \in H \cup {t} /\ ~Contains(r.suspended, u) /\ ~Ready(r, u)
       /\ Contains(r.suspended, u) => u \in H \cup {t} /\ ~Ready(r, u)
    BY <1>1, <1>3, <1>4 DEF Homes
  <2>3. \A u \in Members :
          \A p \in Priorities : Contains(r.ready[p], u) => Prio(u) = p /\ u \in (H \cup {t}) \cup {Idle}
    BY <1>3 DEF Homes
  <2> QED
    BY <2>1, <2>2, <2>3 DEF Homes
<1>7. Events(r, G)
  BY <1>3, <1>4 DEF Events, Waits
<1> QED
  BY <1>3, <1>4, <1>5, <1>6, <1>7 DEF r

LEMMA ReadiedGood ==
  ASSUME NEW H \in SUBSET Task, NEW j, Good(j, H), NEW t \in H, ~Waits(j, t)
  PROVE  LET r == Readied(j, t)
         IN  /\ Good(r, H) /\ SameRun(j, r)
             /\ r.pending = j.pending /\ r.waiting = j.waiting
             /\ IdleReady(j) => IdleReady(r)
             /\ \A u \in Members : Ready(r, u) <=> Ready(j, u) \/ u = t
<1> DEFINE i == GenericRemoved(j, t)
           r == prvAddTaskToReadyQueue(i, t)
<1>1. t \in Task /\ t \in Members /\ j \in Kernel /\ Homes(j, H) /\ Events(j, H)
  BY DEF Good, Members
<1>2. /\ i \in Kernel /\ SameRun(j, i)
      /\ i.pending = j.pending /\ i.waiting = j.waiting
      /\ \A p \in Priorities : \A u :
           Contains(i.ready[p], u) <=> Contains(j.ready[p], u) /\ u # t
  BY <1>1, GenericRemovedIs
<1>3. /\ Homes(i, H \ {t}) /\ Events(i, H)
      /\ \A u \in Members : Ready(i, u) <=> Ready(j, u) /\ u # t
  BY <1>1, RemovedGood DEF i
<1> HIDE DEF i
<1>4. ~Waits(i, t) /\ t \notin H \ {t} /\ H \ {t} \in SUBSET Task /\ (H \ {t}) \cup {t} = H
  BY <1>2 DEF Waits
<1>5. /\ r \in Kernel /\ SameRun(i, r) /\ Homes(r, (H \ {t}) \cup {t}) /\ Events(r, H)
      /\ r.pending = i.pending /\ r.waiting = i.waiting
      /\ IdleReady(i) => IdleReady(r)
      /\ \A u \in Members : Ready(r, u) <=> Ready(i, u) \/ u = t
  BY <1>2, <1>3, <1>4, AddedGood
<1>6. IdleReady(j) => IdleReady(i)
  BY <1>1, <1>2, PrioIs, TasksAssumption DEF IdleReady
<1> HIDE DEF r
<1>7. Readied(j, t) = r
  BY DEF Readied, i, r
<1>8. Homes(r, H)
  BY <1>4, <1>5
<1>9. \A u \in Members : Ready(r, u) <=> Ready(j, u) \/ u = t
  BY <1>3, <1>5
<1>10. SameRun(j, r)
  BY <1>2, <1>5 DEF SameRun
<1> QED
  BY <1>2, <1>5, <1>6, <1>7, <1>8, <1>9, <1>10 DEF Good

LEMMA ReleasedGood ==
  ASSUME NEW H \in SUBSET Task, NEW j, Good(j, H), NEW t
  PROVE  LET r == EventRemoved(j, t)
         IN  /\ Good(r, H) /\ SameRun(j, r) /\ ~Waits(r, t)
             /\ IdleReady(j) => IdleReady(r)
             /\ \A u \in Members : Ready(r, u) <=> Ready(j, u)
<1> DEFINE r == EventRemoved(j, t)
<1>1. j \in Kernel /\ Homes(j, H) /\ Events(j, H)
  BY DEF Good
<1>2. /\ r \in Kernel /\ SameRun(j, r)
      /\ r.ready = j.ready /\ r.delayed = j.delayed /\ r.overflow = j.overflow
      /\ r.suspended = j.suspended
      /\ \A u : Contains(r.pending, u) <=> Contains(j.pending, u) /\ u # t
      /\ \A q \in Queue, side \in Sides : \A u :
           Contains(r.waiting[q][side], u) <=> Contains(j.waiting[q][side], u) /\ u # t
  BY <1>1, EventRemovedIs
<1> HIDE DEF r
<1>3. \A u \in Members : Ready(r, u) <=> Ready(j, u)
  BY <1>2 DEF Ready
<1>4. Homes(r, H)
  BY <1>1, <1>2 DEF Homes, Ready
<1>5. Events(r, H)
  BY <1>1, <1>2, <1>3 DEF Events
<1>6. ~Waits(r, t)
  BY <1>2 DEF Waits
<1> QED
  BY <1>2, <1>3, <1>4, <1>5, <1>6 DEF r, Good, IdleReady

-----------------------------------------------------------------------------
LEMMA RotatedIs ==
  ASSUME NEW s \in Lists, s # <<>>
  PROVE  /\ Head(s) \in Members /\ Contains(s, Head(s)) /\ Append(Tail(s), Head(s)) \in Lists
         /\ \A u : Contains(Append(Tail(s), Head(s)), u) <=> Contains(s, u)
<1>1. s \in Seq(Members) /\ Once(s)
  BY DEF Lists
<1>2. Head(s) \in Members /\ Contains(s, Head(s))
  BY <1>1, TailIs
<1>3. LET r == Append(Tail(s), Head(s))
      IN  /\ r \in Seq(Members) /\ Once(r)
          /\ \A u : Contains(r, u) <=> Contains(s, u)
  BY <1>1, RotateIs
<1> QED
  BY <1>2, <1>3 DEF Lists

(* The lists stay what they are, and the task that runs is a ready one.    *)
LEMMA SwitchGood ==
  ASSUME NEW H \in SUBSET Task, NEW j, Good(j, H), IdleReady(j)
  PROVE  LET r == vTaskSwitchContext(j)
         IN  /\ Good(r, H) /\ IdleReady(r) /\ r.depth = j.depth /\ r.missedTicks = j.missedTicks
             /\ r.pending = j.pending /\ r.waiting = j.waiting
             /\ \A u \in Members : Ready(r, u) <=> Ready(j, u)
             /\ IF j.depth > 0 THEN r.current = j.current ELSE Ready(r, r.current)
<1> DEFINE r == vTaskSwitchContext(j)
<1>1. j \in Kernel /\ Homes(j, H) /\ Events(j, H)
  BY DEF Good
<1>2. CASE j.depth > 0
  <2>1. r = [j EXCEPT !.missedYield = TRUE]
    BY <1>2 DEF vTaskSwitchContext
  <2> HIDE DEF r
  <2>2. /\ r \in Kernel /\ r.depth = j.depth /\ r.missedTicks = j.missedTicks
        /\ r.pending = j.pending /\ r.waiting = j.waiting
        /\ r.ready = j.ready /\ r.delayed = j.delayed /\ r.overflow = j.overflow
        /\ r.suspended = j.suspended /\ r.current = j.current
    BY <1>1, <2>1 DEF Kernel
  <2>3. \A u \in Members : Ready(r, u) <=> Ready(j, u)
    BY <2>2 DEF Ready
  <2>4. Homes(r, H)
    BY <1>1, <2>2 DEF Homes, Ready
  <2>5. Events(r, H)
    BY <1>1, <2>2 DEF Events, Ready
  <2> QED
    BY <1>2, <2>2, <2>3, <2>4, <2>5 DEF r, Good, IdleReady
<1>3. CASE ~(j.depth > 0)
  <2> DEFINE P == {p \in Priorities : p <= j.top /\ j.ready[p] # <<>>}
             top == Max(P)
             next == Head(j.ready[top])
             list == Append(Tail(j.ready[top]), next)
  <2>1. top \in Priorities /\ j.ready[top] \in Lists /\ j.ready[top] # <<>>
    <3>1. P \in SUBSET Nat /\ j.top \in Nat /\ \A x \in P : x <= j.top
      BY <1>1, PrioIs, KernelFields
    <3>2. j.ready[0] \in Lists
      BY <1>1, PrioIs, KernelFields
    <3>3. j.ready[0] # <<>>
      BY <3>2, NonEmptyList DEF IdleReady
    <3>4. 0 \in P
      BY <3>1, <3>3, PrioIs
    <3>5. top \in P
      <4> HIDE DEF P
      <4> QED
        BY <3>1, <3>4, MaxIs
    <3> HIDE DEF top
    <3>6. top \in Priorities /\ j.ready[top] # <<>>
      BY <3>5
    <3> QED
      BY <1>1, <3>6, KernelFields
  <2>2. r = [j EXCEPT !.top = top, !.current = next, !.ready = [j.ready EXCEPT ![top] = list]]
    BY <1>1, <1>3 DEF vTaskSwitchContext, Kernel
  <2> HIDE DEF top, r
  <2>3. /\ next \in Members /\ Contains(j.ready[top], next) /\ list \in Lists
        /\ \A u : Contains(list, u) <=> Contains(j.ready[top], u)
    BY <2>1, RotatedIs
  <2> HIDE DEF next, list
  <2>4. /\ [j.ready EXCEPT ![top] = list] \in [Priorities -> Lists]
        /\ \A p \in Priorities : [j.ready EXCEPT ![top] = list][p]
                                  = IF p = top THEN list ELSE j.ready[p]
    BY <1>1, <2>1, <2>3, KernelFields
  <2>5. top \in Nat
    BY <2>1, PrioIs
  <2>6. /\ r \in Kernel /\ r.depth = j.depth /\ r.missedTicks = j.missedTicks
        /\ r.pending = j.pending /\ r.waiting = j.waiting
        /\ r.delayed = j.delayed /\ r.overflow = j.overflow
        /\ r.suspended = j.suspended /\ r.current = next
        /\ \A p \in Priorities : r.ready[p] = IF p = top THEN list ELSE j.ready[p]
    BY <1>1, <2>2, <2>3, <2>4, <2>5 DEF Kernel
  <2>7. \A p \in Priorities : \A u : Contains(r.ready[p], u) <=> Contains(j.ready[p], u)
    BY <2>3, <2>6
  <2>8. \A u \in Members : Ready(r, u) <=> Ready(j, u)
    BY <2>7, PrioIs DEF Ready
  <2>9. Homes(r, H)
    BY <1>1, <2>6, <2>7, <2>8 DEF Homes, Members
  <2>10. Events(r, H)
    BY <1>1, <2>6, <2>8 DEF Events
  <2>11. Prio(next) = top
    BY <1>1, <2>1, <2>3 DEF Homes
  <2>12. Ready(r, r.current)
    BY <2>1, <2>3, <2>6, <2>7, <2>11 DEF Ready
  <2>13. IdleReady(r)
    BY <2>7, PrioIs DEF IdleReady
  <2> QED
    BY <1>3, <2>6, <2>8, <2>9, <2>10, <2>12, <2>13 DEF r, Good
<1> QED
  BY <1>2, <1>3

(***************************************************************************)
(* The folds of the scheduler.  FoldLeft recurs over the sets of places of *)
(* its list; a fold of any of the four steps has a solution, whose values  *)
(* at the initial segments are the kernels after so many entries.          *)
(***************************************************************************)
WakeUp(j, t) == Readied(EventRemoved(j, t), t)

Effect(kind, j, t, q, side) ==
  CASE kind = "ready" -> Readied(j, t)
    [] kind = "add"   -> prvAddTaskToReadyQueue(j, t)
    [] kind = "wake"  -> WakeUp(j, t)
    [] OTHER          -> xTaskRemoveFromEventList(j, q, side)

Solves(F, kind, base, list, q, side, n) ==
  F = [w \in SUBSET (1 .. n) |->
         IF w = {} THEN base ELSE Effect(kind, F[w \ {Max(w)}], list[Max(w)], q, side)]

LEMMA SolutionExists ==
  ASSUME NEW kind, NEW base, NEW list, NEW q, NEW side, NEW n \in Nat
  PROVE  \E F : Solves(F, kind, base, list, q, side, n)
<1> DEFINE T == {m \in Nat : \E F : Solves(F, kind, base, list, q, side, m)}
<1>1. 0 \in T
  <2> DEFINE F == [w \in SUBSET (1 .. 0) |-> base]
  <2>1. \A w \in SUBSET (1 .. 0) : w = {}
    OBVIOUS
  <2>2. Solves(F, kind, base, list, q, side, 0)
    BY <2>1 DEF Solves
  <2> HIDE DEF F
  <2> QED
    BY <2>2
<1>2. ASSUME NEW m \in Nat, m \in T PROVE m + 1 \in T
  <2>1. PICK F : Solves(F, kind, base, list, q, side, m)
    BY <1>2
  <2> DEFINE g == [w \in SUBSET (1 .. m + 1) |->
                     IF m + 1 \notin w THEN F[w]
                     ELSE Effect(kind, F[w \ {m + 1}], list[m + 1], q, side)]
  <2>2. \A w \in SUBSET (1 .. m + 1) :
          /\ w \ {m + 1} \in SUBSET (1 .. m)
          /\ m + 1 \notin w => w \in SUBSET (1 .. m)
    OBVIOUS
  <2>3. \A w \in SUBSET (1 .. m) : w \in SUBSET (1 .. m + 1) /\ m + 1 \notin w /\ g[w] = F[w]
    OBVIOUS
  <2>4. ASSUME NEW w \in SUBSET (1 .. m + 1)
        PROVE  g[w] = IF w = {} THEN base
                      ELSE Effect(kind, g[w \ {Max(w)}], list[Max(w)], q, side)
    <3>1. CASE m + 1 \notin w
      <4>1. w \in SUBSET (1 .. m) /\ g[w] = F[w]
        BY <2>2, <2>3, <3>1
      <4>2. F[w] = IF w = {} THEN base
                   ELSE Effect(kind, F[w \ {Max(w)}], list[Max(w)], q, side)
        BY <2>1, <4>1 DEF Solves
      <4>3. w \ {Max(w)} \in SUBSET (1 .. m)
        BY <4>1
      <4>4. g[w \ {Max(w)}] = F[w \ {Max(w)}]
        BY <2>3, <4>3
      <4> HIDE DEF g
      <4> QED
        BY <4>1, <4>2, <4>4
    <3>2. CASE m + 1 \in w
      <4>1. w # {} /\ m + 1 \in Nat
        BY <3>2
      <4>2. Max(w) \in w /\ \A x \in w : Max(w) >= x
        BY <4>1, MaxOfPlaces
      <4>3. Max(w) = m + 1
        <5> DEFINE x == Max(w)
        <5> HIDE DEF x
        <5>1. x \in 1 .. m + 1 /\ x >= m + 1
          BY <3>2, <4>2 DEF x
        <5>2. x = m + 1
          BY <5>1
        <5> QED
          BY <5>2 DEF x
      <4>4. g[w] = Effect(kind, F[w \ {m + 1}], list[m + 1], q, side)
        BY <3>2
      <4>5. g[w \ {m + 1}] = F[w \ {m + 1}]
        BY <2>2, <2>3
      <4> HIDE DEF g
      <4> QED
        BY <4>1, <4>3, <4>4, <4>5
    <3> QED
      BY <3>1, <3>2
  <2>5. Solves(g, kind, base, list, q, side, m + 1)
    <3>1. g = [w \in SUBSET (1 .. m + 1) |-> g[w]]
      OBVIOUS
    <3> HIDE DEF g
    <3> QED
      BY <2>4, <3>1 DEF Solves
  <2> HIDE DEF g
  <2> QED
    BY <2>5
<1> HIDE DEF T
<1>3. n \in T
  BY <1>1, <1>2, Induction
<1> QED
  BY <1>3 DEF T

(* f[m] is the kernel after m entries.                                     *)
Run(f, kind, base, list, q, side, result) ==
  /\ f[0] = base /\ f[Len(list)] = result
  /\ \A m \in 0 .. Len(list) - 1 : f[m + 1] = Effect(kind, f[m], list[m + 1], q, side)

LEMMA SolutionRuns ==
  ASSUME NEW kind, NEW base, NEW S, NEW list \in Seq(S), NEW q, NEW side, NEW F,
         Solves(F, kind, base, list, q, side, Len(list))
  PROVE  \E f : Run(f, kind, base, list, q, side, F[DOMAIN list])
<1> DEFINE n == Len(list)
           f == [m \in 0 .. n |-> F[1 .. m]]
<1>1. n \in Nat /\ DOMAIN list = 1 .. n
  OBVIOUS
<1>2. f[0] = base
  <2>1. 1 .. 0 = {} /\ 1 .. 0 \in SUBSET (1 .. n)
    OBVIOUS
  <2>2. F[1 .. 0] = base
    BY <2>1 DEF Solves
  <2>3. 0 \in 0 .. n
    BY <1>1
  <2> QED
    BY <2>2, <2>3
<1>3. f[n] = F[DOMAIN list]
  BY <1>1
<1>4. ASSUME NEW m \in 0 .. n - 1 PROVE f[m + 1] = Effect(kind, f[m], list[m + 1], q, side)
  <2>1. m \in Nat /\ m \in 0 .. n /\ m + 1 \in 0 .. n
    BY <1>1
  <2>2. Max(1 .. m + 1) = m + 1 /\ (1 .. m + 1) \ {m + 1} = 1 .. m
    BY <2>1, InitialSegment
  <2>3. 1 .. m + 1 \in SUBSET (1 .. n) /\ 1 .. m + 1 # {}
    <3>1. m + 1 \in 1 .. m + 1 /\ m + 1 <= n /\ n \in Nat /\ m + 1 \in Nat
      BY <2>1, <1>1
    <3> HIDE DEF n
    <3>2. \A x \in 1 .. m + 1 : x \in 1 .. n
      BY <2>1, <3>1
    <3> QED
      BY <3>1, <3>2
  <2>4. F[1 .. m + 1] = Effect(kind, F[(1 .. m + 1) \ {Max(1 .. m + 1)}],
                             list[Max(1 .. m + 1)], q, side)
    BY <2>3 DEF Solves
  <2>5. F[1 .. m + 1] = Effect(kind, F[1 .. m], list[m + 1], q, side)
    BY <2>2, <2>4
  <2>6. f[m] = F[1 .. m] /\ f[m + 1] = F[1 .. m + 1]
    BY <2>1
  <2> QED
    BY <2>5, <2>6
<1> HIDE DEF f
<1>5. Run(f, kind, base, list, q, side, F[DOMAIN list])
  BY <1>2, <1>3, <1>4 DEF Run
<1> QED
  BY <1>5

LEMMA AllReadiedRun ==
  ASSUME NEW base, NEW S, NEW list \in Seq(S)
  PROVE  \E f : Run(f, "ready", base, list, 0, 0, AllReadied(base, list))
<1> DEFINE P(F) == F = [w \in SUBSET DOMAIN list |->
                          IF w = {} THEN base ELSE Readied(F[w \ {Max(w)}], list[Max(w)])]
           F == CHOOSE f : P(f)
<1>1. Len(list) \in Nat /\ DOMAIN list = 1 .. Len(list)
  OBVIOUS
<1>2. \A f : Solves(f, "ready", base, list, 0, 0, Len(list)) <=> P(f)
  BY <1>1 DEF Solves, Effect
<1>3. \E f : P(f)
  BY <1>1, <1>2, SolutionExists
<1>4. P(F)
  BY <1>3
<1>5. AllReadied(base, list) = F[DOMAIN list]
  BY DEF AllReadied, FoldLeft, MapThenFoldSet
<1> HIDE DEF P, F
<1> QED
  BY <1>2, <1>4, <1>5, SolutionRuns

LEMMA AddedRun ==
  ASSUME NEW base, NEW S, NEW list \in Seq(S)
  PROVE  \E f : Run(f, "add", base, list, 0, 0, FoldLeft(prvAddTaskToReadyQueue, base, list))
<1> DEFINE P(F) == F = [w \in SUBSET DOMAIN list |->
                          IF w = {} THEN base
                          ELSE prvAddTaskToReadyQueue(F[w \ {Max(w)}], list[Max(w)])]
           F == CHOOSE f : P(f)
<1>1. Len(list) \in Nat /\ DOMAIN list = 1 .. Len(list)
  OBVIOUS
<1>2. \A f : Solves(f, "add", base, list, 0, 0, Len(list)) <=> P(f)
  BY <1>1 DEF Solves, Effect
<1>3. \E f : P(f)
  BY <1>1, <1>2, SolutionExists
<1>4. P(F)
  BY <1>3
<1>5. FoldLeft(prvAddTaskToReadyQueue, base, list) = F[DOMAIN list]
  BY DEF FoldLeft, MapThenFoldSet
<1> HIDE DEF P, F
<1> QED
  BY <1>2, <1>4, <1>5, SolutionRuns

LEMMA CheckRun ==
  ASSUME NEW base, NEW S, Expired(base) \in Seq(S)
  PROVE  \E f : Run(f, "wake", base, Expired(base), 0, 0, prvCheckDelayedTasks(base))
<1> DEFINE list == Expired(base)
           P(F) == F = [w \in SUBSET DOMAIN list |->
                          IF w = {} THEN base
                          ELSE Readied(EventRemoved(F[w \ {Max(w)}], list[Max(w)]), list[Max(w)])]
           F == CHOOSE f : P(f)
<1>5. prvCheckDelayedTasks(base) = F[DOMAIN list]
  BY DEF prvCheckDelayedTasks, FoldLeft, MapThenFoldSet
<1> HIDE DEF list
<1>1. Len(list) \in Nat /\ DOMAIN list = 1 .. Len(list) /\ list \in Seq(S)
  BY DEF list
<1>2. \A f : Solves(f, "wake", base, list, 0, 0, Len(list)) <=> P(f)
  BY <1>1 DEF Solves, Effect, WakeUp
<1>3. \E f : P(f)
  BY <1>1, <1>2, SolutionExists
<1>4. P(F)
  BY <1>3
<1> HIDE DEF P, F
<1> QED
  BY <1>1, <1>2, <1>4, <1>5, SolutionRuns DEF list

RemovedAll(base, list, q, side) ==
  LET one(j, t) == xTaskRemoveFromEventList(j, q, side) IN FoldLeft(one, base, list)

LEMMA RemovedRun ==
  ASSUME NEW base, NEW S, NEW list \in Seq(S), NEW q, NEW side
  PROVE  \E f : Run(f, "event", base, list, q, side, RemovedAll(base, list, q, side))
<1> DEFINE P(F) == F = [w \in SUBSET DOMAIN list |->
                          IF w = {} THEN base
                          ELSE xTaskRemoveFromEventList(F[w \ {Max(w)}], q, side)]
           F == CHOOSE f : P(f)
<1>1. Len(list) \in Nat /\ DOMAIN list = 1 .. Len(list)
  OBVIOUS
<1>2. \A f : Solves(f, "event", base, list, q, side, Len(list)) <=> P(f)
  BY <1>1 DEF Solves, Effect
<1>3. \E f : P(f)
  BY <1>1, <1>2, SolutionExists
<1>4. P(F)
  BY <1>3
<1>5. RemovedAll(base, list, q, side) = F[DOMAIN list]
  BY DEF RemovedAll, FoldLeft, MapThenFoldSet
<1> HIDE DEF P, F
<1> QED
  BY <1>2, <1>4, <1>5, SolutionRuns

(* What holds before the first entry and is kept by each holds at the end. *)
LEMMA RunKeeps ==
  ASSUME NEW f, NEW kind, NEW base, NEW S, NEW list \in Seq(S), NEW q, NEW side, NEW result,
         Run(f, kind, base, list, q, side, result),
         NEW K, base \in K,
         \A m \in 0 .. Len(list) - 1 : f[m] \in K => f[m + 1] \in K
  PROVE  result \in K
<1> DEFINE T == {m \in Nat : m <= Len(list) => f[m] \in K}
<1>1. 0 \in T
  BY DEF Run
<1>2. ASSUME NEW m \in Nat, m \in T PROVE m + 1 \in T
  <2> SUFFICES ASSUME m + 1 <= Len(list) PROVE f[m + 1] \in K
    OBVIOUS
  <2>1. m \in 0 .. Len(list) - 1 /\ m <= Len(list)
    OBVIOUS
  <2>2. f[m] \in K
    BY <1>2, <2>1
  <2> QED
    BY <2>1, <2>2
<1> HIDE DEF T
<1>3. Len(list) \in Nat
  OBVIOUS
<1>4. Len(list) \in T
  BY <1>1, <1>2, <1>3, Induction
<1> QED
  BY <1>3, <1>4 DEF T, Run

-----------------------------------------------------------------------------
(* Who is ready stays ready, nobody comes to wait for a queue.             *)
Grows(i, j) ==
  /\ \A u \in Members : Ready(i, u) => Ready(j, u)
  /\ \A q \in Queue, side \in Sides : \A u :
       Contains(j.waiting[q][side], u) => Contains(i.waiting[q][side], u)
  /\ \A u : Contains(j.pending, u) => Contains(i.pending, u)

LEMMA GrowsOn ==
  ASSUME NEW i, NEW j, NEW l, Grows(i, j), Grows(j, l)
  PROVE  Grows(i, l)
BY DEF Grows

LEMMA NothingListed ==
  ASSUME NEW s \in Lists, \A u : ~Contains(s, u)
  PROVE  s = <<>>
<1>1. s \in Seq(Members) /\ Len(s) \in Nat
  BY DEF Lists
<1>2. 1 \notin 1 .. Len(s)
  BY DEF Contains
<1> QED
  BY <1>1, <1>2

LEMMA AllReadiedGood ==
  ASSUME NEW H \in SUBSET Task, NEW j, Good(j, H), IdleReady(j), NEW list \in Lists,
         \A u : Contains(list, u) => u \in H /\ ~Waits(j, u)
  PROVE  LET r == AllReadied(j, list)
         IN  /\ Good(r, H) /\ IdleReady(r) /\ SameRun(j, r) /\ Grows(j, r)
             /\ r.pending = j.pending /\ r.waiting = j.waiting
<1> DEFINE r == AllReadied(j, list)
           K == {i \in Kernel : /\ Good(i, H) /\ IdleReady(i) /\ SameRun(j, i) /\ Grows(j, i)
                                /\ i.pending = j.pending /\ i.waiting = j.waiting}
<1>1. list \in Seq(Members)
  BY DEF Lists
<1>2. PICK f : Run(f, "ready", j, list, 0, 0, r)
  BY <1>1, AllReadiedRun
<1>3. j \in K
  BY DEF Good, SameRun, Grows
<1>4. ASSUME NEW m \in 0 .. Len(list) - 1, f[m] \in K PROVE f[m + 1] \in K
  <2> DEFINE i == f[m]
             t == list[m + 1]
  <2>1. m + 1 \in 1 .. Len(list)
    BY <1>1
  <2>2. t \in H /\ ~Waits(j, t)
    BY <2>1 DEF Contains
  <2>3. f[m + 1] = Readied(i, t)
    BY <1>2 DEF Run, Effect
  <2>4. Good(i, H) /\ i.waiting = j.waiting
    BY <1>4
  <2>5. ~Waits(i, t)
    BY <2>2, <2>4 DEF Waits
  <2> HIDE DEF i, t
  <2>6. LET n == Readied(i, t)
        IN  /\ Good(n, H) /\ SameRun(i, n)
            /\ n.pending = i.pending /\ n.waiting = i.waiting
            /\ IdleReady(i) => IdleReady(n)
            /\ \A u \in Members : Ready(n, u) <=> Ready(i, u) \/ u = t
    BY <2>2, <2>4, <2>5, ReadiedGood
  <2>7. i \in K
    BY <1>4 DEF i
  <2> QED
    BY <2>3, <2>6, <2>7 DEF Good, SameRun, Grows
<1> HIDE DEF K, r
<1>5. r \in K
  BY <1>1, <1>2, <1>3, <1>4, RunKeeps
<1> QED
  BY <1>5 DEF K, r

LEMMA ExpiredIs ==
  ASSUME NEW j \in Kernel
  PROVE  Expired(j) \in Seq(Members) /\ \A u : Contains(Expired(j), u) => Contains(j.delayed, u)
<1> DEFINE due(n) == \A i \in 1 .. n : j.wake[j.delayed[i]] <= j.tick
           P == {n \in 0 .. Len(j.delayed) : due(n)}
           m == Max(P)
<1>1. j.delayed \in Seq(Members) /\ Len(j.delayed) \in Nat
  BY KernelFields DEF Lists
<1>2. P \in SUBSET Nat /\ 0 \in P /\ \A x \in P : x <= Len(j.delayed)
  BY <1>1
<1>3. m \in P
  <2> HIDE DEF P
  <2> QED
    BY <1>1, <1>2, MaxIs
<1>4. m \in 0 .. Len(j.delayed)
  BY <1>3
<1>5. Expired(j) = SubSeq(j.delayed, 1, m)
  BY DEF Expired
<1> HIDE DEF P, m
<1>6. /\ SubSeq(j.delayed, 1, m) \in Seq(Members) /\ Len(SubSeq(j.delayed, 1, m)) = m
      /\ \A i \in 1 .. m : SubSeq(j.delayed, 1, m)[i] = j.delayed[i] /\ i \in 1 .. Len(j.delayed)
  BY <1>1, <1>4
<1> QED
  BY <1>5, <1>6 DEF Contains

LEMMA CheckGood ==
  ASSUME NEW H \in SUBSET Task, NEW j, Good(j, H), IdleReady(j)
  PROVE  LET r == prvCheckDelayedTasks(j)
         IN  Good(r, H) /\ IdleReady(r) /\ SameRun(j, r) /\ Grows(j, r)
<1> DEFINE r == prvCheckDelayedTasks(j)
           list == Expired(j)
           K == {i \in Kernel : Good(i, H) /\ IdleReady(i) /\ SameRun(j, i) /\ Grows(j, i)}
<1>1. /\ list \in Seq(Members)
      /\ \A u : Contains(list, u) => u \in H
  BY ExpiredIs, Listed1, KernelFields DEF Good, Homes
<1>2. PICK f : Run(f, "wake", j, list, 0, 0, r)
  BY <1>1, CheckRun
<1> HIDE DEF list
<1>3. j \in K
  BY DEF Good, SameRun, Grows
<1>4. ASSUME NEW m \in 0 .. Len(list) - 1, f[m] \in K PROVE f[m + 1] \in K
  <2> DEFINE i == f[m]
             t == list[m + 1]
             e == EventRemoved(i, t)
  <2>1. m + 1 \in 1 .. Len(list)
    BY <1>1
  <2>2. t \in H
    BY <1>1, <2>1 DEF Contains
  <2>3. f[m + 1] = Readied(e, t)
    BY <1>2 DEF Run, Effect, WakeUp
  <2>4. Good(i, H) /\ i \in K
    BY <1>4
  <2> HIDE DEF i, t
  <2>5. /\ Good(e, H) /\ SameRun(i, e) /\ ~Waits(e, t)
        /\ IdleReady(i) => IdleReady(e)
        /\ \A u \in Members : Ready(e, u) <=> Ready(i, u)
    BY <2>4, ReleasedGood
  <2>6. Grows(i, e)
    <3>1. i \in Kernel
      BY <2>4 DEF Good
    <3> QED
      BY <2>5, <3>1, EventRemovedIs DEF Grows
  <2> HIDE DEF e
  <2>7. LET n == Readied(e, t)
        IN  /\ Good(n, H) /\ SameRun(e, n)
            /\ n.pending = e.pending /\ n.waiting = e.waiting
            /\ IdleReady(e) => IdleReady(n)
            /\ \A u \in Members : Ready(n, u) <=> Ready(e, u) \/ u = t
    BY <2>2, <2>5, ReadiedGood
  <2>8. Grows(e, Readied(e, t))
    BY <2>7 DEF Grows
  <2>9. Grows(j, Readied(e, t))
    BY <2>4, <2>6, <2>8, GrowsOn
  <2> QED
    BY <2>3, <2>4, <2>5, <2>7, <2>9 DEF Good, SameRun
<1> HIDE DEF K, r
<1>5. r \in K
  BY <1>1, <1>2, <1>3, <1>4, RunKeeps
<1> QED
  BY <1>5 DEF K, r

LEMMA TickRange == ASSUME NEW n \in Nat PROVE n % TickModulus \in 0 .. TickModulus - 1
<1>1. TickModulus \in Nat \ {0}
  BY TasksAssumption
<1> QED
  BY <1>1

LEMMA OverflowRange == ASSUME NEW n \in Nat PROVE n % OverflowModulus \in Nat
<1>1. OverflowModulus \in Nat \ {0}
  BY TasksAssumption
<1> QED
  BY <1>1

(* The kernel when its clock has moved, before it looks who is due.        *)
Ticked(j) ==
  LET tick == (j.tick + 1) % TickModulus
  IN  IF tick # 0 THEN [j EXCEPT !.tick = tick]
      ELSE [j EXCEPT !.tick = 0, !.delayed = j.overflow, !.overflow = j.delayed,
                     !.overflows = (@ + 1) % OverflowModulus]

LEMMA TickedIs ==
  ASSUME NEW j \in Kernel
  PROVE  LET i == Ticked(j)
         IN  /\ i \in Kernel /\ SameRun(j, i) /\ i.wake = j.wake
             /\ i.pending = j.pending /\ i.waiting = j.waiting
             /\ i.ready = j.ready /\ i.suspended = j.suspended
             /\ \/ /\ j.tick # TickModulus - 1 /\ i.tick = j.tick + 1
                   /\ i.overflows = j.overflows
                   /\ i.delayed = j.delayed /\ i.overflow = j.overflow
                \/ /\ j.tick = TickModulus - 1 /\ i.tick = 0
                   /\ i.overflows = (j.overflows + 1) % OverflowModulus
                   /\ i.delayed = j.overflow /\ i.overflow = j.delayed
<1> DEFINE tick == (j.tick + 1) % TickModulus
           over == (j.overflows + 1) % OverflowModulus
           i == Ticked(j)
<1>1. i = IF tick # 0 THEN [j EXCEPT !.tick = tick]
          ELSE [j EXCEPT !.tick = 0, !.delayed = j.overflow, !.overflow = j.delayed,
                         !.overflows = over]
  BY DEF Ticked, Kernel
<1>2. over \in Nat
  BY KernelFields, OverflowRange
<1>3. j.tick \in 0 .. TickModulus - 1 /\ TickModulus \in Nat \ {0}
  BY KernelFields, TasksAssumption
<1>4. tick = IF j.tick = TickModulus - 1 THEN 0 ELSE j.tick + 1
  <2>1. CASE j.tick = TickModulus - 1
    <3>1. j.tick + 1 \in TickModulus .. 2 * TickModulus - 1 /\ (j.tick + 1) - TickModulus = 0
      BY <1>3, <2>1
    <3> QED
      BY <1>3, <2>1, <3>1, ModAbove
  <2>2. CASE j.tick # TickModulus - 1
    <3>1. j.tick + 1 \in 0 .. TickModulus - 1
      BY <1>3, <2>2
    <3> QED
      BY <1>3, <2>2, <3>1, ModBelow
  <2> QED
    BY <2>1, <2>2
<1>5. 0 \in 0 .. TickModulus - 1 /\ j.tick + 1 # 0
  BY <1>3
<1> HIDE DEF i, tick, over
<1>6. CASE j.tick = TickModulus - 1
  <2>1. i = [j EXCEPT !.tick = 0, !.delayed = j.overflow, !.overflow = j.delayed,
                      !.overflows = over]
    BY <1>1, <1>4, <1>6
  <2>2. /\ i \in Kernel /\ SameRun(j, i) /\ i.wake = j.wake
        /\ i.pending = j.pending /\ i.waiting = j.waiting
        /\ i.ready = j.ready /\ i.suspended = j.suspended
        /\ i.tick = 0 /\ i.overflows = over
        /\ i.delayed = j.overflow /\ i.overflow = j.delayed
    BY <1>2, <1>5, <2>1 DEF Kernel, SameRun
  <2> QED
    BY <1>6, <2>2 DEF i, over
<1>7. CASE j.tick # TickModulus - 1
  <2>1. i = [j EXCEPT !.tick = tick]
    BY <1>1, <1>4, <1>5, <1>7
  <2>2. tick = j.tick + 1 /\ tick \in 0 .. TickModulus - 1
    BY <1>3, <1>4, <1>7
  <2>3. /\ i \in Kernel /\ SameRun(j, i) /\ i.wake = j.wake
        /\ i.pending = j.pending /\ i.waiting = j.waiting
        /\ i.ready = j.ready /\ i.suspended = j.suspended
        /\ i.tick = tick /\ i.overflows = j.overflows
        /\ i.delayed = j.delayed /\ i.overflow = j.overflow
    BY <2>1, <2>2 DEF Kernel, SameRun
  <2> QED
    BY <1>7, <2>2, <2>3 DEF i
<1> QED
  BY <1>6, <1>7

LEMMA TickedGood ==
  ASSUME NEW H \in SUBSET Task, NEW j, Good(j, H), IdleReady(j)
  PROVE  Good(Ticked(j), H) /\ IdleReady(Ticked(j)) /\ Grows(j, Ticked(j))
<1> DEFINE i == Ticked(j)
<1>1. j \in Kernel /\ Homes(j, H) /\ Events(j, H)
  BY DEF Good
<1>2. /\ i \in Kernel /\ i.pending = j.pending /\ i.waiting = j.waiting
      /\ i.ready = j.ready /\ i.suspended = j.suspended
      /\ \/ i.delayed = j.delayed /\ i.overflow = j.overflow
         \/ i.delayed = j.overflow /\ i.overflow = j.delayed
  BY <1>1, TickedIs
<1> HIDE DEF i
<1>3. Events(i, H)
  BY <1>1, <1>2 DEF Events, Ready
<1>4. Homes(i, H)
  BY <1>1, <1>2 DEF Homes, Ready
<1>5. Grows(j, i) /\ IdleReady(i)
  BY <1>2 DEF Grows, Ready, IdleReady
<1> QED
  BY <1>2, <1>3, <1>4, <1>5 DEF i, Good

LEMMA TickGood ==
  ASSUME NEW H \in SUBSET Task, NEW j, Good(j, H), IdleReady(j)
  PROVE  LET r == vTaskIncrementTick(j)
         IN  /\ Good(r, H) /\ IdleReady(r) /\ Grows(j, r)
             /\ r.depth = j.depth /\ r.current = j.current
             /\ r.missedTicks \in {j.missedTicks, j.missedTicks + 1}
             /\ j.depth > 0 => /\ r.pending = j.pending /\ r.waiting = j.waiting
                               /\ SameTimes(j, r)
<1> DEFINE i == Ticked(j)
           r == vTaskIncrementTick(j)
<1>1. j \in Kernel /\ Homes(j, H) /\ Events(j, H)
  BY DEF Good
<1>2. r = IF j.depth > 0 THEN [j EXCEPT !.missedTicks = @ + 1] ELSE prvCheckDelayedTasks(i)
  BY DEF vTaskIncrementTick, Ticked
<1> HIDE DEF r
<1>3. CASE j.depth > 0
  <2>1. r = [j EXCEPT !.missedTicks = j.missedTicks + 1]
    BY <1>2, <1>3
  <2>2. /\ r \in Kernel /\ r.depth = j.depth /\ r.missedTicks = j.missedTicks + 1
        /\ r.pending = j.pending /\ r.waiting = j.waiting
        /\ r.ready = j.ready /\ r.delayed = j.delayed /\ r.overflow = j.overflow
        /\ r.suspended = j.suspended /\ r.current = j.current /\ SameTimes(j, r)
    <3>1. j.missedTicks + 1 \in Nat
      BY <1>1, KernelFields
    <3> QED
      BY <1>1, <2>1, <3>1 DEF Kernel, SameTimes
  <2>3. Homes(r, H) /\ Events(r, H)
    BY <1>1, <2>2 DEF Homes, Events, Ready
  <2>4. Grows(j, r)
    BY <2>2 DEF Grows, Ready
  <2> QED
    BY <2>2, <2>3, <2>4 DEF Good, IdleReady, r
<1>4. CASE ~(j.depth > 0)
  <2>1. SameRun(j, i)
    BY <1>1, TickedIs
  <2>2. Good(i, H) /\ IdleReady(i) /\ Grows(j, i)
    BY TickedGood
  <2> HIDE DEF i
  <2>3. LET n == prvCheckDelayedTasks(i)
        IN  Good(n, H) /\ IdleReady(n) /\ SameRun(i, n) /\ Grows(i, n)
    BY <2>2, CheckGood
  <2> QED
    BY <1>2, <1>4, <2>1, <2>2, <2>3, GrowsOn DEF SameRun, r
<1> QED
  BY <1>3, <1>4

(* The ticks missed, one after the other.                                  *)
Counts(f, j, n) == f = [m \in 0 .. n |-> IF m = 0 THEN j ELSE vTaskIncrementTick(f[m - 1])]

LEMMA CountExists ==
  ASSUME NEW j, NEW n \in Nat
  PROVE  \E f : Counts(f, j, n)
<1> DEFINE T == {m \in Nat : \E f : Counts(f, j, m)}
<1>1. 0 \in T
  <2> DEFINE g == [m \in 0 .. 0 |-> j]
  <2>1. \A m \in 0 .. 0 : m = 0
    OBVIOUS
  <2>2. Counts(g, j, 0)
    BY <2>1 DEF Counts
  <2> HIDE DEF g
  <2> QED
    BY <2>2
<1>2. ASSUME NEW m \in Nat, m \in T PROVE m + 1 \in T
  <2>1. PICK f : Counts(f, j, m)
    BY <1>2
  <2> DEFINE g == [i \in 0 .. m + 1 |-> IF i # m + 1 THEN f[i] ELSE vTaskIncrementTick(f[m])]
  <2>2. \A i \in 0 .. m + 1 : g[i] = IF i = 0 THEN j ELSE vTaskIncrementTick(g[i - 1])
    <3> TAKE i \in 0 .. m + 1
    <3>1. CASE i = m + 1
      <4>1. i # 0 /\ i - 1 = m /\ m \in 0 .. m + 1 /\ m # m + 1
        BY <3>1
      <4>2. g[i] = vTaskIncrementTick(f[m])
        BY <3>1
      <4>3. g[m] = f[m]
        BY <4>1
      <4> HIDE DEF g
      <4> QED
        BY <4>1, <4>2, <4>3
    <3>2. CASE i # m + 1
      <4>1. i \in 0 .. m /\ (i # 0 => i - 1 \in 0 .. m + 1 /\ i - 1 # m + 1)
        BY <3>2
      <4>2. f[i] = IF i = 0 THEN j ELSE vTaskIncrementTick(f[i - 1])
        BY <2>1, <4>1 DEF Counts
      <4>3. g[i] = f[i] /\ (i # 0 => g[i - 1] = f[i - 1])
        BY <3>2, <4>1
      <4> HIDE DEF g
      <4> QED
        BY <4>1, <4>2, <4>3
    <3> QED
      BY <3>1, <3>2
  <2>3. Counts(g, j, m + 1)
    <3>1. g = [i \in 0 .. m + 1 |-> g[i]]
      OBVIOUS
    <3> HIDE DEF g
    <3> QED
      BY <2>2, <3>1 DEF Counts
  <2> HIDE DEF g
  <2> QED
    BY <2>3
<1> HIDE DEF T
<1>3. n \in T
  BY <1>1, <1>2, Induction
<1> QED
  BY <1>3 DEF T

LEMMA CountedGood ==
  ASSUME NEW H \in SUBSET Task, NEW j, Good(j, H), IdleReady(j), j.depth = 0,
         NEW n \in Nat, NEW f, Counts(f, j, n)
  PROVE  /\ Good(f[n], H) /\ IdleReady(f[n]) /\ Grows(j, f[n])
         /\ f[n].depth = 0 /\ f[n].current = j.current
<1> DEFINE Kept(i) == /\ Good(i, H) /\ IdleReady(i) /\ Grows(j, i)
                      /\ i.depth = 0 /\ i.current = j.current
           T == {m \in Nat : m <= n => Kept(f[m])}
<1>1. 0 \in T
  <2>1. f[0] = j
    BY DEF Counts
  <2>2. Kept(j)
    BY DEF Grows
  <2> QED
    BY <2>1, <2>2
<1>2. ASSUME NEW m \in Nat, m \in T PROVE m + 1 \in T
  <2> SUFFICES ASSUME m + 1 <= n PROVE Kept(f[m + 1])
    OBVIOUS
  <2> DEFINE i == f[m]
  <2>1. Kept(i)
    BY <1>2
  <2>2. f[m + 1] = vTaskIncrementTick(i)
    <3>1. m + 1 \in 0 .. n /\ m + 1 # 0 /\ (m + 1) - 1 = m
      OBVIOUS
    <3>2. f[m + 1] = vTaskIncrementTick(f[(m + 1) - 1])
      BY <3>1 DEF Counts
    <3> QED
      BY <3>1, <3>2
  <2> HIDE DEF i
  <2>3. LET r == vTaskIncrementTick(i)
        IN  /\ Good(r, H) /\ IdleReady(r) /\ Grows(i, r)
            /\ r.depth = i.depth /\ r.current = i.current
    BY <2>1, TickGood
  <2> QED
    BY <2>1, <2>2, <2>3, GrowsOn
<1> HIDE DEF T
<1>3. n \in T
  BY <1>1, <1>2, Induction
<1> QED
  BY <1>3 DEF T

LEMMA SetFree ==
  ASSUME NEW H \in SUBSET Task, NEW j, Good(j, H), IdleReady(j), NEW i \in Kernel,
         i.ready = j.ready, i.delayed = j.delayed, i.overflow = j.overflow,
         i.suspended = j.suspended, i.waiting = j.waiting,
         \A u : Contains(i.pending, u) => Contains(j.pending, u)
  PROVE  Good(i, H) /\ IdleReady(i) /\ Grows(j, i)
<1>1. Homes(i, H)
  BY DEF Good, Homes, Ready
<1>2. Events(i, H)
  BY DEF Good, Events, Ready
<1> QED
  BY <1>1, <1>2 DEF Good, IdleReady, Grows, Ready

LEMMA ReleaseGood ==
  ASSUME NEW H \in SUBSET Task, NEW j, Good(j, H), IdleReady(j)
  PROVE  LET r == Released(j)
         IN  /\ Good(r, H) /\ IdleReady(r) /\ Grows(j, r)
             /\ r.depth = 0 /\ r.current = j.current /\ r.pending = <<>>
<1> DEFINE a == AllReadied(j, j.pending)
           i == [a EXCEPT !.pending = <<>>, !.depth = 0]
           n == j.missedTicks
           count[m \in 0 .. j.missedTicks] == IF m = 0 THEN i ELSE vTaskIncrementTick(count[m - 1])
           r == [count[j.missedTicks] EXCEPT !.missedTicks = 0]
<1>1. j \in Kernel /\ Events(j, H) /\ n \in Nat /\ j.pending \in Lists
  BY KernelFields DEF Good
<1>2. \A u : Contains(j.pending, u) => u \in H /\ ~Waits(j, u)
  BY <1>1, Listed1 DEF Events, Waits
<1>3. Good(a, H) /\ IdleReady(a) /\ SameRun(j, a) /\ Grows(j, a)
  BY <1>1, <1>2, AllReadiedGood
<1> HIDE DEF a
<1>4. a \in Kernel
  BY <1>3 DEF Good
<1>5. /\ i \in Kernel /\ i.ready = a.ready /\ i.delayed = a.delayed /\ i.overflow = a.overflow
      /\ i.suspended = a.suspended /\ i.waiting = a.waiting /\ i.pending = <<>>
      /\ i.depth = 0 /\ i.current = a.current
  <2> DEFINE none == <<>>
  <2>1. none \in Lists /\ 0 \in 0 .. 1
    BY EmptyList
  <2>2. i = [a EXCEPT !.pending = none, !.depth = 0]
    OBVIOUS
  <2>3. i.pending = none => i.pending = <<>>
    OBVIOUS
  <2> HIDE DEF i, none
  <2> QED
    BY <1>4, <2>1, <2>2, <2>3 DEF Kernel
<1>6. Released(j) = r
  BY DEF Released, a
<1> HIDE DEF i
<1>7. Good(i, H) /\ IdleReady(i) /\ Grows(a, i)
  BY <1>3, <1>5, EmptyList, SetFree
<1>8. Counts(count, i, n)
  BY <1>1, CountExists DEF Counts
<1> DEFINE c == count[j.missedTicks]
<1> HIDE DEF count
<1>9. /\ Good(c, H) /\ IdleReady(c) /\ Grows(i, c)
      /\ c.depth = 0 /\ c.current = i.current
  BY <1>1, <1>5, <1>7, <1>8, CountedGood
<1> HIDE DEF c
<1>10. r = [c EXCEPT !.missedTicks = 0]
  BY DEF c
<1> HIDE DEF r
<1>11. c \in Kernel
  BY <1>9 DEF Good
<1>12. /\ r \in Kernel /\ r.ready = c.ready /\ r.delayed = c.delayed /\ r.overflow = c.overflow
       /\ r.suspended = c.suspended /\ r.waiting = c.waiting /\ r.pending = c.pending
       /\ r.depth = c.depth /\ r.current = c.current
  BY <1>10, <1>11 DEF Kernel
<1>13. Good(r, H) /\ IdleReady(r) /\ Grows(c, r)
  BY <1>9, <1>12, SetFree
<1>14. Grows(j, r) /\ Grows(i, r)
  BY <1>3, <1>7, <1>9, <1>13, GrowsOn
<1>15. r.pending = <<>>
  <2>1. \A u : ~Contains(r.pending, u)
    BY <1>5, <1>14, EmptyList DEF Grows
  <2>2. r.pending \in Lists
    BY <1>12, KernelFields
  <2> QED
    BY <2>1, <2>2, NothingListed
<1> QED
  BY <1>3, <1>5, <1>6, <1>9, <1>12, <1>13, <1>14, <1>15 DEF SameRun

LEMMA ResumeAllGood ==
  ASSUME NEW H \in SUBSET Task, NEW j, Good(j, H), IdleReady(j), j.depth = 1
  PROVE  LET r == xTaskResumeAll(j)
         IN  /\ Good(r, H) /\ IdleReady(r) /\ Grows(j, r)
             /\ r.depth = 0 /\ r.pending = <<>>
             /\ IF MustYield(j) THEN Ready(r, r.current) ELSE r.current = j.current
<1> DEFINE a == Released(j)
           i == [a EXCEPT !.missedYield = FALSE]
           b == vTaskSwitchContext(i)
<1>1. /\ Good(a, H) /\ IdleReady(a) /\ Grows(j, a)
      /\ a.depth = 0 /\ a.current = j.current /\ a.pending = <<>>
  BY ReleaseGood
<1>2. xTaskResumeAll(j) = IF MustYield(j) THEN b ELSE a
  BY DEF xTaskResumeAll
<1> HIDE DEF a
<1>3. CASE ~MustYield(j)
  BY <1>1, <1>2, <1>3
<1>4. CASE MustYield(j)
  <2>1. a \in Kernel
    BY <1>1 DEF Good
  <2>2. /\ i \in Kernel /\ i.ready = a.ready /\ i.delayed = a.delayed /\ i.overflow = a.overflow
        /\ i.suspended = a.suspended /\ i.waiting = a.waiting /\ i.pending = a.pending
        /\ i.depth = a.depth
    BY <2>1 DEF Kernel
  <2> HIDE DEF i
  <2>3. Good(i, H) /\ IdleReady(i) /\ Grows(a, i)
    BY <1>1, <2>2, SetFree
  <2>4. /\ Good(b, H) /\ IdleReady(b) /\ b.depth = i.depth
        /\ b.pending = i.pending /\ b.waiting = i.waiting
        /\ \A u \in Members : Ready(b, u) <=> Ready(i, u)
        /\ IF i.depth > 0 THEN b.current = i.current ELSE Ready(b, b.current)
    BY <2>3, SwitchGood
  <2> HIDE DEF b
  <2>5. Grows(i, b)
    BY <2>4 DEF Grows
  <2>6. Grows(j, b)
    BY <1>1, <2>3, <2>5, GrowsOn
  <2> QED
    BY <1>1, <1>2, <1>4, <2>2, <2>4, <2>6
<1> QED
  BY <1>3, <1>4

LEMMA SuspendAllGood ==
  ASSUME NEW H \in SUBSET Task, NEW j, Good(j, H), IdleReady(j), j.depth = 0
  PROVE  LET r == vTaskSuspendAll(j)
         IN  /\ Good(r, H) /\ IdleReady(r) /\ r.depth = 1 /\ r.current = j.current
             /\ r.pending = j.pending /\ r.waiting = j.waiting
             /\ \A u : Ready(r, u) <=> Ready(j, u)
<1> DEFINE r == vTaskSuspendAll(j)
           one == 0 + 1
<1>1. j \in Kernel
  BY DEF Good
<1>2. r = [j EXCEPT !.depth = one]
  BY DEF vTaskSuspendAll
<1>3. one \in 0 .. 1 /\ one = 1
  OBVIOUS
<1> HIDE DEF one, r
<1>4. /\ r \in Kernel /\ r.ready = j.ready /\ r.delayed = j.delayed /\ r.overflow = j.overflow
      /\ r.suspended = j.suspended /\ r.waiting = j.waiting /\ r.pending = j.pending
      /\ r.depth = 1 /\ r.current = j.current
  BY <1>1, <1>2, <1>3 DEF Kernel
<1>5. Good(r, H) /\ IdleReady(r)
  BY <1>4, SetFree
<1> QED
  BY <1>4, <1>5 DEF r, Ready

(* A task that goes to sleep leaves the ready list.                        *)
LEMMA AsleepHomes ==
  ASSUME NEW H \in SUBSET Task, NEW j \in Kernel, Homes(j, H), NEW t \in H, NEW ticks \in Nat
  PROVE  LET r == Asleep(j, t, ticks)
         IN  /\ r \in Kernel /\ Homes(r, H) /\ SameRun(j, r)
             /\ r.pending = j.pending /\ r.waiting = j.waiting
             /\ IdleReady(j) => IdleReady(r)
             /\ \A u \in Members : Ready(r, u) <=> Ready(j, u) /\ u # t
<1> DEFINE g == GenericRemoved(j, t)
           wake == [j.wake EXCEPT ![t] = (j.tick + ticks) % TickModulus]
           i == [g EXCEPT !.wake = wake]
           r == Asleep(j, t, ticks)
<1>1. t \in Task /\ t \in Members /\ t # Idle
  BY TasksAssumption DEF Members
<1>2. /\ g \in Kernel /\ SameRun(j, g)
      /\ g.pending = j.pending /\ g.waiting = j.waiting
      /\ \A u : /\ Contains(g.delayed, u) <=> Contains(j.delayed, u) /\ u # t
                /\ Contains(g.overflow, u) <=> Contains(j.overflow, u) /\ u # t
                /\ Contains(g.suspended, u) <=> Contains(j.suspended, u) /\ u # t
      /\ \A p \in Priorities : \A u :
           Contains(g.ready[p], u) <=> Contains(j.ready[p], u) /\ u # t
  BY <1>1, GenericRemovedIs
<1>3. /\ Homes(g, H \ {t})
      /\ \A u \in Members : Ready(g, u) <=> Ready(j, u) /\ u # t
  BY <1>1, RemovedGood
<1>4. wake \in [Task -> Nat]
  <2>1. j.wake \in [Task -> Nat] /\ j.tick + ticks \in Nat
    BY KernelFields
  <2>2. (j.tick + ticks) % TickModulus \in Nat
    BY <2>1, TickRange
  <2> QED
    BY <1>1, <2>1, <2>2
<1>5. \/ r = [i EXCEPT !.overflow = Inserted(@, t, wake)]
      \/ r = [i EXCEPT !.delayed = Inserted(@, t, wake)]
  BY DEF Asleep
<1> HIDE DEF g, wake, r
<1>6. /\ i \in Kernel /\ SameRun(g, i) /\ i.pending = g.pending /\ i.waiting = g.waiting
      /\ i.ready = g.ready /\ i.delayed = g.delayed /\ i.overflow = g.overflow
      /\ i.suspended = g.suspended
  BY <1>2, <1>4 DEF Kernel, SameRun
<1> HIDE DEF i
<1>7. /\ i.overflow \in Lists /\ i.delayed \in Lists
      /\ ~Contains(i.overflow, t) /\ ~Contains(i.delayed, t)
  BY <1>2, <1>6, KernelFields
<1>8. /\ Inserted(i.overflow, t, wake) \in Lists
      /\ \A u : Contains(Inserted(i.overflow, t, wake), u) <=> Contains(i.overflow, u) \/ u = t
      /\ Inserted(i.delayed, t, wake) \in Lists
      /\ \A u : Contains(Inserted(i.delayed, t, wake), u) <=> Contains(i.delayed, u) \/ u = t
  BY <1>1, <1>7, InsertedIs
<1>9. /\ r \in Kernel /\ SameRun(i, r) /\ r.pending = i.pending /\ r.waiting = i.waiting
      /\ r.ready = i.ready /\ r.suspended = i.suspended
      /\ \/ r.overflow = Inserted(i.overflow, t, wake) /\ r.delayed = i.delayed
         \/ r.delayed = Inserted(i.delayed, t, wake) /\ r.overflow = i.overflow
  <2>1. CASE r = [i EXCEPT !.overflow = Inserted(@, t, wake)]
    <3>1. r = [i EXCEPT !.overflow = Inserted(i.overflow, t, wake)]
      BY <1>6, <2>1 DEF Kernel
    <3> QED
      BY <1>6, <1>8, <3>1 DEF Kernel, SameRun
  <2>2. CASE r = [i EXCEPT !.delayed = Inserted(@, t, wake)]
    <3>1. r = [i EXCEPT !.delayed = Inserted(i.delayed, t, wake)]
      BY <1>6, <2>2 DEF Kernel
    <3> QED
      BY <1>6, <1>8, <3>1 DEF Kernel, SameRun
  <2> QED
    BY <1>5, <2>1, <2>2
<1>10. \A u \in Members : Ready(r, u) <=> Ready(j, u) /\ u # t
  BY <1>3, <1>6, <1>9 DEF Ready
<1>11. \A u : /\ Contains(r.suspended, u) <=> Contains(j.suspended, u) /\ u # t
              /\ \A p \in Priorities : Contains(r.ready[p], u) <=> Contains(j.ready[p], u) /\ u # t
  BY <1>2, <1>6, <1>9
<1>12. \/ \A u : /\ Contains(r.overflow, u) <=> Contains(j.overflow, u) \/ u = t
                 /\ Contains(r.delayed, u) <=> Contains(j.delayed, u) /\ u # t
       \/ \A u : /\ Contains(r.delayed, u) <=> Contains(j.delayed, u) \/ u = t
                 /\ Contains(r.overflow, u) <=> Contains(j.overflow, u) /\ u # t
  BY <1>2, <1>6, <1>8, <1>9
<1>13. Homes(r, H)
  <2>1. \A u \in H : \/ Contains(r.delayed, u) \/ Contains(r.overflow, u)
                     \/ Contains(r.suspended, u) \/ Ready(r, u)
    <3> TAKE u \in H
    <3>1. CASE u = t
      BY <1>12, <3>1
    <3>2. CASE u # t
      BY <1>10, <1>11, <1>12, <3>2 DEF Homes, Members
    <3> QED
      BY <3>1, <3>2
  <2>2. \A u \in Members :
       /\ Contains(r.delayed, u) => /\ u \in H /\ ~Contains(r.overflow, u)
                                   /\ ~Contains(r.suspended, u) /\ ~Ready(r, u)
       /\ Contains(r.overflow, u) => u \in H /\ ~Contains(r.suspended, u) /\ ~Ready(r, u)
       /\ Contains(r.suspended, u) => u \in H /\ ~Ready(r, u)
    BY <1>10, <1>11, <1>12 DEF Homes
  <2>3. \A u \in Members :
          \A p \in Priorities : Contains(r.ready[p], u) => Prio(u) = p /\ u \in H \cup {Idle}
    BY <1>11 DEF Homes
  <2> QED
    BY <2>1, <2>2, <2>3 DEF Homes
<1>14. IdleReady(j) => IdleReady(r)
  BY <1>1, <1>11, PrioIs DEF IdleReady
<1> QED
  BY <1>2, <1>6, <1>9, <1>10, <1>13, <1>14 DEF r, SameRun

(* A task put into the list of the suspended ones leaves the ready list.   *)
PutAway(j, t) == [GenericRemoved(j, t) EXCEPT !.suspended = Append(@, t)]

LEMMA PutAwayHomes ==
  ASSUME NEW H \in SUBSET Task, NEW j \in Kernel, Homes(j, H), NEW t \in H
  PROVE  LET r == PutAway(j, t)
         IN  /\ r \in Kernel /\ Homes(r, H) /\ SameRun(j, r)
             /\ r.pending = j.pending /\ r.waiting = j.waiting
             /\ IdleReady(j) => IdleReady(r)
             /\ \A u \in Members : Ready(r, u) <=> Ready(j, u) /\ u # t
<1> DEFINE g == GenericRemoved(j, t)
           list == Append(g.suspended, t)
           r == PutAway(j, t)
<1>1. t \in Task /\ t \in Members /\ t # Idle
  BY TasksAssumption DEF Members
<1>2. /\ g \in Kernel /\ SameRun(j, g)
      /\ g.pending = j.pending /\ g.waiting = j.waiting
      /\ \A u : /\ Contains(g.delayed, u) <=> Contains(j.delayed, u) /\ u # t
                /\ Contains(g.overflow, u) <=> Contains(j.overflow, u) /\ u # t
                /\ Contains(g.suspended, u) <=> Contains(j.suspended, u) /\ u # t
      /\ \A p \in Priorities : \A u :
           Contains(g.ready[p], u) <=> Contains(j.ready[p], u) /\ u # t
  BY <1>1, GenericRemovedIs
<1>3. \A u \in Members : Ready(g, u) <=> Ready(j, u) /\ u # t
  BY <1>1, RemovedGood
<1>4. list \in Lists /\ \A u : Contains(list, u) <=> Contains(g.suspended, u) \/ u = t
  <2>1. g.suspended \in Lists /\ ~Contains(g.suspended, t)
    BY <1>2, KernelFields
  <2> QED
    BY <1>1, <2>1, AppendedIs
<1>5. r = [g EXCEPT !.suspended = list]
  BY <1>2 DEF PutAway, Kernel
<1> HIDE DEF g, r, list
<1>6. /\ r \in Kernel /\ SameRun(g, r) /\ r.pending = g.pending /\ r.waiting = g.waiting
      /\ r.ready = g.ready /\ r.suspended = list /\ r.delayed = g.delayed
      /\ r.overflow = g.overflow
  BY <1>2, <1>4, <1>5 DEF Kernel, SameRun
<1>7. \A u \in Members : Ready(r, u) <=> Ready(j, u) /\ u # t
  BY <1>3, <1>6 DEF Ready
<1>8. \A u : /\ Contains(r.suspended, u) <=> Contains(j.suspended, u) \/ u = t
             /\ Contains(r.overflow, u) <=> Contains(j.overflow, u) /\ u # t
             /\ Contains(r.delayed, u) <=> Contains(j.delayed, u) /\ u # t
             /\ \A p \in Priorities : Contains(r.ready[p], u) <=> Contains(j.ready[p], u) /\ u # t
  BY <1>2, <1>4, <1>6
<1>9. Homes(r, H)
  <2>1. \A u \in H : \/ Contains(r.delayed, u) \/ Contains(r.overflow, u)
                     \/ Contains(r.suspended, u) \/ Ready(r, u)
    BY <1>7, <1>8 DEF Homes, Members
  <2>2. \A u \in Members :
       /\ Contains(r.delayed, u) => /\ u \in H /\ ~Contains(r.overflow, u)
                                   /\ ~Contains(r.suspended, u) /\ ~Ready(r, u)
       /\ Contains(r.overflow, u) => u \in H /\ ~Contains(r.suspended, u) /\ ~Ready(r, u)
       /\ Contains(r.suspended, u) => u \in H /\ ~Ready(r, u)
    BY <1>7, <1>8 DEF Homes
  <2>3. \A u \in Members :
          \A p \in Priorities : Contains(r.ready[p], u) => Prio(u) = p /\ u \in H \cup {Idle}
    BY <1>8 DEF Homes
  <2> QED
    BY <2>1, <2>2, <2>3 DEF Homes
<1>10. IdleReady(j) => IdleReady(r)
  BY <1>1, <1>8, PrioIs DEF IdleReady
<1> QED
  BY <1>2, <1>6, <1>7, <1>9, <1>10 DEF r, SameRun

(* One task more waits, the first n of a list no longer do.                *)
Enters(i, j, q, side, t) ==
  \A p \in Queue, s \in Sides : \A u :
    Contains(j.waiting[p][s], u) <=>
      Contains(i.waiting[p][s], u) \/ (p = q /\ s = side /\ u = t)

Leave(i, j, list, n) ==
  \A p \in Queue, s \in Sides : \A u :
    Contains(j.waiting[p][s], u) <=>
      Contains(i.waiting[p][s], u) /\ \A m \in 1 .. n : list[m] # u

Postponed(i, j, list, n) ==
  \A u : Contains(j.pending, u) =>
            Contains(i.pending, u) \/ \E m \in 1 .. n : list[m] = u

(* The running task is put on the list of a queue and sleeps.              *)
LEMMA PlaceGood ==
  ASSUME NEW H \in SUBSET Task, NEW j, Good(j, H), IdleReady(j), NEW t \in H,
         Ready(j, t), ~Contains(j.pending, t), NEW q \in Queue, NEW side \in Sides,
         NEW ticks \in Nat
  PROVE  LET r == vTaskPlaceOnEventList(j, t, q, side, ticks)
         IN  /\ Good(r, H) /\ IdleReady(r) /\ SameRun(j, r) /\ r.pending = j.pending
             /\ \A u \in Members : Ready(r, u) <=> Ready(j, u) /\ u # t
             /\ Enters(j, r, q, side, t)
<1> DEFINE list == Inserted(j.waiting[q][side], t, Urgency)
           w == [j.waiting EXCEPT ![q][side] = list]
           i == [j EXCEPT !.waiting = w]
           r == vTaskPlaceOnEventList(j, t, q, side, ticks)
<1>1. t \in Task /\ t \in Members /\ j \in Kernel /\ Homes(j, H) /\ Events(j, H)
  BY DEF Good, Members
<1>2. j.waiting \in [Queue -> [Sides -> Lists]] /\ j.waiting[q][side] \in Lists
  BY <1>1, KernelFields
<1>3. \A p \in Queue, s \in Sides : ~Contains(j.waiting[p][s], t)
  BY <1>1 DEF Events
<1>4. list \in Lists /\ \A u : Contains(list, u) <=> Contains(j.waiting[q][side], u) \/ u = t
  BY <1>1, <1>2, <1>3, InsertedIs
<1>5. \/ r = Asleep(i, t, ticks)
      \/ r = PutAway(i, t)
  <2>1. i = [j EXCEPT !.waiting[q][side] = Inserted(@, t, Urgency)]
    BY <1>1, <1>2 DEF Kernel
  <2> HIDE DEF i
  <2> QED
    BY <2>1 DEF vTaskPlaceOnEventList, PutAway
<1> HIDE DEF list
<1>6. /\ w \in [Queue -> [Sides -> Lists]]
      /\ \A p \in Queue, s \in Sides :
           w[p][s] = IF p = q /\ s = side THEN list ELSE j.waiting[p][s]
  BY <1>2, <1>4
<1> HIDE DEF w, r
<1>7. /\ i \in Kernel /\ SameRun(j, i) /\ i.pending = j.pending /\ i.waiting = w
      /\ i.ready = j.ready /\ i.delayed = j.delayed /\ i.overflow = j.overflow
      /\ i.suspended = j.suspended
  BY <1>1, <1>6 DEF Kernel, SameRun
<1> HIDE DEF i
<1>8. Homes(i, H) /\ IdleReady(i) /\ \A u : Ready(i, u) <=> Ready(j, u)
  BY <1>1, <1>7 DEF Homes, Ready, IdleReady
<1>9. /\ r \in Kernel /\ Homes(r, H) /\ SameRun(i, r)
      /\ r.pending = i.pending /\ r.waiting = i.waiting /\ IdleReady(r)
      /\ \A u \in Members : Ready(r, u) <=> Ready(i, u) /\ u # t
  <2>1. CASE r = Asleep(i, t, ticks)
    BY <1>7, <1>8, <2>1, AsleepHomes
  <2>2. CASE r = PutAway(i, t)
    BY <1>7, <1>8, <2>2, PutAwayHomes
  <2> QED
    BY <1>5, <2>1, <2>2
<1>10. \A p \in Queue, s \in Sides : \A u :
         Contains(r.waiting[p][s], u) <=>
           Contains(j.waiting[p][s], u) \/ (p = q /\ s = side /\ u = t)
  BY <1>4, <1>6, <1>7, <1>9
<1>11. \A u \in Members : Ready(r, u) <=> Ready(j, u) /\ u # t
  BY <1>8, <1>9
<1>12. Events(r, H)
  <2>1. \A u \in Members : Contains(r.pending, u) => u \in H
    BY <1>1, <1>7, <1>9 DEF Events
  <2>2. ASSUME NEW p \in Queue, NEW s \in Sides, NEW u \in Members,
               Contains(r.waiting[p][s], u)
        PROVE  /\ u \in H /\ ~Contains(r.pending, u) /\ ~Ready(r, u)
               /\ \A p2 \in Queue, s2 \in Sides : Contains(r.waiting[p2][s2], u) => p2 = p /\ s2 = s
    <3>1. CASE u = t
      BY <1>3, <1>7, <1>9, <1>10, <1>11, <2>2, <3>1
    <3>2. CASE u # t
      BY <1>1, <1>7, <1>9, <1>10, <1>11, <2>2, <3>2 DEF Events
    <3> QED
      BY <3>1, <3>2
  <2> QED
    BY <2>1, <2>2 DEF Events
<1> QED
  BY <1>7, <1>9, <1>10, <1>11, <1>12 DEF r, Good, SameRun, Enters

(* The first task of a list of a queue wakes, or will when the scheduler   *)
(* runs again.                                                             *)
LEMMA WakeGood ==
  ASSUME NEW H \in SUBSET Task, NEW j, Good(j, H), IdleReady(j),
         NEW q \in Queue, NEW side \in Sides, j.waiting[q][side] # <<>>
  PROVE  LET r == xTaskRemoveFromEventList(j, q, side)
             t == Head(j.waiting[q][side])
         IN  /\ Good(r, H) /\ IdleReady(r) /\ SameRun(j, r)
             /\ t \in H /\ Contains(j.waiting[q][side], t)
             /\ r.waiting[q][side] = Tail(j.waiting[q][side])
             /\ \A p \in Queue, s \in Sides : \A u :
                  Contains(r.waiting[p][s], u) <=> Contains(j.waiting[p][s], u) /\ u # t
             /\ \A u \in Members : Ready(r, u) <=> Ready(j, u) \/ (j.depth = 0 /\ u = t)
             /\ \A u : Contains(r.pending, u) =>
                         Contains(j.pending, u) \/ (j.depth # 0 /\ u = t)
<1> DEFINE list == j.waiting[q][side]
           t == Head(list)
           e == EventRemoved(j, t)
           r == xTaskRemoveFromEventList(j, q, side)
<1>1. j \in Kernel /\ Homes(j, H) /\ Events(j, H)
  BY DEF Good
<1>2. list \in Lists /\ list \in Seq(Members)
  BY <1>1, KernelFields DEF Lists
<1>3. t \in Members /\ Contains(list, t)
  BY <1>2, RotatedIs
<1>4. t \in H /\ t \in Task
  BY <1>1, <1>3 DEF Events
<1>5. Without(list, t) = Tail(list)
  BY <1>2, RemoveHead DEF Without
<1>6. r = IF j.depth = 0 THEN Readied(e, t) ELSE [e EXCEPT !.pending = Append(@, t)]
  BY DEF xTaskRemoveFromEventList
<1>7. /\ e \in Kernel /\ SameRun(j, e)
      /\ \A u : Contains(e.pending, u) <=> Contains(j.pending, u) /\ u # t
      /\ e.waiting[q][side] = Without(list, t)
      /\ \A p \in Queue, s \in Sides : \A u :
           Contains(e.waiting[p][s], u) <=> Contains(j.waiting[p][s], u) /\ u # t
  <2> HIDE DEF t, r
  <2>1. /\ e \in Kernel /\ SameRun(j, e)
        /\ \A u : Contains(e.pending, u) <=> Contains(j.pending, u) /\ u # t
        /\ \A p \in Queue, s \in Sides :
             /\ e.waiting[p][s] = Without(j.waiting[p][s], t)
             /\ \A u : Contains(e.waiting[p][s], u) <=> Contains(j.waiting[p][s], u) /\ u # t
    BY <1>1, EventRemovedIs
  <2> HIDE DEF e
  <2>2. e.waiting[q][side] = Without(list, t)
    BY <2>1
  <2> QED
    BY <2>1, <2>2
<1>8. /\ Good(e, H) /\ ~Waits(e, t) /\ IdleReady(e)
      /\ \A u \in Members : Ready(e, u) <=> Ready(j, u)
  BY ReleasedGood
<1> HIDE DEF e, t, r, list
<1>9. CASE j.depth = 0
  <2> DEFINE n == Readied(e, t)
  <2>1. /\ Good(n, H) /\ SameRun(e, n)
        /\ n.pending = e.pending /\ n.waiting = e.waiting /\ IdleReady(n)
        /\ \A u \in Members : Ready(n, u) <=> Ready(e, u) \/ u = t
    <3>1. Good(e, H) /\ ~Waits(e, t) /\ IdleReady(e) /\ t \in H
      BY <1>4, <1>8
    <3>2. LET x == Readied(e, t)
          IN  /\ Good(x, H) /\ SameRun(e, x)
              /\ x.pending = e.pending /\ x.waiting = e.waiting
              /\ IdleReady(e) => IdleReady(x)
              /\ \A u \in Members : Ready(x, u) <=> Ready(e, u) \/ u = t
      BY <3>1, ReadiedGood
    <3> QED
      BY <3>1, <3>2
  <2> HIDE DEF n
  <2>2. r = n
    BY <1>6, <1>9 DEF n
  <2> QED
    BY <1>3, <1>4, <1>5, <1>7, <1>8, <1>9, <2>1, <2>2 DEF r, t, list, SameRun
<1>10. CASE j.depth # 0
  <2> DEFINE pending == Append(e.pending, t)
  <2>1. pending \in Lists /\ \A u : Contains(pending, u) <=> Contains(e.pending, u) \/ u = t
    <3>1. e.pending \in Lists /\ ~Contains(e.pending, t)
      BY <1>7, KernelFields
    <3> QED
      BY <1>3, <3>1, AppendedIs
  <2>2. r = [e EXCEPT !.pending = pending]
    BY <1>6, <1>7, <1>10 DEF Kernel
  <2> HIDE DEF pending
  <2>3. /\ r \in Kernel /\ SameRun(e, r) /\ r.pending = pending /\ r.waiting = e.waiting
        /\ r.ready = e.ready /\ r.delayed = e.delayed /\ r.overflow = e.overflow
        /\ r.suspended = e.suspended
    BY <1>7, <2>1, <2>2 DEF Kernel, SameRun
  <2>4. \A u : Ready(r, u) <=> Ready(e, u)
    BY <2>3 DEF Ready
  <2>5. Homes(r, H) /\ IdleReady(r)
    BY <1>8, <2>3 DEF Good, Homes, Ready, IdleReady
  <2>6. Events(r, H)
    BY <1>4, <1>8, <2>1, <2>3, <2>4 DEF Good, Events, Waits
  <2>7. \A u : Contains(r.pending, u) => Contains(j.pending, u) \/ u = t
    BY <1>7, <2>1, <2>3
  <2>8. SameRun(j, r) /\ Good(r, H)
    BY <1>7, <2>3, <2>5, <2>6 DEF SameRun, Good
  <2> QED
    BY <1>3, <1>4, <1>5, <1>7, <1>8, <1>10, <2>3, <2>4, <2>5, <2>7, <2>8 DEF r, t, list
<1>11. j.depth = 0 \/ j.depth # 0
  OBVIOUS
<1> QED
  BY <1>9, <1>10, <1>11

(* While the scheduler is suspended the lists of delayed tasks stay.       *)
LEMMA EventRemovedTimes ==
  ASSUME NEW j \in Kernel, NEW t
  PROVE  SameTimes(j, EventRemoved(j, t))
BY DEF EventRemoved, Kernel, SameTimes

LEMMA WakeTimes ==
  ASSUME NEW H \in SUBSET Task, NEW j, Good(j, H), j.depth # 0, NEW q, NEW side
  PROVE  SameTimes(j, xTaskRemoveFromEventList(j, q, side))
<1> DEFINE t == Head(j.waiting[q][side])
           e == EventRemoved(j, t)
           r == xTaskRemoveFromEventList(j, q, side)
<1>1. j \in Kernel
  BY DEF Good
<1> HIDE DEF t
<1>2. e \in Kernel /\ SameTimes(j, e)
  BY <1>1, EventRemovedIs, EventRemovedTimes
<1>3. r = [e EXCEPT !.pending = Append(@, t)]
  BY DEF xTaskRemoveFromEventList, t
<1> HIDE DEF e, r
<1> QED
  BY <1>2, <1>3 DEF SameTimes, Kernel, r

LEMMA SuffixStep ==
  ASSUME NEW S, NEW s \in Seq(S), NEW m \in 0 .. Len(s) - 1
  PROVE  LET r == SubSeq(s, m + 1, Len(s))
         IN r # <<>> /\ Head(r) = s[m + 1] /\ Tail(r) = SubSeq(s, (m + 1) + 1, Len(s))
<1> DEFINE r == SubSeq(s, m + 1, Len(s))
           l == SubSeq(s, (m + 1) + 1, Len(s))
           n == Len(s)
<1>1. n \in Nat /\ m \in 0 .. n /\ m + 1 \in 0 .. n /\ m \in Nat
  OBVIOUS
<1>2. /\ r \in Seq(S) /\ Len(r) = n - m /\ \A i \in 1 .. n - m : r[i] = s[i + m]
  BY <1>1, SuffixIs
<1>3. /\ l \in Seq(S) /\ Len(l) = n - (m + 1)
      /\ \A i \in 1 .. n - (m + 1) : l[i] = s[i + (m + 1)]
  BY <1>1, SuffixIs
<1>4. n - m \in Nat \ {0} /\ 1 \in 1 .. n - m
  BY <1>1
<1> HIDE DEF r, l, n
<1>5. r # <<>> /\ Head(r) = r[1] /\ r[1] = s[m + 1]
  BY <1>1, <1>2, <1>4
<1>6. /\ Tail(r) \in Seq(S) /\ Len(Tail(r)) = (n - m) - 1
      /\ \A i \in 1 .. (n - m) - 1 : Tail(r)[i] = r[i + 1]
  BY <1>2, <1>4, <1>5
<1>7. (n - m) - 1 = n - (m + 1)
  BY <1>1
<1>8. \A i \in 1 .. n - (m + 1) : i + 1 \in 1 .. n - m /\ (i + 1) + m = i + (m + 1)
  BY <1>1
<1>9. \A i \in 1 .. n - (m + 1) : Tail(r)[i] = l[i]
  BY <1>2, <1>3, <1>6, <1>7, <1>8
<1>10. Tail(r) = l
  BY <1>3, <1>6, <1>7, <1>9, SeqEqual
<1> QED
  BY <1>5, <1>10 DEF r, l, n

LEMMA WholeSuffix ==
  ASSUME NEW S, NEW s \in Seq(S)
  PROVE  SubSeq(s, 0 + 1, Len(s)) = s
<1> DEFINE r == SubSeq(s, 0 + 1, Len(s))
           n == Len(s)
<1>1. n \in Nat /\ 0 \in 0 .. n
  OBVIOUS
<1>2. /\ r \in Seq(S) /\ Len(r) = n - 0 /\ \A i \in 1 .. n - 0 : r[i] = s[i + 0]
  BY <1>1, SuffixIs
<1> HIDE DEF r
<1>3. Len(r) = n /\ \A i \in 1 .. n : r[i] = s[i]
  BY <1>1, <1>2
<1>4. r = s
  BY <1>2, <1>3, SeqEqual
<1> QED
  BY <1>4 DEF r

(* The first n tasks of a list wake while the scheduler is suspended.      *)
LEMMA WakeAllGood ==
  ASSUME NEW H \in SUBSET Task, NEW j, Good(j, H), IdleReady(j), j.depth = 1,
         NEW q \in Queue, NEW side \in Sides,
         NEW n \in 0 .. Len(j.waiting[q][side])
  PROVE  LET w == j.waiting[q][side]
             r == RemovedAll(j, SubSeq(w, 1, n), q, side)
         IN  /\ Good(r, H) /\ IdleReady(r) /\ SameRun(j, r) /\ SameTimes(j, r)
             /\ Leave(j, r, w, n) /\ Postponed(j, r, w, n)
             /\ \A u \in Members : Ready(r, u) <=> Ready(j, u)
<1> DEFINE w == j.waiting[q][side]
           list == SubSeq(w, 1, n)
           r == RemovedAll(j, list, q, side)
<1>1. j \in Kernel /\ w \in Seq(Members) /\ Len(w) \in Nat /\ n \in Nat /\ n <= Len(w)
  BY KernelFields DEF Good, Lists
<1>2. list \in Seq(Members) /\ Len(list) = n
  BY <1>1
<1>3. PICK f : Run(f, "event", j, list, q, side, r)
  BY <1>2, RemovedRun
<1> DEFINE Kept(m, x) ==
             /\ Good(x, H) /\ IdleReady(x) /\ SameRun(j, x) /\ SameTimes(j, x)
             /\ x.waiting[q][side] = SubSeq(w, m + 1, Len(w))
             /\ \A p \in Queue, s \in Sides : \A u :
                  Contains(x.waiting[p][s], u) <=>
                    Contains(j.waiting[p][s], u) /\ \A i \in 1 .. m : w[i] # u
             /\ \A u \in Members : Ready(x, u) <=> Ready(j, u)
             /\ \A u : Contains(x.pending, u) =>
                         Contains(j.pending, u) \/ \E i \in 1 .. m : w[i] = u
           T == {m \in Nat : m <= n => Kept(m, f[m])}
<1>4. 0 \in T
  <2>1. f[0] = j
    BY <1>3 DEF Run
  <2>2. SubSeq(w, 0 + 1, Len(w)) = w
    BY <1>1, WholeSuffix
  <2>3. Kept(0, j)
    BY <2>2 DEF SameRun, SameTimes
  <2> HIDE DEF Kept
  <2> QED
    BY <2>1, <2>3
<1>5. ASSUME NEW m \in Nat, m \in T PROVE m + 1 \in T
  <2> SUFFICES ASSUME m + 1 <= n PROVE Kept(m + 1, f[m + 1])
    <3> HIDE DEF Kept
    <3> QED
      OBVIOUS
  <2> DEFINE x == f[m]
             y == xTaskRemoveFromEventList(x, q, side)
             t == Head(x.waiting[q][side])
  <2>1. Kept(m, x)
    <3>1. m <= n
      BY <1>1
    <3> HIDE DEF Kept
    <3> QED
      BY <1>5, <3>1
  <2>2. f[m + 1] = y
    <3>1. m \in 0 .. Len(list) - 1
      BY <1>1, <1>2
    <3> QED
      BY <1>3, <3>1 DEF Run, Effect
  <2>3. m \in 0 .. Len(w) - 1
    BY <1>1
  <2> HIDE DEF x, w
  <2>4. LET v == SubSeq(w, m + 1, Len(w))
        IN  v # <<>> /\ Head(v) = w[m + 1] /\ Tail(v) = SubSeq(w, (m + 1) + 1, Len(w))
    BY <1>1, <2>3, SuffixStep
  <2>5. /\ x.waiting[q][side] # <<>> /\ t = w[m + 1]
        /\ Tail(x.waiting[q][side]) = SubSeq(w, (m + 1) + 1, Len(w))
    BY <2>1, <2>4
  <2>6. Good(x, H) /\ IdleReady(x) /\ x.depth = 1 /\ SameRun(j, x)
    BY <2>1 DEF SameRun
  <2>7. LET z == xTaskRemoveFromEventList(x, q, side)
            b == Head(x.waiting[q][side])
        IN  /\ Good(z, H) /\ IdleReady(z) /\ SameRun(x, z)
            /\ b \in H /\ Contains(x.waiting[q][side], b)
            /\ z.waiting[q][side] = Tail(x.waiting[q][side])
            /\ \A p \in Queue, s \in Sides : \A u :
                 Contains(z.waiting[p][s], u) <=> Contains(x.waiting[p][s], u) /\ u # b
            /\ \A u \in Members : Ready(z, u) <=> Ready(x, u) \/ (x.depth = 0 /\ u = b)
            /\ \A u : Contains(z.pending, u) =>
                        Contains(x.pending, u) \/ (x.depth # 0 /\ u = b)
    BY <2>5, <2>6, WakeGood
  <2>15. SameTimes(x, y)
    BY <2>6, WakeTimes
  <2> HIDE DEF y, t
  <2>8. /\ Good(y, H) /\ IdleReady(y) /\ SameRun(x, y)
        /\ y.waiting[q][side] = Tail(x.waiting[q][side])
        /\ \A p \in Queue, s \in Sides : \A u :
             Contains(y.waiting[p][s], u) <=> Contains(x.waiting[p][s], u) /\ u # t
        /\ \A u \in Members : Ready(y, u) <=> Ready(x, u)
        /\ \A u : Contains(y.pending, u) => Contains(x.pending, u) \/ u = t
    BY <2>6, <2>7 DEF y, t
  <2>9. \A i \in 1 .. m + 1 : i \in 1 .. m \/ i = m + 1
    OBVIOUS
  <2>10. m + 1 \in 1 .. m + 1 /\ \A i \in 1 .. m : i \in 1 .. m + 1
    OBVIOUS
  <2>11. \A p \in Queue, s \in Sides : \A u :
           Contains(y.waiting[p][s], u) <=>
             Contains(j.waiting[p][s], u) /\ \A i \in 1 .. m + 1 : w[i] # u
    <3> TAKE p \in Queue, s \in Sides
    <3> TAKE u
    <3>1. Contains(y.waiting[p][s], u) <=>
            Contains(j.waiting[p][s], u) /\ (\A i \in 1 .. m : w[i] # u) /\ u # w[m + 1]
      BY <2>1, <2>5, <2>8
    <3>2. (\A i \in 1 .. m + 1 : w[i] # u) <=> (\A i \in 1 .. m : w[i] # u) /\ u # w[m + 1]
      BY <2>9, <2>10
    <3> QED
      BY <3>1, <3>2
  <2>12. \A u : Contains(y.pending, u) =>
                  Contains(j.pending, u) \/ \E i \in 1 .. m + 1 : w[i] = u
    BY <2>1, <2>5, <2>8, <2>10
  <2>13. SameRun(j, y)
    BY <2>6, <2>8 DEF SameRun
  <2>16. SameTimes(j, y)
    BY <2>1, <2>15 DEF SameTimes
  <2>14. Kept(m + 1, y)
    BY <2>1, <2>5, <2>8, <2>11, <2>12, <2>13, <2>16
  <2> HIDE DEF Kept
  <2> QED
    BY <2>2, <2>14
<1> HIDE DEF T
<1>6. n \in T
  BY <1>1, <1>4, <1>5, Induction
<1>7. Kept(n, f[n]) /\ f[n] = r
  <2> HIDE DEF Kept
  <2> QED
    BY <1>1, <1>2, <1>3, <1>6 DEF T, Run
<1> QED
  BY <1>7 DEF Leave, Postponed

LEMMA SuspendGood ==
  ASSUME NEW H \in SUBSET Task, NEW j, Good(j, H), IdleReady(j), NEW t \in H
  PROVE  LET r == vTaskSuspend(j, t)
         IN  /\ Good(r, H) /\ IdleReady(r) /\ r.depth = j.depth
             /\ \A u \in Members : Ready(r, u) <=> Ready(j, u) /\ u # t
             /\ \A p \in Queue, s \in Sides : \A u :
                  Contains(r.waiting[p][s], u) <=> Contains(j.waiting[p][s], u) /\ u # t
             /\ \A u : Contains(r.pending, u) => Contains(j.pending, u)
             /\ IF t = j.current /\ j.depth = 0 THEN Ready(r, r.current)
                ELSE r.current = j.current
<1> DEFINE e == EventRemoved(j, t)
           i == PutAway(e, t)
           b == vTaskSwitchContext(i)
           r == vTaskSuspend(j, t)
<1>1. j \in Kernel
  BY DEF Good
<1>2. /\ e \in Kernel
      /\ \A u : Contains(e.pending, u) <=> Contains(j.pending, u) /\ u # t
      /\ \A p \in Queue, s \in Sides : \A u :
           Contains(e.waiting[p][s], u) <=> Contains(j.waiting[p][s], u) /\ u # t
  BY <1>1, EventRemovedIs
<1>3. /\ Good(e, H) /\ SameRun(j, e) /\ ~Waits(e, t) /\ IdleReady(e)
      /\ \A u \in Members : Ready(e, u) <=> Ready(j, u)
  BY ReleasedGood
<1> HIDE DEF e
<1>4. Homes(e, H) /\ Events(e, H)
  BY <1>3 DEF Good
<1>5. /\ i \in Kernel /\ Homes(i, H) /\ SameRun(e, i)
      /\ i.pending = e.pending /\ i.waiting = e.waiting
      /\ IdleReady(e) => IdleReady(i)
      /\ \A u \in Members : Ready(i, u) <=> Ready(e, u) /\ u # t
  BY <1>2, <1>4, PutAwayHomes
<1>6. r = IF t = j.current THEN b ELSE i
  BY DEF vTaskSuspend, PutAway, e
<1> HIDE DEF i
<1>7. Events(i, H)
  BY <1>4, <1>5 DEF Events
<1>8. Good(i, H) /\ IdleReady(i) /\ i.depth = j.depth /\ i.current = j.current
  BY <1>3, <1>5, <1>7 DEF Good, SameRun
<1>9. /\ Good(b, H) /\ IdleReady(b) /\ b.depth = i.depth /\ b.missedTicks = i.missedTicks
      /\ b.pending = i.pending /\ b.waiting = i.waiting
      /\ \A u \in Members : Ready(b, u) <=> Ready(i, u)
      /\ IF i.depth > 0 THEN b.current = i.current ELSE Ready(b, b.current)
  BY <1>8, SwitchGood
<1>10. j.depth \in 0 .. 1
  BY <1>1, KernelFields
<1> HIDE DEF b, r
<1>11. CASE t = j.current
  <2>1. r = b
    BY <1>6, <1>11
  <2>2. IF j.depth = 0 THEN Ready(b, b.current) ELSE b.current = j.current
    BY <1>8, <1>9, <1>10
  <2> QED
    BY <1>2, <1>3, <1>5, <1>8, <1>9, <1>11, <2>1, <2>2 DEF r
<1>12. CASE t # j.current
  <2>1. r = i
    BY <1>6, <1>12
  <2> QED
    BY <1>2, <1>3, <1>5, <1>8, <1>12, <2>1 DEF r
<1> QED
  BY <1>11, <1>12

LEMMA ResumeGood ==
  ASSUME NEW H \in SUBSET Task, NEW j, Good(j, H), IdleReady(j), j.depth = 0, NEW t \in H
  PROVE  LET r == vTaskResume(j, t)
         IN  /\ Good(r, H) /\ IdleReady(r) /\ r.depth = j.depth
             /\ r.pending = j.pending /\ r.waiting = j.waiting
             /\ \A u \in Members : Ready(j, u) => Ready(r, u)
             /\ r.current = j.current \/ Ready(r, r.current)
<1> DEFINE a == Readied(j, t)
           b == vTaskSwitchContext(a)
           r == vTaskResume(j, t)
<1>1. CASE ~xTaskIsTaskSuspended(j, t)
  <2>1. r = j
    BY <1>1 DEF vTaskResume
  <2> QED
    BY <2>1
<1>2. CASE xTaskIsTaskSuspended(j, t)
  <2>1. ~Waits(j, t)
    <3>1. \A q \in Queue, side \in Sides : t \notin ToSet(j.waiting[q][side])
      BY <1>2 DEF xTaskIsTaskSuspended
    <3>2. ASSUME NEW q \in Queue, NEW side \in Sides, Contains(j.waiting[q][side], t) PROVE FALSE
      <4>1. j.waiting[q][side] \in Seq(Members)
        BY KernelFields DEF Good, Lists
      <4>2. t \in ToSet(j.waiting[q][side])
        BY <3>2, <4>1 DEF ToSet, Contains
      <4> QED
        BY <3>1, <4>2
    <3> QED
      BY <3>2 DEF Waits
  <2>2. /\ Good(a, H) /\ SameRun(j, a)
        /\ a.pending = j.pending /\ a.waiting = j.waiting
        /\ IdleReady(j) => IdleReady(a)
        /\ \A u \in Members : Ready(a, u) <=> Ready(j, u) \/ u = t
    BY <2>1, ReadiedGood
  <2>3. r \in {j, a, b}
    BY DEF vTaskResume
  <2> HIDE DEF a
  <2>4. /\ Good(b, H) /\ IdleReady(b) /\ b.depth = a.depth /\ b.missedTicks = a.missedTicks
        /\ b.pending = a.pending /\ b.waiting = a.waiting
        /\ \A u \in Members : Ready(b, u) <=> Ready(a, u)
        /\ IF a.depth > 0 THEN b.current = a.current ELSE Ready(b, b.current)
    BY <2>2, SwitchGood
  <2>5. Ready(b, b.current) /\ b.depth = 0
    BY <2>2, <2>4 DEF SameRun
  <2> HIDE DEF b, r
  <2>6. CASE r = j
    BY <2>6 DEF r
  <2>7. CASE r = a
    BY <2>2, <2>7 DEF r, SameRun
  <2>8. CASE r = b
    BY <2>2, <2>4, <2>5, <2>8 DEF r
  <2> QED
    BY <2>3, <2>6, <2>7, <2>8
<1> QED
  BY <1>1, <1>2

LEMMA CreateGood ==
  ASSUME NEW H \in SUBSET Task, NEW j, Good(j, H), IdleReady(j), j.depth = 0,
         NEW t \in Task, t \notin H
  PROVE  LET r == xTaskGenericCreate(j, t)
         IN  /\ Good(r, H \cup {t}) /\ IdleReady(r) /\ r.depth = j.depth
             /\ r.pending = j.pending /\ r.waiting = j.waiting
             /\ \A u \in Members : Ready(j, u) => Ready(r, u)
             /\ r.current = j.current \/ Ready(r, r.current)
<1> DEFINE a == prvAddTaskToReadyQueue(j, t)
           b == vTaskSwitchContext(a)
           r == xTaskGenericCreate(j, t)
           G == H \cup {t}
<1>1. j \in Kernel /\ Homes(j, H) /\ Events(j, H) /\ t \in Members /\ G \in SUBSET Task
  BY DEF Good, Members
<1>2. ~Waits(j, t)
  BY <1>1 DEF Events, Waits
<1>3. Events(j, G)
  BY <1>1 DEF Events
<1>4. /\ a \in Kernel /\ SameRun(j, a) /\ Homes(a, H \cup {t}) /\ Events(a, G)
      /\ a.pending = j.pending /\ a.waiting = j.waiting
      /\ IdleReady(j) => IdleReady(a)
      /\ \A u \in Members : Ready(a, u) <=> Ready(j, u) \/ u = t
  <2> HIDE DEF G
  <2>1. t \in G
    BY DEF G
  <2> QED
    BY <1>1, <1>2, <1>3, <2>1, AddedGood
<1>5. r \in {a, b}
  BY DEF xTaskGenericCreate
<1> HIDE DEF a
<1>6. Good(a, G) /\ IdleReady(a)
  BY <1>4 DEF Good
<1> HIDE DEF G
<1>7. /\ Good(b, G) /\ IdleReady(b) /\ b.depth = a.depth /\ b.missedTicks = a.missedTicks
      /\ b.pending = a.pending /\ b.waiting = a.waiting
      /\ \A u \in Members : Ready(b, u) <=> Ready(a, u)
      /\ IF a.depth > 0 THEN b.current = a.current ELSE Ready(b, b.current)
  BY <1>1, <1>6, SwitchGood
<1>8. Ready(b, b.current) /\ b.depth = 0
  BY <1>4, <1>7 DEF SameRun
<1> HIDE DEF b, r
<1>9. CASE r = a
  BY <1>4, <1>6, <1>9 DEF r, SameRun, G
<1>10. CASE r = b
  BY <1>4, <1>7, <1>8, <1>10 DEF r, G
<1> QED
  BY <1>5, <1>9, <1>10

LEMMA BoundExists ==
  ASSUME NEW n \in Nat, NEW g \in [1 .. n -> Nat]
  PROVE  \E b \in Nat : \A i \in 1 .. n : g[i] <= b
<1> DEFINE T == {m \in Nat : m <= n => \E b \in Nat : \A i \in 1 .. m : g[i] <= b}
<1>1. 0 \in T
  OBVIOUS
<1>2. ASSUME NEW m \in Nat, m \in T PROVE m + 1 \in T
  <2> SUFFICES ASSUME m + 1 <= n PROVE \E b \in Nat : \A i \in 1 .. m + 1 : g[i] <= b
    OBVIOUS
  <2>1. PICK b \in Nat : \A i \in 1 .. m : g[i] <= b
    BY <1>2
  <2> DEFINE c == b + g[m + 1]
  <2>2. g[m + 1] \in Nat /\ \A i \in 1 .. m : g[i] \in Nat
    OBVIOUS
  <2>3. c \in Nat /\ \A i \in 1 .. m + 1 : g[i] <= c
    <3> HIDE DEF T
    <3>1. c \in Nat /\ b <= c /\ g[m + 1] <= c
      BY <2>2
    <3> HIDE DEF c
    <3>2. \A i \in 1 .. m : g[i] <= c
      BY <2>1, <2>2, <3>1
    <3>3. \A i \in 1 .. m + 1 : i \in 1 .. m \/ i = m + 1
      OBVIOUS
    <3> QED
      BY <3>1, <3>2, <3>3
  <2> QED
    BY <2>3
<1> HIDE DEF T
<1>3. n \in T
  BY <1>1, <1>2, Induction
<1> QED
  BY <1>3 DEF T

(***************************************************************************)
(* main() creates the tasks in any order.                                  *)
(***************************************************************************)
LEMMA OrderIsOnto ==
  ASSUME NEW order \in [1 .. Cardinality(Started) -> Started], IsInjective(order)
  PROVE  /\ order \in Seq(Started) /\ Len(order) = Cardinality(Started)
         /\ Len(order) \in Nat \ {0}
         /\ \A t \in Started : \E i \in 1 .. Len(order) : order[i] = t
<1> DEFINE n == Cardinality(Started)
<1>1. IsFiniteSet(Started) /\ n \in Nat
  BY TasksAssumption, FS_Subset, FS_CardinalityType
<1>2. n # 0
  BY <1>1, FS_EmptySet, TasksAssumption
<1>3. IsFiniteSet(1 .. n) /\ Cardinality(1 .. n) = n
  BY <1>1, FS_Interval
<1>4. order \in Injection(1 .. n, Started)
  BY DEF Injection
<1>5. order \in Surjection(1 .. n, Started)
  BY <1>1, <1>3, <1>4, FS_Injection
<1>6. order \in Seq(Started) /\ Len(order) = n
  BY <1>1
<1> QED
  BY <1>1, <1>2, <1>5, <1>6 DEF Surjection

LEMMA EmptyKernel ==
  LET j == prvInitialiseTaskLists
  IN  /\ j \in Kernel /\ j.delayed = <<>> /\ j.overflow = <<>> /\ j.suspended = <<>>
      /\ j.pending = <<>> /\ j.depth = 0 /\ j.missedTicks = 0
      /\ \A p \in Priorities : j.ready[p] = <<>>
      /\ \A q \in Queue, side \in Sides : j.waiting[q][side] = <<>>
<1> DEFINE none == <<>>
           ready == [p \in Priorities |-> none]
           wake == [t \in Task |-> 0]
           waiting == [q \in Queue |-> [side \in Sides |-> none]]
           j == [ready |-> ready, pending |-> none, suspended |-> none,
                 delayed |-> none, overflow |-> none, wake |-> wake, waiting |-> waiting,
                 tick |-> 0, overflows |-> 0, missedTicks |-> 0, missedYield |-> FALSE,
                 depth |-> 0, top |-> 0, current |-> Idle]
<1>1. prvInitialiseTaskLists = j
  BY DEF prvInitialiseTaskLists
<1>2. none \in Lists
  BY EmptyList
<1> HIDE DEF none
<1>3. /\ ready \in [Priorities -> Lists] /\ wake \in [Task -> Nat]
      /\ waiting \in [Queue -> [Sides -> Lists]]
      /\ \A p \in Priorities : ready[p] = none
      /\ \A q \in Queue, side \in Sides : waiting[q][side] = none
  BY <1>2
<1> HIDE DEF ready, wake, waiting
<1>4. 0 \in 0 .. TickModulus - 1
  BY TasksAssumption
<1>5. j \in Kernel
  BY <1>2, <1>3, <1>4 DEF Kernel, Members
<1> QED
  BY <1>1, <1>3, <1>5 DEF none

(* Everything of j but the ready lists is as in a new kernel.              *)
Fresh(j) ==
  /\ j.delayed = <<>> /\ j.overflow = <<>> /\ j.suspended = <<>>
  /\ j.pending = <<>> /\ j.depth = 0 /\ j.missedTicks = 0
  /\ \A q \in Queue, side \in Sides : j.waiting[q][side] = <<>>

LEMMA StartGood ==
  ASSUME NEW order \in [1 .. Cardinality(Started) -> Started], IsInjective(order)
  PROVE  LET r == vTaskStartScheduler(order)
         IN  /\ Good(r, Started) /\ IdleReady(r) /\ Fresh(r)
             /\ r.current \in Started /\ Ready(r, r.current)
<1> DEFINE n == Len(order)
           a == FoldLeft(prvAddTaskToReadyQueue, prvInitialiseTaskLists, order)
<1>1. /\ order \in Seq(Started) /\ n \in Nat \ {0}
      /\ \A t \in Started : \E i \in 1 .. n : order[i] = t
      /\ \A i, j \in 1 .. n : order[i] = order[j] => i = j
      /\ \A i \in 1 .. n : order[i] \in Started
  <2>1. /\ order \in Seq(Started) /\ n \in Nat \ {0} /\ DOMAIN order = 1 .. n
        /\ \A t \in Started : \E i \in 1 .. n : order[i] = t
    BY OrderIsOnto
  <2> HIDE DEF n
  <2> QED
    BY <2>1 DEF IsInjective
<1>2. Started \in SUBSET Task
  BY TasksAssumption
<1>3. PICK f : Run(f, "add", prvInitialiseTaskLists, order, 0, 0, a)
  BY <1>1, AddedRun
<1> DEFINE So(m) == {order[i] : i \in 1 .. m}
           Kept(m, x) ==
             /\ x \in Kernel /\ Fresh(x)
             /\ \A p \in Priorities : \A u :
                  Contains(x.ready[p], u) <=> \E i \in 1 .. m : order[i] = u /\ p = Prio(u)
           T == {m \in Nat : m <= n => Kept(m, f[m])}
<1>4. 0 \in T
  <2>1. f[0] = prvInitialiseTaskLists
    BY <1>3 DEF Run
  <2>2. Kept(0, prvInitialiseTaskLists)
    BY EmptyKernel, EmptyList DEF Fresh
  <2> HIDE DEF Kept
  <2> QED
    BY <2>1, <2>2
<1>5. ASSUME NEW m \in Nat, m \in T PROVE m + 1 \in T
  <2> SUFFICES ASSUME m + 1 <= n PROVE Kept(m + 1, f[m + 1])
    <3> HIDE DEF Kept
    <3> QED
      OBVIOUS
  <2> DEFINE x == f[m]
             t == order[m + 1]
             y == prvAddTaskToReadyQueue(x, t)
  <2>1. Kept(m, x)
    <3>1. m <= n
      BY <1>1
    <3> HIDE DEF Kept
    <3> QED
      BY <1>5, <3>1
  <2>2. f[m + 1] = y
    <3>1. m \in 0 .. n - 1
      BY <1>1
    <3> QED
      BY <1>3, <3>1 DEF Run, Effect
  <2>3. m + 1 \in 1 .. n /\ \A i \in 1 .. m : i \in 1 .. n /\ i # m + 1
    BY <1>1
  <2>4. t \in Started /\ t \in Members /\ Prio(t) \in Priorities
    BY <1>1, <1>2, <2>3, PrioIs DEF Members
  <2>5. ~Ready(x, t)
    <3>1. \A i \in 1 .. m : order[i] # t
      BY <1>1, <2>3
    <3> QED
      BY <2>1, <2>4, <3>1 DEF Ready
  <2> HIDE DEF x, t
  <2>6. LET z == prvAddTaskToReadyQueue(x, t)
        IN  /\ z \in Kernel /\ SameRun(x, z)
            /\ z.pending = x.pending /\ z.waiting = x.waiting /\ z.delayed = x.delayed
            /\ z.overflow = x.overflow /\ z.suspended = x.suspended
            /\ \A p \in Priorities : \A u :
                 Contains(z.ready[p], u) <=> Contains(x.ready[p], u) \/ (u = t /\ p = Prio(t))
    BY <2>1, <2>4, <2>5, AddedIs
  <2> HIDE DEF y
  <2>7. Fresh(y)
    BY <2>1, <2>6 DEF Fresh, SameRun, y
  <2>8. \A i \in 1 .. m + 1 : i \in 1 .. m \/ i = m + 1
    OBVIOUS
  <2>9. m + 1 \in 1 .. m + 1 /\ \A i \in 1 .. m : i \in 1 .. m + 1
    OBVIOUS
  <2>10. \A p \in Priorities : \A u :
           Contains(y.ready[p], u) <=> \E i \in 1 .. m + 1 : order[i] = u /\ p = Prio(u)
    <3> TAKE p \in Priorities
    <3> TAKE u
    <3>1. Contains(y.ready[p], u) <=>
            (\E i \in 1 .. m : order[i] = u /\ p = Prio(u)) \/ (u = t /\ p = Prio(t))
      BY <2>1, <2>6 DEF y
    <3> QED
      BY <2>8, <2>9, <3>1 DEF t
  <2>11. Kept(m + 1, y)
    BY <2>6, <2>7, <2>10 DEF y
  <2> HIDE DEF Kept
  <2> QED
    BY <2>2, <2>11
<1> HIDE DEF T
<1>6. n \in T
  BY <1>1, <1>4, <1>5, Induction
<1>7. Kept(n, a)
  <2> HIDE DEF Kept
  <2> QED
    BY <1>1, <1>3, <1>6 DEF T, Run
<1>8. \A p \in Priorities : \A u :
        Contains(a.ready[p], u) <=> u \in Started /\ p = Prio(u)
  <2> HIDE DEF a, n
  <2>1. \A p \in Priorities : \A u :
          Contains(a.ready[p], u) <=> \E i \in 1 .. n : order[i] = u /\ p = Prio(u)
    BY <1>7
  <2> QED
    BY <1>1, <2>1
<1>9. a \in Kernel /\ Fresh(a)
  BY <1>7
<1> HIDE DEF a, Kept, So
<1> DEFINE b == prvAddTaskToReadyQueue(a, Idle)
           most == Max({Prio(order[i]) : i \in DOMAIN order})
           P == {i \in DOMAIN order : Prio(order[i]) = most}
           first == order[Max(P)]
           r == vTaskStartScheduler(order)
<1>10. r = [b EXCEPT !.current = first]
  BY DEF vTaskStartScheduler, a
<1>11. Idle \in Members /\ Idle \notin Started /\ Prio(Idle) = 0 /\ 0 \in Priorities
  BY PrioIs, TasksAssumption DEF Members
<1>12. ~Ready(a, Idle)
  BY <1>8, <1>11 DEF Ready
<1>13. /\ b \in Kernel /\ SameRun(a, b)
       /\ b.pending = a.pending /\ b.waiting = a.waiting /\ b.delayed = a.delayed
       /\ b.overflow = a.overflow /\ b.suspended = a.suspended
       /\ \A p \in Priorities : \A u :
            Contains(b.ready[p], u) <=> Contains(a.ready[p], u) \/ (u = Idle /\ p = Prio(Idle))
  BY <1>9, <1>11, <1>12, AddedIs
<1>14. first \in Started
  <2> DEFINE Q == {Prio(order[i]) : i \in 1 .. n}
  <2>1. DOMAIN order = 1 .. n
    BY <1>1
  <2>2. \A i \in 1 .. n : Prio(order[i]) \in Nat
    BY <1>1, <1>2, PrioIs DEF Members
  <2>3. 1 \in 1 .. n
    BY <1>1
  <2>4. Q \in SUBSET Nat /\ Q # {}
    BY <2>2, <2>3
  <2>5. PICK c \in Nat : \A x \in Q : x <= c
    <3> DEFINE g == [i \in 1 .. n |-> Prio(order[i])]
    <3>1. g \in [1 .. n -> Nat] /\ n \in Nat
      BY <1>1, <2>2
    <3>2. PICK c \in Nat : \A i \in 1 .. n : g[i] <= c
      BY <3>1, BoundExists
    <3> QED
      BY <3>2
  <2>6. most \in Q
    <3> DEFINE N == Max(Q)
    <3>1. N \in Q
      <4> HIDE DEF Q
      <4> QED
        BY <2>4, <2>5, MaxIs
    <3> QED
      BY <2>1, <3>1
  <2>7. P \in SUBSET (1 .. n) /\ P # {}
    BY <2>1, <2>6
  <2>8. Max(P) \in P
    <3> HIDE DEF P, n
    <3>1. n \in Nat
      BY <1>1
    <3> QED
      BY <2>7, <3>1, MaxOfPlaces
  <2> HIDE DEF P
  <2> QED
    BY <1>1, <2>7, <2>8
<1> HIDE DEF first, b, r
<1>15. /\ r \in Kernel /\ r.ready = b.ready /\ r.pending = b.pending /\ r.waiting = b.waiting
       /\ r.delayed = b.delayed /\ r.overflow = b.overflow /\ r.suspended = b.suspended
       /\ r.depth = b.depth /\ r.missedTicks = b.missedTicks /\ r.current = first
  BY <1>2, <1>10, <1>13, <1>14 DEF Kernel, Members
<1>16. Fresh(r)
  BY <1>9, <1>13, <1>15 DEF Fresh, SameRun
<1>17. \A p \in Priorities : \A u :
         Contains(r.ready[p], u) <=> (u \in Started /\ p = Prio(u)) \/ (u = Idle /\ p = 0)
  BY <1>8, <1>11, <1>13, <1>15
<1>18. \A u \in Started : Ready(r, u) /\ u \in Members
  BY <1>2, <1>17, PrioIs DEF Ready, Members
<1>19. Homes(r, Started)
  BY <1>11, <1>16, <1>17, <1>18, EmptyList DEF Homes, Fresh
<1>20. Events(r, Started)
  BY <1>16, EmptyList DEF Events, Fresh
<1>21. IdleReady(r)
  BY <1>11, <1>17 DEF IdleReady
<1> QED
  BY <1>14, <1>15, <1>16, <1>18, <1>19, <1>20, <1>21 DEF r, Good

-----------------------------------------------------------------------------
(***************************************************************************)
(* The tasks between their calls: each action keeps the kernel in order.   *)
(***************************************************************************)
(* The places of a task in a call, and the scheduler.                      *)
Inside  == {"timeout", "test", "place", "unlockTx", "openTx"}
Leaving == {"unlockTx", "openTx", "unlockRx", "resume"}
OffTick == Inside \cup Leaving \cup {"lock", "sleep", "held"}
Asking  == Inside \cup {"check", "suspend", "lock", "unlockRx"}
Settled == {"lock", "timeout", "test", "place"}

Born == {t \in Task : pc[t] # "none"}

(* A call fits the place of its task.                                      *)
Fit(place, c) ==
  /\ c.op \in Ops \cup {"delay"} /\ c.wait \in Nat /\ c.tick \in Nat
  /\ place \in Asking => c.op \in Ops
  /\ place \in {"sleep", "awake"} => c.op = "delay"
  /\ place = "place" => c.then = "yield"
  /\ place \in Leaving => \/ c.then = "yield"
                          \/ c.op \in Ops /\ c.then \in {"late", "check"}

(* A task that is about to give the processor away need not be ready.      *)
Away(place, c) == place = "yield" \/ (place \in Leaving /\ c.then = "yield")

KInv ==
  /\ DOMAIN pc = Task /\ DOMAIN call = Task
  /\ Good(k, Born) /\ IdleReady(k)
  /\ \A t \in Task : Fit(pc[t], call[t])
  /\ \A t \in Task : pc[t] \in OffTick => k.current = t /\ k.depth = 1
  /\ k.depth = 1 => k.current \in Task /\ pc[k.current] \in OffTick
  /\ k.current \in Task =>
       /\ pc[k.current] # "none"
       /\ Ready(k, k.current) \/ Away(pc[k.current], call[k.current])
  /\ k.depth = 0 => k.pending = <<>>
  /\ \A t \in Task : pc[t] \in Settled => ~Contains(k.pending, t)

LEMMA KernelOf ==
  ASSUME KInv
  PROVE  /\ k \in Kernel /\ Homes(k, Born) /\ Events(k, Born) /\ Born \in SUBSET Task
         /\ k.depth \in 0 .. 1 /\ k.current \in Members
BY KernelFields DEF KInv, Good, Born

(* The running task moves, and may give the processor to another.          *)
LEMMA Moved ==
  ASSUME KInv, NEW t \in Task, k.current = t, NEW x, x # "none", NEW c,
         pc' = [pc EXCEPT ![t] = x], Fit(x, c),
         call' = [call EXCEPT ![t] = c] \/ (UNCHANGED call /\ c = call[t]),
         Good(k', Born), IdleReady(k'),
         k'.depth = 1 => k'.current = t /\ x \in OffTick /\ (Ready(k', t) \/ Away(x, c)),
         k'.depth = 0 => x \notin OffTick /\ k'.pending = <<>>,
         k'.depth = 0 => \/ k'.current = t /\ (Ready(k', t) \/ Away(x, c))
                         \/ Ready(k', k'.current),
         x \in Settled => ~Contains(k'.pending, t)
  PROVE  KInv'
<1>1. /\ DOMAIN pc' = Task /\ DOMAIN call' = Task
      /\ \A u \in Task : pc'[u] = IF u = t THEN x ELSE pc[u]
      /\ \A u \in Task : call'[u] = IF u = t THEN c ELSE call[u]
  BY DEF KInv
<1>2. pc[t] # "none"
  BY DEF KInv
<1>3. Born' = Born
  BY <1>1, <1>2 DEF Born
<1>4. Good(k, Born)' /\ IdleReady(k)'
  BY <1>3
<1>5. k' \in Kernel /\ Homes(k', Born) /\ k'.depth \in 0 .. 1 /\ k'.current \in Members
  BY KernelFields DEF Good
<1>6. \A u \in Task : Fit(pc'[u], call'[u])
  BY <1>1 DEF KInv
<1>7. \A u \in Task : u # t => pc[u] \notin OffTick
  BY DEF KInv
<1>8. k'.depth = 0 \/ k'.depth = 1
  BY <1>5
<1>9. \A u \in Task : pc'[u] \in OffTick => k'.current = u /\ k'.depth = 1
  BY <1>1, <1>7, <1>8
<1>10. k'.depth = 1 => k'.current \in Task /\ pc'[k'.current] \in OffTick
  BY <1>1
<1>11. \A u \in Task : Ready(k', u) => pc'[u] # "none"
  <2>1. \A u \in Task : Prio(u) \in Priorities /\ u \in Members /\ u # Idle
    BY PrioIs, TasksAssumption DEF Members
  <2>2. \A u \in Task : Ready(k', u) => u \in Born
    BY <1>5, <2>1 DEF Homes, Ready
  <2>3. QED
    BY <1>1, <2>2 DEF Born
<1>12. k'.current \in Task =>
         /\ pc'[k'.current] # "none"
         /\ Ready(k', k'.current) \/ Away(pc'[k'.current], call'[k'.current])
  BY <1>1, <1>8, <1>11
<1>13. k'.depth = 0 => k'.pending = <<>>
  OBVIOUS
<1>14. \A u \in Task : pc'[u] \in Settled => ~Contains(k'.pending, u)
  <2>1. Settled \subseteq OffTick
    BY DEF Settled, OffTick, Inside, Leaving
  <2>2. QED
    BY <1>1, <1>7, <2>1
<1>15. QED
  BY <1>1, <1>4, <1>6, <1>9, <1>10, <1>12, <1>13, <1>14 DEF KInv

(* The kernel stays as it is.                                              *)
LEMMA MovedOn ==
  ASSUME KInv, NEW t \in Task, k.current = t, NEW x, x # "none", NEW c,
         pc' = [pc EXCEPT ![t] = x], Fit(x, c), UNCHANGED k,
         call' = [call EXCEPT ![t] = c] \/ (UNCHANGED call /\ c = call[t]),
         x \in OffTick <=> pc[t] \in OffTick, Away(pc[t], call[t]) => Away(x, c),
         x \in Settled => pc[t] \in Settled
  PROVE  KInv'
<1>1. /\ Good(k', Born) /\ IdleReady(k') /\ k'.current = t
      /\ Ready(k', t) \/ Away(x, c)
      /\ k'.depth = 1 => x \in OffTick
      /\ k'.depth = 0 => x \notin OffTick /\ k'.pending = <<>>
      /\ x \in Settled => ~Contains(k'.pending, t)
  BY DEF KInv
<1>2. QED
  BY <1>1, Moved

(* An interrupt, or a call that concerns the kernel only.                  *)
LEMMA Stayed ==
  ASSUME KInv, UNCHANGED <<pc, call>>, Good(k', Born), IdleReady(k'), k'.depth = k.depth,
         k.depth = 1 => k'.current = k.current /\ (Ready(k, k.current) => Ready(k', k.current)),
         k.depth = 0 => k'.pending = <<>>,
         k.depth = 0 => \/ /\ k'.current = k.current
                           /\ Ready(k, k.current) => Ready(k', k.current)
                        \/ Ready(k', k'.current),
         \A t \in Task : pc[t] \in Settled => ~Contains(k'.pending, t)
  PROVE  KInv'
<1>3. Born' = Born
  BY DEF Born
<1>4. Good(k, Born)' /\ IdleReady(k)'
  BY <1>3
<1>5. k' \in Kernel /\ Homes(k', Born) /\ k.depth \in 0 .. 1
  BY KernelFields DEF Good, KInv
<1>8. k.depth = 0 \/ k.depth = 1
  BY <1>5
<1>9. \A u \in Task : pc[u] \in OffTick => k'.current = u /\ k'.depth = 1
  BY DEF KInv
<1>10. k'.depth = 1 => k'.current \in Task /\ pc[k'.current] \in OffTick
  BY DEF KInv
<1>11. \A u \in Task : Ready(k', u) => pc[u] # "none"
  <2>1. \A u \in Task : Prio(u) \in Priorities /\ u \in Members /\ u # Idle
    BY PrioIs, TasksAssumption DEF Members
  <2>2. \A u \in Task : Ready(k', u) => u \in Born
    BY <1>5, <2>1 DEF Homes, Ready
  <2>3. QED
    BY <2>2 DEF Born
<1>12. k'.current \in Task =>
         /\ pc[k'.current] # "none"
         /\ Ready(k', k'.current) \/ Away(pc[k'.current], call[k'.current])
  BY <1>8, <1>11 DEF KInv
<1>15. QED
  BY <1>4, <1>9, <1>10, <1>12 DEF KInv

-----------------------------------------------------------------------------
(* A queue is locked while a task is inside its locks, and counts no more  *)
(* items than it holds.                                                    *)
Inner(q) == \E t \in Task : pc[t] \in Inside /\ call[t].q = q

Locks ==
  \A q \in Queue :
    /\ queue[q].txLock \in -1 .. queue[q].count /\ queue[q].rxLock \in -1 .. 0
    /\ queue[q].txLock # -1 <=> Inner(q)
    /\ queue[q].rxLock # -1 <=>
         Inner(q) \/ \E t \in Task : pc[t] = "unlockRx" /\ call[t].q = q

SInv == IInv /\ KInv /\ Locks

LEMMA Running ==
  ASSUME KInv, NEW t \in Task, k.current = t
  PROVE  /\ pc[t] \in OffTick => k.depth = 1
         /\ pc[t] \notin OffTick => k.depth = 0 /\ k.pending = <<>>
         /\ Ready(k, t) \/ Away(pc[t], call[t])
         /\ pc[t] # "none" /\ t \in Born
BY KernelOf DEF KInv, Born

LEMMA CallIs ==
  ASSUME SInv, NEW t \in Task
  PROVE  /\ CallOK(call[t]) /\ call[t].q \in Queue /\ Fit(pc[t], call[t])
         /\ call[t].op = "send" => call[t].item \in Item
BY DEF SInv, IInv, KInv, CallsOK, CallOK

LEMMA ThenSet ==
  ASSUME NEW c, CallOK(c), NEW x
  PROVE  LET d == [c EXCEPT !.then = x]
         IN  /\ d.op = c.op /\ d.q = c.q /\ d.wait = c.wait /\ d.tick = c.tick
             /\ d.then = x
BY DEF CallOK, CallFields

LEMMA NoCallFits ==
  /\ Fit("task", NoCall) /\ Fit("none", NoCall)
  /\ NoCall.op = "receive" /\ NoCall.wait = 0 /\ NoCall.tick = 0
BY DEF Fit, NoCall, Ops, Asking, Inside, Leaving

LEMMA RequestKeeps ==
  ASSUME SInv, NEW t \in Task, NEW c \in Calls[t], Request(t, c)
  PROVE  KInv'
<1> DEFINE e == [NoCall EXCEPT !.op = c.op, !.q = c.q, !.item = c.item, !.wait = c.wait]
<1>1. /\ k.current = t /\ pc[t] = "task" /\ pc' = [pc EXCEPT ![t] = "check"]
      /\ call' = [call EXCEPT ![t] = e] /\ k' = k
  BY DEF Request, At, Goto
<1>2. e.op \in Ops /\ e.wait \in Nat /\ e.tick = 0
  <2>1. c.op \in Ops /\ c.wait \in Nat
    BY QueueAssumption, TasksAssumption
  <2>2. QED
    BY <2>1 DEF NoCall
<1> HIDE DEF e
<1>3. Fit("check", e)
  BY <1>2 DEF Fit, Leaving, Asking, Inside, Ops
<1>4. "check" \notin OffTick /\ "task" \notin OffTick /\ "check" \notin Settled
  BY DEF OffTick, Inside, Leaving, Settled
<1>5. k.depth = 0 /\ k.pending = <<>> /\ Ready(k, t)
  BY <1>1, <1>4, Running DEF Away, Leaving, SInv
<1>6. QED
  BY <1>1, <1>3, <1>4, <1>5, MovedOn DEF SInv, Away, Leaving

LEMMA ReturnKeeps ==
  ASSUME SInv, NEW t \in Task, k.current = t, Return(t), k.depth = 0,
         Good(k', Born), IdleReady(k'), k'.depth = 0, k'.pending = <<>>,
         (k'.current = t /\ Ready(k', t)) \/ Ready(k', k'.current)
  PROVE  KInv'
<1>1. pc' = [pc EXCEPT ![t] = "task"] /\ call' = [call EXCEPT ![t] = NoCall]
  BY DEF Return, Goto
<1>2. "task" \notin OffTick /\ "task" \notin Settled
  BY DEF OffTick, Inside, Leaving, Settled
<1>3. QED
  <2>1. k'.depth # 1 /\ "task" # "none"
    OBVIOUS
  <2>2. KInv /\ Fit("task", NoCall)
    BY NoCallFits DEF SInv
  <2>3. QED
    BY <1>1, <1>2, <2>1, <2>2, Moved

LEMMA NotifyGood ==
  ASSUME KInv, NEW t \in Task, k.current = t, k.depth = 0, Ready(k, t),
         NEW q \in Queue, NEW side \in Sides, Notify(q, side)
  PROVE  /\ Good(k', Born) /\ IdleReady(k') /\ k'.depth = 0 /\ k'.pending = <<>>
         /\ (k'.current = t /\ Ready(k', t)) \/ Ready(k', k'.current)
         /\ \A p \in Queue, s \in Sides : \A u :
              Contains(k'.waiting[p][s], u) <=>
                /\ Contains(k.waiting[p][s], u)
                /\ k.waiting[q][side] # <<>> => u # Head(k.waiting[q][side])
<1> DEFINE list == k.waiting[q][side]
           j == xTaskRemoveFromEventList(k, q, side)
<1>1. k' = IF list = <<>> THEN k ELSE IF Outranks(k, Head(list)) THEN vTaskSwitchContext(j) ELSE j
  BY DEF Notify, Waiting
<1>2. Good(k, Born) /\ IdleReady(k) /\ k.pending = <<>> /\ Born \in SUBSET Task
  BY KernelOf DEF KInv
<1>3. CASE list = <<>>
  BY <1>1, <1>2, <1>3
<1>4. CASE list # <<>>
  <2>1. /\ Good(j, Born) /\ IdleReady(j) /\ j.depth = 0 /\ j.current = t
        /\ \A p \in Queue, s \in Sides : \A u :
             Contains(j.waiting[p][s], u) <=> Contains(k.waiting[p][s], u) /\ u # Head(list)
        /\ \A u \in Members : Ready(j, u) <=> Ready(k, u) \/ (k.depth = 0 /\ u = Head(list))
        /\ \A u : Contains(j.pending, u) =>
                    Contains(k.pending, u) \/ (k.depth # 0 /\ u = Head(list))
    <3>1. /\ Good(j, Born) /\ IdleReady(j) /\ SameRun(k, j)
          /\ Head(list) \in Born /\ Contains(list, Head(list))
          /\ j.waiting[q][side] = Tail(list)
          /\ \A p \in Queue, s \in Sides : \A u :
               Contains(j.waiting[p][s], u) <=> Contains(k.waiting[p][s], u) /\ u # Head(list)
          /\ \A u \in Members : Ready(j, u) <=> Ready(k, u) \/ (k.depth = 0 /\ u = Head(list))
          /\ \A u : Contains(j.pending, u) =>
                      Contains(k.pending, u) \/ (k.depth # 0 /\ u = Head(list))
      BY <1>2, <1>4, WakeGood
    <3> HIDE DEF j, list
    <3>2. QED
      BY <3>1 DEF SameRun
  <2> HIDE DEF j, list
  <2>2. Ready(j, t)
    BY <2>1 DEF Members
  <2>3. j.pending = <<>>
    <3>1. j.pending \in Lists
      BY <2>1, KernelFields DEF Good
    <3>2. \A u : ~Contains(j.pending, u)
      BY <1>2, <2>1, EmptyList
    <3>3. QED
      BY <3>1, <3>2, NothingListed
  <2>4. CASE k' = j
    BY <1>4, <2>1, <2>2, <2>3, <2>4 DEF list
  <2>5. CASE k' = vTaskSwitchContext(j)
    <3> DEFINE r == vTaskSwitchContext(j)
    <3>1. /\ Good(r, Born) /\ IdleReady(r) /\ r.depth = j.depth
          /\ r.pending = j.pending /\ r.waiting = j.waiting
          /\ IF j.depth > 0 THEN r.current = j.current ELSE Ready(r, r.current)
      BY <1>2, <2>1, SwitchGood
    <3> HIDE DEF r
    <3>2. k' = r
      BY <2>5 DEF r
    <3>3. ~(j.depth > 0)
      BY <2>1
    <3>4. QED
      BY <1>4, <2>1, <2>3, <3>1, <3>2, <3>3 DEF list
  <2>6. QED
    BY <1>1, <1>4, <2>4, <2>5
<1>5. QED
  BY <1>3, <1>4

LEMMA SentKeeps == ASSUME SInv, NEW t \in Task, Sent(t) PROVE KInv'
<1>1. k.current = t /\ pc[t] = "check" /\ Notify(call[t].q, "receive") /\ Return(t)
  BY DEF Sent, At
<1>2. k.depth = 0 /\ Ready(k, t) /\ call[t].q \in Queue /\ "receive" \in Sides
  BY <1>1, Running, CallIs DEF SInv, OffTick, Inside, Leaving, Away, Sides
<1>3. QED
  BY <1>1, <1>2, NotifyGood, ReturnKeeps DEF SInv

LEMMA ReceivedKeeps == ASSUME SInv, NEW t \in Task, Received(t) PROVE KInv'
<1>1. k.current = t /\ pc[t] = "check" /\ Notify(call[t].q, "send") /\ Return(t)
  BY DEF Received, At
<1>2. k.depth = 0 /\ Ready(k, t) /\ call[t].q \in Queue /\ "send" \in Sides
  BY <1>1, Running, CallIs DEF SInv, OffTick, Inside, Leaving, Away, Sides
<1>3. QED
  BY <1>1, <1>2, NotifyGood, ReturnKeeps DEF SInv

LEMMA QuietReturn ==
  ASSUME SInv, NEW t \in Task, Refused(t) \/ Awake(t)
  PROVE  KInv'
<1>1. k.current = t /\ pc[t] \in {"check", "awake"} /\ Return(t) /\ k' = k
  BY DEF Refused, Awake, At
<1>2. k.depth = 0 /\ k.pending = <<>> /\ Ready(k, t)
  BY <1>1, Running DEF SInv, OffTick, Inside, Leaving, Away
<1>3. QED
  BY <1>1, <1>2, ReturnKeeps DEF SInv, KInv

LEMMA WillWaitKeeps == ASSUME SInv, NEW t \in Task, WillWait(t) PROVE KInv'
<1> DEFINE c == call[t]
<1>1. /\ k.current = t /\ pc[t] = "check" /\ pc' = [pc EXCEPT ![t] = "suspend"]
      /\ call' = [call EXCEPT ![t] = Timed(c)] /\ k' = k
  BY DEF WillWait, At, Goto
<1>2. k.depth = 0 /\ k.pending = <<>> /\ Ready(k, t)
  BY <1>1, Running DEF SInv, OffTick, Inside, Leaving, Away
<1>3. Timed(c).op = c.op /\ Timed(c).wait = c.wait /\ Timed(c).tick \in {c.tick, k.tick}
  BY CallIs DEF Timed, CallOK, CallFields
<1>4. Fit("check", c) /\ k.tick \in Nat
  BY <1>1, CallIs, KernelOf, KernelFields, TasksAssumption DEF SInv
<1>5. Fit("suspend", Timed(c))
  BY <1>3, <1>4 DEF Fit, Asking, Inside, Leaving
<1>6. "suspend" \notin OffTick /\ "suspend" \notin Settled
  BY DEF OffTick, Inside, Leaving, Settled
<1>7. QED
  BY <1>1, <1>2, <1>5, <1>6, MovedOn DEF SInv, Away, Leaving, OffTick, Inside

LEMMA SuspendKeeps == ASSUME SInv, NEW t \in Task, Suspend(t) PROVE KInv'
<1> DEFINE r == vTaskSuspendAll(k)
<1>1. /\ k.current = t /\ pc[t] = "suspend" /\ pc' = [pc EXCEPT ![t] = "lock"]
      /\ UNCHANGED call /\ k' = r
  BY DEF Suspend, At, Goto
<1>2. k.depth = 0 /\ k.pending = <<>> /\ Ready(k, t)
  BY <1>1, Running DEF SInv, OffTick, Inside, Leaving, Away
<1>3. /\ Good(r, Born) /\ IdleReady(r) /\ r.depth = 1 /\ r.current = k.current
      /\ r.pending = k.pending /\ r.waiting = k.waiting
      /\ \A u : Ready(r, u) <=> Ready(k, u)
  BY <1>2, KernelOf, SuspendAllGood DEF SInv, KInv
<1> HIDE DEF r
<1>4. Fit("lock", call[t])
  BY <1>1, CallIs DEF Fit, Asking, Inside, Leaving
<1>5. "lock" \in OffTick
  BY DEF OffTick
<1>6. ~Contains(r.pending, t)
  BY <1>2, <1>3, EmptyList
<1>7. QED
  <2>1. /\ Good(k', Born) /\ IdleReady(k') /\ k'.depth = 1 /\ k'.current = t
        /\ Ready(k', t) /\ ~Contains(k'.pending, t)
    BY <1>1, <1>2, <1>3, <1>6
  <2>2. KInv /\ k'.depth # 0
    BY <2>1 DEF SInv
  <2>3. QED
    BY <1>1, <1>4, <1>5, <2>1, <2>2, Moved

LEMMA LockKeeps ==
  ASSUME SInv, NEW t \in Task, prvLockQueue(t) \/ OpenTx(t)
  PROVE  KInv'
<1>1. PICK x : /\ k.current = t /\ pc' = [pc EXCEPT ![t] = x]
               /\ UNCHANGED call /\ k' = k
               /\ \/ pc[t] = "lock" /\ x = "timeout"
                  \/ pc[t] = "openTx" /\ x = "unlockRx"
  BY DEF prvLockQueue, OpenTx, At, Goto
<1>2. Fit(pc[t], call[t])
  BY CallIs
<1>3. Fit(x, call[t]) /\ x # "none"
  BY <1>1, <1>2 DEF Fit, Asking, Inside, Leaving
<1>4. /\ x \in OffTick <=> pc[t] \in OffTick
      /\ Away(pc[t], call[t]) => Away(x, call[t])
      /\ x \in Settled => pc[t] \in Settled
  BY <1>1 DEF OffTick, Inside, Leaving, Settled, Away
<1>5. QED
  BY <1>1, <1>3, <1>4, MovedOn DEF SInv

LEMMA TimeOutKeeps == ASSUME SInv, NEW t \in Task, xTaskCheckForTimeOut(t) PROVE KInv'
<1> DEFINE c       == call[t]
           elapsed == (k.tick - c.tick) % TickModulus
           d == [c EXCEPT !.then = "late"]
           e == [c EXCEPT !.wait = @ - elapsed, !.tick = k.tick, !.over = k.overflows]
<1>1. /\ k.current = t /\ pc[t] = "timeout" /\ k' = k
      /\ \/ pc' = [pc EXCEPT ![t] = "test"] /\ UNCHANGED call
         \/ pc' = [pc EXCEPT ![t] = "unlockTx"] /\ call' = [call EXCEPT ![t] = d]
         \/ /\ pc' = [pc EXCEPT ![t] = "test"] /\ call' = [call EXCEPT ![t] = e]
            /\ ~(elapsed >= c.wait)
  BY DEF xTaskCheckForTimeOut, At, Goto
<1>2. CallOK(c) /\ Fit("timeout", c) /\ k.tick \in Nat /\ c.tick \in Nat /\ c.wait \in Nat
  BY <1>1, CallIs, KernelOf, KernelFields, TasksAssumption DEF SInv, Fit
<1>3. elapsed \in Nat
  <2>1. TickModulus \in Nat \ {0} /\ k.tick - c.tick \in Int
    BY <1>2, TasksAssumption
  <2>2. QED
    BY <2>1
<1>4. CASE pc' = [pc EXCEPT ![t] = "test"] /\ UNCHANGED call
  <2>1. Fit("test", c)
    BY <1>2 DEF Fit, Asking, Inside, Leaving
  <2>2. QED
    BY <1>1, <1>4, <2>1, MovedOn DEF SInv, OffTick, Inside, Leaving, Settled, Away
<1>5. CASE pc' = [pc EXCEPT ![t] = "unlockTx"] /\ call' = [call EXCEPT ![t] = d]
  <2>1. d.op = c.op /\ d.wait = c.wait /\ d.tick = c.tick /\ d.then = "late"
    BY <1>2, ThenSet
  <2> HIDE DEF d
  <2>2. Fit("unlockTx", d)
    BY <1>2, <2>1 DEF Fit, Asking, Inside, Leaving
  <2>3. QED
    BY <1>1, <1>5, <2>2, MovedOn DEF SInv, OffTick, Inside, Leaving, Settled, Away
<1>6. CASE /\ pc' = [pc EXCEPT ![t] = "test"] /\ call' = [call EXCEPT ![t] = e]
           /\ ~(elapsed >= c.wait)
  <2> HIDE DEF elapsed
  <2>1. e.op = c.op /\ e.wait = c.wait - elapsed /\ e.tick = k.tick
    BY <1>2 DEF CallOK, CallFields
  <2> HIDE DEF e
  <2>2. e.wait \in Nat
    BY <1>2, <1>3, <1>6, <2>1
  <2>3. Fit("test", e)
    BY <1>2, <2>1, <2>2 DEF Fit, Asking, Inside, Leaving
  <2>4. QED
    BY <1>1, <1>6, <2>3, MovedOn DEF SInv, OffTick, Inside, Leaving, Settled, Away
<1>7. QED
  BY <1>1, <1>4, <1>5, <1>6

LEMMA TestKeeps == ASSUME SInv, NEW t \in Task, Test(t) PROVE KInv'
<1> DEFINE x == IF Blocked(call[t]) THEN "place" ELSE "unlockTx"
           d == [call[t] EXCEPT !.then = IF Blocked(call[t]) THEN "yield" ELSE "check"]
<1>1. /\ k.current = t /\ pc[t] = "test" /\ k' = k
      /\ pc' = [pc EXCEPT ![t] = x] /\ call' = [call EXCEPT ![t] = d]
  BY DEF Test, At, Goto
<1>2. CallOK(call[t]) /\ Fit("test", call[t])
  BY <1>1, CallIs
<1>3. /\ d.op = call[t].op /\ d.wait = call[t].wait /\ d.tick = call[t].tick
      /\ d.then = IF Blocked(call[t]) THEN "yield" ELSE "check"
  BY <1>2, ThenSet
<1> HIDE DEF d
<1>4. Fit(x, d)
  BY <1>2, <1>3 DEF Fit, Asking, Inside, Leaving
<1>5. QED
  BY <1>1, <1>4, MovedOn DEF SInv, OffTick, Inside, Leaving, Settled, Away

LEMMA PlaceKeeps == ASSUME SInv, NEW t \in Task, Place(t) PROVE KInv'
<1> DEFINE c == call[t]
           r == vTaskPlaceOnEventList(k, t, c.q, c.op, c.wait)
<1>1. /\ k.current = t /\ pc[t] = "place" /\ k' = r
      /\ pc' = [pc EXCEPT ![t] = "unlockTx"] /\ UNCHANGED call
  BY DEF Place, At, Goto
<1>2. Fit("place", c) /\ c.q \in Queue
  BY <1>1, CallIs
<1>3. c.op \in Sides /\ c.wait \in Nat /\ c.then = "yield"
  BY <1>2 DEF Fit, Asking, Inside, Ops, Sides
<1>4. k.depth = 1 /\ Ready(k, t) /\ t \in Born /\ ~Contains(k.pending, t)
  BY <1>1, Running DEF SInv, KInv, OffTick, Inside, Leaving, Away, Settled
<1>5. Good(r, Born) /\ IdleReady(r) /\ SameRun(k, r)
  <2>1. Good(k, Born) /\ IdleReady(k) /\ Born \in SUBSET Task
    BY KernelOf DEF SInv, KInv
  <2>2. /\ Good(r, Born) /\ IdleReady(r) /\ SameRun(k, r) /\ r.pending = k.pending
        /\ \A u \in Members : Ready(r, u) <=> Ready(k, u) /\ u # t
        /\ Enters(k, r, c.q, c.op, t)
    <3> HIDE DEF c
    <3>1. QED
      BY <1>2, <1>3, <1>4, <2>1, PlaceGood
  <2>3. QED
    BY <2>2
<1> HIDE DEF r
<1>6. k'.depth = 1 /\ k'.current = t /\ Good(k', Born) /\ IdleReady(k')
  BY <1>1, <1>4, <1>5 DEF SameRun
<1>7. Fit("unlockTx", c) /\ Away("unlockTx", c)
  BY <1>2, <1>3 DEF Fit, Asking, Inside, Leaving, Away
<1>8. "unlockTx" \in OffTick /\ "unlockTx" \notin Settled /\ k'.depth # 0
  BY <1>6 DEF OffTick, Inside, Settled
<1>9. QED
  BY <1>1, <1>6, <1>7, <1>8, Moved DEF SInv

(* What prvUnlockQueue wakes for its count.                                *)
LEMMA WokenGood ==
  ASSUME KInv, k.depth = 1, NEW q \in Queue, NEW side \in Sides, NEW lock \in Nat
  PROVE  LET r == Woken(q, side, lock)
             w == k.waiting[q][side]
             n == IF lock > Len(w) THEN Len(w) ELSE lock
         IN  /\ Good(r, Born) /\ IdleReady(r) /\ SameRun(k, r)
             /\ Leave(k, r, w, n)
             /\ \A u \in Members : Ready(r, u) <=> Ready(k, u)
             /\ SameTimes(k, r) /\ Postponed(k, r, w, n)
<1> DEFINE r == Woken(q, side, lock)
           w == k.waiting[q][side]
           n == IF lock > Len(w) THEN Len(w) ELSE lock
           j == RemovedAll(k, SubSeq(w, 1, n), q, side)
<1>1. Good(k, Born) /\ IdleReady(k) /\ Born \in SUBSET Task
  BY KernelOf DEF KInv
<1>2. w \in Seq(Members) /\ Len(w) \in Nat /\ n \in 0 .. Len(w)
  <2>1. w \in Lists
    BY <1>1, KernelFields DEF Good
  <2>2. w \in Seq(Members)
    BY <2>1 DEF Lists
  <2> HIDE DEF w
  <2>3. QED
    BY <2>2
<1>3. /\ Good(j, Born) /\ IdleReady(j) /\ SameRun(k, j)
      /\ Leave(k, j, w, n) /\ Postponed(k, j, w, n)
      /\ \A u \in Members : Ready(j, u) <=> Ready(k, u)
      /\ SameTimes(k, j)
  <2> HIDE DEF n
  <2>1. QED
    BY <1>1, <1>2, WakeAllGood
<1>4. \E y \in BOOLEAN : r = [j EXCEPT !.missedYield = y]
  <2> DEFINE y == j.missedYield \/ \E i \in DOMAIN SubSeq(w, 1, n) : Outranks(k, SubSeq(w, 1, n)[i])
  <2>1. r = [j EXCEPT !.missedYield = y]
    BY DEF Woken, RemovedAll, Waiting
  <2>2. y \in BOOLEAN
    OBVIOUS
  <2> HIDE DEF y
  <2>3. QED
    BY <2>1, <2>2
<1>5. PICK y \in BOOLEAN : r = [j EXCEPT !.missedYield = y]
  BY <1>4
<1> HIDE DEF r, j
<1>6. /\ r \in Kernel /\ r.ready = j.ready /\ r.delayed = j.delayed /\ r.overflow = j.overflow
      /\ r.suspended = j.suspended /\ r.waiting = j.waiting /\ r.pending = j.pending
      /\ SameRun(j, r)
  BY <1>3, <1>5 DEF Good, Kernel, SameRun
<1>7. Good(r, Born) /\ IdleReady(r)
  BY <1>1, <1>3, <1>6, SetFree
<1>8. \A u \in Members : Ready(r, u) <=> Ready(k, u)
  BY <1>3, <1>6 DEF Ready
<1>9. SameRun(k, r)
  BY <1>3, <1>6 DEF SameRun
<1> HIDE DEF n, w
<1>10. Leave(k, r, w, n)
  BY <1>3, <1>6 DEF Leave
<1>11. Postponed(k, r, w, n)
  BY <1>3, <1>6 DEF Postponed
<1>12. SameTimes(j, r)
  BY <1>3, <1>5 DEF Good, Kernel, SameTimes
<1>13. SameTimes(k, r)
  BY <1>3, <1>12 DEF SameTimes
<1>14. QED
  BY <1>7, <1>8, <1>9, <1>10, <1>11, <1>13 DEF r, n, w

LEMMA UnlockKeeps ==
  ASSUME SInv, NEW t \in Task, InspectTx(t) \/ UnlockRx(t)
  PROVE  KInv'
<1> DEFINE q == call[t].q
<1>1. PICK x, side, lock :
        /\ k.current = t /\ pc' = [pc EXCEPT ![t] = x] /\ UNCHANGED call
        /\ k' = Woken(q, side, lock)
        /\ \/ pc[t] = "unlockTx" /\ x = "openTx" /\ side = "receive" /\ lock = queue[q].txLock
           \/ pc[t] = "unlockRx" /\ x = "resume" /\ side = "send" /\ lock = queue[q].rxLock
  BY DEF InspectTx, UnlockRx, At, Goto
<1>2. q \in Queue /\ Fit(pc[t], call[t])
  BY CallIs
<1>3. side \in Sides /\ lock \in Nat
  <2>1. CASE pc[t] = "unlockTx"
    <3>1. Inner(q)
      BY <2>1 DEF Inner, Inside
    <3>2. lock \in -1 .. queue[q].count /\ lock # -1 /\ queue[q].count \in Nat
      BY <1>1, <1>2, <2>1, <3>1, Lengths DEF SInv, Locks, IInv, Rings, Ring, Buffer
    <3>3. QED
      BY <1>1, <2>1, <3>2 DEF Sides
  <2>2. CASE pc[t] = "unlockRx"
    BY <1>1, <1>2, <2>2 DEF SInv, Locks, Sides
  <2>3. QED
    BY <1>1, <2>1, <2>2
<1>4. k.depth = 1 /\ (Ready(k, t) \/ Away(pc[t], call[t]))
  BY <1>1, Running DEF SInv, OffTick, Inside, Leaving
<1>5. Good(k', Born) /\ IdleReady(k') /\ SameRun(k, k') /\ \A u \in Members : Ready(k', u) <=> Ready(k, u)
  <2> DEFINE r == Woken(q, side, lock)
             w == k.waiting[q][side]
             n == IF lock > Len(w) THEN Len(w) ELSE lock
  <2>1. /\ Good(r, Born) /\ IdleReady(r) /\ SameRun(k, r)
        /\ Leave(k, r, w, n)
        /\ \A u \in Members : Ready(r, u) <=> Ready(k, u)
    BY <1>2, <1>3, <1>4, WokenGood DEF SInv
  <2> HIDE DEF n, w, r
  <2>2. k' = r
    BY <1>1 DEF r
  <2>3. QED
    BY <2>1, <2>2
<1>6. k'.depth = 1 /\ k'.current = t /\ (Ready(k', t) \/ Away(x, call[t]))
  BY <1>1, <1>4, <1>5 DEF SameRun, Away, Leaving, Members
<1>7. Fit(x, call[t])
  BY <1>1, <1>2 DEF Fit, Asking, Inside, Leaving
<1>8. x \in OffTick /\ x \notin Settled /\ k'.depth # 0 /\ x # "none"
  BY <1>1, <1>6 DEF OffTick, Inside, Leaving, Settled
<1>9. QED
  BY <1>1, <1>5, <1>6, <1>7, <1>8, Moved DEF SInv

LEMMA ResumeKeeps == ASSUME SInv, NEW t \in Task, Resume(t) PROVE KInv'
<1> DEFINE r == xTaskResumeAll(k)
           c == call[t]
           x == IF c.then # "yield" THEN c.then
                ELSE IF MustYield(k) THEN After(t) ELSE "yield"
<1>1. /\ k.current = t /\ pc[t] = "resume" /\ k' = r
      /\ \/ /\ c.then = "late" /\ pc' = [pc EXCEPT ![t] = "task"]
            /\ call' = [call EXCEPT ![t] = NoCall]
         \/ c.then # "late" /\ pc' = [pc EXCEPT ![t] = x] /\ UNCHANGED call
  BY DEF Resume, At, Goto
<1>2. Fit("resume", c)
  BY <1>1, CallIs
<1>3. k.depth = 1 /\ (Ready(k, t) \/ c.then = "yield")
  BY <1>1, Running DEF SInv, OffTick, Leaving, Away
<1>4. Good(k, Born) /\ IdleReady(k) /\ Born \in SUBSET Task
  BY KernelOf DEF SInv, KInv
<1>5. /\ Good(r, Born) /\ IdleReady(r) /\ Grows(k, r) /\ r.depth = 0 /\ r.pending = <<>>
      /\ IF MustYield(k) THEN Ready(r, r.current) ELSE r.current = k.current
  BY <1>3, <1>4, ResumeAllGood
<1> HIDE DEF r
<1>6. /\ Good(k', Born) /\ IdleReady(k') /\ k'.depth = 0 /\ k'.pending = <<>>
      /\ IF MustYield(k) THEN Ready(k', k'.current) ELSE k'.current = t
      /\ Ready(k, t) => Ready(k', t)
  BY <1>1, <1>5 DEF Grows, Members
<1>7. KInv
  BY DEF SInv
<1>8. CASE /\ c.then = "late" /\ pc' = [pc EXCEPT ![t] = "task"]
           /\ call' = [call EXCEPT ![t] = NoCall]
  <2>1. (k'.current = t /\ Ready(k', t)) \/ Ready(k', k'.current)
    BY <1>3, <1>6, <1>8
  <2>2. Fit("task", NoCall) /\ "task" \notin OffTick /\ "task" \notin Settled /\ k'.depth # 1
    BY <1>6, NoCallFits DEF OffTick, Inside, Leaving, Settled
  <2>3. QED
    BY <1>1, <1>6, <1>7, <1>8, <2>1, <2>2, Moved
<1>9. CASE c.then # "late" /\ pc' = [pc EXCEPT ![t] = x] /\ UNCHANGED call
  <2>1. \/ x = "check" /\ c.op \in Ops /\ (Ready(k, t) \/ MustYield(k))
        \/ x = "awake" /\ c.op = "delay" /\ MustYield(k)
        \/ x = "yield" /\ ~MustYield(k)
    <3>1. CASE c.then = "yield"
      BY <1>2, <3>1 DEF After, Fit
    <3>2. CASE c.then # "yield"
      BY <1>2, <1>3, <1>9, <3>2 DEF Fit, Leaving
    <3>3. QED
      BY <3>1, <3>2
  <2> HIDE DEF x
  <2>2. Fit(x, c)
    BY <1>2, <2>1 DEF Fit, Asking, Inside, Leaving, Ops
  <2>3. x \notin OffTick /\ x \notin Settled /\ k'.depth # 1 /\ x # "none"
    BY <1>6, <2>1 DEF OffTick, Inside, Leaving, Settled
  <2>4. (k'.current = t /\ (Ready(k', t) \/ Away(x, c))) \/ Ready(k', k'.current)
    BY <1>6, <2>1 DEF Away
  <2>5. QED
    BY <1>1, <1>6, <1>7, <1>9, <2>2, <2>3, <2>4, Moved
<1>10. QED
  BY <1>1, <1>8, <1>9

LEMMA YieldKeeps == ASSUME SInv, NEW t \in Task, Yield(t) PROVE KInv'
<1> DEFINE r == vTaskSwitchContext(k)
           x == After(t)
<1>1. /\ k.current = t /\ pc[t] = "yield" /\ k' = r
      /\ pc' = [pc EXCEPT ![t] = x] /\ UNCHANGED call
  BY DEF Yield, At, Goto
<1>2. k.depth = 0 /\ k.pending = <<>>
  BY <1>1, Running DEF SInv, OffTick, Leaving, Inside
<1>3. Good(k, Born) /\ IdleReady(k) /\ Born \in SUBSET Task
  BY KernelOf DEF SInv, KInv
<1>4. /\ Good(r, Born) /\ IdleReady(r) /\ r.depth = k.depth /\ r.missedTicks = k.missedTicks
      /\ r.pending = k.pending /\ r.waiting = k.waiting
      /\ \A u \in Members : Ready(r, u) <=> Ready(k, u)
      /\ IF k.depth > 0 THEN r.current = k.current ELSE Ready(r, r.current)
  BY <1>3, SwitchGood
<1> HIDE DEF r
<1>5. /\ Good(k', Born) /\ IdleReady(k') /\ k'.depth = 0 /\ k'.pending = <<>>
      /\ Ready(k', k'.current)
  BY <1>1, <1>2, <1>4
<1>6. Fit("yield", call[t])
  BY <1>1, CallIs
<1>7. (x = "check" /\ call[t].op \in Ops) \/ (x = "awake" /\ call[t].op = "delay")
  BY <1>6 DEF Fit, After
<1> HIDE DEF x
<1>8. Fit(x, call[t])
  BY <1>6, <1>7 DEF Fit, Asking, Inside, Leaving
<1>9. x \notin OffTick /\ x \notin Settled /\ k'.depth # 1 /\ x # "none"
  BY <1>5, <1>7 DEF OffTick, Inside, Leaving, Settled
<1>10. KInv
  BY DEF SInv
<1>11. QED
  BY <1>1, <1>5, <1>8, <1>9, <1>10, Moved

(* vTaskSuspendAll by the running task.                                    *)
LEMMA HeldGood ==
  ASSUME KInv, NEW t \in Task, k.current = t, k.depth = 0, Ready(k, t), k' = vTaskSuspendAll(k)
  PROVE  /\ Good(k', Born) /\ IdleReady(k') /\ k'.depth = 1 /\ k'.current = t
         /\ k'.pending = k.pending /\ k'.waiting = k.waiting /\ Ready(k', t)
<1> DEFINE r == vTaskSuspendAll(k)
<1>1. Good(k, Born) /\ IdleReady(k) /\ Born \in SUBSET Task
  BY KernelOf DEF KInv
<1>2. /\ Good(r, Born) /\ IdleReady(r) /\ r.depth = 1 /\ r.current = k.current
      /\ r.pending = k.pending /\ r.waiting = k.waiting
      /\ \A u : Ready(r, u) <=> Ready(k, u)
  BY <1>1, SuspendAllGood
<1> HIDE DEF r
<1>3. k' = r
  BY DEF r
<1>4. QED
  BY <1>2, <1>3

LEMMA HoldKeeps == ASSUME SInv, NEW t \in Task, Hold(t) PROVE KInv'
<1>1. /\ k.current = t /\ pc[t] = "task" /\ k' = vTaskSuspendAll(k)
      /\ pc' = [pc EXCEPT ![t] = "held"] /\ UNCHANGED call
  BY DEF Hold, At, Goto
<1>2. k.depth = 0 /\ Ready(k, t) /\ KInv
  BY <1>1, Running DEF SInv, OffTick, Leaving, Inside, Away
<1>3. /\ Good(k', Born) /\ IdleReady(k') /\ k'.depth = 1 /\ k'.current = t
      /\ Ready(k', t)
  BY <1>1, <1>2, HeldGood
<1>4. Fit("held", call[t])
  <2>1. Fit("task", call[t])
    BY <1>1, CallIs
  <2>2. QED
    BY <2>1 DEF Fit, Asking, Inside, Leaving
<1>5. "held" \in OffTick /\ "held" \notin Settled /\ k'.depth # 0
  BY <1>3 DEF OffTick, Settled
<1>6. QED
  BY <1>1, <1>2, <1>3, <1>4, <1>5, Moved

LEMMA DelayKeeps ==
  ASSUME SInv, NEW t \in Task, NEW n \in Delays[t], vTaskDelay(t, n)
  PROVE  KInv'
<1> DEFINE c == [NoCall EXCEPT !.op = "delay", !.wait = n]
<1>1. /\ k.current = t /\ pc[t] = "task" /\ call' = [call EXCEPT ![t] = c]
      /\ \/ pc' = [pc EXCEPT ![t] = "yield"] /\ k' = k
         \/ pc' = [pc EXCEPT ![t] = "sleep"] /\ k' = vTaskSuspendAll(k)
  BY DEF vTaskDelay, At, Goto
<1>2. k.depth = 0 /\ Ready(k, t) /\ KInv
  BY <1>1, Running DEF SInv, OffTick, Leaving, Inside, Away
<1>3. c.op = "delay" /\ c.wait \in Nat /\ c.tick = 0
  <2>1. n \in Nat
    BY QueueAssumption, TasksAssumption
  <2>2. QED
    BY <2>1 DEF NoCall
<1> HIDE DEF c
<1>4. Fit("yield", c) /\ Fit("sleep", c)
  BY <1>3 DEF Fit, Asking, Inside, Leaving
<1>5. CASE pc' = [pc EXCEPT ![t] = "yield"] /\ k' = k
  <2>1. /\ "yield" \in OffTick <=> pc[t] \in OffTick
        /\ Away(pc[t], call[t]) => Away("yield", c)
        /\ "yield" \in Settled => pc[t] \in Settled
    BY <1>1 DEF OffTick, Inside, Leaving, Settled, Away
  <2>2. QED
    BY <1>1, <1>2, <1>4, <1>5, <2>1, MovedOn
<1>6. CASE pc' = [pc EXCEPT ![t] = "sleep"] /\ k' = vTaskSuspendAll(k)
  <2>1. /\ Good(k', Born) /\ IdleReady(k') /\ k'.depth = 1 /\ k'.current = t
        /\ Ready(k', t)
    BY <1>1, <1>2, <1>6, HeldGood
  <2>2. "sleep" \in OffTick /\ "sleep" \notin Settled /\ k'.depth # 0
    BY <2>1 DEF OffTick, Settled
  <2>3. QED
    BY <1>1, <1>2, <1>4, <1>6, <2>1, <2>2, Moved
<1>7. QED
  BY <1>1, <1>5, <1>6

LEMMA SleepKeeps == ASSUME SInv, NEW t \in Task, Sleep(t) PROVE KInv'
<1> DEFINE n == call[t].wait
           r == Asleep(k, t, n)
           c == [call[t] EXCEPT !.then = "yield"]
<1>1. /\ k.current = t /\ pc[t] = "sleep" /\ k' = r
      /\ pc' = [pc EXCEPT ![t] = "resume"] /\ call' = [call EXCEPT ![t] = c]
  BY DEF Sleep, At, Goto
<1>2. Fit("sleep", call[t]) /\ CallOK(call[t])
  BY <1>1, CallIs
<1>3. /\ c.op = call[t].op /\ c.wait = call[t].wait /\ c.tick = call[t].tick
      /\ c.then = "yield"
  BY <1>2, ThenSet
<1> HIDE DEF c
<1>4. Fit("resume", c) /\ Away("resume", c)
  BY <1>2, <1>3 DEF Fit, Asking, Inside, Leaving, Away
<1>5. k.depth = 1 /\ t \in Born
  BY <1>1, Running DEF SInv, OffTick
<1>6. k \in Kernel /\ Homes(k, Born) /\ Events(k, Born) /\ IdleReady(k) /\ Born \in SUBSET Task
  BY KernelOf DEF SInv, KInv
<1>7. /\ r \in Kernel /\ Homes(r, Born) /\ SameRun(k, r)
      /\ r.pending = k.pending /\ r.waiting = k.waiting
      /\ IdleReady(k) => IdleReady(r)
      /\ \A u \in Members : Ready(r, u) <=> Ready(k, u) /\ u # t
  <2>1. n \in Nat
    BY <1>2 DEF Fit
  <2> HIDE DEF n
  <2>2. QED
    BY <1>5, <1>6, <2>1, AsleepHomes
<1> HIDE DEF r
<1>8. Events(r, Born)
  BY <1>6, <1>7 DEF Events
<1>9. /\ Good(k', Born) /\ IdleReady(k') /\ k'.depth = 1 /\ k'.current = t
  BY <1>1, <1>5, <1>6, <1>7, <1>8 DEF Good, SameRun
<1>10. "resume" \in OffTick /\ "resume" \notin Settled /\ k'.depth # 0
  BY <1>9 DEF OffTick, Leaving, Settled
<1>11. KInv
  BY DEF SInv
<1>12. QED
  BY <1>1, <1>4, <1>9, <1>10, <1>11, Moved

LEMMA UnholdKeeps == ASSUME SInv, NEW t \in Task, Unhold(t) PROVE KInv'
<1> DEFINE r == xTaskResumeAll(k)
<1>1. /\ k.current = t /\ pc[t] = "held" /\ k' = r
      /\ pc' = [pc EXCEPT ![t] = "task"] /\ UNCHANGED call
  BY DEF Unhold, At, Goto
<1>2. k.depth = 1 /\ Ready(k, t) /\ KInv
  BY <1>1, Running DEF SInv, OffTick, Leaving, Away
<1>3. Good(k, Born) /\ IdleReady(k) /\ Born \in SUBSET Task
  BY KernelOf DEF SInv, KInv
<1>4. /\ Good(r, Born) /\ IdleReady(r) /\ Grows(k, r) /\ r.depth = 0 /\ r.pending = <<>>
      /\ IF MustYield(k) THEN Ready(r, r.current) ELSE r.current = k.current
  BY <1>2, <1>3, ResumeAllGood
<1> HIDE DEF r
<1>5. /\ Good(k', Born) /\ IdleReady(k') /\ k'.depth = 0 /\ k'.pending = <<>>
      /\ (k'.current = t /\ Ready(k', t)) \/ Ready(k', k'.current)
  BY <1>1, <1>2, <1>4 DEF Grows, Members
<1>6. Fit("task", call[t])
  <2>1. Fit("held", call[t])
    BY <1>1, CallIs
  <2>2. QED
    BY <2>1 DEF Fit, Asking, Inside, Leaving
<1>7. "task" \notin OffTick /\ "task" \notin Settled /\ k'.depth # 1
  BY <1>5 DEF OffTick, Inside, Leaving, Settled
<1>8. QED
  BY <1>1, <1>2, <1>5, <1>6, <1>7, Moved

LEMMA SuspendTaskKeeps ==
  ASSUME SInv, NEW t \in Task, NEW u \in Task, SuspendTask(t, u)
  PROVE  KInv'
<1> DEFINE r == vTaskSuspend(k, u)
<1>1. /\ k.current = t /\ pc[t] = "task" /\ pc[u] # "none" /\ k' = r
      /\ UNCHANGED <<pc, call>>
  BY DEF SuspendTask, At
<1>2. k.depth = 0 /\ k.pending = <<>> /\ Ready(k, t) /\ KInv
  BY <1>1, Running DEF SInv, OffTick, Leaving, Inside, Away
<1>3. Good(k, Born) /\ IdleReady(k) /\ Born \in SUBSET Task /\ u \in Born
  BY <1>1, KernelOf DEF SInv, KInv, Born
<1>4. /\ Good(r, Born) /\ IdleReady(r) /\ r.depth = k.depth
      /\ \A v \in Members : Ready(r, v) <=> Ready(k, v) /\ v # u
      /\ \A p \in Queue, s \in Sides : \A v :
           Contains(r.waiting[p][s], v) <=> Contains(k.waiting[p][s], v) /\ v # u
      /\ \A v : Contains(r.pending, v) => Contains(k.pending, v)
      /\ IF u = k.current /\ k.depth = 0 THEN Ready(r, r.current)
         ELSE r.current = k.current
  BY <1>3, SuspendGood
<1> HIDE DEF r
<1>5. r.pending = <<>>
  <2>1. r.pending \in Lists
    BY <1>4, KernelFields DEF Good
  <2>2. QED
    BY <1>2, <1>4, <2>1, EmptyList, NothingListed
<1>6. /\ Good(k', Born) /\ IdleReady(k') /\ k'.depth = 0 /\ k'.pending = <<>>
      /\ (k'.current = k.current /\ Ready(k', k.current)) \/ Ready(k', k'.current)
  BY <1>1, <1>2, <1>4, <1>5 DEF Members
<1>7. k.depth # 1 /\ \A v \in Task : pc[v] \in Settled => ~Contains(k'.pending, v)
  BY <1>2, <1>6, EmptyList
<1>8. QED
  BY <1>1, <1>2, <1>6, <1>7, Stayed

LEMMA ResumeTaskKeeps ==
  ASSUME SInv, NEW t \in Task, NEW u \in Task, ResumeTask(t, u)
  PROVE  KInv'
<1> DEFINE r == vTaskResume(k, u)
<1>1. /\ k.current = t /\ pc[t] = "task" /\ pc[u] # "none" /\ k' = r
      /\ UNCHANGED <<pc, call>>
  BY DEF ResumeTask, At
<1>2. k.depth = 0 /\ k.pending = <<>> /\ Ready(k, t) /\ KInv
  BY <1>1, Running DEF SInv, OffTick, Leaving, Inside, Away
<1>3. Good(k, Born) /\ IdleReady(k) /\ Born \in SUBSET Task /\ u \in Born
  BY <1>1, KernelOf DEF SInv, KInv, Born
<1>4. /\ Good(r, Born) /\ IdleReady(r) /\ r.depth = k.depth
      /\ r.pending = k.pending /\ r.waiting = k.waiting
      /\ \A v \in Members : Ready(k, v) => Ready(r, v)
      /\ r.current = k.current \/ Ready(r, r.current)
  BY <1>2, <1>3, ResumeGood
<1> HIDE DEF r
<1>6. /\ Good(k', Born) /\ IdleReady(k') /\ k'.depth = 0 /\ k'.pending = <<>>
      /\ (k'.current = k.current /\ Ready(k', k.current)) \/ Ready(k', k'.current)
  BY <1>1, <1>2, <1>4 DEF Members
<1>7. k.depth # 1 /\ \A v \in Task : pc[v] \in Settled => ~Contains(k'.pending, v)
  BY <1>2, <1>6, EmptyList
<1>8. QED
  BY <1>1, <1>2, <1>6, <1>7, Stayed

LEMMA CreateKeeps ==
  ASSUME SInv, NEW t \in Task, NEW u \in Task, Create(t, u)
  PROVE  KInv'
<1> DEFINE r == xTaskGenericCreate(k, u)
           H == Born \cup {u}
<1>1. /\ k.current = t /\ pc[t] = "task" /\ pc[u] = "none" /\ k' = r
      /\ pc' = [pc EXCEPT ![u] = "task"] /\ UNCHANGED call
  BY DEF Create, At, Goto
<1>2. k.depth = 0 /\ k.pending = <<>> /\ Ready(k, t) /\ KInv
  BY <1>1, Running DEF SInv, OffTick, Leaving, Inside, Away
<1>3. Good(k, Born) /\ IdleReady(k) /\ Born \in SUBSET Task /\ u \notin Born
  BY <1>1, KernelOf DEF SInv, KInv, Born
<1>4. /\ Good(r, H) /\ IdleReady(r) /\ r.depth = k.depth
      /\ r.pending = k.pending /\ r.waiting = k.waiting
      /\ \A v \in Members : Ready(k, v) => Ready(r, v)
      /\ r.current = k.current \/ Ready(r, r.current)
  BY <1>2, <1>3, CreateGood
<1> HIDE DEF r, H
<1>5. /\ DOMAIN pc' = Task /\ DOMAIN call' = Task
      /\ \A v \in Task : pc'[v] = IF v = u THEN "task" ELSE pc[v]
  BY <1>1 DEF SInv, KInv
<1>6. Born' = H
  BY <1>5 DEF Born, H
<1>7. /\ Good(k', Born') /\ IdleReady(k') /\ k'.depth = 0 /\ k'.pending = <<>>
      /\ Ready(k', k'.current)
  BY <1>1, <1>2, <1>4, <1>6 DEF Members
<1>8. \A v \in Task : Fit(pc'[v], call'[v])
  <2>1. Fit("none", call[u])
    BY <1>1 DEF SInv, KInv
  <2>2. Fit("task", call[u])
    BY <2>1 DEF Fit, Asking, Inside, Leaving
  <2>3. QED
    BY <1>1, <1>5, <2>2 DEF SInv, KInv
<1>9. \A v \in Task : pc'[v] \notin OffTick
  <2>1. \A v \in Task : pc[v] \notin OffTick
    BY <1>2 DEF KInv
  <2>2. QED
    BY <1>5, <2>1 DEF OffTick, Inside, Leaving
<1>10. k'.current \in Task => pc'[k'.current] # "none"
  <2>1. k'.current \in Task => k'.current \in Members /\ k'.current # Idle
    BY TasksAssumption DEF Members
  <2>2. Homes(k', Born') /\ k' \in Kernel
    BY <1>7 DEF Good
  <2>3. k'.current \in Task => k'.current \in Born'
    BY <1>7, <2>1, <2>2, PrioIs DEF Homes, Ready
  <2>4. QED
    BY <2>3 DEF Born
<1>11. \A v \in Task : pc'[v] \in Settled => ~Contains(k'.pending, v)
  BY <1>7, EmptyList
<1>12. k'.depth # 1
  BY <1>7
<1>13. Good(k, Born)' /\ IdleReady(k)'
  BY <1>7
<1>14. QED
  BY <1>5, <1>7, <1>8, <1>9, <1>10, <1>11, <1>12, <1>13 DEF KInv

LEMMA TickKeeps == ASSUME SInv, Tick PROVE KInv'
<1> DEFINE i == vTaskIncrementTick(k)
           r == vTaskSwitchContext(i)
<1>1. k' = r /\ UNCHANGED <<pc, call>>
  BY DEF Tick
<1>2. Good(k, Born) /\ IdleReady(k) /\ Born \in SUBSET Task /\ KInv
  BY KernelOf DEF SInv, KInv
<1>3. /\ Good(i, Born) /\ IdleReady(i) /\ Grows(k, i)
      /\ i.depth = k.depth /\ i.current = k.current
      /\ i.missedTicks \in {k.missedTicks, k.missedTicks + 1}
      /\ k.depth > 0 => i.pending = k.pending /\ i.waiting = k.waiting
  BY <1>2, TickGood
<1> HIDE DEF i
<1>4. /\ Good(r, Born) /\ IdleReady(r) /\ r.depth = i.depth /\ r.missedTicks = i.missedTicks
      /\ r.pending = i.pending /\ r.waiting = i.waiting
      /\ \A u \in Members : Ready(r, u) <=> Ready(i, u)
      /\ IF i.depth > 0 THEN r.current = i.current ELSE Ready(r, r.current)
  BY <1>2, <1>3, SwitchGood
<1> HIDE DEF r
<1>5. i.pending \in Lists /\ k.depth \in 0 .. 1 /\ k.current \in Members
  BY <1>2, <1>3, KernelFields DEF Good
<1>6. k.depth = 0 => i.pending = <<>>
  <2>1. k.depth = 0 => \A u : ~Contains(i.pending, u)
    BY <1>2, <1>3, EmptyList DEF Grows, KInv
  <2>2. QED
    BY <1>5, <2>1, NothingListed
<1>7. Good(k', Born) /\ IdleReady(k') /\ k'.depth = k.depth
  BY <1>1, <1>3, <1>4
<1>8. k.depth = 1 => k'.current = k.current /\ (Ready(k, k.current) => Ready(k', k.current))
  BY <1>1, <1>3, <1>4, <1>5 DEF Grows
<1>9. k.depth = 0 => k'.pending = <<>> /\ Ready(k', k'.current)
  BY <1>1, <1>3, <1>4, <1>6
<1>10. \A t \in Task : pc[t] \in Settled => ~Contains(k'.pending, t)
  <2>1. k.depth = 1 => k'.pending = k.pending
    BY <1>1, <1>3, <1>4
  <2>2. QED
    BY <1>2, <1>5, <1>9, <2>1, EmptyList DEF KInv
<1>11. QED
  BY <1>1, <1>2, <1>7, <1>8, <1>9, <1>10, Stayed

LEMMA PostKeeps ==
  ASSUME SInv, NEW q \in PostsTo, NEW item \in Posted, xQueueGenericSendFromISR(q, item)
  PROVE  KInv'
<1> DEFINE list == k.waiting[q]["receive"]
           r == xTaskRemoveFromEventList(k, q, "receive")
<1>1. /\ UNCHANGED <<pc, call>>
      /\ k' = k \/ (list # <<>> /\ k' = r)
  BY DEF xQueueGenericSendFromISR, Signal, Waiting
<1>2. Good(k, Born) /\ IdleReady(k) /\ Born \in SUBSET Task /\ KInv /\ q \in Queue
  BY KernelOf, QueueAssumption DEF SInv, KInv
<1>3. CASE k' = k
  <2>1. /\ Good(k', Born) /\ IdleReady(k') /\ k'.depth = k.depth /\ k'.current = k.current
        /\ k.depth = 0 => k'.pending = <<>>
        /\ \A t \in Task : pc[t] \in Settled => ~Contains(k'.pending, t)
    BY <1>2, <1>3 DEF KInv
  <2>2. QED
    BY <1>1, <1>2, <1>3, <2>1, Stayed
<1>4. CASE list # <<>> /\ k' = r
  <2>1. "receive" \in Sides
    BY DEF Sides
  <2>2. /\ Good(r, Born) /\ IdleReady(r) /\ SameRun(k, r)
        /\ Head(list) \in Born /\ Contains(list, Head(list))
        /\ r.waiting[q]["receive"] = Tail(list)
        /\ \A p \in Queue, s \in Sides : \A u :
             Contains(r.waiting[p][s], u) <=> Contains(k.waiting[p][s], u) /\ u # Head(list)
        /\ \A u \in Members : Ready(r, u) <=> Ready(k, u) \/ (k.depth = 0 /\ u = Head(list))
        /\ \A u : Contains(r.pending, u) =>
                    Contains(k.pending, u) \/ (k.depth # 0 /\ u = Head(list))
    BY <1>2, <1>4, <2>1, WakeGood
  <2>3. ~Ready(k, Head(list)) /\ Head(list) \in Members
    BY <1>2, <2>1, <2>2 DEF Good, Events, Members
  <2> HIDE DEF r, list
  <2>4. r.pending \in Lists /\ k.depth \in 0 .. 1 /\ k.current \in Members
    BY <1>2, <2>2, KernelFields DEF Good
  <2>5. k.depth = 0 => r.pending = <<>>
    <3>1. k.depth = 0 => \A u : ~Contains(r.pending, u)
      BY <1>2, <2>2, EmptyList DEF KInv
    <3>2. QED
      BY <2>4, <3>1, NothingListed
  <2>6. ASSUME NEW t \in Task, pc[t] \in Settled
        PROVE  ~Contains(r.pending, t)
    <3>1. pc[t] \in OffTick /\ pc[t] \notin Leaving /\ pc[t] # "yield"
      BY <2>6 DEF Settled, OffTick, Inside, Leaving
    <3>2. Ready(k, t) /\ ~Contains(k.pending, t)
      BY <1>2, <2>6, <3>1 DEF KInv, Away
    <3>3. QED
      BY <2>2, <2>3, <3>2
  <2>7. /\ Good(k', Born) /\ IdleReady(k') /\ k'.depth = k.depth /\ k'.current = k.current
        /\ k.depth = 0 => k'.pending = <<>>
        /\ Ready(k, k.current) => Ready(k', k.current)
        /\ \A t \in Task : pc[t] \in Settled => ~Contains(k'.pending, t)
    BY <1>4, <2>2, <2>4, <2>5, <2>6 DEF SameRun
  <2>8. QED
    BY <1>1, <1>2, <2>7, Stayed
<1>5. QED
  BY <1>1, <1>3, <1>4

-----------------------------------------------------------------------------
(* The locks of the queues.                                                *)
LEMMA Alone ==
  ASSUME KInv, NEW t \in Task, k.current = t
  PROVE  \A u \in Task : u # t => pc[u] \notin OffTick
BY DEF KInv

LEMMA OpenQueues ==
  ASSUME SInv, k.depth = 0
  PROVE  /\ \A t \in Task : pc[t] \notin OffTick
         /\ \A q \in Queue : queue[q].txLock = -1 /\ queue[q].rxLock = -1
<1>1. \A t \in Task : pc[t] \notin OffTick
  BY DEF SInv, KInv
<1>2. \A t \in Task : pc[t] \notin Inside /\ pc[t] # "unlockRx"
  BY <1>1 DEF OffTick, Inside, Leaving
<1>3. QED
  BY <1>1, <1>2 DEF SInv, Locks, Inner

LEMMA SameLocks ==
  ASSUME SInv, UNCHANGED queue, NEW t \in Task, NEW x, NEW c,
         pc' = [pc EXCEPT ![t] = x],
         call' = [call EXCEPT ![t] = c] \/ (UNCHANGED call /\ c = call[t]),
         x \in Inside <=> pc[t] \in Inside, x = "unlockRx" <=> pc[t] = "unlockRx",
         x \in Inside \cup {"unlockRx"} => c.q = call[t].q
  PROVE  Locks'
<1>1. /\ \A u \in Task : pc'[u] = IF u = t THEN x ELSE pc[u]
      /\ \A u \in Task : call'[u] = IF u = t THEN c ELSE call[u]
  BY DEF SInv, KInv
<1>2. \A q : Inner(q)' <=> Inner(q)
  BY <1>1 DEF Inner
<1>3. \A q : (\E u \in Task : pc'[u] = "unlockRx" /\ call'[u].q = q)
                <=> \E u \in Task : pc[u] = "unlockRx" /\ call[u].q = q
  BY <1>1
<1>4. QED
  BY <1>2, <1>3 DEF SInv, Locks

(* The scheduler runs before the step and after it.                        *)
LEMMA StillOpen ==
  ASSUME SInv, k.depth = 0, NEW t \in Task, NEW x, pc' = [pc EXCEPT ![t] = x],
         x \notin Inside, x # "unlockRx",
         \A q \in Queue : /\ queue'[q].txLock = queue[q].txLock /\ queue'[q].count \in Nat
                          /\ queue'[q].rxLock = queue[q].rxLock
  PROVE  Locks'
<1>1. \A u \in Task : pc'[u] \notin Inside /\ pc'[u] # "unlockRx"
  BY OpenQueues DEF SInv, KInv, OffTick, Leaving
<1>2. \A q \in Queue : queue'[q].txLock = -1 /\ queue'[q].rxLock = -1 /\ queue'[q].count \in Nat
  BY OpenQueues
<1>3. QED
  BY <1>1, <1>2 DEF Locks, Inner

LEMMA PutFields ==
  ASSUME NEW n, NEW b, Ring(b, n), NEW item
  PROVE  LET d == prvCopyDataToQueue(b, n, item)
         IN  d.txLock = b.txLock /\ d.rxLock = b.rxLock /\ d.count = b.count + 1
BY DEF Ring, Buffer, prvCopyDataToQueue

LEMMA GetFields ==
  ASSUME NEW n, NEW b, Ring(b, n)
  PROVE  LET d == prvCopyDataFromQueue(b, n)
         IN  d.txLock = b.txLock /\ d.rxLock = b.rxLock /\ d.count = b.count - 1
BY DEF Ring, Buffer, prvCopyDataFromQueue

LEMMA Counts0 ==
  ASSUME Rings
  PROVE  \A q \in Queue : queue[q].count \in 0 .. Length[q] /\ queue[q].count \in Nat
BY Lengths DEF Rings, Ring, Buffer

LEMMA TransferLocks ==
  ASSUME SInv, IInv', NEW t \in Task, Sent(t) \/ Received(t)
  PROVE  /\ Locks'
         /\ \A q \in Queue : q # call[t].q => queue'[q] = queue[q]
         /\ queue'[call[t].q].count = queue[call[t].q].count + (IF Sent(t) THEN 1 ELSE 0 - 1)
<1> DEFINE q == call[t].q
           put == prvCopyDataToQueue(queue[q], Length[q], call[t].item)
           get == prvCopyDataFromQueue(queue[q], Length[q])
<1>1. /\ k.current = t /\ pc[t] = "check" /\ pc' = [pc EXCEPT ![t] = "task"]
      /\ \/ Sent(t) /\ queue' = [queue EXCEPT ![q] = put]
         \/ ~Sent(t) /\ queue' = [queue EXCEPT ![q] = get]
  <2>1. CASE Sent(t)
    BY <2>1 DEF Sent, At, Return, Goto
  <2>2. CASE ~Sent(t) /\ Received(t)
    BY <2>2 DEF Received, At, Return, Goto
  <2>3. QED
    BY <2>1, <2>2
<1>2. q \in Queue /\ Ring(queue[q], Length[q]) /\ DOMAIN queue = Queue
  BY CallIs DEF SInv, IInv, Rings
<1>3. put.txLock = queue[q].txLock /\ put.rxLock = queue[q].rxLock /\ put.count = queue[q].count + 1
  BY <1>2, PutFields
<1>4. get.txLock = queue[q].txLock /\ get.rxLock = queue[q].rxLock /\ get.count = queue[q].count - 1
  BY <1>2, GetFields
<1> HIDE DEF put, get
<1>5. \A p \in Queue : p # q => queue'[p] = queue[p]
  BY <1>1, <1>2
<1>6. /\ queue'[q].txLock = queue[q].txLock /\ queue'[q].rxLock = queue[q].rxLock
      /\ queue'[q].count = queue[q].count + (IF Sent(t) THEN 1 ELSE 0 - 1)
  <2>1. queue[q].count \in Nat
    BY <1>2, Counts0 DEF SInv, IInv
  <2>2. CASE Sent(t)
    BY <1>1, <1>2, <1>3, <2>2
  <2>3. CASE ~Sent(t)
    <3>1. queue'[q] = get
      BY <1>1, <1>2, <2>3
    <3>2. queue[q].count - 1 = queue[q].count + (0 - 1)
      BY <2>1
    <3>3. QED
      BY <1>4, <2>3, <3>1, <3>2
  <2>4. QED
    BY <2>2, <2>3
<1>7. \A p \in Queue : queue'[p].count \in Nat
  BY Lengths DEF IInv, Rings, Ring, Buffer
<1>8. k.depth = 0 /\ "task" \notin Inside
  BY <1>1, Running DEF SInv, OffTick, Leaving, Inside
<1>9. Locks'
  BY <1>1, <1>5, <1>6, <1>7, <1>8, StillOpen
<1>10. QED
  BY <1>5, <1>6, <1>9

LEMMA LockLocks ==
  ASSUME SInv, NEW t \in Task, prvLockQueue(t)
  PROVE  Locks'
<1> DEFINE q == call[t].q
           b == [queue[q] EXCEPT !.rxLock = Locked(@), !.txLock = Locked(@)]
<1>1. /\ k.current = t /\ pc[t] = "lock" /\ pc' = [pc EXCEPT ![t] = "timeout"]
      /\ UNCHANGED call /\ queue' = [queue EXCEPT ![q] = b]
  BY DEF prvLockQueue, At, Goto
<1>2. q \in Queue /\ Ring(queue[q], Length[q]) /\ DOMAIN queue = Queue
  BY CallIs DEF SInv, IInv, Rings
<1>3. \A u \in Task : pc[u] \notin Inside /\ pc[u] # "unlockRx"
  BY <1>1, Alone DEF SInv, OffTick, Inside, Leaving
<1>4. \A p \in Queue : queue[p].txLock = -1 /\ queue[p].rxLock = -1
  BY <1>3 DEF SInv, Locks, Inner
<1>5. b.txLock = 0 /\ b.rxLock = 0 /\ b.count = queue[q].count
  BY <1>2, <1>4 DEF Ring, Buffer, Locked, queueUNLOCKED, queueLOCKED_UNMODIFIED
<1> HIDE DEF b
<1>6. \A p \in Queue : queue'[p] = IF p = q THEN b ELSE queue[p]
  BY <1>1, <1>2
<1>7. \A u \in Task : pc'[u] = IF u = t THEN "timeout" ELSE pc[u]
  BY <1>1 DEF SInv, KInv
<1>8. \A p \in Queue : (Inner(p)' <=> p = q)
  BY <1>1, <1>3, <1>7 DEF Inner, Inside
<1>9. ~\E u \in Task : pc'[u] = "unlockRx"
  BY <1>3, <1>7
<1>10. \A p \in Queue : queue[p].count \in Nat
  BY Counts0 DEF SInv, IInv
<1>11. QED
  BY <1>4, <1>5, <1>6, <1>8, <1>9, <1>10 DEF Locks

LEMMA UnlockLocks ==
  ASSUME SInv, NEW t \in Task, OpenTx(t) \/ UnlockRx(t)
  PROVE  Locks'
<1> DEFINE q == call[t].q
           b == [queue[q] EXCEPT !.txLock = queueUNLOCKED]
           d == [queue[q] EXCEPT !.rxLock = queueUNLOCKED]
<1>1. /\ k.current = t /\ UNCHANGED call
      /\ \/ /\ pc[t] = "openTx" /\ pc' = [pc EXCEPT ![t] = "unlockRx"]
            /\ queue' = [queue EXCEPT ![q] = b]
         \/ /\ pc[t] = "unlockRx" /\ pc' = [pc EXCEPT ![t] = "resume"]
            /\ queue' = [queue EXCEPT ![q] = d]
  BY DEF OpenTx, UnlockRx, At, Goto
<1>2. q \in Queue /\ Ring(queue[q], Length[q]) /\ DOMAIN queue = Queue
  BY CallIs DEF SInv, IInv, Rings
<1>3. \A u \in Task : u # t => pc[u] \notin Inside /\ pc[u] # "unlockRx"
  BY <1>1, Alone DEF SInv, OffTick, Inside, Leaving
<1>4. /\ b.txLock = -1 /\ b.rxLock = queue[q].rxLock /\ b.count = queue[q].count
      /\ d.rxLock = -1 /\ d.txLock = queue[q].txLock /\ d.count = queue[q].count
  BY <1>2 DEF Ring, Buffer, queueUNLOCKED
<1> HIDE DEF b, d
<1>5. \A p \in Queue : queue[p].count \in Nat
  BY Counts0 DEF SInv, IInv
<1>6. Locks
  BY DEF SInv
<1>7. CASE /\ pc[t] = "openTx" /\ pc' = [pc EXCEPT ![t] = "unlockRx"]
           /\ queue' = [queue EXCEPT ![q] = b]
  <2>1. \A p \in Queue : queue'[p] = IF p = q THEN b ELSE queue[p]
    BY <1>2, <1>7
  <2>2. \A u \in Task : pc'[u] = IF u = t THEN "unlockRx" ELSE pc[u]
    BY <1>7 DEF SInv, KInv
  <2>3. \A p \in Queue : ~Inner(p)' /\ (Inner(p) <=> p = q)
    BY <1>1, <1>3, <1>7, <2>2 DEF Inner, Inside
  <2>4. \A p \in Queue : (\E u \in Task : pc'[u] = "unlockRx" /\ call'[u].q = p) <=> p = q
    BY <1>1, <1>3, <2>2
  <2>5. \A p \in Queue : ~\E u \in Task : pc[u] = "unlockRx" /\ call[u].q = p
    BY <1>3, <1>7
  <2>6. QED
    BY <1>4, <1>5, <1>6, <2>1, <2>3, <2>4, <2>5 DEF Locks
<1>8. CASE /\ pc[t] = "unlockRx" /\ pc' = [pc EXCEPT ![t] = "resume"]
           /\ queue' = [queue EXCEPT ![q] = d]
  <2>1. \A p \in Queue : queue'[p] = IF p = q THEN d ELSE queue[p]
    BY <1>2, <1>8
  <2>2. \A u \in Task : pc'[u] = IF u = t THEN "resume" ELSE pc[u]
    BY <1>8 DEF SInv, KInv
  <2>3. \A p \in Queue : ~Inner(p)' /\ ~Inner(p)
    BY <1>1, <1>3, <1>8, <2>2 DEF Inner, Inside
  <2>4. ~\E u \in Task : pc'[u] = "unlockRx"
    BY <1>3, <2>2
  <2>5. \A p \in Queue : (\E u \in Task : pc[u] = "unlockRx" /\ call[u].q = p) <=> p = q
    BY <1>3, <1>8
  <2>6. QED
    BY <1>4, <1>5, <1>6, <2>1, <2>3, <2>4, <2>5 DEF Locks
<1>9. QED
  BY <1>1, <1>7, <1>8

LEMMA PostLocks ==
  ASSUME SInv, NEW q \in PostsTo, NEW item \in Posted, xQueueGenericSendFromISR(q, item)
  PROVE  /\ Locks' /\ q \in Queue
         /\ \A p \in Queue : p # q => queue'[p] = queue[p]
         /\ queue'[q].count = queue[q].count + 1
         /\ queue'[q].txLock = Counted(queue[q].txLock) /\ queue'[q].rxLock = queue[q].rxLock
<1> DEFINE d == prvCopyDataToQueue(queue[q], Length[q], item)
           b == [d EXCEPT !.txLock = Counted(@)]
<1>1. queue' = [queue EXCEPT ![q] = b] /\ UNCHANGED <<pc, call>> /\ ~prvIsQueueFull(q)
  BY DEF xQueueGenericSendFromISR
<1>2. q \in Queue /\ Ring(queue[q], Length[q]) /\ DOMAIN queue = Queue /\ item \in Item
  BY QueueAssumption DEF SInv, IInv, Rings
<1>3. queue[q].count < Length[q]
  BY <1>1, <1>2, Lengths DEF Ring, Buffer, prvIsQueueFull
<1>4. Ring(d, Length[q])
  BY <1>2, <1>3, Lengths, Put
<1>5. d.txLock = queue[q].txLock /\ d.rxLock = queue[q].rxLock /\ d.count = queue[q].count + 1
  BY <1>2, PutFields
<1> HIDE DEF d
<1>6. b.txLock = Counted(d.txLock) /\ b.rxLock = d.rxLock /\ b.count = d.count
  BY <1>4 DEF Ring, Buffer
<1> HIDE DEF b
<1>7. \A p \in Queue : queue'[p] = IF p = q THEN b ELSE queue[p]
  BY <1>1, <1>2
<1>8. \A p \in Queue : queue[p].count \in Nat
  BY Counts0 DEF SInv, IInv
<1>9. Locks'
  <2>1. \A p \in Queue : Inner(p)' <=> Inner(p)
    BY <1>1 DEF Inner
  <2>2. \A p \in Queue : (\E u \in Task : pc'[u] = "unlockRx" /\ call'[u].q = p) <=>
                           \E u \in Task : pc[u] = "unlockRx" /\ call[u].q = p
    BY <1>1
  <2>3. queue[q].txLock \in -1 .. queue[q].count
    BY <1>2 DEF SInv, Locks
  <2>4. /\ b.txLock \in -1 .. b.count /\ b.rxLock = queue[q].rxLock
        /\ b.txLock # -1 <=> queue[q].txLock # -1
    BY <1>2, <1>5, <1>6, <1>8, <2>3 DEF Counted, queueUNLOCKED
  <2>5. QED
    BY <1>7, <2>1, <2>2, <2>4 DEF SInv, Locks
<1>10. QED
  BY <1>2, <1>5, <1>6, <1>7, <1>9

(* The calls that leave the queue as it is.                                *)
LEMMA CallLocks ==
  ASSUME SInv, NEW t \in Task,
         \/ \E c \in Calls[t] : Request(t, c)
         \/ \E n \in Delays[t] : vTaskDelay(t, n)
         \/ Refused(t) \/ WillWait(t) \/ Suspend(t) \/ xTaskCheckForTimeOut(t) \/ Test(t)
         \/ Place(t) \/ InspectTx(t) \/ Resume(t) \/ Yield(t) \/ Sleep(t) \/ Awake(t)
         \/ Hold(t) \/ Unhold(t)
  PROVE  Locks'
<1>1. ASSUME NEW x, NEW c, UNCHANGED queue, pc' = [pc EXCEPT ![t] = x],
             call' = [call EXCEPT ![t] = c] \/ (UNCHANGED call /\ c = call[t]),
             pc[t] \notin Inside \cup {"unlockRx"}, x \notin Inside \cup {"unlockRx"}
      PROVE  Locks'
  BY <1>1, SameLocks
<1>2. CASE \E c \in Calls[t] : Request(t, c)
  <2>1. /\ UNCHANGED queue /\ pc[t] = "task" /\ pc' = [pc EXCEPT ![t] = "check"]
        /\ \E c : call' = [call EXCEPT ![t] = c]
    BY <1>2 DEF Request, At, Goto
  <2>2. QED
    BY <1>1, <2>1 DEF Inside
<1>3. CASE \E n \in Delays[t] : vTaskDelay(t, n)
  <2>1. /\ UNCHANGED queue /\ pc[t] = "task" /\ \E c : call' = [call EXCEPT ![t] = c]
        /\ \E x \in {"yield", "sleep"} : pc' = [pc EXCEPT ![t] = x]
    BY <1>3 DEF vTaskDelay, At, Goto
  <2>2. QED
    BY <1>1, <2>1 DEF Inside
<1>4. CASE Refused(t) \/ Awake(t)
  <2>1. /\ UNCHANGED queue /\ pc[t] \in {"check", "awake"} /\ pc' = [pc EXCEPT ![t] = "task"]
        /\ call' = [call EXCEPT ![t] = NoCall]
    BY <1>4 DEF Refused, Awake, Return, At, Goto
  <2>2. QED
    BY <1>1, <2>1 DEF Inside
<1>5. CASE WillWait(t)
  <2>1. /\ UNCHANGED queue /\ pc[t] = "check" /\ pc' = [pc EXCEPT ![t] = "suspend"]
        /\ call' = [call EXCEPT ![t] = Timed(call[t])]
    BY <1>5 DEF WillWait, At, Goto
  <2>2. QED
    BY <1>1, <2>1 DEF Inside
<1>6. CASE Suspend(t) \/ Hold(t) \/ Unhold(t) \/ Yield(t)
  <2>1. /\ UNCHANGED <<queue, call>> /\ pc[t] \in {"suspend", "task", "held", "yield"}
        /\ \E x \in {"lock", "held", "task", "check", "awake"} : pc' = [pc EXCEPT ![t] = x]
    BY <1>6 DEF Suspend, Hold, Unhold, Yield, After, At, Goto
  <2>2. QED
    BY <1>1, <2>1 DEF Inside
<1>7. CASE Sleep(t)
  <2>1. /\ UNCHANGED queue /\ pc[t] = "sleep" /\ pc' = [pc EXCEPT ![t] = "resume"]
        /\ \E c : call' = [call EXCEPT ![t] = c]
    BY <1>7 DEF Sleep, At, Goto
  <2>2. QED
    BY <1>1, <2>1 DEF Inside
<1>8. CASE Resume(t)
  <2>1. Fit("resume", call[t])
    BY <1>8, CallIs DEF Resume, At
  <2>2. /\ UNCHANGED queue /\ pc[t] = "resume"
        /\ \E x \in {"task", "check", "awake", "yield"} : pc' = [pc EXCEPT ![t] = x]
        /\ \E c : call' = [call EXCEPT ![t] = c] \/ (UNCHANGED call /\ c = call[t])
    BY <1>8, <2>1 DEF Resume, Fit, Leaving, After, At, Goto
  <2>3. QED
    BY <1>1, <2>2 DEF Inside
<1>9. CASE Place(t) \/ InspectTx(t)
  <2>1. /\ UNCHANGED <<queue, call>> /\ pc[t] \in {"place", "unlockTx"}
        /\ \E x \in {"unlockTx", "openTx"} : pc' = [pc EXCEPT ![t] = x]
    BY <1>9 DEF Place, InspectTx, At, Goto
  <2>2. QED
    BY <2>1, SameLocks DEF Inside
<1>10. CASE Test(t)
  <2>1. /\ UNCHANGED queue /\ pc[t] = "test"
        /\ \E x \in {"place", "unlockTx"} : pc' = [pc EXCEPT ![t] = x]
        /\ \E y : call' = [call EXCEPT ![t] = [call[t] EXCEPT !.then = y]]
    BY <1>10 DEF Test, At, Goto
  <2>2. \A y : [call[t] EXCEPT !.then = y].q = call[t].q
    BY CallIs, ThenSet
  <2>3. PICK x \in {"place", "unlockTx"} : pc' = [pc EXCEPT ![t] = x]
    BY <2>1
  <2>4. x \in Inside /\ pc[t] \in Inside /\ x # "unlockRx" /\ pc[t] # "unlockRx"
    BY <2>1 DEF Inside
  <2>5. PICK f : f.q = call[t].q /\ call' = [call EXCEPT ![t] = f]
    BY <2>1, <2>2
  <2>6. QED
    BY <2>1, <2>3, <2>4, <2>5, SameLocks
<1>11. CASE xTaskCheckForTimeOut(t)
  <2> DEFINE c == call[t]
             elapsed == (k.tick - c.tick) % TickModulus
             d == [c EXCEPT !.then = "late"]
             e == [c EXCEPT !.wait = @ - elapsed, !.tick = k.tick, !.over = k.overflows]
  <2>1. /\ UNCHANGED queue /\ pc[t] = "timeout"
        /\ \E x \in {"test", "unlockTx"} : pc' = [pc EXCEPT ![t] = x]
        /\ UNCHANGED call \/ call' = [call EXCEPT ![t] = d] \/ call' = [call EXCEPT ![t] = e]
    BY <1>11 DEF xTaskCheckForTimeOut, At, Goto
  <2> HIDE DEF elapsed
  <2>2. d.q = c.q /\ e.q = c.q
    BY CallIs, ThenSet DEF CallOK, CallFields
  <2> HIDE DEF d, e
  <2>3. PICK x \in {"test", "unlockTx"} : pc' = [pc EXCEPT ![t] = x]
    BY <2>1
  <2>4. x \in Inside /\ pc[t] \in Inside /\ x # "unlockRx" /\ pc[t] # "unlockRx"
    BY <2>1 DEF Inside
  <2>5. PICK f : /\ f.q = c.q
                 /\ call' = [call EXCEPT ![t] = f] \/ (UNCHANGED call /\ f = call[t])
    BY <2>1, <2>2
  <2>6. QED
    BY <2>1, <2>3, <2>4, <2>5, SameLocks
<1>12. QED
  BY <1>2, <1>3, <1>4, <1>5, <1>6, <1>7, <1>8, <1>9, <1>10, <1>11

LEMMA KernelStep == ASSUME SInv, [Next]_vars PROVE KInv' /\ Locks'
<1>1. IInv'
  BY Step DEF SInv
<1>2. CASE UNCHANGED vars
  BY <1>2 DEF vars, SInv, KInv, Locks, Inner, Born
<1>3. CASE Tick
  <2>1. Locks'
    BY <1>3 DEF Tick, SInv, Locks, Inner
  <2>2. QED
    BY <1>3, <2>1, TickKeeps
<1>4. CASE \E q \in PostsTo, item \in Posted : xQueueGenericSendFromISR(q, item)
  BY <1>4, PostKeeps, PostLocks
<1>5. ASSUME NEW t \in Task, Task1(t)
      PROVE  KInv' /\ Locks'
  <2>1. CASE \/ \E c \in Calls[t] : Request(t, c)
             \/ \E n \in Delays[t] : vTaskDelay(t, n)
             \/ Refused(t) \/ WillWait(t) \/ Suspend(t) \/ xTaskCheckForTimeOut(t) \/ Test(t)
             \/ Place(t) \/ InspectTx(t) \/ Resume(t) \/ Yield(t) \/ Sleep(t) \/ Awake(t)
             \/ Hold(t) \/ Unhold(t)
    <3>1. Locks'
      BY <2>1, CallLocks
    <3>2. KInv'
      BY <2>1, RequestKeeps, DelayKeeps, QuietReturn, WillWaitKeeps, SuspendKeeps,
         TimeOutKeeps, TestKeeps, PlaceKeeps, UnlockKeeps, ResumeKeeps, YieldKeeps,
         SleepKeeps, HoldKeeps, UnholdKeeps
    <3>3. QED
      BY <3>1, <3>2
  <2>2. CASE Sent(t) \/ Received(t)
    BY <1>1, <2>2, TransferLocks, SentKeeps, ReceivedKeeps
  <2>3. CASE prvLockQueue(t)
    BY <2>3, LockLocks, LockKeeps
  <2>4. CASE OpenTx(t) \/ UnlockRx(t)
    BY <2>4, UnlockLocks, LockKeeps, UnlockKeeps
  <2>5. ASSUME NEW u \in Task, SuspendTask(t, u) \/ ResumeTask(t, u)
        PROVE  KInv' /\ Locks'
    <3>1. Locks'
      BY <2>5 DEF SuspendTask, ResumeTask, SInv, Locks, Inner
    <3>2. QED
      BY <2>5, <3>1, SuspendTaskKeeps, ResumeTaskKeeps
  <2>6. ASSUME NEW u \in Task, Create(t, u)
        PROVE  KInv' /\ Locks'
    <3>1. UNCHANGED <<queue, call>> /\ pc[u] = "none" /\ pc' = [pc EXCEPT ![u] = "task"]
      BY <2>6 DEF Create, Goto
    <3>2. Locks'
      BY <3>1, SameLocks DEF Inside
    <3>3. QED
      BY <2>6, <3>2, CreateKeeps
  <2>7. QED
    BY <1>5, <2>1, <2>2, <2>3, <2>4, <2>5, <2>6 DEF Task1
<1>6. QED
  BY <1>2, <1>3, <1>4, <1>5 DEF Next, Interrupts

LEMMA StartKernel == ASSUME Init PROVE SInv
<1>1. PICK order \in Orders : k = vTaskStartScheduler(order)
  BY DEF Init
<1>2. /\ Good(k, Started) /\ IdleReady(k) /\ Fresh(k)
      /\ k.current \in Started /\ Ready(k, k.current)
  BY <1>1, StartGood DEF Orders
<1>3. /\ DOMAIN pc = Task /\ DOMAIN call = Task
      /\ \A t \in Task : pc[t] = IF t \in Started THEN "task" ELSE "none"
      /\ \A t \in Task : call[t] = NoCall
      /\ \A q \in Queue : queue[q] = xQueueCreate(Length[q])
  BY DEF Init
<1>4. Born = Started
  BY <1>3, TasksAssumption DEF Born
<1>5. \A t \in Task : pc[t] \notin OffTick /\ pc[t] \notin Settled
  BY <1>3 DEF OffTick, Inside, Leaving, Settled
<1>6. k.depth = 0 /\ k.pending = <<>>
  BY <1>2 DEF Fresh
<1>7. KInv
  <2>1. \A t \in Task : Fit(pc[t], call[t])
    BY <1>3, NoCallFits
  <2>2. k.current \in Task /\ pc[k.current] # "none"
    BY <1>2, <1>3, TasksAssumption
  <2>3. k.depth # 1
    BY <1>6
  <2>4. QED
    BY <1>2, <1>3, <1>4, <1>5, <1>6, <2>1, <2>2, <2>3 DEF KInv
<1>8. Locks
  <2>1. \A q \in Queue : /\ queue[q].txLock = -1 /\ queue[q].rxLock = -1
                         /\ queue[q].count = 0
    <3>1. \A n : /\ xQueueCreate(n).txLock = queueUNLOCKED
                 /\ xQueueCreate(n).rxLock = queueUNLOCKED /\ xQueueCreate(n).count = 0
      BY DEF xQueueCreate
    <3>2. QED
      BY <1>3, <3>1 DEF queueUNLOCKED
  <2>2. \A t \in Task : pc[t] \notin Inside /\ pc[t] # "unlockRx"
    BY <1>5 DEF OffTick, Leaving
  <2>3. QED
    BY <2>1, <2>2 DEF Locks, Inner
<1>9. QED
  BY <1>7, <1>8, Start DEF SInv

(* Every task that exists is in one list of tasks, once.                   *)
LEMMA HoldsOnce ==
  ASSUME NEW list \in Lists, NEW t
  PROVE  Holds(list, t) = IF Contains(list, t) THEN 1 ELSE 0
<1> DEFINE I == {i \in DOMAIN list : list[i] = t}
<1>1. list \in Seq(Members) /\ Once(list) /\ DOMAIN list = 1 .. Len(list)
  BY DEF Lists
<1>2. CASE Contains(list, t)
  <2>1. PICK i \in 1 .. Len(list) : list[i] = t
    BY <1>2 DEF Contains
  <2>2. I = {i}
    BY <1>1, <2>1 DEF Once
  <2>3. QED
    BY <1>2, <2>2, FS_Singleton DEF Holds
<1>3. CASE ~Contains(list, t)
  <2>1. I = {}
    BY <1>1, <1>3 DEF Contains
  <2>2. QED
    BY <1>3, <2>1, FS_EmptySet DEF Holds
<1>4. QED
  BY <1>2, <1>3

LEMMA KernelTyped == ASSUME SInv PROVE TypeOK
<1>1. \A q \in Queue : /\ queue[q].count \in 0 .. Length[q]
                       /\ queue[q].writeTo \in 0 .. Length[q] - 1
                       /\ queue[q].readFrom \in 0 .. Length[q] - 1
                       /\ queue[q].txLock \in -1 .. Length[q]
                       /\ queue[q].rxLock \in -1 .. Length[q]
  <2>1. ASSUME NEW q \in Queue
        PROVE  /\ queue[q].count \in 0 .. Length[q]
               /\ queue[q].writeTo \in 0 .. Length[q] - 1
               /\ queue[q].readFrom \in 0 .. Length[q] - 1
    BY DEF SInv, IInv, Rings, Ring, Buffer
  <2>2. ASSUME NEW q \in Queue
        PROVE  queue[q].txLock \in -1 .. Length[q] /\ queue[q].rxLock \in -1 .. Length[q]
    <3>1. /\ queue[q].txLock \in -1 .. queue[q].count /\ queue[q].rxLock \in -1 .. 0
          /\ Length[q] \in Nat
      BY Lengths DEF SInv, Locks
    <3>2. QED
      BY <2>1, <3>1
  <2>3. QED
    BY <2>1, <2>2
<1>2. k \in Kernel /\ Homes(k, Born)
  BY KernelOf DEF SInv
<1>3. k.tick \in 0 .. TickModulus - 1 /\ k.depth \in 0 .. 1 /\ k.current \in Task \cup {Idle}
  BY <1>2, KernelFields DEF Members
<1>4. ASSUME NEW t \in Task, pc[t] # "none"
      PROVE  Holding(t) = 1
  <2>1. t \in Born /\ t \in Members
    BY <1>4 DEF Born, Members
  <2>2. /\ k.delayed \in Lists /\ k.overflow \in Lists /\ k.suspended \in Lists
        /\ k.ready[Prio(t)] \in Lists
    BY <1>2, <2>1, KernelFields
  <2>3. /\ Holds(k.delayed, t) = IF Contains(k.delayed, t) THEN 1 ELSE 0
        /\ Holds(k.overflow, t) = IF Contains(k.overflow, t) THEN 1 ELSE 0
        /\ Holds(k.suspended, t) = IF Contains(k.suspended, t) THEN 1 ELSE 0
        /\ Holds(k.ready[Prio(t)], t) = IF Ready(k, t) THEN 1 ELSE 0
    BY <2>2, HoldsOnce DEF Ready
  <2>4. \/ Contains(k.delayed, t) \/ Contains(k.overflow, t)
        \/ Contains(k.suspended, t) \/ Ready(k, t)
    BY <1>2, <2>1 DEF Homes
  <2>5. /\ Contains(k.delayed, t) => /\ ~Contains(k.overflow, t)
                                     /\ ~Contains(k.suspended, t) /\ ~Ready(k, t)
        /\ Contains(k.overflow, t) => ~Contains(k.suspended, t) /\ ~Ready(k, t)
        /\ Contains(k.suspended, t) => ~Ready(k, t)
    BY <1>2, <2>1 DEF Homes
  <2>6. QED
    BY <2>3, <2>4, <2>5 DEF Holding
<1>5. QED
  BY <1>1, <1>3, <1>4 DEF TypeOK

(* The lists of tasks stay lists: whatever is created, suspended, resumed, *)
(* delayed or woken, also while the scheduler is suspended, a task that    *)
(* exists is in one list of tlskTCB and in it once; the ring of a queue    *)
(* stays in its storage, and a lock never counts more than the queue holds.*)
THEOREM TypeCorrect ==
  ASSUME PostsInUnlock = FALSE PROVE Spec => []TypeOK
<1>1. Init => SInv
  BY StartKernel
<1>2. SInv /\ [Next]_vars => SInv'
  BY Step, KernelStep DEF SInv
<1>3. SInv => TypeOK
  BY KernelTyped
<1>4. QED
  BY <1>1, <1>2, <1>3, PTL DEF Spec

-----------------------------------------------------------------------------
(* No wake-up is lost.  Who is on the way to take an item or a place is a  *)
(* set of tasks, and the proof counts it.                                  *)
LEMMA Counting ==
  ASSUME NEW A \in SUBSET Task
  PROVE  IsFiniteSet(A) /\ Cardinality(A) \in Nat
BY TasksAssumption, FS_Subset, FS_CardinalityType

LEMMA NoFewer ==
  ASSUME NEW B \in SUBSET Task, NEW A \in SUBSET B
  PROVE  Cardinality(A) <= Cardinality(B)
BY Counting, FS_Subset

LEMMA OneMore ==
  ASSUME NEW B \in SUBSET Task, NEW A \in SUBSET B, NEW h \in B, h \notin A
  PROVE  Cardinality(A) + 1 <= Cardinality(B)
<1>1. A \in SUBSET Task /\ A \cup {h} \in SUBSET B /\ A \cup {h} \in SUBSET Task
  OBVIOUS
<1>2. Cardinality(A \cup {h}) = Cardinality(A) + 1
  BY <1>1, Counting, FS_AddElement
<1>3. QED
  BY <1>1, <1>2, NoFewer

LEMMA OneFewer ==
  ASSUME NEW B \in SUBSET Task, NEW A \in SUBSET Task, NEW t, A \ {t} \in SUBSET B
  PROVE  Cardinality(A) <= Cardinality(B) + 1
<1>1. CASE t \in A
  <2>1. Cardinality(A \ {t}) = Cardinality(A) - 1
    BY <1>1, Counting, FS_RemoveElement
  <2>2. Cardinality(A) \in Nat /\ Cardinality(B) \in Nat
    BY Counting
  <2>3. Cardinality(A \ {t}) <= Cardinality(B)
    BY NoFewer
  <2>4. QED
    BY <2>1, <2>2, <2>3
<1>2. CASE t \notin A
  <2>1. A \in SUBSET B
    BY <1>2
  <2>2. Cardinality(A) \in Nat /\ Cardinality(B) \in Nat
    BY Counting
  <2>3. QED
    BY <2>1, <2>2, NoFewer
<1>3. QED
  BY <1>1, <1>2

LEMMA ManyMore ==
  ASSUME NEW B \in SUBSET Task, NEW A \in SUBSET B, NEW w \in Lists, NEW n \in 0 .. Len(w),
         \A i \in 1 .. n : w[i] \in B /\ w[i] \notin A
  PROVE  Cardinality(A) + n <= Cardinality(B)
<1> DEFINE C(m) == A \cup {w[i] : i \in 1 .. m}
           T == {m \in Nat : m <= n => Cardinality(C(m)) = Cardinality(A) + m}
<1>1. /\ w \in Seq(Members) /\ Len(w) \in Nat /\ n \in Nat
      /\ \A i, j \in 1 .. n : w[i] = w[j] => i = j
  <2>1. w \in Seq(Members) /\ Once(w)
    BY DEF Lists
  <2>2. Len(w) \in Nat
    BY <2>1
  <2>3. QED
    BY <2>1, <2>2 DEF Once
<1>2. Cardinality(A) \in Nat
  BY Counting
<1>3. 0 \in T
  <2>1. C(0) = A
    OBVIOUS
  <2>2. QED
    BY <1>2, <2>1
<1>4. ASSUME NEW m \in Nat, m \in T PROVE m + 1 \in T
  <2> SUFFICES ASSUME m + 1 <= n PROVE Cardinality(C(m + 1)) = Cardinality(A) + (m + 1)
    OBVIOUS
  <2>1. m <= n /\ m + 1 \in 1 .. n /\ \A i \in 1 .. m : i \in 1 .. n /\ i # m + 1
    BY <1>1
  <2>2. Cardinality(C(m)) = Cardinality(A) + m
    BY <1>4, <2>1
  <2>3. C(m) \in SUBSET Task /\ w[m + 1] \notin C(m)
    BY <1>1, <2>1
  <2>4. C(m + 1) = C(m) \cup {w[m + 1]}
    <3>1. \A i \in 1 .. m + 1 : i \in 1 .. m \/ i = m + 1
      OBVIOUS
    <3>2. m + 1 \in 1 .. m + 1 /\ \A i \in 1 .. m : i \in 1 .. m + 1
      OBVIOUS
    <3>3. QED
      BY <3>1, <3>2
  <2> HIDE DEF C
  <2>5. Cardinality(C(m) \cup {w[m + 1]}) = Cardinality(C(m)) + 1
    BY <2>3, Counting, FS_AddElement
  <2>6. Cardinality(C(m + 1)) = (Cardinality(A) + m) + 1
    BY <2>2, <2>4, <2>5
  <2>7. QED
    BY <1>2, <2>6
<1> HIDE DEF T
<1>5. n \in T
  BY <1>1, <1>3, <1>4, Induction
<1>6. Cardinality(C(n)) = Cardinality(A) + n
  BY <1>1, <1>5 DEF T
<1>7. C(n) \in SUBSET B
  OBVIOUS
<1>8. QED
  BY <1>6, <1>7, NoFewer

-----------------------------------------------------------------------------
(* What a task that waits on one side of a queue waits for.                *)
Available(q, side) ==
  IF side = "receive" THEN queue[q].count ELSE Length[q] - queue[q].count

(* The tasks that the unlocking of the queue will yet wake.                *)
ToWake(q, side) ==
  IF side = "receive" /\ queue[q].txLock > 0 /\ ~\E t \in Task : pc[t] = "openTx"
  THEN queue[q].txLock ELSE 0

(* From here a task looks at the queue again before it blocks.             *)
LooksAgain(place, c) ==
  \/ place \in {"check", "yield"}
  \/ place \in Leaving /\ c.then \in {"check", "yield"}

Takers(q, side) ==
  {t \in Task : /\ call[t].op = side /\ call[t].q = q /\ LooksAgain(pc[t], call[t])
                /\ ~Contains(k.waiting[q][side], t)}

Enough(q, side) ==
  k.waiting[q][side] # <<>> => Available(q, side) <= Cardinality(Takers(q, side)) + ToWake(q, side)

(* A task that waits is in a call for that queue, and looks again.         *)
Waiter(q, side, t) ==
  Contains(k.waiting[q][side], t) =>
    /\ call[t].op = side /\ call[t].q = q /\ LooksAgain(pc[t], call[t])
    /\ pc[t] \in Leaving => call[t].then = "yield"

(* Nothing came since the test but what the lock has counted.              *)
Placing(t) ==
  pc[t] = "place" => Available(call[t].q, call[t].op) <= ToWake(call[t].q, call[t].op)

WInv ==
  /\ \A q \in Queue, side \in Sides : Enough(q, side)
  /\ \A q \in Queue, side \in Sides : \A t \in Task : Waiter(q, side, t)
  /\ \A t \in Task : Placing(t)

Same == \A p \in Queue : queue'[p].count = queue[p].count
Shrinks == \A p \in Queue, s \in Sides : \A u :
             Contains(k'.waiting[p][s], u) => Contains(k.waiting[p][s], u)

LEMMA Amounts ==
  ASSUME SInv, NEW q \in Queue, NEW side \in Sides
  PROVE  /\ Available(q, side) \in Nat /\ ToWake(q, side) \in Nat
         /\ k.waiting[q][side] \in Lists /\ Takers(q, side) \in SUBSET Task
         /\ Cardinality(Takers(q, side)) \in Nat
<1>1. queue[q].count \in 0 .. Length[q] /\ Length[q] \in Nat /\ queue[q].txLock \in -1 .. queue[q].count
  BY Lengths DEF SInv, IInv, Rings, Ring, Buffer, Locks
<1>2. k.waiting[q][side] \in Lists
  BY KernelOf, KernelFields DEF SInv
<1>3. Takers(q, side) \in SUBSET Task
  BY DEF Takers
<1>4. QED
  BY <1>1, <1>2, <1>3, Counting DEF Available, ToWake

LEMMA AmountsNext ==
  ASSUME SInv', NEW q \in Queue, NEW side \in Sides
  PROVE  /\ Available(q, side)' \in Nat /\ ToWake(q, side)' \in Nat
         /\ k'.waiting[q][side] \in Lists /\ Takers(q, side)' \in SUBSET Task
         /\ Cardinality(Takers(q, side)') \in Nat
<1>1. /\ queue'[q].count \in 0 .. Length[q] /\ Length[q] \in Nat
      /\ queue'[q].txLock \in -1 .. queue'[q].count
  BY Lengths DEF SInv, IInv, Rings, Ring, Buffer, Locks
<1>2. k'.waiting[q][side] \in Lists
  <2>1. k' \in Kernel
    BY DEF SInv, KInv, Good
  <2>2. QED
    BY <2>1, KernelFields
<1>3. Takers(q, side)' \in SUBSET Task
  BY DEF Takers
<1>4. QED
  BY <1>1, <1>2, <1>3, Counting DEF Available, ToWake

(* Nobody who waits appears, nobody on the way is lost.                    *)
LEMMA EnoughStill ==
  ASSUME SInv, SInv', NEW q \in Queue, NEW side \in Sides, Enough(q, side),
         k'.waiting[q][side] # <<>> => k.waiting[q][side] # <<>>,
         Available(q, side)' <= Available(q, side), ToWake(q, side)' >= ToWake(q, side),
         Takers(q, side) \subseteq Takers(q, side)'
  PROVE  Enough(q, side)'
<1> DEFINE A == Takers(q, side)
           B == Takers(q, side)'
<1>1. /\ Available(q, side) \in Nat /\ ToWake(q, side) \in Nat /\ Cardinality(A) \in Nat
      /\ Available(q, side)' \in Nat /\ ToWake(q, side)' \in Nat /\ Cardinality(B) \in Nat
      /\ B \in SUBSET Task /\ A \in SUBSET B
  BY Amounts, AmountsNext
<1>2. Cardinality(A) <= Cardinality(B)
  <2> HIDE DEF A, B
  <2>1. QED
    BY <1>1, NoFewer
<1>3. Enough(q, side)' <=>
        (k'.waiting[q][side] # <<>> => Available(q, side)' <= Cardinality(B) + ToWake(q, side)')
  BY DEF Enough
<1>4. k.waiting[q][side] # <<>> => Available(q, side) <= Cardinality(A) + ToWake(q, side)
  BY DEF Enough
<1> HIDE DEF A, B
<1>5. QED
  BY <1>1, <1>2, <1>3, <1>4

LEMMA Empty ==
  ASSUME NEW s \in Lists
  PROVE  s = <<>> <=> \A u : ~Contains(s, u)
BY EmptyList, NothingListed

(* Fewer tasks wait, for the same.                                         *)
LEMMA ShrinksTo ==
  ASSUME SInv, SInv', Shrinks, NEW q \in Queue, NEW side \in Sides
  PROVE  k'.waiting[q][side] # <<>> => k.waiting[q][side] # <<>>
<1>1. k'.waiting[q][side] \in Lists /\ k.waiting[q][side] \in Lists
  BY Amounts, AmountsNext
<1>2. \A u : Contains(k'.waiting[q][side], u) => Contains(k.waiting[q][side], u)
  BY DEF Shrinks
<1>3. QED
  BY <1>1, <1>2, Empty

LEMMA SameAmounts ==
  ASSUME Same, NEW q \in Queue, NEW side
  PROVE  Available(q, side)' = Available(q, side)
BY DEF Same, Available

LEMMA Lingers ==
  ASSUME SInv, SInv', WInv, UNCHANGED <<queue, pc, call>>, Shrinks
  PROVE  WInv'
<1>1. ASSUME NEW q \in Queue, NEW side \in Sides PROVE Enough(q, side)'
  <2>1. Available(q, side)' = Available(q, side) /\ ToWake(q, side)' = ToWake(q, side)
    BY DEF Available, ToWake
  <2>2. Takers(q, side) \subseteq Takers(q, side)'
    BY DEF Takers, Shrinks
  <2>3. Enough(q, side) /\ Available(q, side) \in Nat /\ ToWake(q, side) \in Nat
    BY Amounts DEF WInv
  <2>4. Available(q, side)' <= Available(q, side) /\ ToWake(q, side)' >= ToWake(q, side)
    BY <2>1, <2>3
  <2>5. k'.waiting[q][side] # <<>> => k.waiting[q][side] # <<>>
    BY ShrinksTo
  <2>6. QED
    BY <2>2, <2>3, <2>4, <2>5, EnoughStill
<1>2. ASSUME NEW q \in Queue, NEW side \in Sides, NEW t \in Task PROVE Waiter(q, side, t)'
  BY DEF WInv, Waiter, Shrinks
<1>3. ASSUME NEW t \in Task PROVE Placing(t)'
  BY DEF WInv, Placing, Available, ToWake
<1>4. QED
  BY <1>1, <1>2, <1>3 DEF WInv

Upheld == \A p \in Queue, s \in Sides : ToWake(p, s)' = ToWake(p, s)

(* Task t goes from its place to x, with the call c.                       *)
Goes(t, x, c) ==
  /\ pc' = [pc EXCEPT ![t] = x]
  /\ call' = [call EXCEPT ![t] = c] \/ (UNCHANGED call /\ c = call[t])

Faithful(t, x, c) == c.op = call[t].op /\ c.q = call[t].q /\ LooksAgain(x, c)

LEMMA GoesTo ==
  ASSUME SInv, NEW t \in Task, NEW x, NEW c, Goes(t, x, c)
  PROVE  /\ pc'[t] = x /\ call'[t] = c
         /\ \A u \in Task : u # t => pc'[u] = pc[u] /\ call'[u] = call[u]
BY DEF SInv, KInv, Goes

LEMMA NoPlace ==
  ASSUME SInv, NEW t \in Task, k.current = t
  PROVE  \A u \in Task : u # t => pc[u] # "place"
BY DEF SInv, KInv, OffTick, Inside

(* A task that goes on is still on the way, or there is nothing to take.   *)
LEMMA Onward ==
  ASSUME SInv, SInv', WInv, Same, Shrinks, Upheld,
         NEW t \in Task, NEW x, NEW c, Goes(t, x, c),
         \A u \in Task : u # t => pc[u] # "place",
         x = "place" => c.q \in Queue /\ c.op \in Sides /\ Available(c.q, c.op) = 0,
         Waits(k, t) => Faithful(t, x, c) /\ (x \in Leaving => c.then = "yield"),
         LooksAgain(pc[t], call[t]) => \/ call[t].op \notin Sides
                                       \/ Available(call[t].q, call[t].op) = 0
                                       \/ Faithful(t, x, c)
  PROVE  WInv'
<1>1. /\ pc'[t] = x /\ call'[t] = c
      /\ \A u \in Task : u # t => pc'[u] = pc[u] /\ call'[u] = call[u]
  BY GoesTo
<1>2. ASSUME NEW q \in Queue, NEW side \in Sides PROVE Enough(q, side)'
  <2>1. Available(q, side)' = Available(q, side) /\ ToWake(q, side)' = ToWake(q, side)
    BY SameAmounts DEF Upheld
  <2>2. Enough(q, side) /\ Available(q, side) \in Nat /\ ToWake(q, side) \in Nat
        /\ Cardinality(Takers(q, side)') \in Nat
    BY Amounts, AmountsNext DEF WInv
  <2>3. CASE t \in Takers(q, side) /\ Available(q, side) = 0
    BY <2>1, <2>2, <2>3 DEF Enough
  <2>4. CASE ~(t \in Takers(q, side) /\ Available(q, side) = 0)
    <3>1. ASSUME NEW u \in Takers(q, side) PROVE u \in Takers(q, side)'
      <4>1. /\ u \in Task /\ call[u].op = side /\ call[u].q = q /\ LooksAgain(pc[u], call[u])
            /\ ~Contains(k'.waiting[q][side], u)
        BY <3>1 DEF Takers, Shrinks
      <4>2. CASE u = t
        <5>1. Faithful(t, x, c)
          BY <2>4, <4>1, <4>2
        <5>2. QED
          BY <1>1, <4>1, <4>2, <5>1 DEF Takers, Faithful
      <4>3. CASE u # t
        BY <1>1, <4>1, <4>3 DEF Takers
      <4>4. QED
        BY <4>2, <4>3
    <3>2. Takers(q, side) \subseteq Takers(q, side)'
      BY <3>1
    <3>3. Available(q, side)' <= Available(q, side) /\ ToWake(q, side)' >= ToWake(q, side)
      BY <2>1, <2>2
    <3>4. k'.waiting[q][side] # <<>> => k.waiting[q][side] # <<>>
      BY ShrinksTo
    <3>5. QED
      BY <2>2, <3>2, <3>3, <3>4, EnoughStill
  <2>5. QED
    BY <2>3, <2>4
<1>3. ASSUME NEW q \in Queue, NEW side \in Sides, NEW u \in Task PROVE Waiter(q, side, u)'
  <2> SUFFICES ASSUME Contains(k'.waiting[q][side], u) PROVE Waiter(q, side, u)'
    BY DEF Waiter
  <2>1. Contains(k.waiting[q][side], u)
    BY DEF Shrinks
  <2>2. Waiter(q, side, u)
    BY DEF WInv
  <2>3. CASE u = t
    <3>1. Waits(k, t)
      BY <2>1, <2>3 DEF Waits
    <3>2. QED
      BY <1>1, <2>1, <2>2, <2>3, <3>1 DEF Waiter, Faithful
  <2>4. CASE u # t
    BY <1>1, <2>1, <2>2, <2>4 DEF Waiter
  <2>5. QED
    BY <2>3, <2>4
<1>4. ASSUME NEW u \in Task PROVE Placing(u)'
  <2> SUFFICES ASSUME pc'[u] = "place" PROVE Placing(u)'
    BY DEF Placing
  <2>1. u = t /\ x = "place"
    BY <1>1
  <2>2. Available(c.q, c.op)' = 0 /\ ToWake(c.q, c.op)' \in Nat
    BY <2>1, SameAmounts, AmountsNext
  <2>3. call'[u] = c
    BY <1>1, <2>1
  <2>4. QED
    BY <2>2, <2>3 DEF Placing, Available, ToWake
<1>5. QED
  BY <1>2, <1>3, <1>4 DEF WInv

LEMMA ReadyHere ==
  ASSUME SInv, NEW t \in Task, k.current = t, ~Away(pc[t], call[t])
  PROVE  Ready(k, t) /\ ~Waits(k, t)
<1>1. Ready(k, t)
  BY Running DEF SInv
<1>2. Events(k, Born) /\ t \in Members
  BY KernelOf DEF SInv, Members
<1>3. QED
  BY <1>1, <1>2 DEF Events, Waits

(* Places where the task is neither on a list of a queue nor on its way to *)
(* take what is in it.                                                     *)
Plain == {"task", "awake", "suspend", "lock", "timeout", "test", "sleep", "held"}

LEMMA PlainStep ==
  ASSUME SInv, SInv', WInv, Same, Shrinks, Upheld,
         NEW t \in Task, NEW x, NEW c, Goes(t, x, c), k.current = t, pc[t] \in Plain,
         x = "place" => c.q \in Queue /\ c.op \in Sides /\ Available(c.q, c.op) = 0
  PROVE  WInv'
<1>1. ~LooksAgain(pc[t], call[t]) /\ ~Away(pc[t], call[t])
  BY DEF Plain, LooksAgain, Away, Leaving
<1>2. ~Waits(k, t)
  BY <1>1, ReadyHere
<1>3. \A u \in Task : u # t => pc[u] # "place"
  BY NoPlace
<1>4. QED
  BY <1>1, <1>2, <1>3, Onward

LEMMA QueueStays ==
  ASSUME SInv, UNCHANGED queue, NEW t \in Task, NEW x, NEW c, Goes(t, x, c),
         pc[t] # "openTx", x # "openTx"
  PROVE  Same /\ Upheld
<1>1. /\ pc'[t] = x
      /\ \A u \in Task : u # t => pc'[u] = pc[u]
  BY GoesTo
<1>2. (\E u \in Task : pc'[u] = "openTx") <=> \E u \in Task : pc[u] = "openTx"
  BY <1>1
<1>3. QED
  BY <1>2 DEF Same, Upheld, ToWake

LEMMA KernelStays == ASSUME UNCHANGED k PROVE Shrinks
BY DEF Shrinks

LEMMA WaitingStays == ASSUME k'.waiting = k.waiting PROVE Shrinks
BY DEF Shrinks

LEMMA TaskWakes ==
  ASSUME SInv, SInv', WInv, NEW t \in Task,
         \/ \E c \in Calls[t] : Request(t, c)
         \/ \E n \in Delays[t] : vTaskDelay(t, n)
         \/ Awake(t) \/ Hold(t) \/ Suspend(t) \/ xTaskCheckForTimeOut(t)
  PROVE  WInv'
<1>1. PICK x, c : Goes(t, x, c) /\ x \notin {"place", "openTx"}
  <2>1. CASE \E c \in Calls[t] : Request(t, c)
    <3>1. pc' = [pc EXCEPT ![t] = "check"] /\ \E c : call' = [call EXCEPT ![t] = c]
      BY <2>1 DEF Request, Goto
    <3>2. PICK c : call' = [call EXCEPT ![t] = c]
      BY <3>1
    <3>3. Goes(t, "check", c)
      BY <3>1, <3>2 DEF Goes
    <3>4. QED
      BY <3>3
  <2>2. CASE \E n \in Delays[t] : vTaskDelay(t, n)
    <3>1. /\ \E x \in {"yield", "sleep"} : pc' = [pc EXCEPT ![t] = x]
          /\ \E c : call' = [call EXCEPT ![t] = c]
      BY <2>2 DEF vTaskDelay, Goto
    <3>2. QED
      BY <3>1 DEF Goes
  <2>3. CASE Awake(t) \/ Hold(t) \/ Suspend(t)
    BY <2>3 DEF Awake, Return, Hold, Suspend, Goto, Goes
  <2>4. CASE xTaskCheckForTimeOut(t)
    <3>1. /\ \E x \in {"test", "unlockTx"} : pc' = [pc EXCEPT ![t] = x]
          /\ \E c : call' = [call EXCEPT ![t] = c] \/ (UNCHANGED call /\ c = call[t])
      BY <2>4 DEF xTaskCheckForTimeOut, Goto
    <3>2. PICK x \in {"test", "unlockTx"} : pc' = [pc EXCEPT ![t] = x]
      BY <3>1
    <3>3. PICK c : call' = [call EXCEPT ![t] = c] \/ (UNCHANGED call /\ c = call[t])
      BY <3>1
    <3>4. Goes(t, x, c) /\ x \notin {"place", "openTx"}
      BY <3>2, <3>3 DEF Goes
    <3>5. QED
      BY <3>4
  <2>5. QED
    BY <2>1, <2>2, <2>3, <2>4
<1>2. /\ k.current = t /\ pc[t] \in {"task", "awake", "suspend", "timeout"} /\ UNCHANGED queue
      /\ UNCHANGED k \/ (pc[t] \in {"task", "suspend"} /\ k' = vTaskSuspendAll(k))
  BY DEF Request, vTaskDelay, Awake, Hold, Suspend, xTaskCheckForTimeOut, At, Return
<1>3. pc[t] \in Plain
  BY <1>2 DEF Plain
<1>4. Shrinks
  <2>1. CASE UNCHANGED k
    BY <2>1, KernelStays
  <2>2. CASE pc[t] \in {"task", "suspend"} /\ k' = vTaskSuspendAll(k)
    <3>1. k.depth = 0 /\ Ready(k, t)
      BY <1>2, <2>2, Running DEF SInv, OffTick, Inside, Leaving, Away
    <3>2. k'.waiting = k.waiting
      BY <1>2, <2>2, <3>1, HeldGood DEF SInv
    <3>3. QED
      BY <3>2, WaitingStays
  <2>3. QED
    BY <1>2, <2>1, <2>2
<1>5. Same /\ Upheld
  BY <1>1, <1>2, QueueStays
<1>6. QED
  BY <1>1, <1>2, <1>3, <1>4, <1>5, PlainStep

LEMMA SleepWakes == ASSUME SInv, SInv', WInv, NEW t \in Task, Sleep(t) PROVE WInv'
<1> DEFINE n == call[t].wait
           r == Asleep(k, t, n)
<1>1. PICK c : Goes(t, "resume", c)
  BY DEF Sleep, Goto, Goes
<1>2. k.current = t /\ pc[t] = "sleep" /\ UNCHANGED queue /\ k' = r
  BY DEF Sleep, At
<1>3. Shrinks
  <2>1. n \in Nat /\ t \in Born
    BY <1>2, CallIs, Running DEF Fit, SInv
  <2>2. k \in Kernel /\ Homes(k, Born) /\ Born \in SUBSET Task
    BY KernelOf DEF SInv
  <2> HIDE DEF n
  <2>3. /\ r \in Kernel /\ Homes(r, Born) /\ SameRun(k, r)
        /\ r.pending = k.pending /\ r.waiting = k.waiting
        /\ IdleReady(k) => IdleReady(r)
        /\ \A u \in Members : Ready(r, u) <=> Ready(k, u) /\ u # t
    BY <2>1, <2>2, AsleepHomes
  <2> HIDE DEF r
  <2>4. QED
    BY <1>2, <2>3, WaitingStays
<1>4. Same /\ Upheld
  BY <1>1, <1>2, QueueStays
<1>5. pc[t] \in Plain
  BY <1>2 DEF Plain
<1>6. QED
  BY <1>1, <1>2, <1>3, <1>4, <1>5, PlainStep

(* What xTaskResumeAll does to the lists of the queues.                    *)
LEMMA ResumeShrinks ==
  ASSUME SInv, k.depth = 1, k' = xTaskResumeAll(k)
  PROVE  Shrinks
<1> DEFINE r == xTaskResumeAll(k)
<1>1. Good(k, Born) /\ IdleReady(k) /\ Born \in SUBSET Task
  BY KernelOf DEF SInv, KInv
<1>2. /\ Good(r, Born) /\ IdleReady(r) /\ Grows(k, r) /\ r.depth = 0 /\ r.pending = <<>>
      /\ IF MustYield(k) THEN Ready(r, r.current) ELSE r.current = k.current
  BY <1>1, ResumeAllGood
<1> HIDE DEF r
<1>3. QED
  BY <1>2 DEF Grows, Shrinks, r

LEMMA UnholdWakes == ASSUME SInv, SInv', WInv, NEW t \in Task, Unhold(t) PROVE WInv'
<1>1. Goes(t, "task", call[t])
  BY DEF Unhold, Goto, Goes
<1>2. k.current = t /\ pc[t] = "held" /\ UNCHANGED queue /\ k' = xTaskResumeAll(k)
  BY DEF Unhold, At
<1>3. k.depth = 1 /\ pc[t] \in Plain
  BY <1>2, Running DEF SInv, OffTick, Plain
<1>4. Shrinks
  BY <1>2, <1>3, ResumeShrinks
<1>5. Same /\ Upheld
  BY <1>1, <1>2, QueueStays
<1>6. QED
  BY <1>1, <1>2, <1>3, <1>4, <1>5, PlainStep

LEMMA BlockedIs ==
  ASSUME NEW c, c.op \in Ops, Blocked(c), c.q \in Queue, SInv
  PROVE  c.op \in Sides /\ Available(c.q, c.op) = 0
<1>1. queue[c.q].count \in Nat
  BY Counts0 DEF SInv, IInv
<1>2. QED
  BY <1>1 DEF Blocked, prvIsQueueFull, prvIsQueueEmpty, Available, Ops, Sides

LEMMA TestWakes == ASSUME SInv, SInv', WInv, NEW t \in Task, Test(t) PROVE WInv'
<1> DEFINE blocked == Blocked(call[t])
           x == IF blocked THEN "place" ELSE "unlockTx"
           d == [call[t] EXCEPT !.then = IF blocked THEN "yield" ELSE "check"]
<1>1. Goes(t, x, d)
  BY DEF Test, Goto, Goes
<1>2. k.current = t /\ pc[t] = "test" /\ UNCHANGED queue /\ UNCHANGED k
  BY DEF Test, At
<1>3. d.op = call[t].op /\ d.q = call[t].q
  BY CallIs, ThenSet
<1>4. call[t].op \in Ops /\ call[t].q \in Queue
  BY <1>2, CallIs DEF Fit, Asking, Inside
<1>5. x = "place" => d.q \in Queue /\ d.op \in Sides /\ Available(d.q, d.op) = 0
  BY <1>3, <1>4, BlockedIs
<1> HIDE DEF d
<1>6. Same /\ Upheld /\ Shrinks
  BY <1>1, <1>2, QueueStays, KernelStays
<1>7. pc[t] \in Plain
  BY <1>2 DEF Plain
<1> HIDE DEF x
<1>8. QED
  BY <1>1, <1>2, <1>5, <1>6, <1>7, PlainStep

LEMMA CheckWakes ==
  ASSUME SInv, SInv', WInv, NEW t \in Task, Refused(t) \/ WillWait(t)
  PROVE  WInv'
<1>1. PICK x, c : Goes(t, x, c) /\ x \notin {"place", "openTx"}
  BY DEF Refused, WillWait, Return, Goto, Goes
<1>2. k.current = t /\ pc[t] = "check" /\ Blocked(call[t]) /\ UNCHANGED queue /\ UNCHANGED k
  BY DEF Refused, WillWait, At
<1>3. call[t].op \in Ops /\ call[t].q \in Queue
  BY <1>2, CallIs DEF Fit, Asking, Inside
<1>4. Available(call[t].q, call[t].op) = 0
  BY <1>2, <1>3, BlockedIs
<1>5. Same /\ Upheld /\ Shrinks
  BY <1>1, <1>2, QueueStays, KernelStays
<1>6. ~Waits(k, t)
  BY <1>2, ReadyHere DEF Away, Leaving
<1>7. \A u \in Task : u # t => pc[u] # "place"
  BY <1>2, NoPlace
<1>8. QED
  BY <1>1, <1>4, <1>5, <1>6, <1>7, Onward

(* The steps on the locks, which are the running task's.                   *)
LEMMA LocksNow ==
  ASSUME SInv, NEW t \in Task, k.current = t, NEW q \in Queue
  PROVE  queue[q].txLock # -1 => q = call[t].q /\ pc[t] \in Inside
<1>1. \A u \in Task : u # t => pc[u] \notin Inside
  BY Alone DEF SInv, OffTick
<1>2. QED
  BY <1>1 DEF SInv, Locks, Inner

LEMMA LockWakes == ASSUME SInv, SInv', WInv, NEW t \in Task, prvLockQueue(t) PROVE WInv'
<1> DEFINE q == call[t].q
           b == [queue[q] EXCEPT !.rxLock = Locked(@), !.txLock = Locked(@)]
<1>1. /\ k.current = t /\ pc[t] = "lock" /\ Goes(t, "timeout", call[t]) /\ UNCHANGED k
      /\ queue' = [queue EXCEPT ![q] = b]
  BY DEF prvLockQueue, At, Goto, Goes
<1>2. q \in Queue /\ Ring(queue[q], Length[q]) /\ DOMAIN queue = Queue
  BY CallIs DEF SInv, IInv, Rings
<1>3. \A p \in Queue : queue[p].txLock = -1
  BY <1>1, LocksNow DEF Inside
<1>4. b.txLock = 0 /\ b.count = queue[q].count
  BY <1>2, <1>3 DEF Ring, Buffer, Locked, queueUNLOCKED, queueLOCKED_UNMODIFIED
<1> HIDE DEF b
<1>5. \A p \in Queue : queue'[p].count = queue[p].count /\ queue'[p].txLock \in {-1, 0}
  BY <1>1, <1>2, <1>3, <1>4
<1>6. Same /\ Upheld /\ Shrinks
  BY <1>1, <1>3, <1>5, KernelStays DEF Same, Upheld, ToWake
<1>7. pc[t] \in Plain
  BY <1>1 DEF Plain
<1>8. QED
  BY <1>1, <1>6, <1>7, PlainStep

(* From the list of the queue, or past it, to the next look.               *)
LEMMA LeavingStep ==
  ASSUME SInv, SInv', WInv, Same, Shrinks, Upheld,
         NEW t \in Task, NEW x, Goes(t, x, call[t]), k.current = t,
         pc[t] \in Leaving \cup {"yield"}, x # "place",
         LooksAgain(pc[t], call[t]) /\ call[t].op \in Sides => LooksAgain(x, call[t]),
         x \in Leaving => pc[t] \in Leaving
  PROVE  WInv'
<1>1. \A u \in Task : u # t => pc[u] # "place"
  BY NoPlace
<1>2. Waits(k, t) => /\ call[t].op \in Sides /\ LooksAgain(pc[t], call[t])
                     /\ pc[t] \in Leaving => call[t].then = "yield"
  BY DEF Waits, WInv, Waiter
<1>3. Waits(k, t) => Faithful(t, x, call[t]) /\ (x \in Leaving => call[t].then = "yield")
  BY <1>2 DEF Faithful
<1>4. LooksAgain(pc[t], call[t]) => \/ call[t].op \notin Sides
                                    \/ Available(call[t].q, call[t].op) = 0
                                    \/ Faithful(t, x, call[t])
  BY DEF Faithful
<1>5. QED
  BY <1>1, <1>3, <1>4, Onward

LEMMA OpenWakes == ASSUME SInv, SInv', WInv, NEW t \in Task, OpenTx(t) PROVE WInv'
<1> DEFINE q == call[t].q
           b == [queue[q] EXCEPT !.txLock = queueUNLOCKED]
<1>1. /\ k.current = t /\ pc[t] = "openTx" /\ Goes(t, "unlockRx", call[t]) /\ UNCHANGED k
      /\ queue' = [queue EXCEPT ![q] = b]
  BY DEF OpenTx, At, Goto, Goes
<1>2. q \in Queue /\ Ring(queue[q], Length[q]) /\ DOMAIN queue = Queue
  BY CallIs DEF SInv, IInv, Rings
<1>3. b.txLock = -1 /\ b.count = queue[q].count
  BY <1>2 DEF Ring, Buffer, queueUNLOCKED
<1> HIDE DEF b
<1>4. \A p \in Queue : p # q => queue[p].txLock = -1
  BY <1>1, LocksNow
<1>5. \A p \in Queue : queue'[p].count = queue[p].count /\ queue'[p].txLock = -1
  BY <1>1, <1>2, <1>3, <1>4
<1>6. Same /\ Upheld /\ Shrinks
  BY <1>1, <1>4, <1>5, KernelStays DEF Same, Upheld, ToWake
<1>7. QED
  BY <1>1, <1>6, LeavingStep DEF Leaving, LooksAgain

LEMMA UnlockRxWakes == ASSUME SInv, SInv', WInv, NEW t \in Task, UnlockRx(t) PROVE WInv'
<1> DEFINE q == call[t].q
           b == [queue[q] EXCEPT !.rxLock = queueUNLOCKED]
           lock == queue[q].rxLock
           r == Woken(q, "send", lock)
           w == k.waiting[q]["send"]
           n == IF lock > Len(w) THEN Len(w) ELSE lock
<1>1. /\ k.current = t /\ pc[t] = "unlockRx" /\ Goes(t, "resume", call[t])
      /\ queue' = [queue EXCEPT ![q] = b] /\ k' = r
  BY DEF UnlockRx, At, Goto, Goes
<1>2. q \in Queue /\ Ring(queue[q], Length[q]) /\ DOMAIN queue = Queue
  BY CallIs DEF SInv, IInv, Rings
<1>3. b.txLock = queue[q].txLock /\ b.count = queue[q].count
  BY <1>2 DEF Ring, Buffer
<1> HIDE DEF b
<1>4. \A p \in Queue : queue'[p].count = queue[p].count /\ queue'[p].txLock = queue[p].txLock
  BY <1>1, <1>2, <1>3
<1>5. (\E u \in Task : pc'[u] = "openTx") <=> \E u \in Task : pc[u] = "openTx"
  BY <1>1, GoesTo
<1>6. Same /\ Upheld
  BY <1>4, <1>5 DEF Same, Upheld, ToWake
<1>7. Shrinks
  <2>1. lock \in Nat
    BY <1>1, <1>2 DEF SInv, Locks
  <2>2. k.depth = 1 /\ "send" \in Sides
    BY <1>1, Running DEF SInv, OffTick, Leaving, Sides
  <2> HIDE DEF lock
  <2>3. /\ Good(r, Born) /\ IdleReady(r) /\ SameRun(k, r)
        /\ Leave(k, r, w, n)
        /\ \A u \in Members : Ready(r, u) <=> Ready(k, u)
    BY <1>2, <2>1, <2>2, WokenGood DEF SInv
  <2> HIDE DEF n, w, r
  <2>4. QED
    BY <1>1, <2>3 DEF Leave, Shrinks
<1>8. QED
  BY <1>1, <1>6, <1>7, LeavingStep DEF Leaving, LooksAgain

LEMMA ResumeWakes == ASSUME SInv, SInv', WInv, NEW t \in Task, Resume(t) PROVE WInv'
<1> DEFINE c == call[t]
           x == IF c.then # "yield" THEN c.then
                ELSE IF MustYield(k) THEN After(t) ELSE "yield"
<1>1. /\ k.current = t /\ pc[t] = "resume" /\ UNCHANGED queue /\ k' = xTaskResumeAll(k)
      /\ \/ c.then = "late" /\ Goes(t, "task", NoCall)
         \/ c.then # "late" /\ Goes(t, x, c)
  BY DEF Resume, At, Goto, Goes
<1>2. Fit("resume", c)
  BY <1>1, CallIs
<1>3. k.depth = 1
  BY <1>1, Running DEF SInv, OffTick, Leaving
<1>4. Shrinks
  BY <1>1, <1>3, ResumeShrinks
<1>5. CASE c.then = "late" /\ Goes(t, "task", NoCall)
  <2>1. ~LooksAgain(pc[t], c) /\ ~Away(pc[t], c)
    BY <1>1, <1>5 DEF LooksAgain, Away
  <2>2. ~Waits(k, t)
    BY <1>1, <2>1, ReadyHere
  <2>3. \A u \in Task : u # t => pc[u] # "place"
    BY <1>1, NoPlace
  <2>4. Same /\ Upheld
    BY <1>1, <1>5, QueueStays
  <2>5. QED
    BY <1>4, <1>5, <2>1, <2>2, <2>3, <2>4, Onward
<1>6. CASE c.then # "late" /\ Goes(t, x, c)
  <2>1. x = "check" \/ x = "yield" \/ (x = "awake" /\ c.op = "delay")
    BY <1>2, <1>6 DEF After, Fit, Leaving
  <2> HIDE DEF x
  <2>2. Same /\ Upheld
    BY <1>1, <1>6, <2>1, QueueStays
  <2>3. LooksAgain(pc[t], c) /\ c.op \in Sides => LooksAgain(x, c)
    BY <2>1 DEF LooksAgain, Sides
  <2>4. x # "place" /\ x \notin Leaving /\ pc[t] \in Leaving
    BY <1>1, <2>1 DEF Leaving
  <2>5. QED
    BY <1>1, <1>4, <1>6, <2>2, <2>3, <2>4, LeavingStep
<1>7. QED
  BY <1>1, <1>5, <1>6

LEMMA YieldWakes == ASSUME SInv, SInv', WInv, NEW t \in Task, Yield(t) PROVE WInv'
<1> DEFINE c == call[t]
           r == vTaskSwitchContext(k)
           x == After(t)
<1>1. /\ k.current = t /\ pc[t] = "yield" /\ UNCHANGED queue /\ k' = r /\ Goes(t, x, c)
  BY DEF Yield, At, Goto, Goes
<1>2. x = "check" \/ (x = "awake" /\ c.op = "delay")
  BY DEF After
<1> HIDE DEF x
<1>3. Shrinks
  <2>1. Good(k, Born) /\ IdleReady(k) /\ Born \in SUBSET Task
    BY KernelOf DEF SInv, KInv
  <2>2. /\ Good(r, Born) /\ IdleReady(r) /\ r.depth = k.depth /\ r.missedTicks = k.missedTicks
        /\ r.pending = k.pending /\ r.waiting = k.waiting
        /\ \A u \in Members : Ready(r, u) <=> Ready(k, u)
        /\ IF k.depth > 0 THEN r.current = k.current ELSE Ready(r, r.current)
    BY <2>1, SwitchGood
  <2> HIDE DEF r
  <2>3. QED
    BY <1>1, <2>2, WaitingStays
<1>4. Same /\ Upheld
  BY <1>1, <1>2, QueueStays
<1>5. LooksAgain(pc[t], c) /\ c.op \in Sides => LooksAgain(x, c)
  BY <1>2 DEF LooksAgain, Sides
<1>6. x # "place" /\ x \notin Leaving
  BY <1>2 DEF Leaving
<1>7. QED
  BY <1>1, <1>3, <1>4, <1>5, <1>6, LeavingStep

(* The kernel's own steps.                                                 *)
LEMMA TickWakes == ASSUME SInv, SInv', WInv, Tick PROVE WInv'
<1> DEFINE i == vTaskIncrementTick(k)
           r == vTaskSwitchContext(i)
<1>1. k' = r /\ UNCHANGED <<queue, pc, call>>
  BY DEF Tick
<1>2. Good(k, Born) /\ IdleReady(k) /\ Born \in SUBSET Task
  BY KernelOf DEF SInv, KInv
<1>3. /\ Good(i, Born) /\ IdleReady(i) /\ Grows(k, i)
      /\ i.depth = k.depth /\ i.current = k.current
      /\ i.missedTicks \in {k.missedTicks, k.missedTicks + 1}
      /\ k.depth > 0 => i.pending = k.pending /\ i.waiting = k.waiting
  BY <1>2, TickGood
<1> HIDE DEF i
<1>4. /\ Good(r, Born) /\ IdleReady(r) /\ r.depth = i.depth /\ r.missedTicks = i.missedTicks
      /\ r.pending = i.pending /\ r.waiting = i.waiting
      /\ \A u \in Members : Ready(r, u) <=> Ready(i, u)
      /\ IF i.depth > 0 THEN r.current = i.current ELSE Ready(r, r.current)
  BY <1>2, <1>3, SwitchGood
<1> HIDE DEF r
<1>5. k'.waiting = i.waiting
  BY <1>1, <1>4
<1>6. Shrinks
  BY <1>3, <1>5 DEF Grows, Shrinks
<1>7. QED
  BY <1>1, <1>6, Lingers

LEMMA OtherWakes ==
  ASSUME SInv, SInv', WInv, NEW t \in Task, NEW u \in Task, SuspendTask(t, u) \/ ResumeTask(t, u)
  PROVE  WInv'
<1> DEFINE r == vTaskSuspend(k, u)
           l == vTaskResume(k, u)
<1>1. /\ k.current = t /\ pc[t] = "task" /\ pc[u] # "none" /\ UNCHANGED <<queue, pc, call>>
      /\ k' = r \/ k' = l
  BY DEF SuspendTask, ResumeTask, At
<1>2. Good(k, Born) /\ IdleReady(k) /\ Born \in SUBSET Task /\ u \in Born
  BY <1>1, KernelOf DEF SInv, KInv, Born
<1>3. k.depth = 0
  BY <1>1, Running DEF SInv, OffTick, Leaving, Inside
<1>4. /\ Good(r, Born) /\ IdleReady(r) /\ r.depth = k.depth
      /\ \A v \in Members : Ready(r, v) <=> Ready(k, v) /\ v # u
      /\ \A p \in Queue, s \in Sides : \A v :
           Contains(r.waiting[p][s], v) <=> Contains(k.waiting[p][s], v) /\ v # u
      /\ \A v : Contains(r.pending, v) => Contains(k.pending, v)
      /\ IF u = k.current /\ k.depth = 0 THEN Ready(r, r.current)
         ELSE r.current = k.current
  BY <1>2, SuspendGood
<1>5. /\ Good(l, Born) /\ IdleReady(l) /\ l.depth = k.depth
      /\ l.pending = k.pending /\ l.waiting = k.waiting
      /\ \A v \in Members : Ready(k, v) => Ready(l, v)
      /\ l.current = k.current \/ Ready(l, l.current)
  BY <1>2, <1>3, ResumeGood
<1> HIDE DEF r, l
<1>6. Shrinks
  <2>1. k' = r => Shrinks
    BY <1>4 DEF Shrinks
  <2>2. k' = l => Shrinks
    BY <1>5, WaitingStays
  <2>3. QED
    BY <1>1, <2>1, <2>2
<1>7. QED
  BY <1>1, <1>6, Lingers

LEMMA CreateWakes ==
  ASSUME SInv, SInv', WInv, NEW t \in Task, NEW u \in Task, Create(t, u)
  PROVE  WInv'
<1> DEFINE r == xTaskGenericCreate(k, u)
           H == Born \cup {u}
<1>1. /\ k.current = t /\ pc[t] = "task" /\ pc[u] = "none" /\ k' = r
      /\ Goes(u, "task", call[u]) /\ UNCHANGED queue
  BY DEF Create, At, Goto, Goes
<1>2. k.depth = 0
  BY <1>1, Running DEF SInv, OffTick, Leaving, Inside
<1>3. /\ Good(k, Born) /\ IdleReady(k) /\ Born \in SUBSET Task /\ u \notin Born
      /\ Events(k, Born) /\ u \in Members
  BY <1>1, KernelOf DEF SInv, KInv, Born, Members
<1>4. /\ Good(r, H) /\ IdleReady(r) /\ r.depth = k.depth
      /\ r.pending = k.pending /\ r.waiting = k.waiting
      /\ \A v \in Members : Ready(k, v) => Ready(r, v)
      /\ r.current = k.current \/ Ready(r, r.current)
  BY <1>2, <1>3, CreateGood
<1> HIDE DEF r, H
<1>5. Shrinks
  BY <1>1, <1>4, WaitingStays
<1>6. Same /\ Upheld
  BY <1>1, QueueStays
<1>7. ~Waits(k, u) /\ ~LooksAgain(pc[u], call[u])
  BY <1>1, <1>3 DEF Events, Waits, LooksAgain, Leaving
<1>8. \A v \in Task : pc[v] # "place"
  BY <1>1, NoPlace
<1>9. QED
  BY <1>1, <1>5, <1>6, <1>7, <1>8, Onward

(* The task is put on the list of the queue it will be woken from.         *)
LEMMA PlaceWakes == ASSUME SInv, SInv', WInv, NEW t \in Task, Place(t) PROVE WInv'
<1> DEFINE c == call[t]
           r == vTaskPlaceOnEventList(k, t, c.q, c.op, c.wait)
<1>1. /\ k.current = t /\ pc[t] = "place" /\ k' = r
      /\ Goes(t, "unlockTx", c) /\ UNCHANGED queue
  BY DEF Place, At, Goto, Goes
<1>2. Fit("place", c) /\ c.q \in Queue
  BY <1>1, CallIs
<1>3. c.op \in Sides /\ c.wait \in Nat /\ c.then = "yield"
  BY <1>2 DEF Fit, Asking, Inside, Ops, Sides
<1>4. Ready(k, t) /\ t \in Born /\ ~Contains(k.pending, t)
  BY <1>1, Running DEF SInv, KInv, OffTick, Inside, Leaving, Away, Settled
<1>5. Enters(k, r, c.q, c.op, t)
  <2>1. Good(k, Born) /\ IdleReady(k) /\ Born \in SUBSET Task
    BY KernelOf DEF SInv, KInv
  <2>2. /\ Good(r, Born) /\ IdleReady(r) /\ SameRun(k, r) /\ r.pending = k.pending
        /\ \A u \in Members : Ready(r, u) <=> Ready(k, u) /\ u # t
        /\ Enters(k, r, c.q, c.op, t)
    <3> HIDE DEF c
    <3>1. QED
      BY <1>2, <1>3, <1>4, <2>1, PlaceGood
  <2>3. QED
    BY <2>2
<1>6. Enters(k, k', c.q, c.op, t)
  BY <1>1, <1>5
<1> HIDE DEF r
<1>7. Same /\ Upheld
  BY <1>1, QueueStays
<1>8. /\ pc'[t] = "unlockTx" /\ call'[t] = c
      /\ \A u \in Task : u # t => pc'[u] = pc[u] /\ call'[u] = call[u]
  BY <1>1, GoesTo
<1>9. ASSUME NEW q \in Queue, NEW side \in Sides PROVE Enough(q, side)'
  <2>1. Available(q, side)' = Available(q, side) /\ ToWake(q, side)' = ToWake(q, side)
    BY <1>7, SameAmounts DEF Upheld
  <2>2. /\ Enough(q, side) /\ Available(q, side) \in Nat /\ ToWake(q, side) \in Nat
        /\ Cardinality(Takers(q, side)') \in Nat
        /\ k'.waiting[q][side] \in Lists /\ k.waiting[q][side] \in Lists
    BY Amounts, AmountsNext DEF WInv
  <2>3. CASE q = c.q /\ side = c.op
    <3>1. Available(q, side) <= ToWake(q, side)
      BY <1>1, <2>3 DEF WInv, Placing
    <3>2. QED
      BY <2>1, <2>2, <3>1 DEF Enough
  <2>4. CASE ~(q = c.q /\ side = c.op)
    <3>1. \A u : Contains(k'.waiting[q][side], u) <=> Contains(k.waiting[q][side], u)
      BY <1>6, <2>4 DEF Enters
    <3>2. Takers(q, side) \subseteq Takers(q, side)'
      <4>1. t \notin Takers(q, side)
        BY <1>1 DEF Takers, LooksAgain, Leaving
      <4>2. QED
        BY <1>8, <3>1, <4>1 DEF Takers
    <3>3. k'.waiting[q][side] # <<>> => k.waiting[q][side] # <<>>
      BY <2>2, <3>1, Empty
    <3>4. Available(q, side)' <= Available(q, side) /\ ToWake(q, side)' >= ToWake(q, side)
      BY <2>1, <2>2
    <3>5. QED
      BY <2>2, <3>2, <3>3, <3>4, EnoughStill
  <2>5. QED
    BY <2>3, <2>4
<1>10. ASSUME NEW q \in Queue, NEW side \in Sides, NEW u \in Task PROVE Waiter(q, side, u)'
  <2>1. CASE u = t
    <3>1. ~Waits(k, t)
      BY <1>1, ReadyHere DEF Away, Leaving
    <3>2. Contains(k'.waiting[q][side], u) => q = c.q /\ side = c.op
      BY <1>6, <2>1, <3>1 DEF Enters, Waits
    <3>3. QED
      BY <1>3, <1>8, <2>1, <3>2 DEF Waiter, LooksAgain, Leaving
  <2>2. CASE u # t
    BY <1>6, <1>8, <2>2 DEF Enters, Waiter, WInv
  <2>3. QED
    BY <2>1, <2>2
<1>11. ASSUME NEW u \in Task PROVE Placing(u)'
  <2>1. pc'[u] # "place"
    BY <1>1, <1>8, NoPlace
  <2>2. QED
    BY <2>1 DEF Placing
<1>12. QED
  BY <1>9, <1>10, <1>11 DEF WInv

(* The loop over the Tx lock: a task for each item counted, or all.        *)
LEMMA InspectWakes == ASSUME SInv, SInv', WInv, NEW t \in Task, InspectTx(t) PROVE WInv'
<1> DEFINE q == call[t].q
           lock == queue[q].txLock
           r == Woken(q, "receive", lock)
           w == k.waiting[q]["receive"]
           n == IF lock > Len(w) THEN Len(w) ELSE lock
<1>1. /\ k.current = t /\ pc[t] = "unlockTx" /\ Goes(t, "openTx", call[t])
      /\ UNCHANGED queue /\ k' = r
  BY DEF InspectTx, At, Goto, Goes
<1>2. q \in Queue /\ "receive" \in Sides /\ w \in Lists
  BY CallIs, Amounts DEF Sides
<1>3. lock \in Nat /\ \A p \in Queue : p # q => queue[p].txLock = -1
  <2>1. Inner(q)
    BY <1>1 DEF Inner, Inside
  <2>2. lock \in -1 .. queue[q].count /\ lock # -1 /\ queue[q].count \in Nat
    BY <1>2, <2>1, Lengths DEF SInv, Locks, IInv, Rings, Ring, Buffer
  <2>3. lock \in Nat
    BY <2>2
  <2>4. QED
    BY <1>1, <2>3, LocksNow
<1>4. Leave(k, k', w, n)
  <2>1. k.depth = 1
    BY <1>1, Running DEF SInv, OffTick, Leaving
  <2> HIDE DEF lock
  <2>2. /\ Good(r, Born) /\ IdleReady(r) /\ SameRun(k, r)
        /\ Leave(k, r, w, n)
        /\ \A u \in Members : Ready(r, u) <=> Ready(k, u)
    BY <1>2, <1>3, <2>1, WokenGood DEF SInv
  <2> HIDE DEF n, w, r
  <2>3. QED
    BY <1>1, <2>2
<1> HIDE DEF r
<1>5. /\ pc'[t] = "openTx" /\ call' = call
      /\ \A u \in Task : u # t => pc'[u] = pc[u]
  BY <1>1, GoesTo DEF InspectTx
<1>6. Len(w) \in Nat /\ n \in 0 .. Len(w)
  <2>1. w \in Seq(Members)
    BY <1>2 DEF Lists
  <2>2. Len(w) \in Nat
    BY <2>1
  <2> HIDE DEF w, lock
  <2>3. QED
    BY <1>3, <2>2
<1> HIDE DEF n
<1>7. Shrinks /\ Same
  BY <1>1, <1>4 DEF Leave, Shrinks, Same
<1>8. \A u \in Task : /\ LooksAgain(pc[u], call[u]) => LooksAgain(pc'[u], call'[u])
                      /\ pc'[u] \in Leaving => pc[u] \in Leaving
  BY <1>1, <1>5 DEF LooksAgain, Leaving
<1>9. \A p \in Queue, s \in Sides : Takers(p, s) \subseteq Takers(p, s)'
  BY <1>5, <1>7, <1>8 DEF Takers, Shrinks
<1>10. \A p \in Queue, s \in Sides : ~(p = q /\ s = "receive") => ToWake(p, s) = 0
  BY <1>3 DEF ToWake
<1>11. \A p \in Queue, s \in Sides : ToWake(p, s)' = 0
  BY <1>1, <1>5 DEF ToWake
<1>12. ASSUME NEW p \in Queue, NEW s \in Sides PROVE Enough(p, s)'
  <2>1. Available(p, s)' = Available(p, s)
    BY <1>7, SameAmounts
  <2>2. Enough(p, s) /\ Available(p, s) \in Nat /\ ToWake(p, s) \in Nat
    BY Amounts DEF WInv
  <2>3. k'.waiting[p][s] # <<>> => k.waiting[p][s] # <<>>
    BY <1>7, ShrinksTo
  <2>4. CASE ~(p = q /\ s = "receive")
    <3>1. Available(p, s)' <= Available(p, s) /\ ToWake(p, s)' >= ToWake(p, s)
      BY <1>10, <1>11, <2>1, <2>2, <2>4
    <3>2. Takers(p, s) \subseteq Takers(p, s)'
      BY <1>9
    <3>3. QED
      BY <2>2, <2>3, <3>1, <3>2, EnoughStill
  <2>5. CASE p = q /\ s = "receive"
    <3> DEFINE A == Takers(p, s)
               B == Takers(p, s)'
    <3> SUFFICES ASSUME k'.waiting[p][s] # <<>> PROVE Enough(p, s)'
      BY DEF Enough
    <3>1. \A u : Contains(k'.waiting[p][s], u) <=>
                   Contains(w, u) /\ \A m \in 1 .. n : w[m] # u
      BY <1>2, <1>4, <2>5 DEF Leave
    <3>2. n = lock
      <4>1. CASE lock > Len(w)
        <5>1. n = Len(w)
          BY <4>1 DEF n
        <5>2. \A u : ~Contains(k'.waiting[p][s], u)
          BY <3>1, <5>1 DEF Contains
        <5>3. k'.waiting[p][s] \in Lists
          BY <1>2, AmountsNext
        <5>4. QED
          BY <5>2, <5>3, Empty
      <4>2. CASE ~(lock > Len(w))
        BY <4>2 DEF n
      <4>3. QED
        BY <4>1, <4>2
    <3>3. ToWake(p, s) <= n
      BY <1>2, <1>3, <2>5, <3>2 DEF ToWake
    <3>4. ASSUME NEW i \in 1 .. n PROVE w[i] \in B /\ w[i] \notin A
      <4>1. i \in 1 .. Len(w)
        BY <1>6
      <4>2. Contains(w, w[i])
        BY <4>1 DEF Contains
      <4>3. w[i] \in Task
        <5>1. w[i] \in Members
          BY <1>2, <4>2, Listed1
        <5>2. Events(k, Born) /\ Born \in SUBSET Task
          BY KernelOf DEF SInv
        <5>3. QED
          BY <1>2, <4>2, <5>1, <5>2 DEF Events
      <4>4. Waiter(q, "receive", w[i])
        BY <1>2, <4>3 DEF WInv
      <4>5. /\ call[w[i]].op = "receive" /\ call[w[i]].q = q
            /\ LooksAgain(pc[w[i]], call[w[i]])
        BY <4>2, <4>4 DEF Waiter
      <4>6. ~Contains(k'.waiting[p][s], w[i])
        BY <3>1
      <4>7. LooksAgain(pc'[w[i]], call'[w[i]])
        BY <1>8, <4>3, <4>5
      <4> HIDE DEF w
      <4>8. w[i] \in B
        BY <1>5, <2>5, <4>3, <4>5, <4>6, <4>7 DEF Takers
      <4>9. w[i] \notin A
        BY <2>5, <4>2 DEF Takers, w
      <4>10. QED
        BY <4>8, <4>9
    <3>5. B \in SUBSET Task /\ A \in SUBSET B
      BY <1>2, <1>9, AmountsNext
    <3>6. Cardinality(A) + n <= Cardinality(B)
      <4> HIDE DEF A, B, w
      <4>1. QED
        BY <1>2, <1>6, <3>4, <3>5, ManyMore
    <3>7. k.waiting[p][s] # <<>>
      BY <2>3, <2>5
    <3>8. Available(p, s) <= Cardinality(A) + ToWake(p, s)
      BY <2>2, <2>5, <3>7 DEF Enough
    <3>9. /\ Cardinality(A) \in Nat /\ Cardinality(B) \in Nat /\ ToWake(p, s) \in Nat
          /\ Available(p, s) \in Nat /\ n \in Nat
      BY <1>2, <1>6, Amounts, AmountsNext
    <3>10. Enough(p, s)' <=>
             (k'.waiting[p][s] # <<>> =>
                Available(p, s)' <= Cardinality(B) + ToWake(p, s)')
      BY DEF Enough
    <3>11. Available(p, s)' = Available(p, s) /\ ToWake(p, s)' = 0
      BY <1>11, <2>1
    <3> HIDE DEF A, B
    <3>12. Available(p, s) <= Cardinality(B) + 0
      BY <3>3, <3>6, <3>8, <3>9
    <3>13. QED
      BY <3>10, <3>11, <3>12
  <2>6. QED
    BY <2>4, <2>5
<1>13. ASSUME NEW p \in Queue, NEW s \in Sides, NEW u \in Task PROVE Waiter(p, s, u)'
  <2> SUFFICES ASSUME Contains(k'.waiting[p][s], u) PROVE Waiter(p, s, u)'
    BY DEF Waiter
  <2>1. Contains(k.waiting[p][s], u) /\ Waiter(p, s, u)
    BY <1>7 DEF Shrinks, WInv
  <2>2. QED
    BY <1>5, <1>8, <2>1 DEF Waiter
<1>14. ASSUME NEW u \in Task PROVE Placing(u)'
  <2>1. pc'[u] # "place"
    BY <1>1, <1>5, NoPlace
  <2>2. QED
    BY <2>1 DEF Placing
<1>15. QED
  BY <1>12, <1>13, <1>14 DEF WInv

(* The first of those who wait on a side, if any, leaves its list.         *)
Dropped(i, j, q, side) ==
  \A p \in Queue, s \in Sides : \A u :
    Contains(j.waiting[p][s], u) <=>
      /\ Contains(i.waiting[p][s], u)
      /\ i.waiting[q][side] # <<>> => u # Head(i.waiting[q][side])

(* One more to take, one more on the way to take it.                       *)
LEMMA EnoughMore ==
  ASSUME SInv, SInv', WInv, NEW q \in Queue, NEW side \in Sides, Dropped(k, k', q, side),
         Available(q, side)' = Available(q, side) + 1, ToWake(q, side)' = ToWake(q, side),
         \A u \in Takers(q, side) : pc'[u] = pc[u] /\ call'[u] = call[u],
         k.waiting[q][side] # <<>> =>
           LET h == Head(k.waiting[q][side])
           IN  pc'[h] = pc[h] /\ call'[h] = call[h]
  PROVE  Enough(q, side)'
<1> DEFINE A == Takers(q, side)
           B == Takers(q, side)'
           w == k.waiting[q][side]
           h == Head(w)
<1> SUFFICES ASSUME k'.waiting[q][side] # <<>> PROVE Enough(q, side)'
  BY DEF Enough
<1>1. \A u : Contains(k'.waiting[q][side], u) <=>
               Contains(w, u) /\ (w # <<>> => u # h)
  BY DEF Dropped
<1>2. w \in Lists /\ k'.waiting[q][side] \in Lists
  BY Amounts, AmountsNext
<1>3. w # <<>>
  BY <1>1, <1>2, Empty
<1>4. Contains(w, h) /\ h \in Members
  <2> HIDE DEF w
  <2>1. QED
    BY <1>2, <1>3, RotatedIs
<1>5. h \in Task
  <2>1. Events(k, Born) /\ Born \in SUBSET Task
    BY KernelOf DEF SInv
  <2>2. QED
    BY <1>4, <2>1 DEF Events
<1>6. /\ call[h].op = side /\ call[h].q = q /\ LooksAgain(pc[h], call[h])
  <2>1. Waiter(q, side, h)
    BY <1>5 DEF WInv
  <2>2. QED
    BY <1>4, <2>1 DEF Waiter
<1>7. pc'[h] = pc[h] /\ call'[h] = call[h] /\ ~Contains(k'.waiting[q][side], h)
  BY <1>1, <1>3
<1>8. h \in B
  <2> HIDE DEF h
  <2>1. QED
    BY <1>5, <1>6, <1>7 DEF Takers
<1>9. h \notin A
  BY <1>4 DEF Takers
<1>10. A \subseteq B
  <2>1. ASSUME NEW u \in A PROVE u \in B
    <3>1. /\ u \in Task /\ call[u].op = side /\ call[u].q = q /\ LooksAgain(pc[u], call[u])
          /\ ~Contains(w, u) /\ pc'[u] = pc[u] /\ call'[u] = call[u]
      BY <2>1 DEF Takers
    <3>2. QED
      BY <1>1, <3>1 DEF Takers
  <2>2. QED
    BY <2>1
<1>11. /\ Available(q, side) \in Nat /\ ToWake(q, side) \in Nat /\ Cardinality(A) \in Nat
       /\ Cardinality(B) \in Nat /\ B \in SUBSET Task
  BY Amounts, AmountsNext
<1>12. Cardinality(A) + 1 <= Cardinality(B)
  <2> HIDE DEF A, B, h
  <2>1. QED
    BY <1>8, <1>9, <1>10, <1>11, OneMore
<1>13. Available(q, side) <= Cardinality(A) + ToWake(q, side)
  BY <1>3 DEF WInv, Enough
<1>14. Enough(q, side)' <=>
         (k'.waiting[q][side] # <<>> => Available(q, side)' <= Cardinality(B) + ToWake(q, side)')
  BY DEF Enough
<1> HIDE DEF A, B, w, h
<1>15. Available(q, side)' <= Cardinality(B) + ToWake(q, side)'
  BY <1>11, <1>12, <1>13
<1>16. QED
  BY <1>14, <1>15

LEMMA NotifyDrops ==
  ASSUME KInv, NEW t \in Task, k.current = t, k.depth = 0, Ready(k, t),
         NEW q \in Queue, NEW side \in Sides, Notify(q, side)
  PROVE  Dropped(k, k', q, side) /\ k'.depth = 0
BY NotifyGood DEF Dropped

LEMMA DroppedShrinks ==
  ASSUME NEW q \in Queue, NEW side \in Sides, Dropped(k, k', q, side)
  PROVE  Shrinks
BY DEF Dropped, Shrinks

LEMMA EnoughLess ==
  ASSUME SInv, SInv', NEW q \in Queue, NEW side \in Sides, NEW t, Enough(q, side),
         k'.waiting[q][side] # <<>> => k.waiting[q][side] # <<>>,
         Available(q, side)' = Available(q, side) - 1, ToWake(q, side)' = ToWake(q, side),
         Takers(q, side) \ {t} \subseteq Takers(q, side)'
  PROVE  Enough(q, side)'
<1> DEFINE A == Takers(q, side)
           B == Takers(q, side)'
<1>1. /\ Available(q, side) \in Nat /\ ToWake(q, side) \in Nat /\ Cardinality(A) \in Nat
      /\ Cardinality(B) \in Nat /\ B \in SUBSET Task /\ A \in SUBSET Task /\ A \ {t} \in SUBSET B
  BY Amounts, AmountsNext
<1>2. Cardinality(A) <= Cardinality(B) + 1
  <2> HIDE DEF A, B
  <2>1. QED
    BY <1>1, OneFewer
<1>3. Enough(q, side)' <=>
        (k'.waiting[q][side] # <<>> => Available(q, side)' <= Cardinality(B) + ToWake(q, side)')
  BY DEF Enough
<1>4. k.waiting[q][side] # <<>> => Available(q, side) <= Cardinality(A) + ToWake(q, side)
  BY DEF Enough
<1> HIDE DEF A, B
<1>5. QED
  BY <1>1, <1>2, <1>3, <1>4

OtherSide(side) == IF side = "send" THEN "receive" ELSE "send"

(* An item is put or taken: a task of the other side is woken for it.      *)
LEMMA TransferIs ==
  ASSUME SInv, SInv', NEW t \in Task, Sent(t) \/ Received(t),
         NEW q, NEW op, q = call[t].q, op = call[t].op
  PROVE  /\ q \in Queue /\ op \in Sides /\ k.current = t /\ pc[t] = "check"
         /\ Goes(t, "task", NoCall) /\ Dropped(k, k', q, OtherSide(op))
         /\ Available(q, op)' = Available(q, op) - 1
         /\ Available(q, OtherSide(op))' = Available(q, OtherSide(op)) + 1
         /\ \A p \in Queue : p # q => queue'[p] = queue[p]
<1>1. /\ k.current = t /\ pc[t] = "check" /\ Goes(t, "task", NoCall)
      /\ \/ Sent(t) /\ op = "send" /\ Notify(q, "receive")
         \/ ~Sent(t) /\ op = "receive" /\ Notify(q, "send")
  <2>1. CASE Sent(t)
    BY <2>1 DEF Sent, At, Return, Goto, Goes
  <2>2. CASE ~Sent(t) /\ Received(t)
    BY <2>2 DEF Received, At, Return, Goto, Goes
  <2>3. QED
    BY <2>1, <2>2
<1>2. q \in Queue /\ op \in Sides /\ OtherSide(op) \in Sides /\ Notify(q, OtherSide(op))
  BY <1>1, CallIs DEF Sides, OtherSide
<1>3. k.depth = 0 /\ Ready(k, t)
  BY <1>1, Running DEF SInv, OffTick, Inside, Leaving, Away
<1>4. Dropped(k, k', q, OtherSide(op))
  BY <1>1, <1>2, <1>3, NotifyDrops DEF SInv
<1>5. /\ \A p \in Queue : p # q => queue'[p] = queue[p]
      /\ queue'[q].count = queue[q].count + (IF Sent(t) THEN 1 ELSE 0 - 1)
  BY TransferLocks DEF SInv
<1>6. queue[q].count \in Nat /\ Length[q] \in Nat
  BY <1>2, Counts0, Lengths DEF SInv, IInv
<1>7. /\ Available(q, "receive") = queue[q].count
      /\ Available(q, "send") = Length[q] - queue[q].count
      /\ \A p : Available(p, "receive")' = queue'[p].count
      /\ \A p : Available(p, "send")' = Length[p] - queue'[p].count
  BY DEF Available
<1>8. Available(q, op)' = Available(q, op) - 1
  BY <1>1, <1>5, <1>6, <1>7
<1>9. Available(q, OtherSide(op))' = Available(q, OtherSide(op)) + 1
  BY <1>1, <1>5, <1>6, <1>7 DEF OtherSide
<1>10. QED
  BY <1>1, <1>2, <1>4, <1>5, <1>8, <1>9

LEMMA TransferWakes ==
  ASSUME SInv, SInv', WInv, NEW t \in Task, Sent(t) \/ Received(t)
  PROVE  WInv'
<1>1. PICK q, op : q = call[t].q /\ op = call[t].op
  OBVIOUS
<1>2. /\ q \in Queue /\ op \in Sides /\ k.current = t /\ pc[t] = "check"
      /\ Goes(t, "task", NoCall) /\ Dropped(k, k', q, OtherSide(op))
      /\ Available(q, op)' = Available(q, op) - 1
      /\ Available(q, OtherSide(op))' = Available(q, OtherSide(op)) + 1
      /\ \A p \in Queue : p # q => queue'[p] = queue[p]
  BY <1>1, TransferIs
<1>3. OtherSide(op) \in Sides /\ OtherSide(op) # op /\ \A s \in Sides : s = op \/ s = OtherSide(op)
  BY <1>2 DEF OtherSide, Sides
<1>4. /\ pc'[t] = "task"
      /\ \A u \in Task : u # t => pc'[u] = pc[u] /\ call'[u] = call[u]
  BY <1>2, GoesTo
<1>5. Shrinks
  BY <1>2, <1>3, DroppedShrinks
<1>6. \A p \in Queue : queue[p].txLock = -1 /\ queue'[p].txLock = -1
  <2>1. k.depth = 0
    BY <1>2, Running DEF SInv, OffTick, Inside, Leaving
  <2>2. \A u \in Task : pc[u] \notin OffTick
    BY <2>1, OpenQueues
  <2>3. \A u \in Task : pc'[u] \notin Inside
    BY <1>4, <2>2 DEF OffTick, Inside
  <2>4. \A p \in Queue : queue'[p].txLock = -1
    BY <2>3 DEF SInv, Locks, Inner
  <2>5. QED
    BY <2>1, <2>4, OpenQueues
<1>7. \A p \in Queue, s \in Sides : ToWake(p, s) = 0 /\ ToWake(p, s)' = 0
  BY <1>6 DEF ToWake
<1>8. ~Waits(k, t)
  BY <1>2, ReadyHere DEF Away, Leaving
<1>9. ASSUME NEW p \in Queue, NEW s \in Sides PROVE Enough(p, s)'
  <2>1. Enough(p, s) /\ Available(p, s) \in Nat
    BY Amounts DEF WInv
  <2>2. ToWake(p, s)' = ToWake(p, s)
    BY <1>7
  <2>3. k'.waiting[p][s] # <<>> => k.waiting[p][s] # <<>>
    BY <1>5, ShrinksTo
  <2>4. Takers(p, s) \ {t} \subseteq Takers(p, s)'
    BY <1>4, <1>5 DEF Takers, Shrinks
  <2>5. ~(p = q /\ s = op) => t \notin Takers(p, s)
    BY <1>1 DEF Takers
  <2>6. CASE p = q /\ s = op
    BY <1>2, <2>1, <2>2, <2>3, <2>4, <2>6, EnoughLess
  <2>7. CASE p = q /\ s # op
    <3>1. s = OtherSide(op)
      BY <1>3, <2>7
    <3>2. \A u \in Takers(p, s) : pc'[u] = pc[u] /\ call'[u] = call[u]
      BY <1>4, <2>5, <2>7 DEF Takers
    <3>3. k.waiting[p][s] # <<>> =>
            LET h == Head(k.waiting[p][s]) IN pc'[h] = pc[h] /\ call'[h] = call[h]
      <4> SUFFICES ASSUME k.waiting[p][s] # <<>>
                   PROVE  LET h == Head(k.waiting[p][s]) IN pc'[h] = pc[h] /\ call'[h] = call[h]
        OBVIOUS
      <4> DEFINE w == k.waiting[p][s]
                 h == Head(w)
      <4>1. w \in Lists
        BY Amounts
      <4>2. Contains(w, h) /\ h \in Members
        <5> HIDE DEF w
        <5>1. w # <<>>
          BY DEF w
        <5>2. QED
          BY <4>1, <5>1, RotatedIs
      <4>3. Events(k, Born) /\ Born \in SUBSET Task
        BY KernelOf DEF SInv
      <4>4. h \in Task /\ h # t
        BY <1>8, <4>2, <4>3 DEF Events, Waits
      <4>5. QED
        BY <1>4, <4>4
    <3>4. QED
      BY <1>2, <1>3, <2>2, <2>7, <3>1, <3>2, <3>3, EnoughMore
  <2>8. CASE p # q
    <3>1. Available(p, s)' = Available(p, s)
      BY <1>2, <2>8 DEF Available
    <3>2. Available(p, s)' <= Available(p, s) /\ ToWake(p, s)' >= ToWake(p, s)
      BY <1>7, <2>1, <3>1
    <3>3. Takers(p, s) \subseteq Takers(p, s)'
      BY <2>4, <2>5, <2>8
    <3>4. QED
      BY <2>1, <2>3, <3>2, <3>3, EnoughStill
  <2>9. QED
    BY <2>6, <2>7, <2>8
<1>10. ASSUME NEW p \in Queue, NEW s \in Sides, NEW u \in Task PROVE Waiter(p, s, u)'
  <2> SUFFICES ASSUME Contains(k'.waiting[p][s], u) PROVE Waiter(p, s, u)'
    BY DEF Waiter
  <2>1. Contains(k.waiting[p][s], u) /\ Waiter(p, s, u)
    BY <1>5 DEF Shrinks, WInv
  <2>2. u # t
    BY <1>8, <2>1 DEF Waits
  <2>3. QED
    BY <1>4, <2>1, <2>2 DEF Waiter
<1>11. ASSUME NEW u \in Task PROVE Placing(u)'
  <2>1. pc'[u] # "place"
    BY <1>2, <1>4, NoPlace
  <2>2. QED
    BY <2>1 DEF Placing
<1>12. QED
  BY <1>9, <1>10, <1>11 DEF WInv

(* An interrupt puts an item: an open queue wakes a task, a locked one     *)
(* counts it, for the unlocking to wake one.                               *)
LEMMA PostIs ==
  ASSUME SInv, SInv', PostsInUnlock = FALSE, NEW q \in PostsTo, NEW item \in Posted,
         xQueueGenericSendFromISR(q, item)
  PROVE  /\ q \in Queue /\ UNCHANGED <<pc, call>> /\ Shrinks
         /\ \A p \in Queue : p # q => queue'[p] = queue[p]
         /\ Available(q, "receive")' = Available(q, "receive") + 1
         /\ Available(q, "send")' = Available(q, "send") - 1
         /\ queue[q].txLock = -1 => Dropped(k, k', q, "receive") /\ queue'[q].txLock = -1
         /\ queue[q].txLock # -1 =>
              /\ UNCHANGED k
              /\ ToWake(q, "receive")' = ToWake(q, "receive") + 1
<1> DEFINE list == k.waiting[q]["receive"]
           r == xTaskRemoveFromEventList(k, q, "receive")
           lock == queue[q].txLock
<1>1. /\ UNCHANGED <<pc, call>> /\ ~InSection
      /\ k' = IF lock # -1 \/ list = <<>> THEN k ELSE r
  BY DEF xQueueGenericSendFromISR, Signal, Waiting, queueUNLOCKED
<1>2. /\ q \in Queue /\ \A p \in Queue : p # q => queue'[p] = queue[p]
      /\ queue'[q].count = queue[q].count + 1
      /\ queue'[q].txLock = Counted(lock)
  BY PostLocks
<1>3. queue[q].count \in Nat /\ Length[q] \in Nat /\ lock \in -1 .. queue[q].count
  BY <1>2, Counts0, Lengths DEF SInv, IInv, Locks
<1>4. /\ Available(q, "receive") = queue[q].count
      /\ Available(q, "send") = Length[q] - queue[q].count
      /\ Available(q, "receive")' = queue'[q].count
      /\ Available(q, "send")' = Length[q] - queue'[q].count
  BY DEF Available
<1>5. /\ Available(q, "receive")' = Available(q, "receive") + 1
      /\ Available(q, "send")' = Available(q, "send") - 1
  BY <1>2, <1>3, <1>4
<1>6. \A t \in Task : pc[t] # "openTx" /\ pc'[t] # "openTx"
  <2>1. ASSUME NEW t \in Task, pc[t] = "openTx" PROVE FALSE
    <3>1. k.current = t
      BY <2>1 DEF SInv, KInv, OffTick, Inside
    <3>2. QED
      BY <1>1, <2>1, <3>1 DEF InSection, At
  <2>2. QED
    BY <1>1, <2>1
<1>7. lock # -1 => /\ UNCHANGED k
                   /\ ToWake(q, "receive")' = ToWake(q, "receive") + 1
  <2> SUFFICES ASSUME lock # -1
               PROVE  /\ UNCHANGED k
                      /\ ToWake(q, "receive")' = ToWake(q, "receive") + 1
    OBVIOUS
  <2>1. queue'[q].txLock = lock + 1
    BY <1>2 DEF Counted, queueUNLOCKED
  <2>2. ToWake(q, "receive")' = lock + 1
    BY <1>3, <1>6, <2>1 DEF ToWake
  <2>3. ToWake(q, "receive") = lock
    BY <1>3, <1>6 DEF ToWake
  <2>4. QED
    BY <1>1, <2>2, <2>3
<1>8. CASE k' = k /\ (lock # -1 \/ list = <<>>)
  <2>1. Shrinks
    BY <1>8, KernelStays
  <2>2. lock = -1 => Dropped(k, k', q, "receive")
    BY <1>8 DEF Dropped
  <2>3. lock = -1 => queue'[q].txLock = -1
    BY <1>2 DEF Counted, queueUNLOCKED
  <2>4. QED
    BY <1>1, <1>2, <1>5, <1>7, <2>1, <2>2, <2>3
<1>9. CASE k' = r /\ lock = -1 /\ list # <<>>
  <2>1. Good(k, Born) /\ IdleReady(k) /\ Born \in SUBSET Task /\ "receive" \in Sides
    BY KernelOf DEF SInv, KInv, Sides
  <2>2. /\ Good(r, Born) /\ IdleReady(r) /\ SameRun(k, r)
        /\ Head(list) \in Born /\ Contains(list, Head(list))
        /\ r.waiting[q]["receive"] = Tail(list)
        /\ \A p \in Queue, s \in Sides : \A u :
             Contains(r.waiting[p][s], u) <=> Contains(k.waiting[p][s], u) /\ u # Head(list)
        /\ \A u \in Members : Ready(r, u) <=> Ready(k, u) \/ (k.depth = 0 /\ u = Head(list))
        /\ \A u : Contains(r.pending, u) =>
                    Contains(k.pending, u) \/ (k.depth # 0 /\ u = Head(list))
    BY <1>2, <1>9, <2>1, WakeGood
  <2> HIDE DEF r
  <2>3. Dropped(k, k', q, "receive")
    BY <1>9, <2>2 DEF Dropped
  <2>4. Shrinks
    BY <1>2, <2>1, <2>3, DroppedShrinks
  <2>5. queue'[q].txLock = -1
    BY <1>2, <1>9 DEF Counted, queueUNLOCKED
  <2>6. QED
    BY <1>1, <1>2, <1>5, <1>9, <2>3, <2>4, <2>5
<1>10. QED
  BY <1>1, <1>8, <1>9

LEMMA PostWakes ==
  ASSUME SInv, SInv', WInv, PostsInUnlock = FALSE, NEW q \in PostsTo, NEW item \in Posted,
         xQueueGenericSendFromISR(q, item)
  PROVE  WInv'
<1>1. /\ q \in Queue /\ UNCHANGED <<pc, call>> /\ Shrinks
      /\ \A p \in Queue : p # q => queue'[p] = queue[p]
      /\ Available(q, "receive")' = Available(q, "receive") + 1
      /\ Available(q, "send")' = Available(q, "send") - 1
      /\ queue[q].txLock = -1 => Dropped(k, k', q, "receive") /\ queue'[q].txLock = -1
      /\ queue[q].txLock # -1 =>
           /\ UNCHANGED k
           /\ ToWake(q, "receive")' = ToWake(q, "receive") + 1
  BY PostIs
<1>2. \A p \in Queue, s \in Sides : Takers(p, s) \subseteq Takers(p, s)'
  BY <1>1 DEF Takers, Shrinks
<1>3. \A p \in Queue, s \in Sides :
        ~(p = q /\ s = "receive") => ToWake(p, s)' = ToWake(p, s)
  BY <1>1 DEF ToWake
<1>4. "receive" \in Sides /\ "send" \in Sides /\ \A s \in Sides : s = "send" \/ s = "receive"
  BY DEF Sides
<1>5. ASSUME NEW p \in Queue, NEW s \in Sides PROVE Enough(p, s)'
  <2>1. /\ Enough(p, s) /\ Available(p, s) \in Nat /\ ToWake(p, s) \in Nat
        /\ Cardinality(Takers(p, s)) \in Nat
    BY Amounts DEF WInv
  <2>2. Cardinality(Takers(p, s)') \in Nat /\ Takers(p, s)' \in SUBSET Task
    BY AmountsNext
  <2>3. k'.waiting[p][s] # <<>> => k.waiting[p][s] # <<>>
    BY <1>1, ShrinksTo
  <2>4. CASE ~(p = q /\ s = "receive")
    <3>1. Available(p, s)' <= Available(p, s)
      <4>1. CASE p = q
        BY <1>1, <1>4, <2>1, <2>4, <4>1
      <4>2. CASE p # q
        BY <1>1, <2>1, <4>2 DEF Available
      <4>3. QED
        BY <4>1, <4>2
    <3>2. ToWake(p, s)' >= ToWake(p, s)
      BY <1>3, <2>1, <2>4
    <3>3. QED
      BY <1>2, <2>1, <2>3, <3>1, <3>2, EnoughStill
  <2>5. CASE p = q /\ s = "receive" /\ queue[q].txLock # -1
    <3> DEFINE A == Takers(p, s)
               B == Takers(p, s)'
    <3>1. Cardinality(A) <= Cardinality(B)
      <4>1. B \in SUBSET Task /\ A \in SUBSET B
        BY <1>2, <2>2
      <4> HIDE DEF A, B
      <4>2. QED
        BY <4>1, NoFewer
    <3>2. Enough(p, s)' <=>
            (k'.waiting[p][s] # <<>> => Available(p, s)' <= Cardinality(B) + ToWake(p, s)')
      BY DEF Enough
    <3>3. k.waiting[p][s] # <<>> => Available(p, s) <= Cardinality(A) + ToWake(p, s)
      BY <2>1 DEF Enough
    <3>4. Available(p, s)' = Available(p, s) + 1 /\ ToWake(p, s)' = ToWake(p, s) + 1
      BY <1>1, <2>5
    <3>5. Cardinality(A) \in Nat /\ Cardinality(B) \in Nat
      BY <2>1, <2>2
    <3> HIDE DEF A, B
    <3>6. QED
      BY <2>1, <2>3, <3>1, <3>2, <3>3, <3>4, <3>5
  <2>6. CASE p = q /\ s = "receive" /\ queue[q].txLock = -1
    <3>1. ToWake(p, s)' = ToWake(p, s)
      BY <1>1, <2>6 DEF ToWake
    <3>2. QED
      BY <1>1, <2>6, <3>1, EnoughMore
  <2>7. QED
    BY <2>4, <2>5, <2>6
<1>6. ASSUME NEW p \in Queue, NEW s \in Sides, NEW t \in Task PROVE Waiter(p, s, t)'
  BY <1>1 DEF WInv, Waiter, Shrinks
<1>7. ASSUME NEW t \in Task PROVE Placing(t)'
  <2> SUFFICES ASSUME pc[t] = "place" PROVE Placing(t)'
    BY <1>1 DEF Placing
  <2>1. PICK p, s : p = call[t].q /\ s = call[t].op
    OBVIOUS
  <2>2. p \in Queue /\ s \in Sides
    BY <2>1, CallIs DEF Fit, Asking, Inside, Ops, Sides
  <2>3. /\ Available(p, s) <= ToWake(p, s) /\ Available(p, s) \in Nat /\ ToWake(p, s) \in Nat
        /\ queue[p].txLock # -1
    BY <2>1, <2>2, Amounts DEF WInv, Placing, SInv, Locks, Inner, Inside
  <2>4. Available(p, s)' <= ToWake(p, s)'
    <3>1. CASE p = q /\ s = "receive"
      BY <1>1, <2>3, <3>1
    <3>2. CASE p = q /\ s = "send"
      BY <1>1, <1>3, <1>4, <2>3, <3>2
    <3>3. CASE p # q
      <4>1. Available(p, s)' = Available(p, s)
        BY <1>1, <2>2, <3>3 DEF Available
      <4>2. ToWake(p, s)' = ToWake(p, s)
        BY <1>3, <2>2, <3>3
      <4>3. QED
        BY <2>3, <4>1, <4>2
    <3>4. QED
      BY <1>4, <2>2, <3>1, <3>2, <3>3
  <2>5. call'[t].q = p /\ call'[t].op = s
    BY <1>1, <2>1
  <2>6. QED
    BY <2>4, <2>5 DEF Placing, Available, ToWake
<1>8. QED
  BY <1>5, <1>6, <1>7 DEF WInv

LEMMA WakesStep ==
  ASSUME SInv, SInv', WInv, PostsInUnlock = FALSE, [Next]_vars
  PROVE  WInv'
<1>1. CASE UNCHANGED vars
  <2>1. Shrinks
    BY <1>1, KernelStays DEF vars
  <2>2. QED
    BY <1>1, <2>1, Lingers DEF vars
<1>2. CASE Tick
  BY <1>2, TickWakes
<1>3. CASE \E q \in PostsTo, item \in Posted : xQueueGenericSendFromISR(q, item)
  BY <1>3, PostWakes
<1>4. ASSUME NEW t \in Task, Task1(t) PROVE WInv'
  <2>1. CASE \/ \E c \in Calls[t] : Request(t, c)
             \/ \E n \in Delays[t] : vTaskDelay(t, n)
             \/ Awake(t) \/ Hold(t) \/ Suspend(t) \/ xTaskCheckForTimeOut(t)
    BY <2>1, TaskWakes
  <2>2. CASE Sent(t) \/ Received(t)
    BY <2>2, TransferWakes
  <2>3. CASE Refused(t) \/ WillWait(t)
    BY <2>3, CheckWakes
  <2>4. CASE prvLockQueue(t) \/ Test(t) \/ Place(t) \/ InspectTx(t) \/ OpenTx(t) \/ UnlockRx(t)
    BY <2>4, LockWakes, TestWakes, PlaceWakes, InspectWakes, OpenWakes, UnlockRxWakes
  <2>5. CASE Resume(t) \/ Yield(t) \/ Sleep(t) \/ Unhold(t)
    BY <2>5, ResumeWakes, YieldWakes, SleepWakes, UnholdWakes
  <2>6. CASE \E u \in Task : SuspendTask(t, u) \/ ResumeTask(t, u)
    BY <2>6, OtherWakes
  <2>7. CASE \E u \in Task : Create(t, u)
    BY <2>7, CreateWakes
  <2>8. QED
    BY <1>4, <2>1, <2>2, <2>3, <2>4, <2>5, <2>6, <2>7 DEF Task1
<1>5. QED
  BY <1>1, <1>2, <1>3, <1>4 DEF Next, Interrupts

LEMMA NobodyWaits == ASSUME Init PROVE WInv
<1>1. PICK order \in Orders : k = vTaskStartScheduler(order)
  BY DEF Init
<1>2. Fresh(k)
  BY <1>1, StartGood DEF Orders
<1>3. \A q \in Queue, side \in Sides :
        k.waiting[q][side] = <<>> /\ \A u : ~Contains(k.waiting[q][side], u)
  BY <1>2, EmptyList DEF Fresh
<1>4. \A t \in Task : pc[t] # "place"
  BY DEF Init
<1>5. QED
  BY <1>3, <1>4 DEF WInv, Enough, Waiter, Placing

LEMMA SomeoneComes ==
  ASSUME SInv, WInv, NEW q \in Queue, NEW side \in Sides, queue[q].txLock = -1,
         Waiting(q, side) # <<>>, Available(q, side) # 0
  PROVE  OnTheWay(q, side)
<1> DEFINE A == Takers(q, side)
<1>1. /\ Available(q, side) \in Nat /\ Cardinality(A) \in Nat
      /\ k.waiting[q][side] \in Lists
  BY Amounts
<1>2. ToWake(q, side) = 0
  BY DEF ToWake
<1>3. Available(q, side) <= Cardinality(A) + 0
  BY <1>2 DEF WInv, Enough, Waiting
<1>4. A # {}
  <2>1. Cardinality(A) # 0
    <3> HIDE DEF A
    <3>1. QED
      BY <1>1, <1>3
  <2>2. QED
    BY <2>1, FS_EmptySet
<1>5. PICK t \in Task : /\ call[t].op = side /\ call[t].q = q /\ LooksAgain(pc[t], call[t])
                        /\ ~Contains(k.waiting[q][side], t)
  BY <1>4 DEF Takers
<1>6. pc[t] \notin {"task", "none"}
  BY <1>5 DEF LooksAgain, Leaving
<1>7. side \in Ops
  BY DEF Sides, Ops
<1>8. t \notin ToSet(Waiting(q, side))
  <2>1. k.waiting[q][side] \in Seq(Members)
    BY <1>1 DEF Lists
  <2>2. QED
    BY <1>5, <2>1 DEF Waiting, ToSet, Contains
<1>9. QED
  BY <1>5, <1>6, <1>7, <1>8 DEF OnTheWay

LEMMA NoneLost == ASSUME SInv, WInv PROVE NoLostWakeup
<1>1. ASSUME NEW q \in Queue, queue[q].txLock = -1
      PROVE  /\ ~prvIsQueueEmpty(q) /\ Waiting(q, "receive") # <<>> => OnTheWay(q, "receive")
             /\ ~prvIsQueueFull(q) /\ Waiting(q, "send") # <<>> => OnTheWay(q, "send")
  <2>1. "receive" \in Sides /\ "send" \in Sides
    BY DEF Sides
  <2>2. queue[q].count \in Nat /\ Length[q] \in Nat
    BY Counts0, Lengths DEF SInv, IInv
  <2>3. ~prvIsQueueEmpty(q) => Available(q, "receive") # 0
    BY DEF prvIsQueueEmpty, Available
  <2>4. ~prvIsQueueFull(q) => Available(q, "send") # 0
    BY <2>2 DEF prvIsQueueFull, Available
  <2>5. QED
    BY <1>1, <2>1, <2>3, <2>4, SomeoneComes
<1>2. QED
  BY <1>1 DEF NoLostWakeup, queueUNLOCKED

(* No wake-up is lost, whatever the tasks and the interrupts do between    *)
(* their steps, for every set of tasks, queues and lengths: while a task   *)
(* is on the list of an open queue, there are at least as many tasks on    *)
(* their way back to its test as there are items to take, or places to     *)
(* fill.                                                                   *)
THEOREM NoWakeupIsLost ==
  ASSUME PostsInUnlock = FALSE PROVE Spec => []NoLostWakeup
<1>1. Init => SInv /\ WInv
  BY StartKernel, NobodyWaits
<1>2. SInv /\ WInv /\ [Next]_vars => SInv' /\ WInv'
  <2> SUFFICES ASSUME SInv, WInv, [Next]_vars PROVE SInv' /\ WInv'
    OBVIOUS
  <2>1. SInv'
    BY Step, KernelStep DEF SInv
  <2>2. QED
    BY <2>1, WakesStep
<1>3. SInv /\ WInv => NoLostWakeup
  BY NoneLost
<1>4. QED
  BY <1>1, <1>2, <1>3, PTL DEF Spec

-----------------------------------------------------------------------------
(***************************************************************************)
(* The times of the delayed tasks.                                         *)
(***************************************************************************)
Sorted(s, w) == \A a, b \in 1 .. Len(s) : a < b => w[s[a]] <= w[s[b]]

(* What is left of a sorted list is sorted, with the times of the rest.    *)
LEMMA WithoutSorted ==
  ASSUME NEW s \in Lists, NEW t, NEW w, NEW v, Sorted(s, w),
         \A u : Contains(s, u) /\ u # t => v[u] = w[u]
  PROVE  Sorted(Without(s, t), v)
<1> DEFINE r == Without(s, t)
<1>1. s \in Seq(Members)
  BY DEF Lists
<1>2. InOrder(r, s)
  BY <1>1, RemoveInOrder DEF Without
<1>3. \A u : Contains(r, u) <=> Contains(s, u) /\ u # t
  BY WithoutIs
<1> HIDE DEF r
<1>4. ASSUME NEW a \in 1 .. Len(r), NEW b \in 1 .. Len(r), a < b
      PROVE  v[r[a]] <= v[r[b]]
  <2>1. v[r[a]] = w[r[a]] /\ v[r[b]] = w[r[b]]
    BY <1>3 DEF Contains
  <2>2. PICK c \in 1 .. Len(s), d \in 1 .. Len(s) : c < d /\ r[a] = s[c] /\ r[b] = s[d]
    BY <1>2, <1>4 DEF InOrder
  <2> QED
    BY <2>1, <2>2 DEF Sorted
<1> QED
  BY <1>4 DEF Sorted, r

(* The entries that are not after the new one come first.                  *)
LEMMA PlaceFound ==
  ASSUME NEW s \in Lists, NEW w, NEW x \in Nat, Sorted(s, w),
         \A u : Contains(s, u) => w[u] \in Nat
  PROVE  LET I == {i \in DOMAIN s : w[s[i]] <= x}
         IN  /\ Cardinality(I) \in 0 .. Len(s)
             /\ \A i \in 1 .. Len(s) : i <= Cardinality(I) <=> w[s[i]] <= x
<1> DEFINE I == {i \in DOMAIN s : w[s[i]] <= x}
<1>1. Len(s) \in Nat /\ DOMAIN s = 1 .. Len(s)
  BY DEF Lists
<1>2. \A i \in 1 .. Len(s) : w[s[i]] \in Nat
  BY DEF Contains
<1>3. \E m \in 0 .. Len(s) : \A i \in 1 .. Len(s) : i <= m <=> w[s[i]] <= x
  <2> DEFINE J == {j \in 1 .. Len(s) : ~(w[s[j]] <= x)}
  <2>1. CASE J = {}
    <3>1. Len(s) \in 0 .. Len(s) /\ \A i \in 1 .. Len(s) : i <= Len(s) <=> w[s[i]] <= x
      BY <1>1, <2>1
    <3> QED
      BY <3>1
  <2>2. CASE J # {}
    <3>1. J \in SUBSET Nat
      OBVIOUS
    <3>2. PICK m \in J : \A y \in J : m <= y
      <4> HIDE DEF J
      <4> QED
        BY <2>2, <3>1, LeastExists
    <3>3. m \in 1 .. Len(s) /\ m - 1 \in 0 .. Len(s) /\ ~(w[s[m]] <= x)
      BY <1>1, <3>2
    <3>4. ASSUME NEW i \in 1 .. Len(s) PROVE i <= m - 1 <=> w[s[i]] <= x
      <4>1. CASE i < m
        BY <1>1, <3>2, <3>3, <4>1
      <4>2. CASE i = m
        BY <1>1, <3>3, <4>2
      <4>3. CASE i > m
        <5>1. w[s[m]] <= w[s[i]]
          BY <1>1, <3>3, <4>3 DEF Sorted
        <5>2. ~(w[s[i]] <= x)
          BY <1>2, <3>3, <5>1
        <5>3. ~(i <= m - 1)
          BY <1>1, <3>3, <4>3
        <5> QED
          BY <5>2, <5>3
      <4> QED
        BY <1>1, <3>3, <4>1, <4>2, <4>3
    <3> QED
      BY <3>3, <3>4
  <2> QED
    BY <2>1, <2>2
<1>4. PICK m \in 0 .. Len(s) : \A i \in 1 .. Len(s) : i <= m <=> w[s[i]] <= x
  BY <1>3
<1>5. I = 1 .. m
  BY <1>1, <1>4
<1>6. Cardinality(1 .. m) = m
  BY <1>1, FS_Interval
<1> HIDE DEF I
<1> QED
  BY <1>4, <1>5, <1>6 DEF I

LEMMA InsertedSorted ==
  ASSUME NEW s \in Lists, NEW t \in Members, NEW w, Sorted(s, w),
         \A u : Contains(s, u) => w[u] \in Nat, w[t] \in Nat
  PROVE  Sorted(Inserted(s, t, w), w)
<1> DEFINE n == Cardinality({i \in DOMAIN s : w[s[i]] <= w[t]})
           r == Inserted(s, t, w)
<1>1. s \in Seq(Members) /\ Len(s) \in Nat
  BY DEF Lists
<1>2. n \in 0 .. Len(s) /\ \A i \in 1 .. Len(s) : i <= n <=> w[s[i]] <= w[t]
  BY PlaceFound
<1>3. r = Spliced(s, t, n)
  BY DEF Inserted, Spliced
<1> HIDE DEF n, r
<1>4. /\ Len(r) = Len(s) + 1
      /\ \A i \in 1 .. Len(r) : r[i] = IF i <= n THEN s[i] ELSE IF i = n + 1 THEN t ELSE s[i - 1]
  <2>1. n \in 0 .. Len(s)
    BY <1>2
  <2>2. /\ Len(Spliced(s, t, n)) = Len(s) + 1
        /\ \A i \in 1 .. Len(s) + 1 :
             Spliced(s, t, n)[i] = IF i <= n THEN s[i] ELSE IF i = n + 1 THEN t ELSE s[i - 1]
    BY <1>1, <2>1, InsertCells
  <2> QED
    BY <1>3, <2>2
<1>5. \A i \in 1 .. Len(s) : w[s[i]] \in Nat
  BY DEF Contains
<1>6. ASSUME NEW a \in 1 .. Len(r), NEW b \in 1 .. Len(r), a < b
      PROVE  w[r[a]] <= w[r[b]]
  <2>0. n \in Nat /\ n <= Len(s)
    BY <1>1, <1>2
  <2>1. CASE b <= n
    <3>1. r[a] = s[a] /\ r[b] = s[b] /\ a \in 1 .. Len(s) /\ b \in 1 .. Len(s)
      BY <1>4, <1>6, <2>0, <2>1
    <3> QED
      BY <1>6, <3>1 DEF Sorted
  <2>2. CASE b = n + 1
    <3>1. r[a] = s[a] /\ r[b] = t /\ a \in 1 .. Len(s) /\ a <= n
      BY <1>1, <1>4, <1>6, <2>0, <2>2
    <3> QED
      BY <1>2, <3>1
  <2>3. CASE b > n + 1
    <3>1. r[b] = s[b - 1] /\ b - 1 \in 1 .. Len(s) /\ ~(b - 1 <= n)
      BY <1>1, <1>4, <1>6, <2>0, <2>3
    <3>2. ~(w[s[b - 1]] <= w[t]) /\ w[s[b - 1]] \in Nat
      BY <1>2, <1>5, <3>1
    <3>3. CASE a <= n
      <4>1. r[a] = s[a] /\ a \in 1 .. Len(s) /\ w[s[a]] <= w[t] /\ w[s[a]] \in Nat
        BY <1>1, <1>2, <1>4, <1>5, <2>0, <3>3
      <4> QED
        BY <3>1, <3>2, <4>1
    <3>4. CASE a = n + 1
      <4>1. r[a] = t
        BY <1>4, <2>0, <3>4
      <4> QED
        BY <3>1, <3>2, <4>1
    <3>5. CASE a > n + 1
      <4>1. r[a] = s[a - 1] /\ a - 1 \in 1 .. Len(s) /\ a - 1 < b - 1
        BY <1>1, <1>4, <1>6, <2>0, <3>5
      <4> QED
        BY <3>1, <4>1 DEF Sorted
    <3> QED
      BY <2>0, <3>3, <3>4, <3>5
  <2> QED
    BY <2>0, <2>1, <2>2, <2>3
<1> QED
  BY <1>6 DEF Sorted, r

Sleeps(j, t) == Contains(j.delayed, t) \/ Contains(j.overflow, t)

(* The ticks until a sleeping task wakes.                                  *)
Left(j, t) ==
  IF Contains(j.delayed, t) THEN j.wake[t] - j.tick ELSE (j.wake[t] + TickModulus) - j.tick

(* Both lists are sorted; the times of one are still to come before the    *)
(* ticks wrap, those of the other after it.                                *)
Times(j) ==
  /\ Sorted(j.delayed, j.wake) /\ Sorted(j.overflow, j.wake)
  /\ \A t : Contains(j.delayed, t) => j.tick < j.wake[t] /\ j.wake[t] < TickModulus
  /\ \A t : Contains(j.overflow, t) => j.wake[t] < j.tick

(* The tasks of S may leave the two lists, the others keep their times.    *)
Trims(i, j, S) ==
  /\ j.tick = i.tick /\ j.overflows = i.overflows
  /\ Sorted(i.delayed, i.wake) => Sorted(j.delayed, j.wake)
  /\ Sorted(i.overflow, i.wake) => Sorted(j.overflow, j.wake)
  /\ \A u : Contains(j.delayed, u) => Contains(i.delayed, u) /\ j.wake[u] = i.wake[u]
  /\ \A u : Contains(j.overflow, u) => Contains(i.overflow, u) /\ j.wake[u] = i.wake[u]
  /\ \A u : Contains(i.delayed, u) => Contains(j.delayed, u) \/ u \in S
  /\ \A u : Contains(i.overflow, u) => Contains(j.overflow, u) \/ u \in S

LEMMA TrimsOn ==
  ASSUME NEW i, NEW j, NEW l, NEW S, NEW T, Trims(i, j, S), Trims(j, l, T)
  PROVE  Trims(i, l, S \cup T)
BY DEF Trims

LEMMA TrimsWider ==
  ASSUME NEW i, NEW j, NEW S, NEW T, Trims(i, j, S), S \subseteq T
  PROVE  Trims(i, j, T)
BY DEF Trims

LEMMA SameTrims ==
  ASSUME NEW i, NEW j, SameTimes(i, j)
  PROVE  Trims(i, j, {})
BY DEF Trims, SameTimes

LEMMA SleepersAre ==
  ASSUME NEW H \in SUBSET Task, NEW j, Good(j, H), NEW t, Sleeps(j, t)
  PROVE  t \in H /\ t \in Task /\ j.wake[t] \in Nat
<1>1. j \in Kernel /\ Homes(j, H)
  BY DEF Good
<1>2. t \in Members
  BY <1>1, KernelFields, Listed1 DEF Sleeps
<1>3. t \in H
  BY <1>1, <1>2 DEF Homes, Sleeps
<1> QED
  BY <1>1, <1>3, KernelFields

LEMMA LeftIs ==
  ASSUME NEW H \in SUBSET Task, NEW j, Good(j, H), Times(j), NEW t, Sleeps(j, t)
  PROVE  Left(j, t) \in Nat \ {0} /\ Left(j, t) < TickModulus
<1>1. j.wake[t] \in Nat /\ j.tick \in 0 .. TickModulus - 1
  BY SleepersAre, KernelFields DEF Good
<1>2. TickModulus \in Nat
  BY TasksAssumption
<1>3. CASE Contains(j.delayed, t)
  BY <1>1, <1>2, <1>3 DEF Times, Left
<1>4. CASE ~Contains(j.delayed, t)
  <2>1. Left(j, t) = (j.wake[t] + TickModulus) - j.tick /\ j.wake[t] < j.tick
    BY <1>4 DEF Times, Left, Sleeps
  <2> QED
    BY <1>1, <1>2, <2>1
<1> QED
  BY <1>3, <1>4

(* e ticks after the time c, o, as the counters show it: once round at the *)
(* most.                                                                   *)
Since(tick, over, c, o, e) ==
  \/ tick = c + e /\ over = o
  \/ tick = (c + e) - TickModulus /\ over = (o + 1) % OverflowModulus

(* What n ticks do to a task between i and j: who sleeps in j has slept in *)
(* i; who slept in i and is not in S sleeps in j, or his time has come.    *)
Fares(i, j, n, S, u) ==
  /\ Sleeps(j, u) => Sleeps(i, u) /\ Left(j, u) + n = Left(i, u)
  /\ Sleeps(i, u) => u \in S \/ Sleeps(j, u) \/ Left(i, u) <= n

Clocks(i, j, n) ==
  \A c \in 0 .. TickModulus - 1, o \in Nat, e \in Nat :
    e + n <= TickModulus /\ Since(i.tick, i.overflows, c, o, e) =>
      Since(j.tick, j.overflows, c, o, e + n)

Passes(i, j, n, S) == Times(j) /\ Clocks(i, j, n) /\ \A u \in Task : Fares(i, j, n, S, u)

LEMMA TrimsLeft ==
  ASSUME NEW H \in SUBSET Task, NEW i, Good(i, H), NEW j, NEW S, Trims(i, j, S),
         NEW u \in Task, Sleeps(j, u)
  PROVE  Sleeps(i, u) /\ Left(j, u) = Left(i, u)
<1>1. u \in Members /\ Homes(i, H)
  BY DEF Members, Good
<1>2. CASE Contains(j.delayed, u)
  BY <1>2 DEF Trims, Left, Sleeps
<1>3. CASE ~Contains(j.delayed, u)
  <2>1. Contains(j.overflow, u) /\ Contains(i.overflow, u)
    BY <1>3 DEF Sleeps, Trims
  <2>2. ~Contains(i.delayed, u)
    BY <1>1, <2>1 DEF Homes
  <2> QED
    BY <1>3, <2>1, <2>2 DEF Trims, Left, Sleeps
<1> QED
  BY <1>2, <1>3

LEMMA TrimsPasses ==
  ASSUME NEW H \in SUBSET Task, NEW i, Good(i, H), Times(i), NEW j, NEW S, Trims(i, j, S)
  PROVE  Passes(i, j, 0, S)
<1>1. Times(j)
  BY DEF Trims, Times
<1>2. ASSUME NEW u \in Task, Sleeps(j, u) PROVE Sleeps(i, u) /\ Left(j, u) + 0 = Left(i, u)
  <2>1. Sleeps(i, u) /\ Left(j, u) = Left(i, u)
    BY <1>2, TrimsLeft
  <2>2. Left(i, u) \in Nat
    BY <2>1, LeftIs
  <2> QED
    BY <2>1, <2>2
<1>3. \A u \in Task : Sleeps(i, u) => u \in S \/ Sleeps(j, u)
  BY DEF Trims, Sleeps
<1>4. \A e \in Nat : e + 0 = e
  OBVIOUS
<1>5. j.tick = i.tick /\ j.overflows = i.overflows
  BY DEF Trims
<1> QED
  BY <1>1, <1>2, <1>3, <1>4, <1>5 DEF Passes, Fares, Clocks

LEMMA PassesOn ==
  ASSUME NEW H \in SUBSET Task, NEW i, Good(i, H), Times(i), NEW j, Good(j, H), NEW l, Good(l, H),
         NEW m \in Nat, NEW n \in Nat, NEW S, NEW T,
         Passes(i, j, m, S), Passes(j, l, n, T)
  PROVE  Passes(i, l, m + n, S \cup T)
<1>1. Times(l) /\ Times(j)
  BY DEF Passes, Fares, Clocks
<1>2. ASSUME NEW u \in Task, Sleeps(l, u)
      PROVE  Sleeps(i, u) /\ Left(l, u) + (m + n) = Left(i, u)
  <2>1. Sleeps(j, u) /\ Left(l, u) + n = Left(j, u)
    BY <1>2 DEF Passes, Fares, Clocks
  <2>2. Sleeps(i, u) /\ Left(j, u) + m = Left(i, u)
    BY <2>1 DEF Passes, Fares, Clocks
  <2>3. Left(l, u) \in Nat
    BY <1>1, <1>2, LeftIs
  <2>4. Left(j, u) \in Nat /\ Left(i, u) \in Nat
    BY <1>1, <2>1, <2>2, LeftIs
  <2> DEFINE a == Left(l, u)
             b == Left(j, u)
             c == Left(i, u)
  <2>5. a \in Nat /\ b \in Nat /\ c \in Nat /\ a + n = b /\ b + m = c
    BY <2>1, <2>2, <2>3, <2>4
  <2> HIDE DEF a, b, c
  <2>6. a + (m + n) = c
    BY <2>5
  <2> QED
    BY <2>2, <2>6 DEF a, c
<1>3. ASSUME NEW u \in Task, Sleeps(i, u)
      PROVE  u \in S \cup T \/ Sleeps(l, u) \/ Left(i, u) <= m + n
  <2>1. u \in S \/ Sleeps(j, u) \/ Left(i, u) <= m
    BY <1>3 DEF Passes, Fares, Clocks
  <2>2. Left(i, u) \in Nat
    BY <1>3, LeftIs
  <2>3. CASE Sleeps(j, u)
    <3>1. u \in T \/ Sleeps(l, u) \/ Left(j, u) <= n
      BY <2>3 DEF Passes, Fares, Clocks
    <3>2. Left(j, u) \in Nat /\ Left(j, u) + m = Left(i, u)
      BY <1>1, <2>3, LeftIs DEF Passes, Fares, Clocks
    <3> QED
      BY <2>2, <3>1, <3>2
  <2> QED
    BY <2>1, <2>2, <2>3
<1>4. ASSUME NEW c \in 0 .. TickModulus - 1, NEW o \in Nat, NEW e \in Nat,
             e + (m + n) <= TickModulus, Since(i.tick, i.overflows, c, o, e)
      PROVE  Since(l.tick, l.overflows, c, o, e + (m + n))
  <2>1. e + m \in Nat /\ e + m <= TickModulus /\ (e + m) + n = e + (m + n)
    BY <1>4, TasksAssumption
  <2>2. Since(j.tick, j.overflows, c, o, e + m)
    BY <1>4, <2>1 DEF Passes, Fares, Clocks
  <2>3. Since(l.tick, l.overflows, c, o, (e + m) + n)
    BY <1>4, <2>1, <2>2 DEF Passes, Fares, Clocks
  <2> QED
    BY <2>1, <2>3
<1> QED
  BY <1>1, <1>2, <1>3, <1>4 DEF Passes, Fares, Clocks

-----------------------------------------------------------------------------
(* What the functions of the scheduler do to the times.                    *)
LEMMA GenericRemovedTrims ==
  ASSUME NEW j \in Kernel, NEW t \in Task
  PROVE  Trims(j, GenericRemoved(j, t), {t}) /\ ~Sleeps(GenericRemoved(j, t), t)
<1> DEFINE r == GenericRemoved(j, t)
           ready == [p \in Priorities |-> Without(j.ready[p], t)]
<1>1. /\ r.delayed = Without(j.delayed, t) /\ r.overflow = Without(j.overflow, t)
      /\ r.wake = [j.wake EXCEPT ![t] = 0] /\ r.tick = j.tick /\ r.overflows = j.overflows
  <2> HIDE DEF ready
  <2>1. r = [j EXCEPT !.wake[t] = 0, !.ready = ready, !.delayed = Without(j.delayed, t),
                      !.overflow = Without(j.overflow, t), !.suspended = Without(j.suspended, t)]
    BY DEF GenericRemoved, ready, Kernel
  <2> HIDE DEF r
  <2> QED
    BY <2>1 DEF Kernel
<1> HIDE DEF r
<1>2. j.delayed \in Lists /\ j.overflow \in Lists /\ j.wake \in [Task -> Nat]
  BY KernelFields
<1>3. \A u : u # t => r.wake[u] = j.wake[u]
  BY <1>1, <1>2
<1>4. /\ \A u : Contains(r.delayed, u) <=> Contains(j.delayed, u) /\ u # t
      /\ \A u : Contains(r.overflow, u) <=> Contains(j.overflow, u) /\ u # t
  BY <1>1, <1>2, WithoutIs
<1>5. ASSUME Sorted(j.delayed, j.wake) PROVE Sorted(r.delayed, r.wake)
  <2>1. Sorted(Without(j.delayed, t), r.wake)
    BY <1>2, <1>3, <1>5, WithoutSorted
  <2> QED
    BY <1>1, <2>1
<1>6. ASSUME Sorted(j.overflow, j.wake) PROVE Sorted(r.overflow, r.wake)
  <2>1. Sorted(Without(j.overflow, t), r.wake)
    BY <1>2, <1>3, <1>6, WithoutSorted
  <2> QED
    BY <1>1, <2>1
<1>7. Trims(j, r, {t})
  BY <1>1, <1>3, <1>4, <1>5, <1>6 DEF Trims
<1>8. ~Sleeps(r, t)
  BY <1>4 DEF Sleeps
<1> QED
  BY <1>7, <1>8 DEF r

LEMMA AddedTimes ==
  ASSUME NEW j \in Kernel, NEW t
  PROVE  SameTimes(j, prvAddTaskToReadyQueue(j, t))
BY DEF prvAddTaskToReadyQueue, Kernel, SameTimes

LEMMA SwitchTimes ==
  ASSUME NEW j \in Kernel
  PROVE  SameTimes(j, vTaskSwitchContext(j))
<1>1. \A a, b, c, d : SameTimes(j, [j EXCEPT !.top = a, !.current = b, !.ready[c] = d])
  BY DEF Kernel, SameTimes
<1>2. \A a : SameTimes(j, [j EXCEPT !.missedYield = a])
  BY DEF Kernel, SameTimes
<1> QED
  BY <1>1, <1>2 DEF vTaskSwitchContext

LEMMA ReadiedTrims ==
  ASSUME NEW j \in Kernel, NEW t \in Task
  PROVE  Trims(j, Readied(j, t), {t}) /\ ~Sleeps(Readied(j, t), t)
<1> DEFINE g == GenericRemoved(j, t)
<1>1. g \in Kernel /\ Trims(j, g, {t}) /\ ~Sleeps(g, t)
  BY GenericRemovedIs, GenericRemovedTrims
<1> HIDE DEF g
<1>2. Trims(g, prvAddTaskToReadyQueue(g, t), {})
  BY <1>1, AddedTimes, SameTrims
<1>5. ~Sleeps(prvAddTaskToReadyQueue(g, t), t)
  BY <1>1, <1>2 DEF Trims, Sleeps
<1>3. Readied(j, t) = prvAddTaskToReadyQueue(g, t)
  BY DEF Readied, g
<1>4. {t} \cup {} = {t}
  OBVIOUS
<1> QED
  BY <1>1, <1>2, <1>3, <1>4, <1>5, TrimsOn

LEMMA WakeUpTrims ==
  ASSUME NEW j \in Kernel, NEW t \in Task
  PROVE  Trims(j, WakeUp(j, t), {t}) /\ ~Sleeps(WakeUp(j, t), t)
<1> DEFINE e == EventRemoved(j, t)
<1>1. e \in Kernel /\ Trims(j, e, {})
  BY EventRemovedIs, EventRemovedTimes, SameTrims
<1> HIDE DEF e
<1>2. Trims(e, Readied(e, t), {t}) /\ ~Sleeps(Readied(e, t), t)
  BY <1>1, ReadiedTrims
<1>3. WakeUp(j, t) = Readied(e, t)
  BY DEF WakeUp, e
<1>4. {} \cup {t} = {t}
  OBVIOUS
<1> QED
  BY <1>1, <1>2, <1>3, <1>4, TrimsOn

LEMMA AllReadiedTrims ==
  ASSUME NEW H \in SUBSET Task, NEW j, Good(j, H), IdleReady(j), NEW list \in Lists,
         \A u : Contains(list, u) => u \in H /\ ~Waits(j, u)
  PROVE  Trims(j, AllReadied(j, list), {u \in Task : Contains(list, u)})
<1> DEFINE r == AllReadied(j, list)
           S == {u \in Task : Contains(list, u)}
           K == {i \in Kernel : Good(i, H) /\ i.waiting = j.waiting /\ Trims(j, i, S)}
<1>1. list \in Seq(Members)
  BY DEF Lists
<1>2. PICK f : Run(f, "ready", j, list, 0, 0, r)
  BY <1>1, AllReadiedRun
<1>3. j \in K
  BY DEF Good, Trims
<1>4. ASSUME NEW m \in 0 .. Len(list) - 1, f[m] \in K PROVE f[m + 1] \in K
  <2> DEFINE i == f[m]
             t == list[m + 1]
  <2>1. m + 1 \in 1 .. Len(list)
    BY <1>1
  <2>2. t \in H /\ t \in S /\ ~Waits(j, t)
    BY <2>1 DEF Contains
  <2>3. f[m + 1] = Readied(i, t)
    BY <1>2 DEF Run, Effect
  <2>4. Good(i, H) /\ i.waiting = j.waiting /\ i \in Kernel /\ Trims(j, i, S)
    BY <1>4
  <2>5. ~Waits(i, t)
    BY <2>2, <2>4 DEF Waits
  <2> HIDE DEF i, t
  <2>6. LET n == Readied(i, t)
        IN  /\ Good(n, H) /\ SameRun(i, n)
            /\ n.pending = i.pending /\ n.waiting = i.waiting
            /\ IdleReady(i) => IdleReady(n)
            /\ \A u \in Members : Ready(n, u) <=> Ready(i, u) \/ u = t
    BY <2>2, <2>4, <2>5, ReadiedGood
  <2>7. Trims(i, Readied(i, t), {t})
    BY <2>2, <2>4, ReadiedTrims
  <2>8. S \cup {t} = S
    BY <2>2
  <2> HIDE DEF S
  <2>9. Trims(j, Readied(i, t), S)
    BY <2>4, <2>7, <2>8, TrimsOn
  <2> QED
    BY <2>3, <2>4, <2>6, <2>9 DEF Good
<1> HIDE DEF K, r
<1>5. r \in K
  BY <1>1, <1>2, <1>3, <1>4, RunKeeps
<1> QED
  BY <1>5 DEF K, r

LEMMA WakeTrims ==
  ASSUME NEW H \in SUBSET Task, NEW j, Good(j, H), IdleReady(j),
         NEW q \in Queue, NEW side \in Sides, j.waiting[q][side] # <<>>
  PROVE  LET t == Head(j.waiting[q][side])
         IN  Trims(j, xTaskRemoveFromEventList(j, q, side), {t})
<1> DEFINE t == Head(j.waiting[q][side])
           e == EventRemoved(j, t)
           r == xTaskRemoveFromEventList(j, q, side)
<1>1. j \in Kernel
  BY DEF Good
<1>2. t \in Task
  BY WakeGood
<1>3. e \in Kernel /\ SameTimes(j, e)
  BY <1>1, EventRemovedIs, EventRemovedTimes
<1>4. j.depth = 0 => r = Readied(e, t)
  BY DEF xTaskRemoveFromEventList
<1> HIDE DEF e, t
<1>5. CASE j.depth = 0
  <2>1. Trims(e, r, {t})
    BY <1>2, <1>3, <1>4, <1>5, ReadiedTrims
  <2>2. Trims(j, e, {})
    BY <1>3, SameTrims
  <2>3. {} \cup {t} = {t}
    OBVIOUS
  <2>4. Trims(j, r, {t})
    BY <2>1, <2>2, <2>3, TrimsOn
  <2> QED
    BY <2>4 DEF t
<1>6. CASE j.depth # 0
  <2>1. SameTimes(j, r)
    BY <1>6, WakeTimes
  <2> QED
    BY <2>1, SameTrims, TrimsWider DEF t
<1> QED
  BY <1>5, <1>6

-----------------------------------------------------------------------------
(* The tick.                                                               *)
LEMMA ExpiredAre ==
  ASSUME NEW j \in Kernel, Sorted(j.delayed, j.wake),
         \A u : Contains(j.delayed, u) => j.wake[u] \in Nat,
         NEW u
  PROVE  Contains(Expired(j), u) <=> Contains(j.delayed, u) /\ j.wake[u] <= j.tick
<1> DEFINE P == {n \in 0 .. Len(j.delayed) : \A i \in 1 .. n : j.wake[j.delayed[i]] <= j.tick}
           m == Max(P)
<1>1. j.delayed \in Seq(Members) /\ Len(j.delayed) \in Nat /\ j.tick \in Nat
  BY KernelFields, TasksAssumption DEF Lists
<1>2. P \in SUBSET Nat /\ 0 \in P /\ \A x \in P : x <= Len(j.delayed)
  BY <1>1
<1>3. m \in P /\ \A x \in P : x <= m
  <2> HIDE DEF P
  <2> QED
    BY <1>1, <1>2, MaxIs
<1>4. m \in 0 .. Len(j.delayed) /\ \A i \in 1 .. m : j.wake[j.delayed[i]] <= j.tick
  BY <1>3
<1>5. Expired(j) = SubSeq(j.delayed, 1, m)
  BY DEF Expired
<1> HIDE DEF m
<1>6. /\ Len(SubSeq(j.delayed, 1, m)) = m
      /\ \A i \in 1 .. m : SubSeq(j.delayed, 1, m)[i] = j.delayed[i] /\ i \in 1 .. Len(j.delayed)
  BY <1>1, <1>4
<1>7. ASSUME Contains(Expired(j), u) PROVE Contains(j.delayed, u) /\ j.wake[u] <= j.tick
  BY <1>4, <1>5, <1>6, <1>7 DEF Contains
<1>8. ASSUME Contains(j.delayed, u), j.wake[u] <= j.tick PROVE Contains(Expired(j), u)
  <2>1. PICK i \in 1 .. Len(j.delayed) : j.delayed[i] = u
    BY <1>8 DEF Contains
  <2>2. ASSUME NEW a \in 1 .. i PROVE j.wake[j.delayed[a]] <= j.tick
    <3>1. a \in 1 .. Len(j.delayed) /\ i \in 1 .. Len(j.delayed) /\ (a < i \/ a = i)
      BY <1>1
    <3>2. CASE a = i
      BY <1>8, <2>1, <3>2
    <3>3. CASE a < i
      <4>1. j.wake[j.delayed[a]] <= j.wake[j.delayed[i]]
        BY <3>1, <3>3 DEF Sorted
      <4>2. j.wake[j.delayed[a]] \in Nat /\ j.wake[j.delayed[i]] \in Nat
        BY <3>1 DEF Contains
      <4>3. j.wake[j.delayed[i]] <= j.tick
        BY <1>8, <2>1
      <4> QED
        BY <1>1, <4>1, <4>2, <4>3
    <3> QED
      BY <3>1, <3>2, <3>3
  <2>3. i \in P
    BY <1>1, <2>2
  <2> HIDE DEF P
  <2>4. i \in 1 .. m
    BY <1>3, <1>4, <2>3, <1>1
  <2> QED
    BY <1>5, <1>6, <2>1, <2>4 DEF Contains
<1> QED
  BY <1>7, <1>8

(* Who is due leaves the delayed list, and nobody else.                    *)
LEMMA CheckTimes ==
  ASSUME NEW H \in SUBSET Task, NEW j, Good(j, H), IdleReady(j), Sorted(j.delayed, j.wake)
  PROVE  LET r == prvCheckDelayedTasks(j)
         IN  /\ Trims(j, r, {u \in Task : Contains(j.delayed, u) /\ j.wake[u] <= j.tick})
             /\ \A u : Contains(r.delayed, u) => ~(j.wake[u] <= j.tick)
<1> DEFINE r == prvCheckDelayedTasks(j)
           list == Expired(j)
           S == {u \in Task : Contains(j.delayed, u) /\ j.wake[u] <= j.tick}
           K == {i \in Kernel : Good(i, H) /\ Trims(j, i, S)}
<1>1. j \in Kernel /\ \A u : Contains(j.delayed, u) => u \in Task /\ j.wake[u] \in Nat
  BY SleepersAre DEF Good, Sleeps
<1>2. /\ list \in Seq(Members)
      /\ \A u : Contains(list, u) <=> Contains(j.delayed, u) /\ j.wake[u] <= j.tick
  BY <1>1, ExpiredIs, ExpiredAre
<1>3. PICK f : Run(f, "wake", j, list, 0, 0, r)
  BY <1>2, CheckRun
<1>4. \A u : Contains(list, u) => u \in S /\ u \in H
  BY <1>1, <1>2, SleepersAre DEF Sleeps
<1> HIDE DEF list
<1> DEFINE T == {m \in Nat : m <= Len(list) =>
                   f[m] \in K /\ \A a \in 1 .. m : ~Contains(f[m].delayed, list[a])}
<1>5. 0 \in T
  <2>1. f[0] = j
    BY <1>3 DEF Run
  <2>2. j \in K
    BY <1>1 DEF Trims
  <2> QED
    BY <2>1, <2>2
<1>6. ASSUME NEW m \in Nat, m \in T PROVE m + 1 \in T
  <2> SUFFICES ASSUME m + 1 <= Len(list)
               PROVE  f[m + 1] \in K /\ \A a \in 1 .. m + 1 : ~Contains(f[m + 1].delayed, list[a])
    OBVIOUS
  <2> DEFINE i == f[m]
             t == list[m + 1]
             n == WakeUp(i, t)
  <2>1. m + 1 \in 1 .. Len(list) /\ m \in 0 .. Len(list) - 1 /\ m <= Len(list)
    BY <1>2
  <2>2. t \in S /\ t \in H
    BY <1>4, <2>1 DEF Contains
  <2>3. f[m + 1] = n
    BY <1>3, <2>1 DEF Run, Effect
  <2>4. i \in Kernel /\ Good(i, H) /\ Trims(j, i, S) /\ \A a \in 1 .. m : ~Contains(i.delayed, list[a])
    BY <1>6, <2>1
  <2>5. Good(n, H) /\ n \in Kernel
    <3> DEFINE e == EventRemoved(i, t)
    <3>1. n = Readied(e, t)
      BY DEF WakeUp
    <3> HIDE DEF i, t, n
    <3>2. Good(e, H) /\ ~Waits(e, t)
      BY <2>4, ReleasedGood
    <3> HIDE DEF e
    <3>3. Good(Readied(e, t), H)
      BY <2>2, <3>2, ReadiedGood
    <3> QED
      BY <3>1, <3>3 DEF Good
  <2>6. Trims(i, n, {t}) /\ ~Sleeps(n, t)
    BY <2>2, <2>4, WakeUpTrims
  <2>7. S \cup {t} = S
    BY <2>2
  <2>8. \A a \in 1 .. m + 1 : a \in 1 .. m \/ a = m + 1
    OBVIOUS
  <2>9. \A a \in 1 .. m + 1 : ~Contains(n.delayed, list[a])
    BY <2>4, <2>6, <2>8 DEF Trims, Sleeps
  <2> HIDE DEF S, i, t, n
  <2>10. Trims(j, n, S)
    BY <2>4, <2>6, <2>7, TrimsOn
  <2> QED
    BY <2>3, <2>5, <2>9, <2>10
<1> HIDE DEF T
<1>7. Len(list) \in Nat
  BY <1>2
<1>8. Len(list) \in T
  BY <1>5, <1>6, <1>7, Induction
<1>9. f[Len(list)] = r
  BY <1>3 DEF Run
<1>10. r \in K /\ \A a \in 1 .. Len(list) : ~Contains(r.delayed, list[a])
  BY <1>7, <1>8, <1>9 DEF T
<1> HIDE DEF r
<1>11. ASSUME NEW u, Contains(r.delayed, u) PROVE ~(j.wake[u] <= j.tick)
  <2>1. Contains(j.delayed, u)
    BY <1>10, <1>11 DEF Trims
  <2>2. ~Contains(list, u)
    BY <1>10, <1>11 DEF Contains
  <2> QED
    BY <1>2, <2>1, <2>2
<1> QED
  BY <1>10, <1>11 DEF r

(* The clock has moved by one: who sleeps is nearer to its time by one.    *)
LEMMA TickedTimes ==
  ASSUME NEW H \in SUBSET Task, NEW j, Good(j, H), Times(j)
  PROVE  LET i == Ticked(j)
         IN  /\ Sorted(i.delayed, i.wake) /\ Sorted(i.overflow, i.wake)
             /\ \A u : Contains(i.delayed, u) => i.tick <= i.wake[u] /\ i.wake[u] < TickModulus
             /\ \A u : Contains(i.overflow, u) => i.wake[u] < i.tick
             /\ \A u : Sleeps(i, u) <=> Sleeps(j, u)
             /\ \A u : Sleeps(j, u) => Left(i, u) \in Nat /\ Left(i, u) + 1 = Left(j, u)
             /\ \A c \in 0 .. TickModulus - 1, o \in Nat, e \in Nat :
                  e + 1 <= TickModulus /\ Since(j.tick, j.overflows, c, o, e) =>
                    Since(i.tick, i.overflows, c, o, e + 1)
<1> DEFINE i == Ticked(j)
<1>1. j \in Kernel /\ Homes(j, H)
  BY DEF Good
<1>2. /\ i.wake = j.wake
      /\ \/ /\ j.tick # TickModulus - 1 /\ i.tick = j.tick + 1
            /\ i.overflows = j.overflows
            /\ i.delayed = j.delayed /\ i.overflow = j.overflow
         \/ /\ j.tick = TickModulus - 1 /\ i.tick = 0
            /\ i.overflows = (j.overflows + 1) % OverflowModulus
            /\ i.delayed = j.overflow /\ i.overflow = j.delayed
  BY <1>1, TickedIs
<1> HIDE DEF i
<1>3. j.tick \in 0 .. TickModulus - 1 /\ TickModulus \in Nat \ {0, 1}
  BY <1>1, KernelFields, TasksAssumption
<1>4. \A u : Sleeps(j, u) => j.wake[u] \in Nat
  BY SleepersAre
<1>5. \A u : Contains(j.delayed, u) => ~Contains(j.overflow, u)
  <2>1. \A u : Contains(j.delayed, u) => u \in Members
    BY <1>1, KernelFields, Listed1
  <2> QED
    BY <1>1, <2>1 DEF Homes
<1>6. CASE /\ j.tick # TickModulus - 1 /\ i.tick = j.tick + 1 /\ i.overflows = j.overflows
           /\ i.delayed = j.delayed /\ i.overflow = j.overflow
  <2>1. Sorted(i.delayed, i.wake) /\ Sorted(i.overflow, i.wake)
    BY <1>2, <1>6 DEF Times
  <2>2. \A u : Sleeps(i, u) <=> Sleeps(j, u)
    BY <1>6 DEF Sleeps
  <2>3. ASSUME NEW u, Contains(j.delayed, u)
        PROVE  i.tick <= i.wake[u] /\ i.wake[u] < TickModulus
               /\ Left(i, u) \in Nat /\ Left(i, u) + 1 = Left(j, u)
    <3>1. j.wake[u] \in Nat /\ j.tick < j.wake[u] /\ j.wake[u] < TickModulus
      BY <1>4, <2>3 DEF Times, Sleeps
    <3>2. Left(i, u) = j.wake[u] - (j.tick + 1) /\ Left(j, u) = j.wake[u] - j.tick
      BY <1>2, <1>6, <2>3 DEF Left
    <3> QED
      BY <1>2, <1>3, <1>6, <3>1, <3>2
  <2>4. ASSUME NEW u, Contains(j.overflow, u)
        PROVE  i.wake[u] < i.tick /\ Left(i, u) \in Nat /\ Left(i, u) + 1 = Left(j, u)
    <3>1. j.wake[u] \in Nat /\ j.wake[u] < j.tick /\ ~Contains(j.delayed, u)
      BY <1>4, <1>5, <2>4 DEF Times, Sleeps
    <3>2. /\ Left(i, u) = (j.wake[u] + TickModulus) - (j.tick + 1)
          /\ Left(j, u) = (j.wake[u] + TickModulus) - j.tick
      BY <1>2, <1>6, <3>1 DEF Left
    <3> QED
      BY <1>2, <1>3, <1>6, <3>1, <3>2
  <2>5. ASSUME NEW c \in 0 .. TickModulus - 1, NEW o \in Nat, NEW e \in Nat,
               Since(j.tick, j.overflows, c, o, e)
        PROVE  Since(i.tick, i.overflows, c, o, e + 1)
    <3>1. i.tick = j.tick + 1 /\ i.overflows = j.overflows
      BY <1>6
    <3>2. CASE j.tick = c + e /\ j.overflows = o
      BY <1>3, <3>1, <3>2 DEF Since
    <3>3. CASE j.tick = (c + e) - TickModulus /\ j.overflows = (o + 1) % OverflowModulus
      <4>1. i.tick = (c + (e + 1)) - TickModulus
        BY <1>3, <3>1, <3>3
      <4> QED
        BY <3>1, <3>3, <4>1 DEF Since
    <3> QED
      BY <2>5, <3>2, <3>3 DEF Since
  <2>6. \A u : Contains(i.overflow, u) => i.wake[u] < i.tick
    BY <1>6, <2>4
  <2>7. \A u : Contains(i.delayed, u) => i.tick <= i.wake[u] /\ i.wake[u] < TickModulus
    BY <1>6, <2>3
  <2>8. \A u : Sleeps(j, u) => Left(i, u) \in Nat /\ Left(i, u) + 1 = Left(j, u)
    BY <2>3, <2>4 DEF Sleeps
  <2> QED
    BY <2>1, <2>2, <2>5, <2>6, <2>7, <2>8 DEF i
<1>7. CASE /\ j.tick = TickModulus - 1 /\ i.tick = 0
           /\ i.overflows = (j.overflows + 1) % OverflowModulus
           /\ i.delayed = j.overflow /\ i.overflow = j.delayed
  <2>1. Sorted(i.delayed, i.wake) /\ Sorted(i.overflow, i.wake)
    BY <1>2, <1>7 DEF Times
  <2>2. \A u : Sleeps(i, u) <=> Sleeps(j, u)
    BY <1>7 DEF Sleeps
  <2>3. ASSUME NEW u PROVE ~Contains(j.delayed, u)
    <3>1. SUFFICES ASSUME Contains(j.delayed, u) PROVE FALSE
      OBVIOUS
    <3>2. j.wake[u] \in Nat /\ j.tick < j.wake[u] /\ j.wake[u] < TickModulus
      BY <1>4, <3>1 DEF Times, Sleeps
    <3> QED
      BY <1>3, <1>7, <3>2
  <2>4. ASSUME NEW u, Contains(j.overflow, u)
        PROVE  i.tick <= i.wake[u] /\ i.wake[u] < TickModulus
               /\ Left(i, u) \in Nat /\ Left(i, u) + 1 = Left(j, u)
    <3>1. j.wake[u] \in Nat /\ j.wake[u] < j.tick /\ ~Contains(j.delayed, u)
      BY <1>4, <2>3, <2>4 DEF Times, Sleeps
    <3>2. /\ Left(i, u) = j.wake[u] - 0
          /\ Left(j, u) = (j.wake[u] + TickModulus) - j.tick
      BY <1>2, <1>7, <2>4, <3>1 DEF Left
    <3> QED
      BY <1>2, <1>3, <1>7, <3>1, <3>2
  <2>5. ASSUME NEW c \in 0 .. TickModulus - 1, NEW o \in Nat, NEW e \in Nat,
               e + 1 <= TickModulus, Since(j.tick, j.overflows, c, o, e)
        PROVE  Since(i.tick, i.overflows, c, o, e + 1)
    <3>1. i.tick = 0 /\ i.overflows = (j.overflows + 1) % OverflowModulus /\ j.tick = TickModulus - 1
      BY <1>7
    <3>2. ~(j.tick = (c + e) - TickModulus)
      BY <1>3, <2>5, <3>1
    <3>3. j.tick = c + e /\ j.overflows = o
      BY <2>5, <3>2 DEF Since
    <3>4. i.tick = (c + (e + 1)) - TickModulus
      BY <1>3, <3>1, <3>3
    <3> QED
      BY <3>1, <3>3, <3>4 DEF Since
  <2>6. \A u : Contains(i.overflow, u) => i.wake[u] < i.tick
    BY <1>7, <2>3
  <2>7. \A u : Contains(i.delayed, u) => i.tick <= i.wake[u] /\ i.wake[u] < TickModulus
    BY <1>7, <2>4
  <2>8. \A u : Sleeps(j, u) => Left(i, u) \in Nat /\ Left(i, u) + 1 = Left(j, u)
    BY <2>3, <2>4 DEF Sleeps
  <2> QED
    BY <2>1, <2>2, <2>5, <2>6, <2>7, <2>8 DEF i
<1> QED
  BY <1>2, <1>6, <1>7

LEMMA TickPasses ==
  ASSUME NEW H \in SUBSET Task, NEW j, Good(j, H), IdleReady(j), Times(j), j.depth = 0
  PROVE  Passes(j, vTaskIncrementTick(j), 1, {})
<1> DEFINE i == Ticked(j)
           r == prvCheckDelayedTasks(i)
           S == {u \in Task : Contains(i.delayed, u) /\ i.wake[u] <= i.tick}
<1>1. vTaskIncrementTick(j) = r
  BY DEF vTaskIncrementTick, Ticked
<1>2. Good(i, H) /\ IdleReady(i)
  BY TickedGood
<1>3. /\ Sorted(i.delayed, i.wake) /\ Sorted(i.overflow, i.wake)
      /\ \A u : Contains(i.delayed, u) => i.tick <= i.wake[u] /\ i.wake[u] < TickModulus
      /\ \A u : Contains(i.overflow, u) => i.wake[u] < i.tick
      /\ \A u : Sleeps(i, u) <=> Sleeps(j, u)
      /\ \A u : Sleeps(j, u) => Left(i, u) \in Nat /\ Left(i, u) + 1 = Left(j, u)
  BY TickedTimes
<1>4. \A c \in 0 .. TickModulus - 1, o \in Nat, e \in Nat :
        e + 1 <= TickModulus /\ Since(j.tick, j.overflows, c, o, e) =>
          Since(i.tick, i.overflows, c, o, e + 1)
  BY TickedTimes
<1> HIDE DEF i
<1>5. Trims(i, r, S) /\ \A u : Contains(r.delayed, u) => ~(i.wake[u] <= i.tick)
  BY <1>2, <1>3, CheckTimes
<1> HIDE DEF r
<1>6. i.tick \in Nat /\ \A u : Sleeps(i, u) => i.wake[u] \in Nat
  BY <1>2, SleepersAre, KernelFields, TasksAssumption DEF Good
<1>7. Times(r)
  <2>1. \A u : Contains(r.delayed, u) =>
                 Contains(i.delayed, u) /\ r.wake[u] = i.wake[u] /\ ~(i.wake[u] <= i.tick)
    BY <1>5 DEF Trims
  <2>2. \A u : Contains(r.overflow, u) => Contains(i.overflow, u) /\ r.wake[u] = i.wake[u]
    BY <1>5 DEF Trims
  <2>3. r.tick = i.tick /\ Sorted(r.delayed, r.wake) /\ Sorted(r.overflow, r.wake)
    BY <1>3, <1>5 DEF Trims
  <2>4. ASSUME NEW u, Contains(r.delayed, u) PROVE r.tick < r.wake[u] /\ r.wake[u] < TickModulus
    <3>1. i.wake[u] \in Nat /\ r.wake[u] = i.wake[u] /\ ~(i.wake[u] <= i.tick) /\ i.wake[u] < TickModulus
      BY <1>3, <1>6, <2>1, <2>4 DEF Sleeps
    <3> QED
      BY <1>6, <2>3, <3>1
  <2>5. ASSUME NEW u, Contains(r.overflow, u) PROVE r.wake[u] < r.tick
    BY <1>3, <2>2, <2>3, <2>5
  <2> QED
    BY <2>3, <2>4, <2>5 DEF Times
<1>8. ASSUME NEW u \in Task, Sleeps(r, u) PROVE Sleeps(j, u) /\ Left(r, u) + 1 = Left(j, u)
  <2>1. Sleeps(i, u) /\ Left(r, u) = Left(i, u)
    BY <1>2, <1>5, <1>8, TrimsLeft
  <2> QED
    BY <1>3, <2>1
<1>9. ASSUME NEW u \in Task, Sleeps(j, u) PROVE Sleeps(r, u) \/ Left(j, u) <= 1
  <2>1. Sleeps(i, u) /\ Left(i, u) \in Nat /\ Left(i, u) + 1 = Left(j, u)
    BY <1>3, <1>9
  <2>2. CASE u \in S
    <3>1. Left(i, u) = i.wake[u] - i.tick /\ i.wake[u] <= i.tick /\ i.wake[u] \in Nat
      BY <1>6, <2>1, <2>2 DEF Left
    <3> QED
      BY <1>6, <2>1, <3>1
  <2>3. CASE u \notin S
    BY <1>5, <2>1, <2>3 DEF Trims, Sleeps
  <2> QED
    BY <2>2, <2>3
<1>10. r.tick = i.tick /\ r.overflows = i.overflows
  BY <1>5 DEF Trims
<1> QED
  BY <1>1, <1>4, <1>7, <1>8, <1>9, <1>10 DEF Passes, Fares, Clocks

(* What does not touch the lists of delayed tasks adds nothing.            *)
LEMMA PassesSame ==
  ASSUME NEW i, NEW j, NEW l, NEW n, NEW S, Passes(i, j, n, S), SameTimes(j, l)
  PROVE  Passes(i, l, n, S)
BY DEF Passes, Fares, Clocks, SameTimes, Times, Sleeps, Left

LEMMA PassesFrom ==
  ASSUME NEW i, NEW j, NEW l, NEW n, NEW S, SameTimes(i, j), Passes(j, l, n, S)
  PROVE  Passes(i, l, n, S)
BY DEF Passes, Fares, Clocks, SameTimes, Sleeps, Left

LEMMA TimesSame ==
  ASSUME NEW i, NEW j, SameTimes(i, j), Times(i)
  PROVE  Times(j)
BY DEF SameTimes, Times

LEMMA CountedPasses ==
  ASSUME NEW H \in SUBSET Task, NEW j, Good(j, H), IdleReady(j), Times(j), j.depth = 0,
         NEW n \in Nat, NEW f, Counts(f, j, n)
  PROVE  Passes(j, f[n], n, {})
<1> DEFINE Kept(i, m) == Good(i, H) /\ IdleReady(i) /\ i.depth = 0 /\ Passes(j, i, m, {})
           T == {m \in Nat : m <= n => Kept(f[m], m)}
<1>1. 0 \in T
  <2>1. f[0] = j
    BY DEF Counts
  <2>2. Passes(j, j, 0, {})
    <3>1. Trims(j, j, {})
      BY SameTrims DEF SameTimes
    <3> QED
      BY <3>1, TrimsPasses
  <2> QED
    BY <2>1, <2>2
<1>2. ASSUME NEW m \in Nat, m \in T PROVE m + 1 \in T
  <2> SUFFICES ASSUME m + 1 <= n PROVE Kept(f[m + 1], m + 1)
    OBVIOUS
  <2> DEFINE i == f[m]
             r == vTaskIncrementTick(i)
  <2>1. Kept(i, m)
    BY <1>2
  <2>2. f[m + 1] = r
    <3>1. m + 1 \in 0 .. n /\ m + 1 # 0 /\ (m + 1) - 1 = m
      OBVIOUS
    <3>2. f[m + 1] = vTaskIncrementTick(f[(m + 1) - 1])
      BY <3>1 DEF Counts
    <3> QED
      BY <3>1, <3>2
  <2> HIDE DEF i
  <2>3. Good(r, H) /\ IdleReady(r) /\ r.depth = i.depth
    BY <2>1, TickGood
  <2>4. Times(i)
    BY <2>1 DEF Passes, Fares, Clocks
  <2>5. Passes(i, r, 1, {})
    BY <2>1, <2>4, TickPasses
  <2> HIDE DEF r
  <2>6. {} \cup {} = {} /\ 1 \in Nat
    OBVIOUS
  <2>7. Passes(j, r, m + 1, {} \cup {})
    BY <2>1, <2>3, <2>5, <2>6, PassesOn
  <2> QED
    BY <2>1, <2>2, <2>3, <2>6, <2>7
<1> HIDE DEF T
<1>3. n \in T
  BY <1>1, <1>2, Induction
<1> QED
  BY <1>3 DEF T

(* The tasks that were readied while the scheduler was suspended leave the *)
(* lists, then the ticks missed pass.                                      *)
LEMMA ReleasePasses ==
  ASSUME NEW H \in SUBSET Task, NEW j, Good(j, H), IdleReady(j), Times(j)
  PROVE  Passes(j, Released(j), j.missedTicks, {u \in Task : Contains(j.pending, u)})
<1> DEFINE a == AllReadied(j, j.pending)
           i == [a EXCEPT !.pending = <<>>, !.depth = 0]
           n == j.missedTicks
           count[m \in 0 .. j.missedTicks] == IF m = 0 THEN i ELSE vTaskIncrementTick(count[m - 1])
           r == [count[j.missedTicks] EXCEPT !.missedTicks = 0]
           S == {u \in Task : Contains(j.pending, u)}
<1>1. j \in Kernel /\ Events(j, H) /\ n \in Nat /\ j.pending \in Lists
  BY KernelFields DEF Good
<1>2. \A u : Contains(j.pending, u) => u \in H /\ ~Waits(j, u)
  BY <1>1, Listed1 DEF Events, Waits
<1>3. Good(a, H) /\ IdleReady(a)
  BY <1>1, <1>2, AllReadiedGood
<1>4. Trims(j, a, S)
  BY <1>1, <1>2, AllReadiedTrims
<1> HIDE DEF a
<1>5. a \in Kernel
  BY <1>3 DEF Good
<1>6. /\ i \in Kernel /\ i.ready = a.ready /\ i.delayed = a.delayed /\ i.overflow = a.overflow
      /\ i.suspended = a.suspended /\ i.waiting = a.waiting /\ i.pending = <<>>
      /\ i.depth = 0 /\ SameTimes(a, i)
  <2> DEFINE none == <<>>
  <2>1. none \in Lists /\ 0 \in 0 .. 1
    BY EmptyList
  <2>2. i = [a EXCEPT !.pending = none, !.depth = 0]
    OBVIOUS
  <2>3. i.pending = none => i.pending = <<>>
    OBVIOUS
  <2> HIDE DEF i, none
  <2> QED
    BY <1>5, <2>1, <2>2, <2>3 DEF Kernel, SameTimes
<1>7. Released(j) = r
  BY DEF Released, a
<1> HIDE DEF i
<1>8. Good(i, H) /\ IdleReady(i)
  BY <1>3, <1>6, EmptyList, SetFree
<1> HIDE DEF S
<1>9. Passes(j, i, 0, S)
  BY <1>4, <1>6, TrimsPasses, PassesSame
<1>10. Times(i)
  BY <1>9 DEF Passes, Fares, Clocks
<1>11. Counts(count, i, n)
  BY <1>1, CountExists DEF Counts
<1> DEFINE c == count[j.missedTicks]
<1> HIDE DEF count
<1>12. Good(c, H) /\ Passes(i, c, n, {})
  <2>1. Good(count[n], H)
    BY <1>1, <1>6, <1>8, <1>11, CountedGood
  <2>2. Passes(i, count[n], n, {})
    BY <1>1, <1>6, <1>8, <1>10, <1>11, CountedPasses
  <2> QED
    BY <2>1, <2>2
<1> HIDE DEF c
<1>13. 0 + n = n /\ S \cup {} = S /\ 0 \in Nat
  BY <1>1
<1> HIDE DEF n
<1>14. Passes(j, c, 0 + n, S \cup {})
  BY <1>1, <1>8, <1>9, <1>12, <1>13, PassesOn
<1>15. r = [c EXCEPT !.missedTicks = 0]
  BY DEF c
<1> HIDE DEF r
<1>16. SameTimes(c, r)
  <2>1. c \in Kernel
    BY <1>12 DEF Good
  <2> QED
    BY <1>15, <2>1 DEF Kernel, SameTimes
<1>17. Passes(j, c, n, S)
  BY <1>13, <1>14
<1>18. Passes(j, r, n, S)
  BY <1>16, <1>17, PassesSame
<1> QED
  BY <1>7, <1>18 DEF n, S

LEMMA ResumeAllPasses ==
  ASSUME NEW H \in SUBSET Task, NEW j, Good(j, H), IdleReady(j), Times(j), j.depth = 1
  PROVE  Passes(j, xTaskResumeAll(j), j.missedTicks, {u \in Task : Contains(j.pending, u)})
<1> DEFINE a == Released(j)
           i == [a EXCEPT !.missedYield = FALSE]
           S == {u \in Task : Contains(j.pending, u)}
<1>1. Passes(j, a, j.missedTicks, S)
  BY ReleasePasses
<1>2. Good(a, H)
  BY ReleaseGood
<1>3. xTaskResumeAll(j) = IF MustYield(j) THEN vTaskSwitchContext(i) ELSE a
  BY DEF xTaskResumeAll
<1> HIDE DEF a, S
<1>4. i \in Kernel /\ SameTimes(a, i)
  <2>1. a \in Kernel
    BY <1>2 DEF Good
  <2> QED
    BY <2>1 DEF Kernel, SameTimes
<1> HIDE DEF i
<1>5. SameTimes(i, vTaskSwitchContext(i))
  BY <1>4, SwitchTimes
<1>6. Passes(j, vTaskSwitchContext(i), j.missedTicks, S)
  BY <1>1, <1>4, <1>5, PassesSame
<1>7. Passes(j, xTaskResumeAll(j), j.missedTicks, S)
  BY <1>1, <1>3, <1>6
<1> QED
  BY <1>7 DEF S

LEMMA TrimsSharp ==
  ASSUME NEW i, NEW j, NEW t, Trims(i, j, {t}), ~Sleeps(i, t)
  PROVE  Trims(i, j, {})
BY DEF Trims, Sleeps

LEMMA PutAwayTrims ==
  ASSUME NEW j \in Kernel, NEW t \in Task
  PROVE  Trims(j, PutAway(j, t), {t}) /\ ~Sleeps(PutAway(j, t), t)
<1> DEFINE g == GenericRemoved(j, t)
           r == PutAway(j, t)
<1>1. g \in Kernel /\ Trims(j, g, {t}) /\ ~Sleeps(g, t)
  BY GenericRemovedIs, GenericRemovedTrims
<1>2. SameTimes(g, r)
  <2>1. r = [g EXCEPT !.suspended = Append(@, t)]
    BY DEF PutAway
  <2> HIDE DEF g, r
  <2> QED
    BY <1>1, <2>1 DEF Kernel, SameTimes
<1> HIDE DEF g, r
<1>3. {t} \cup {} = {t}
  OBVIOUS
<1>4. Trims(j, r, {t}) /\ ~Sleeps(r, t)
  BY <1>1, <1>2, <1>3, SameTrims, TrimsOn DEF SameTimes, Sleeps
<1> QED
  BY <1>4 DEF r

LEMMA SuspendTrims ==
  ASSUME NEW H \in SUBSET Task, NEW j, Good(j, H), NEW t \in H
  PROVE  Trims(j, vTaskSuspend(j, t), {t})
<1> DEFINE e == EventRemoved(j, t)
           i == PutAway(e, t)
           b == vTaskSwitchContext(i)
           r == vTaskSuspend(j, t)
<1>1. e \in Kernel /\ Homes(e, H) /\ Trims(j, e, {})
  BY ReleasedGood, EventRemovedTimes, SameTrims DEF Good
<1>2. r = IF t = j.current THEN b ELSE i
  BY DEF vTaskSuspend, PutAway, e
<1> HIDE DEF e
<1>3. i \in Kernel /\ Trims(e, i, {t})
  BY <1>1, PutAwayHomes, PutAwayTrims
<1> HIDE DEF i
<1>4. Trims(i, b, {})
  BY <1>3, SwitchTimes, SameTrims
<1> HIDE DEF b, r
<1>5. {} \cup {t} = {t} /\ {t} \cup {} = {t}
  OBVIOUS
<1>6. Trims(j, i, {t})
  BY <1>1, <1>3, <1>5, TrimsOn
<1>7. Trims(j, b, {t})
  BY <1>4, <1>5, <1>6, TrimsOn
<1> QED
  BY <1>2, <1>6, <1>7 DEF r

(* A task that is resumed was not asleep.                                  *)
LEMMA ResumeTrims ==
  ASSUME NEW H \in SUBSET Task, NEW j, Good(j, H), IdleReady(j), NEW t \in H
  PROVE  Trims(j, vTaskResume(j, t), {})
<1> DEFINE a == Readied(j, t)
           b == vTaskSwitchContext(a)
           r == vTaskResume(j, t)
<1>1. j \in Kernel /\ Homes(j, H) /\ t \in Members /\ t \in Task
  BY DEF Good, Members
<1>2. Trims(j, j, {})
  BY SameTrims DEF SameTimes
<1>3. CASE ~xTaskIsTaskSuspended(j, t)
  <2>1. r = j
    BY <1>3 DEF vTaskResume
  <2> QED
    BY <1>2, <2>1
<1>4. CASE xTaskIsTaskSuspended(j, t)
  <2>1. t \in ToSet(j.suspended) /\ j.suspended \in Seq(Members)
    BY <1>1, <1>4, KernelFields DEF xTaskIsTaskSuspended, Lists
  <2>2. Contains(j.suspended, t)
    BY <2>1 DEF ToSet, Contains
  <2>3. ~Sleeps(j, t)
    BY <1>1, <2>2 DEF Homes, Sleeps
  <2>4. ~Waits(j, t)
    <3>1. \A q \in Queue, side \in Sides : t \notin ToSet(j.waiting[q][side])
      BY <1>4 DEF xTaskIsTaskSuspended
    <3>2. ASSUME NEW q \in Queue, NEW side \in Sides, Contains(j.waiting[q][side], t) PROVE FALSE
      <4>1. j.waiting[q][side] \in Seq(Members)
        BY <1>1, KernelFields DEF Lists
      <4>2. t \in ToSet(j.waiting[q][side])
        BY <3>2, <4>1 DEF ToSet, Contains
      <4> QED
        BY <3>1, <4>2
    <3> QED
      BY <3>2 DEF Waits
  <2>5. a \in Kernel
    BY <2>4, ReadiedGood DEF Good
  <2>6. Trims(j, a, {})
    BY <1>1, <2>3, ReadiedTrims, TrimsSharp
  <2>7. r \in {j, a, b}
    BY DEF vTaskResume
  <2> HIDE DEF a, r
  <2>8. Trims(a, b, {})
    BY <2>5, SwitchTimes, SameTrims
  <2>9. {} \cup {} = {}
    OBVIOUS
  <2>10. Trims(j, b, {})
    BY <2>6, <2>8, <2>9, TrimsOn
  <2> QED
    BY <1>2, <2>6, <2>7, <2>10 DEF r
<1> QED
  BY <1>3, <1>4

LEMMA CreateTimes ==
  ASSUME NEW H \in SUBSET Task, NEW j, Good(j, H), IdleReady(j), NEW t \in Task, t \notin H
  PROVE  SameTimes(j, xTaskGenericCreate(j, t))
<1> DEFINE a == prvAddTaskToReadyQueue(j, t)
           b == vTaskSwitchContext(a)
<1>1. j \in Kernel /\ Homes(j, H) /\ t \in Members
  BY DEF Good, Members
<1>2. ~Ready(j, t)
  BY <1>1, PrioIs, TasksAssumption DEF Homes, Ready
<1>3. a \in Kernel /\ SameTimes(j, a)
  BY <1>1, <1>2, AddedIs, AddedTimes
<1>4. xTaskGenericCreate(j, t) \in {a, b}
  BY DEF xTaskGenericCreate
<1> HIDE DEF a
<1>5. SameTimes(a, b)
  BY <1>3, SwitchTimes
<1>6. SameTimes(j, b)
  BY <1>3, <1>5 DEF SameTimes
<1> QED
  BY <1>3, <1>4, <1>6

(* A task goes to sleep for ticks; the others sleep on.                    *)
Lulls(i, j, t, ticks) ==
  /\ Times(j) /\ j.tick = i.tick /\ j.overflows = i.overflows
  /\ Sleeps(j, t) /\ Left(j, t) = ticks
  /\ \A u \in Task \ {t} : /\ Sleeps(j, u) <=> Sleeps(i, u)
                           /\ Sleeps(i, u) => Left(j, u) = Left(i, u)

LEMMA AsleepLulls ==
  ASSUME NEW H \in SUBSET Task, NEW j \in Kernel, Homes(j, H), Times(j), NEW t \in H,
         NEW ticks \in 1 .. TickModulus - 1
  PROVE  Lulls(j, Asleep(j, t, ticks), t, ticks)
<1> DEFINE g == GenericRemoved(j, t)
           x == (j.tick + ticks) % TickModulus
           wake == [j.wake EXCEPT ![t] = x]
           i == [g EXCEPT !.wake = wake]
           r == Asleep(j, t, ticks)
<1>1. t \in Task /\ t \in Members
  BY DEF Members
<1>2. /\ j.delayed \in Lists /\ j.overflow \in Lists /\ j.wake \in [Task -> Nat]
      /\ j.tick \in 0 .. TickModulus - 1 /\ TickModulus \in Nat \ {0, 1}
  BY KernelFields, TasksAssumption
<1>3. x = IF j.tick + ticks < TickModulus THEN j.tick + ticks ELSE (j.tick + ticks) - TickModulus
  <2>1. CASE j.tick + ticks < TickModulus
    <3>1. j.tick + ticks \in 0 .. TickModulus - 1
      BY <1>2, <2>1
    <3> QED
      BY <1>2, <2>1, <3>1, ModBelow
  <2>2. CASE ~(j.tick + ticks < TickModulus)
    <3>1. j.tick + ticks \in TickModulus .. 2 * TickModulus - 1
      BY <1>2, <2>2
    <3> QED
      BY <1>2, <2>2, <3>1, ModAbove
  <2> QED
    BY <2>1, <2>2
<1>4. /\ g \in Kernel /\ Trims(j, g, {t}) /\ ~Sleeps(g, t)
      /\ \A u : /\ Contains(g.delayed, u) <=> Contains(j.delayed, u) /\ u # t
                /\ Contains(g.overflow, u) <=> Contains(j.overflow, u) /\ u # t
  BY <1>1, GenericRemovedIs, GenericRemovedTrims
<1>5. r = IF wake[t] < j.tick THEN [i EXCEPT !.overflow = Inserted(@, t, wake)]
          ELSE [i EXCEPT !.delayed = Inserted(@, t, wake)]
  BY DEF Asleep
<1> HIDE DEF g, x, r
<1>6. x \in Nat
  BY <1>2, <1>3
<1>7. wake \in [Task -> Nat] /\ wake[t] = x /\ \A u : u # t => wake[u] = j.wake[u]
  BY <1>1, <1>2, <1>6
<1> HIDE DEF wake
<1>8. /\ i \in Kernel /\ i.delayed = g.delayed /\ i.overflow = g.overflow /\ i.wake = wake
      /\ i.tick = j.tick /\ i.overflows = j.overflows
  BY <1>4, <1>7 DEF Kernel, Trims
<1>9. r = IF x < j.tick THEN [i EXCEPT !.overflow = Inserted(g.overflow, t, wake)]
          ELSE [i EXCEPT !.delayed = Inserted(g.delayed, t, wake)]
  BY <1>5, <1>7, <1>8 DEF Kernel
<1> HIDE DEF i
<1>10. /\ g.delayed \in Lists /\ g.overflow \in Lists
       /\ ~Contains(g.delayed, t) /\ ~Contains(g.overflow, t)
  BY <1>4, KernelFields DEF Sleeps
<1>11. \A u : Contains(g.delayed, u) \/ Contains(g.overflow, u) => u \in Task /\ u # t /\ wake[u] \in Nat
  <2>1. \A u : Contains(j.delayed, u) \/ Contains(j.overflow, u) => u \in Members
    BY <1>2, Listed1
  <2> QED
    BY <1>4, <1>7, <2>1 DEF Homes
<1>12. Sorted(g.delayed, wake) /\ Sorted(g.overflow, wake)
  <2>1. Sorted(g.delayed, g.wake) /\ Sorted(g.overflow, g.wake)
    BY <1>4 DEF Trims, Times
  <2>2. \A u : Contains(g.delayed, u) \/ Contains(g.overflow, u) => wake[u] = g.wake[u]
    BY <1>4, <1>7, <1>11 DEF Trims
  <2>3. ASSUME NEW s \in Lists, Sorted(s, g.wake), \A u : Contains(s, u) => wake[u] = g.wake[u]
        PROVE  Sorted(s, wake)
    <3>1. \A a \in 1 .. Len(s) : wake[s[a]] = g.wake[s[a]]
      BY <2>3 DEF Contains
    <3> QED
      BY <2>3, <3>1 DEF Sorted
  <2> QED
    BY <1>10, <2>1, <2>2, <2>3
<1>13. /\ \A u : Contains(g.delayed, u) => j.tick < wake[u] /\ wake[u] < TickModulus
       /\ \A u : Contains(g.overflow, u) => wake[u] < j.tick
  BY <1>4, <1>7, <1>11 DEF Times
<1>14. \A u : Contains(g.delayed, u) => ~Contains(j.overflow, u)
  BY <1>4, <1>11 DEF Homes, Members
<1>15. CASE x < j.tick
  <2> DEFINE list == Inserted(g.overflow, t, wake)
  <2>1. Sorted(list, wake)
    BY <1>1, <1>6, <1>7, <1>10, <1>11, <1>12, InsertedSorted
  <2>2. \A u : Contains(list, u) <=> Contains(g.overflow, u) \/ u = t
    BY <1>1, <1>10, InsertedIs
  <2>3. r = [i EXCEPT !.overflow = list]
    BY <1>9, <1>15
  <2> HIDE DEF list
  <2>4. /\ r.overflow = list /\ r.delayed = g.delayed /\ r.wake = wake
        /\ r.tick = j.tick /\ r.overflows = j.overflows
    BY <1>8, <2>3 DEF Kernel
  <2>5. Times(r)
    BY <1>7, <1>12, <1>13, <1>15, <2>1, <2>2, <2>4 DEF Times
  <2>6. Sleeps(r, t) /\ ~Contains(r.delayed, t) /\ Left(r, t) = (x + TickModulus) - j.tick
    BY <1>7, <1>10, <2>2, <2>4 DEF Sleeps, Left
  <2>7. x = (j.tick + ticks) - TickModulus
    BY <1>2, <1>3, <1>15
  <2>8. Left(r, t) = ticks
    BY <1>2, <2>6, <2>7
  <2>9. ASSUME NEW u \in Task, u # t
        PROVE  (Sleeps(r, u) <=> Sleeps(j, u)) /\ (Sleeps(j, u) => Left(r, u) = Left(j, u))
    BY <1>4, <1>7, <2>2, <2>4, <2>9 DEF Sleeps, Left
  <2> QED
    BY <2>4, <2>5, <2>6, <2>8, <2>9 DEF Lulls, r
<1>16. CASE ~(x < j.tick)
  <2> DEFINE list == Inserted(g.delayed, t, wake)
  <2>1. Sorted(list, wake)
    BY <1>1, <1>6, <1>7, <1>10, <1>11, <1>12, InsertedSorted
  <2>2. \A u : Contains(list, u) <=> Contains(g.delayed, u) \/ u = t
    BY <1>1, <1>10, InsertedIs
  <2>3. r = [i EXCEPT !.delayed = list]
    BY <1>9, <1>16
  <2> HIDE DEF list
  <2>4. /\ r.delayed = list /\ r.overflow = g.overflow /\ r.wake = wake
        /\ r.tick = j.tick /\ r.overflows = j.overflows
    BY <1>8, <2>3 DEF Kernel
  <2>7. x = j.tick + ticks /\ j.tick < x /\ x < TickModulus
    BY <1>2, <1>3, <1>16
  <2>5. Times(r)
    BY <1>7, <1>12, <1>13, <2>1, <2>2, <2>4, <2>7 DEF Times
  <2>6. Sleeps(r, t) /\ Left(r, t) = x - j.tick
    BY <1>7, <2>2, <2>4 DEF Sleeps, Left
  <2>8. Left(r, t) = ticks
    BY <1>2, <2>6, <2>7
  <2>9. ASSUME NEW u \in Task, u # t
        PROVE  (Sleeps(r, u) <=> Sleeps(j, u)) /\ (Sleeps(j, u) => Left(r, u) = Left(j, u))
    BY <1>4, <1>7, <2>2, <2>4, <2>9 DEF Sleeps, Left
  <2> QED
    BY <2>4, <2>5, <2>6, <2>8, <2>9 DEF Lulls, r
<1> QED
  BY <1>15, <1>16

LEMMA LullsFares ==
  ASSUME NEW H \in SUBSET Task, NEW i, Good(i, H), Times(i), NEW j, NEW t, NEW n,
         Lulls(i, j, t, n), NEW u \in Task, u # t
  PROVE  Fares(i, j, 0, {}, u) /\ Clocks(i, j, 0)
<1>1. ASSUME Sleeps(i, u) PROVE Left(j, u) + 0 = Left(i, u)
  <2>1. Left(i, u) \in Nat
    BY <1>1, LeftIs
  <2>2. Left(j, u) = Left(i, u)
    BY <1>1 DEF Lulls
  <2> QED
    BY <2>1, <2>2
<1>2. \A e \in Nat : e + 0 = e
  OBVIOUS
<1>3. Fares(i, j, 0, {}, u)
  <2>1. Sleeps(j, u) <=> Sleeps(i, u)
    BY DEF Lulls
  <2> QED
    BY <1>1, <2>1 DEF Fares
<1>4. Clocks(i, j, 0)
  BY <1>2 DEF Lulls, Clocks
<1> QED
  BY <1>3, <1>4

(* A task on the list of a queue sleeps too, unless it waits for ever.     *)
LEMMA PlaceTimes ==
  ASSUME NEW H \in SUBSET Task, NEW j, Good(j, H), Times(j), NEW t \in H, Ready(j, t),
         NEW q \in Queue, NEW side \in Sides, NEW ticks \in 1 .. portMAX_DELAY
  PROVE  LET r == vTaskPlaceOnEventList(j, t, q, side, ticks)
         IN  IF ticks # portMAX_DELAY THEN Lulls(j, r, t, ticks)
             ELSE Trims(j, r, {}) /\ ~Sleeps(r, t)
<1> DEFINE list == Inserted(j.waiting[q][side], t, Urgency)
           w == [j.waiting EXCEPT ![q][side] = list]
           i == [j EXCEPT !.waiting = w]
           r == vTaskPlaceOnEventList(j, t, q, side, ticks)
<1>1. t \in Task /\ t \in Members /\ j \in Kernel /\ Homes(j, H) /\ Events(j, H)
  BY DEF Good, Members
<1>2. j.waiting \in [Queue -> [Sides -> Lists]] /\ j.waiting[q][side] \in Lists
  BY <1>1, KernelFields
<1>3. list \in Lists
  <2>1. ~Contains(j.waiting[q][side], t)
    BY <1>1 DEF Events
  <2> QED
    BY <1>1, <1>2, <2>1, InsertedIs
<1>4. r = IF ticks # portMAX_DELAY THEN Asleep(i, t, ticks) ELSE PutAway(i, t)
  <2>1. i = [j EXCEPT !.waiting[q][side] = Inserted(@, t, Urgency)]
    BY <1>1, <1>2 DEF Kernel
  <2> HIDE DEF i
  <2> QED
    BY <2>1 DEF vTaskPlaceOnEventList, PutAway
<1> HIDE DEF list
<1>5. w \in [Queue -> [Sides -> Lists]]
  BY <1>2, <1>3
<1> HIDE DEF w, r
<1>6. /\ i \in Kernel /\ i.ready = j.ready /\ i.delayed = j.delayed /\ i.overflow = j.overflow
      /\ i.suspended = j.suspended /\ SameTimes(j, i)
  BY <1>1, <1>5 DEF Kernel, SameTimes
<1> HIDE DEF i
<1>7. Homes(i, H) /\ Times(i)
  BY <1>1, <1>6, TimesSame DEF Homes, Ready
<1>8. CASE ticks # portMAX_DELAY
  <2>1. ticks \in 1 .. TickModulus - 1
    BY DEF portMAX_DELAY
  <2>2. Lulls(i, r, t, ticks)
    BY <1>4, <1>6, <1>7, <1>8, <2>1, AsleepLulls
  <2>3. Lulls(j, r, t, ticks)
    BY <1>6, <2>2 DEF Lulls, SameTimes, Sleeps, Left
  <2> QED
    BY <1>8, <2>3 DEF r
<1>9. CASE ticks = portMAX_DELAY
  <2>1. Trims(i, r, {t}) /\ ~Sleeps(r, t)
    BY <1>1, <1>4, <1>6, <1>9, PutAwayTrims
  <2>2. ~Sleeps(i, t)
    BY <1>1, <1>6 DEF Homes, Sleeps
  <2>3. Trims(i, r, {})
    BY <2>1, <2>2, TrimsSharp
  <2>4. Trims(j, r, {})
    BY <1>6, <2>3 DEF Trims, SameTimes
  <2> QED
    BY <1>9, <2>1, <2>4 DEF r
<1> QED
  BY <1>8, <1>9

-----------------------------------------------------------------------------
(***************************************************************************)
(* The account of each task: what it has waited and what is left to wait   *)
(* make what it asked for.                                                 *)
(***************************************************************************)
Idles == {"task", "none", "held"}

(* No limit, no wait, or the time of its start not taken yet.              *)
NotYet(t) == asked[t] = 0 \/ (pc[t] = "check" /\ ~call[t].set)

Tallied(t) ==
  /\ asked[t] \in 0 .. TickModulus - 1 /\ waited[t] \in 0 .. TickModulus + 1
  /\ NotYet(t) => waited[t] = 0
  /\ pc[t] \in Idles => asked[t] = 0

Dozing(t) ==
  Sleeps(k, t) => /\ ~NotYet(t)
                  /\ waited[t] <= TickModulus => waited[t] + Left(k, t) = asked[t]

GivesUp(t) ==
  call[t].then = "late" =>
    pc[t] \in Leaving /\ call[t].op \in Ops /\ waited[t] >= asked[t]

(* What the call still has to wait was taken at the time it keeps.         *)
Clocked(t) ==
  LET c == call[t]
  IN  /\ 1 <= c.wait /\ c.wait <= asked[t] /\ c.wait < portMAX_DELAY /\ c.set
      /\ c.tick \in 0 .. TickModulus - 1 /\ c.over \in Nat
      /\ waited[t] <= TickModulus =>
           /\ waited[t] + c.wait >= asked[t]
           /\ Since(k.tick, k.overflows, c.tick, c.over, (waited[t] + c.wait) - asked[t])
      /\ pc[t] \in {"test", "place"} => c.tick = k.tick /\ c.over = k.overflows

Timing(t) ==
  LET c == call[t]
  IN  c.op \in Ops /\ pc[t] \notin Idles =>
        IF pc[t] = "check" /\ ~c.set
        THEN asked[t] = IF c.wait = portMAX_DELAY THEN 0 ELSE c.wait
        ELSE \/ asked[t] = 0 /\ c.wait = portMAX_DELAY
             \/ asked[t] # 0 /\ Clocked(t)

Delaying(t) ==
  call[t].op = "delay" =>
    /\ ~Waits(k, t) /\ ~Contains(k.pending, t) /\ call[t].wait = asked[t]
    /\ pc[t] = "sleep" => asked[t] # 0 /\ waited[t] = 0
    /\ pc[t] # "sleep" /\ asked[t] # 0 /\ ~Disturbed(t) =>
         Sleeps(k, t) \/ waited[t] >= asked[t]

Account(t) == Tallied(t) /\ Dozing(t) /\ GivesUp(t) /\ Timing(t) /\ Delaying(t)

(* What a step that counts n ticks does to a task that it does not wake    *)
(* otherwise, but for those of S.                                          *)
Meanwhile(u, n, S) ==
  /\ Fares(k, k', n, S, u) /\ Clocks(k, k', n)
  /\ Waits(k', u) => Waits(k, u) \/ call[u].op \in Ops
  /\ Contains(k'.pending, u) => Contains(k.pending, u) \/ Waits(k, u)
  /\ u \in S => Waits(k, u) \/ Contains(k.pending, u) \/ Disturbed(u)
  /\ waited'[u] = Overtaken(n, u)

SameCall(u) ==
  /\ call'[u].op = call[u].op /\ call'[u].wait = call[u].wait /\ call'[u].set = call[u].set
  /\ call'[u].tick = call[u].tick /\ call'[u].over = call[u].over

SameTick == k'.tick = k.tick /\ k'.overflows = k.overflows

(* The task goes on with its call, or stays where it is.                   *)
Continues(u, n) ==
  /\ asked'[u] = asked[u] /\ SameCall(u)
  /\ pc[u] = "check" => pc'[u] = "check"
  /\ pc[u] \in Idles <=> pc'[u] \in Idles
  /\ call'[u].then = "late" => call[u].then = "late" /\ (pc'[u] \in Leaving \/ pc'[u] = pc[u])
  /\ pc'[u] \in {"test", "place"} /\ asked[u] # 0 =>
       pc[u] \in {"test", "place"} /\ n = 0 /\ SameTick
  /\ pc'[u] = "sleep" => n = 0
  /\ pc[u] = "sleep" <=> pc'[u] = "sleep"

LEMMA Overtakes ==
  ASSUME NEW u \in Task, Tallied(u), NEW n \in Nat
  PROVE  LET v == Overtaken(n, u)
             w == waited[u]
         IN  /\ v \in 0 .. TickModulus + 1 /\ v >= w
             /\ NotYet(u) => v = 0 /\ w = 0
             /\ ~NotYet(u) /\ v <= TickModulus => v = w + n
             /\ ~NotYet(u) /\ w + n <= TickModulus => v = w + n
             /\ ~NotYet(u) => v >= w + n \/ v = TickModulus + 1
             /\ n = 0 => v = w
<1>1. TickModulus \in Nat /\ waited[u] \in 0 .. TickModulus + 1 /\ (NotYet(u) => waited[u] = 0)
  BY TasksAssumption DEF Tallied
<1>2. Overtaken(n, u) = IF NotYet(u) THEN 0
                        ELSE IF waited[u] + n > TickModulus THEN TickModulus + 1 ELSE waited[u] + n
  BY DEF Overtaken, NotYet
<1> DEFINE w == waited[u]
           v == Overtaken(n, u)
           b == NotYet(u)
<1>3. CASE NotYet(u)
  <2>1. v = 0 /\ w = 0
    BY <1>1, <1>2, <1>3
  <2> QED
    BY <1>1, <1>3, <2>1
<1>4. CASE ~NotYet(u)
  <2>1. v = IF w + n > TickModulus THEN TickModulus + 1 ELSE w + n
    BY <1>2, <1>4
  <2>2. w \in 0 .. TickModulus + 1
    BY <1>1
  <2> HIDE DEF v, w
  <2>3. /\ v \in 0 .. TickModulus + 1 /\ v >= w
        /\ v <= TickModulus => v = w + n
        /\ w + n <= TickModulus => v = w + n
        /\ v >= w + n \/ v = TickModulus + 1
        /\ n = 0 => v = w
    BY <1>1, <2>1, <2>2
  <2> QED
    BY <1>4, <2>3 DEF v, w
<1> QED
  BY <1>3, <1>4

LEMMA StillNotYet ==
  ASSUME SInv, SInv', NEW u \in Task, Timing(u), NEW n, Continues(u, n)
  PROVE  NotYet(u)' <=> NotYet(u)
<1>1. asked'[u] = asked[u] /\ call'[u].set = call[u].set /\ call'[u].op = call[u].op
  BY DEF Continues, SameCall
<1>2. (pc[u] = "check" => pc'[u] = "check") /\ (pc[u] \in Idles <=> pc'[u] \in Idles)
  BY DEF Continues
<1>3. ASSUME asked[u] # 0, pc'[u] = "check", ~call[u].set
      PROVE  pc[u] = "check"
  <2>1. call[u].op \in Ops
    BY <1>1, <1>3 DEF SInv, KInv, Fit, Asking
  <2>2. pc[u] \notin Idles
    BY <1>2, <1>3 DEF Idles
  <2> QED
    BY <1>3, <2>1, <2>2 DEF Timing, Clocked
<1> QED
  BY <1>1, <1>2, <1>3 DEF NotYet

(* The time of a start is further back by the ticks counted.               *)
LEMMA SinceOn ==
  ASSUME NEW n \in Nat, Clocks(k, k', n), NEW c \in 0 .. TickModulus - 1, NEW o \in Nat,
         NEW a \in Nat, NEW w \in Nat, NEW d \in Nat, d <= a, w + d >= a, w + n <= TickModulus,
         Since(k.tick, k.overflows, c, o, (w + d) - a)
  PROVE  Since(k'.tick, k'.overflows, c, o, ((w + n) + d) - a)
<1> DEFINE e == (w + d) - a
<1>1. e \in Nat /\ e + n <= TickModulus /\ e + n = ((w + n) + d) - a
  BY TasksAssumption
<1>2. Since(k.tick, k.overflows, c, o, e)
  OBVIOUS
<1> HIDE DEF e
<1>3. Since(k'.tick, k'.overflows, c, o, e + n)
  BY <1>1, <1>2 DEF Clocks
<1> QED
  BY <1>1, <1>3

LEMMA TalliedOn ==
  ASSUME SInv, SInv', NEW u \in Task, Account(u), NEW n \in Nat, NEW S,
         Meanwhile(u, n, S), Continues(u, n)
  PROVE  Tallied(u)'
<1>1. Tallied(u) /\ (NotYet(u)' <=> NotYet(u))
  BY StillNotYet DEF Account
<1>2. waited'[u] \in 0 .. TickModulus + 1 /\ (NotYet(u) => waited'[u] = 0)
  BY <1>1, Overtakes DEF Meanwhile
<1>3. asked'[u] = asked[u] /\ (pc[u] \in Idles <=> pc'[u] \in Idles)
  BY DEF Continues
<1> QED
  BY <1>1, <1>2, <1>3 DEF Tallied

LEMMA DozingOn ==
  ASSUME SInv, SInv', Times(k), Times(k'), NEW u \in Task, Account(u), NEW n \in Nat, NEW S,
         Meanwhile(u, n, S), Continues(u, n)
  PROVE  Dozing(u)'
<1> SUFFICES ASSUME Sleeps(k', u)
             PROVE  ~NotYet(u)' /\ (waited'[u] <= TickModulus => waited'[u] + Left(k', u) = asked'[u])
  BY DEF Dozing
<1>1. Sleeps(k, u) /\ Left(k', u) + n = Left(k, u)
  BY DEF Meanwhile, Fares
<1>2. Tallied(u) /\ ~NotYet(u) /\ ~NotYet(u)' /\ asked'[u] = asked[u]
  <2>1. Timing(u) /\ Dozing(u) /\ Tallied(u)
    BY DEF Account
  <2>2. NotYet(u)' <=> NotYet(u)
    BY <2>1, StillNotYet
  <2> QED
    BY <1>1, <2>1, <2>2 DEF Dozing, Continues
<1>3. Left(k', u) \in Nat
  <2>1. Good(k', Born') /\ Born' \in SUBSET Task
    BY DEF SInv, KInv, Born
  <2> QED
    BY <2>1, LeftIs
<1>4. Left(k, u) \in Nat
  <2>1. Good(k, Born) /\ Born \in SUBSET Task
    BY DEF SInv, KInv, Born
  <2> QED
    BY <1>1, <2>1, LeftIs
<1> DEFINE v == waited'[u]
           w == waited[u]
           a == asked[u]
           l == Left(k, u)
           m == Left(k', u)
<1>5. v >= w /\ (v <= TickModulus => v = w + n) /\ v \in 0 .. TickModulus + 1 /\ w \in 0 .. TickModulus + 1
  <2>1. v = Overtaken(n, u)
    BY DEF Meanwhile
  <2>2. w \in 0 .. TickModulus + 1
    BY <1>2 DEF Tallied
  <2> QED
    BY <1>2, <2>1, <2>2, Overtakes
<1>6. w <= TickModulus => w + l = a
  BY <1>1 DEF Account, Dozing
<1>7. m + n = l /\ m \in Nat /\ l \in Nat /\ TickModulus \in Nat
  BY <1>1, <1>3, <1>4, TasksAssumption
<1> HIDE DEF v, w, a, l, m
<1>8. v <= TickModulus => v + m = a
  BY <1>5, <1>6, <1>7
<1> QED
  BY <1>2, <1>8 DEF v, m, a

LEMMA GivesUpOn ==
  ASSUME NEW u \in Task, Account(u), NEW n \in Nat, NEW S, Meanwhile(u, n, S), Continues(u, n)
  PROVE  GivesUp(u)'
<1> SUFFICES ASSUME call'[u].then = "late"
             PROVE  pc'[u] \in Leaving /\ call'[u].op \in Ops /\ waited'[u] >= asked'[u]
  BY DEF GivesUp
<1>1. call[u].then = "late"
  BY DEF Continues
<1>2. pc[u] \in Leaving /\ call[u].op \in Ops /\ waited[u] >= asked[u]
  BY <1>1 DEF Account, GivesUp
<1>3. pc'[u] \in Leaving /\ call'[u].op = call[u].op /\ asked'[u] = asked[u]
  BY <1>2 DEF Continues, SameCall
<1>4. waited'[u] >= waited[u] /\ waited'[u] \in Int /\ waited[u] \in Int /\ asked[u] \in Int
  <2>1. Tallied(u) /\ waited'[u] = Overtaken(n, u)
    BY DEF Account, Meanwhile
  <2>2. TickModulus \in Nat
    BY TasksAssumption
  <2>3. waited[u] \in Int /\ asked[u] \in Int
    BY <2>1, <2>2 DEF Tallied
  <2>4. waited'[u] >= waited[u] /\ waited'[u] \in 0 .. TickModulus + 1
    BY <2>1, Overtakes
  <2> QED
    BY <2>2, <2>3, <2>4
<1> QED
  BY <1>2, <1>3, <1>4

LEMMA ClockedOn ==
  ASSUME SInv, NEW u \in Task, Tallied(u), ~NotYet(u), Clocked(u), NEW n \in Nat, NEW S,
         Meanwhile(u, n, S), Continues(u, n)
  PROVE  Clocked(u)'
<1> DEFINE c == call[u]
           d == call[u].wait
           a == asked[u]
           w == waited[u]
           v == waited'[u]
<1>1. /\ 1 <= d /\ d <= a /\ d < portMAX_DELAY /\ c.set
      /\ c.tick \in 0 .. TickModulus - 1 /\ c.over \in Nat
      /\ w <= TickModulus => w + d >= a /\ Since(k.tick, k.overflows, c.tick, c.over, (w + d) - a)
  BY DEF Clocked
<1>2. pc[u] \in {"test", "place"} => c.tick = k.tick /\ c.over = k.overflows
  BY DEF Clocked
<1>3. /\ call'[u].wait = d /\ call'[u].set = c.set /\ call'[u].tick = c.tick
      /\ call'[u].over = c.over /\ asked'[u] = a
  BY DEF Continues, SameCall
<1>4. pc'[u] \in {"test", "place"} => c.tick = k'.tick /\ c.over = k'.overflows
  <2>1. a # 0
    BY DEF NotYet
  <2> QED
    BY <1>2, <2>1 DEF Continues, SameTick
<1>5. w \in 0 .. TickModulus + 1 /\ a \in 0 .. TickModulus - 1 /\ TickModulus \in Nat
  BY TasksAssumption DEF Tallied
<1>6. v \in 0 .. TickModulus + 1 /\ (v <= TickModulus => v = w + n)
  <2>1. v = Overtaken(n, u)
    BY DEF Meanwhile
  <2> QED
    BY <2>1, Overtakes
<1>7. Clocks(k, k', n)
  BY DEF Meanwhile
<1>8. d \in Nat
  BY CallIs DEF Fit
<1> HIDE DEF d, a, w, v
<1>9. ASSUME v <= TickModulus
      PROVE  v + d >= a /\ Since(k'.tick, k'.overflows, c.tick, c.over, (v + d) - a)
  <2>1. v = w + n /\ w \in Nat /\ a \in Nat /\ w + n <= TickModulus /\ w <= TickModulus
    BY <1>5, <1>6, <1>9
  <2>2. d <= a /\ w + d >= a /\ Since(k.tick, k.overflows, c.tick, c.over, (w + d) - a)
    BY <1>1, <2>1
  <2>3. c.tick \in 0 .. TickModulus - 1 /\ c.over \in Nat
    BY <1>1
  <2> HIDE DEF c
  <2>4. Since(k'.tick, k'.overflows, c.tick, c.over, ((w + n) + d) - a)
    BY <1>7, <1>8, <2>1, <2>2, <2>3, SinceOn
  <2>5. v + d >= a
    BY <1>8, <2>1, <2>2
  <2> QED
    BY <2>1, <2>4, <2>5
<1> QED
  BY <1>1, <1>3, <1>4, <1>9 DEF Clocked, d, a, w, v

LEMMA TimingOn ==
  ASSUME SInv, SInv', NEW u \in Task, Account(u), NEW n \in Nat, NEW S,
         Meanwhile(u, n, S), Continues(u, n)
  PROVE  Timing(u)'
<1> SUFFICES ASSUME call'[u].op \in Ops, pc'[u] \notin Idles
             PROVE  IF pc'[u] = "check" /\ ~call'[u].set
                    THEN asked'[u] = IF call'[u].wait = portMAX_DELAY THEN 0 ELSE call'[u].wait
                    ELSE \/ asked'[u] = 0 /\ call'[u].wait = portMAX_DELAY
                         \/ asked'[u] # 0 /\ Clocked(u)'
  BY DEF Timing
<1>1. /\ asked'[u] = asked[u] /\ call'[u].op = call[u].op /\ call'[u].wait = call[u].wait
      /\ call'[u].set = call[u].set /\ pc[u] \notin Idles
      /\ pc[u] = "check" => pc'[u] = "check"
  BY DEF Continues, SameCall
<1>2. IF pc[u] = "check" /\ ~call[u].set
      THEN asked[u] = IF call[u].wait = portMAX_DELAY THEN 0 ELSE call[u].wait
      ELSE \/ asked[u] = 0 /\ call[u].wait = portMAX_DELAY
           \/ asked[u] # 0 /\ Clocked(u)
  BY <1>1 DEF Account, Timing
<1>3. CASE pc[u] = "check" /\ ~call[u].set
  BY <1>1, <1>2, <1>3
<1>4. CASE ~(pc[u] = "check" /\ ~call[u].set) /\ asked[u] = 0 /\ call[u].wait = portMAX_DELAY
  BY <1>1, <1>4
<1>5. CASE ~(pc[u] = "check" /\ ~call[u].set) /\ asked[u] # 0 /\ Clocked(u)
  <2>1. ~NotYet(u) /\ Tallied(u)
    BY <1>5 DEF NotYet, Account
  <2>2. Clocked(u)'
    BY <1>5, <2>1, ClockedOn
  <2>3. call[u].set
    BY <1>5 DEF Clocked
  <2> QED
    BY <1>1, <1>5, <2>2, <2>3
<1> QED
  BY <1>2, <1>3, <1>4, <1>5

LEMMA DelayingOn ==
  ASSUME SInv, Times(k), NEW u \in Task, Account(u), NEW n \in Nat, NEW S,
         Meanwhile(u, n, S), Continues(u, n)
  PROVE  Delaying(u)'
<1> SUFFICES ASSUME call'[u].op = "delay" PROVE Delaying(u)'
  BY DEF Delaying
<1>1. /\ call[u].op = "delay" /\ call'[u].wait = call[u].wait /\ asked'[u] = asked[u]
      /\ pc[u] = "sleep" <=> pc'[u] = "sleep"
      /\ pc'[u] = "sleep" => n = 0
  BY DEF Continues, SameCall
<1>2. /\ ~Waits(k, u) /\ ~Contains(k.pending, u) /\ call[u].wait = asked[u]
      /\ pc[u] = "sleep" => asked[u] # 0 /\ waited[u] = 0
      /\ pc[u] # "sleep" /\ asked[u] # 0 /\ ~Disturbed(u) =>
           Sleeps(k, u) \/ waited[u] >= asked[u]
  BY <1>1 DEF Account, Delaying
<1>3. ~Waits(k', u) /\ ~Contains(k'.pending, u)
  BY <1>1, <1>2 DEF Meanwhile, Ops
<1>4. pc[u] # "check"
  BY <1>1 DEF SInv, KInv, Fit, Asking, Ops
<1>5. Tallied(u) /\ (asked[u] # 0 => ~NotYet(u))
  BY <1>4 DEF Account, NotYet
<1>6. waited'[u] = Overtaken(n, u)
  BY DEF Meanwhile
<1>7. ASSUME pc'[u] = "sleep" PROVE waited'[u] = 0
  BY <1>1, <1>2, <1>5, <1>6, <1>7, Overtakes
<1>8. ASSUME pc[u] # "sleep", asked[u] # 0, ~Disturbed(u)
      PROVE  Sleeps(k', u) \/ waited'[u] >= asked[u]
  <2> DEFINE v == waited'[u]
             w == waited[u]
             a == asked[u]
  <2>1. /\ v >= w /\ v \in 0 .. TickModulus + 1 /\ (v >= w + n \/ v = TickModulus + 1)
    BY <1>5, <1>6, <1>8, Overtakes
  <2>2. w \in 0 .. TickModulus + 1 /\ a \in 0 .. TickModulus - 1 /\ TickModulus \in Nat
    BY <1>5, TasksAssumption DEF Tallied
  <2>3. CASE Sleeps(k, u)
    <3>1. Sleeps(k', u) \/ Left(k, u) <= n
      BY <1>2, <1>8, <2>3 DEF Meanwhile, Fares
    <3>2. w <= TickModulus => w + Left(k, u) = a
      BY <2>3 DEF Account, Dozing
    <3>3. Left(k, u) \in Nat
      <4>1. Good(k, Born) /\ Born \in SUBSET Task
        BY DEF SInv, KInv, Born
      <4> QED
        BY <2>3, <4>1, LeftIs
    <3> DEFINE l == Left(k, u)
    <3> HIDE DEF l, v, w, a
    <3>4. l <= n => v >= a
      BY <2>1, <2>2, <3>2, <3>3 DEF l
    <3> QED
      BY <3>1, <3>4 DEF l, v, a
  <2>4. CASE ~Sleeps(k, u)
    <3>1. w >= a
      BY <1>2, <1>8, <2>4
    <3> HIDE DEF v, w, a
    <3>2. v >= a
      BY <2>1, <2>2, <3>1
    <3> QED
      BY <3>2 DEF v, a
  <2> QED
    BY <2>3, <2>4
<1> QED
  BY <1>1, <1>2, <1>3, <1>7, <1>8 DEF Delaying

LEMMA AccountOn ==
  ASSUME SInv, SInv', Times(k), Times(k'), NEW u \in Task, Account(u), NEW n \in Nat, NEW S,
         Meanwhile(u, n, S), Continues(u, n)
  PROVE  Account(u)'
<1>1. Tallied(u)' /\ Dozing(u)' /\ Timing(u)'
  BY TalliedOn, DozingOn, TimingOn
<1>2. GivesUp(u)' /\ Delaying(u)'
  BY GivesUpOn, DelayingOn
<1> QED
  BY <1>1, <1>2 DEF Account

DInv ==
  /\ Times(k) /\ DOMAIN asked = Task /\ DOMAIN waited = Task
  /\ \A t \in Task : Account(t)

(* A step that counts n ticks, for the tasks of T.                         *)
Amid(n, S, T) ==
  /\ n \in Nat /\ Times(k') /\ Clocks(k, k', n)
  /\ \A u \in T : /\ Fares(k, k', n, S, u)
                  /\ Waits(k', u) => Waits(k, u) \/ call[u].op \in Ops
                  /\ Contains(k'.pending, u) => Contains(k.pending, u) \/ Waits(k, u)
                  /\ u \in S => Waits(k, u) \/ Contains(k.pending, u) \/ Disturbed(u)

LEMMA Behind ==
  ASSUME NEW u \in Task, Account(u)
  PROVE  Overtaken(0, u) = waited[u]
BY Overtakes DEF Account

LEMMA Rest ==
  ASSUME SInv, SInv', DInv, NEW n, NEW S, NEW T \in SUBSET Task, Amid(n, S, T),
         NEW u \in T, waited'[u] = Overtaken(n, u), asked'[u] = asked[u],
         pc'[u] = pc[u], call'[u] = call[u],
         pc[u] \in {"test", "place", "sleep"} => n = 0 /\ SameTick
  PROVE  Account(u)'
<1>1. Meanwhile(u, n, S) /\ n \in Nat
  BY DEF Amid, Meanwhile
<1>2. Continues(u, n)
  BY DEF Continues, SameCall
<1>3. Account(u) /\ Times(k) /\ Times(k') /\ u \in Task
  BY DEF DInv, Amid
<1> QED
  BY <1>1, <1>2, <1>3, AccountOn

(* Task t makes a step: the others stay where they are.                    *)
LEMMA Others ==
  ASSUME SInv, SInv', DInv, NEW t \in Task, k.current = t, NEW n, NEW S, Amid(n, S, Task \ {t}),
         \A u \in Task \ {t} : waited'[u] = Overtaken(n, u) /\ asked'[u] = asked[u],
         NEW x, NEW c, Goes(t, x, c),
         DOMAIN asked' = Task, DOMAIN waited' = Task, Account(t)'
  PROVE  DInv'
<1>1. ASSUME NEW u \in Task \ {t} PROVE Account(u)'
  <2>1. pc'[u] = pc[u] /\ call'[u] = call[u]
    BY GoesTo
  <2>2. pc[u] \notin {"test", "place", "sleep"}
    BY DEF SInv, KInv, OffTick, Inside
  <2>3. Task \ {t} \in SUBSET Task
    OBVIOUS
  <2> QED
    BY <2>1, <2>2, <2>3, Rest
<1> QED
  BY <1>1 DEF DInv, Amid

LaterAll(n) == DOMAIN waited' = Task /\ \A u \in Task : waited'[u] = Overtaken(n, u)

(* And goes on with its call.                                              *)
LEMMA GoesOn ==
  ASSUME SInv, SInv', DInv, NEW t \in Task, k.current = t, NEW n, NEW S, Amid(n, S, Task),
         LaterAll(n), UNCHANGED asked, NEW x, NEW c, Goes(t, x, c), Continues(t, n)
  PROVE  DInv'
<1>1. \A u \in Task : waited'[u] = Overtaken(n, u) /\ asked'[u] = asked[u]
  BY DEF LaterAll
<1>2. Meanwhile(t, n, S) /\ n \in Nat /\ Times(k') /\ Times(k) /\ Account(t)
  BY <1>1 DEF Amid, Meanwhile, DInv
<1>3. Account(t)'
  BY <1>2, AccountOn
<1>4. Amid(n, S, Task \ {t}) /\ DOMAIN asked' = Task /\ DOMAIN waited' = Task
  BY DEF Amid, DInv, LaterAll
<1> QED
  BY <1>1, <1>3, <1>4, Others

LEMMA NoneLater ==
  ASSUME DInv, UNCHANGED waited
  PROVE  LaterAll(0)
BY Behind DEF DInv, LaterAll

LEMMA AllLater ==
  ASSUME NEW n, Passed(n)
  PROVE  LaterAll(n)
BY DEF Passed, Later, LaterAll

-----------------------------------------------------------------------------
(* What the functions of the kernel are to those who wait.                 *)
LEMMA TrimsAmid ==
  ASSUME SInv, DInv, NEW S, NEW T, Trims(k, k', S),
         \A u \in Task : Waits(k', u) => Waits(k, u),
         \A u \in Task : Contains(k'.pending, u) => Contains(k.pending, u) \/ Waits(k, u),
         \A u \in S \cap Task : Waits(k, u) \/ Contains(k.pending, u) \/ Disturbed(u)
  PROVE  Amid(0, S, Task)
<1>1. Good(k, Born) /\ Born \in SUBSET Task /\ Times(k)
  BY DEF SInv, KInv, Born, DInv
<1>2. Passes(k, k', 0, S)
  BY <1>1, TrimsPasses
<1> QED
  BY <1>2 DEF Passes, Amid

LEMMA SameAmid ==
  ASSUME SInv, DInv, SameTimes(k, k'),
         \A u \in Task : Waits(k', u) => Waits(k, u),
         \A u \in Task : Contains(k'.pending, u) => Contains(k.pending, u) \/ Waits(k, u)
  PROVE  Amid(0, {}, Task)
BY SameTrims, TrimsAmid

LEMMA KernelAmid ==
  ASSUME SInv, DInv, UNCHANGED k
  PROVE  Amid(0, {}, Task)
BY SameAmid DEF SameTimes

LEMMA ListsAmid ==
  ASSUME SInv, DInv, SameTimes(k, k'), k'.waiting = k.waiting, k'.pending = k.pending
  PROVE  Amid(0, {}, Task)
BY SameAmid DEF Waits

LEMMA HeldAmid ==
  ASSUME SInv, DInv, k' = vTaskSuspendAll(k)
  PROVE  Amid(0, {}, Task)
<1>1. k \in Kernel
  BY KernelOf DEF SInv
<1>2. SameTimes(k, vTaskSuspendAll(k)) /\ vTaskSuspendAll(k).waiting = k.waiting
      /\ vTaskSuspendAll(k).pending = k.pending
  BY <1>1 DEF Kernel, vTaskSuspendAll, SameTimes
<1> QED
  BY <1>2, ListsAmid

LEMMA SwitchAmid ==
  ASSUME SInv, DInv, k' = vTaskSwitchContext(k)
  PROVE  Amid(0, {}, Task)
<1> DEFINE r == vTaskSwitchContext(k)
<1>1. Good(k, Born) /\ IdleReady(k) /\ Born \in SUBSET Task /\ k \in Kernel
  BY KernelOf DEF SInv, KInv
<1>2. r.pending = k.pending /\ r.waiting = k.waiting
  BY <1>1, SwitchGood
<1>3. SameTimes(k, r)
  BY <1>1, SwitchTimes
<1> HIDE DEF r
<1>4. k' = r
  BY DEF r
<1> QED
  BY <1>2, <1>3, <1>4, ListsAmid

LEMMA ResumeAllAmid ==
  ASSUME SInv, DInv, k.depth = 1, k' = xTaskResumeAll(k)
  PROVE  Amid(k.missedTicks, {u \in Task : Contains(k.pending, u)}, Task)
<1> DEFINE r == xTaskResumeAll(k)
           S == {u \in Task : Contains(k.pending, u)}
<1>1. Good(k, Born) /\ IdleReady(k) /\ Born \in SUBSET Task /\ Times(k) /\ k.missedTicks \in Nat
  BY KernelOf, KernelFields DEF SInv, KInv, DInv
<1>2. Grows(k, r) /\ r.pending = <<>>
  BY <1>1, ResumeAllGood
<1>3. Passes(k, r, k.missedTicks, S)
  BY <1>1, ResumeAllPasses
<1> HIDE DEF r
<1>4. k' = r
  BY DEF r
<1>5. \A u \in Task : (Waits(k', u) => Waits(k, u)) /\ ~Contains(k'.pending, u)
  BY <1>2, <1>4, EmptyList DEF Grows, Waits
<1>6. \A u \in S : Contains(k.pending, u)
  OBVIOUS
<1> HIDE DEF S
<1>7. Amid(k.missedTicks, S, Task)
  BY <1>1, <1>3, <1>4, <1>5, <1>6 DEF Passes, Amid
<1> QED
  BY <1>7 DEF S

LEMMA TrimsSame ==
  ASSUME NEW i, NEW j, NEW l, NEW S, Trims(i, j, S), SameTimes(j, l)
  PROVE  Trims(i, l, S)
BY DEF Trims, SameTimes

(* The head of a list of a queue wakes.                                    *)
LEMMA WakeAmid ==
  ASSUME SInv, DInv, NEW q \in Queue, NEW side \in Sides, k.waiting[q][side] # <<>>,
         NEW j, j = xTaskRemoveFromEventList(k, q, side),
         k' = j \/ k' = vTaskSwitchContext(j)
  PROVE  Amid(0, {Head(k.waiting[q][side])}, Task)
<1> DEFINE t == Head(k.waiting[q][side])
<1>1. Good(k, Born) /\ IdleReady(k) /\ Born \in SUBSET Task
  BY KernelOf DEF SInv, KInv
<1>2. /\ Good(j, Born) /\ IdleReady(j)
      /\ Contains(k.waiting[q][side], t)
      /\ \A p \in Queue, s \in Sides : \A u :
           Contains(j.waiting[p][s], u) <=> Contains(k.waiting[p][s], u) /\ u # t
      /\ \A u : Contains(j.pending, u) => Contains(k.pending, u) \/ (k.depth # 0 /\ u = t)
  <2> DEFINE r == xTaskRemoveFromEventList(k, q, side)
  <2>1. /\ Good(r, Born) /\ IdleReady(r) /\ SameRun(k, r)
        /\ t \in Born /\ Contains(k.waiting[q][side], t)
        /\ r.waiting[q][side] = Tail(k.waiting[q][side])
        /\ \A p \in Queue, s \in Sides : \A u :
             Contains(r.waiting[p][s], u) <=> Contains(k.waiting[p][s], u) /\ u # t
        /\ \A u \in Members : Ready(r, u) <=> Ready(k, u) \/ (k.depth = 0 /\ u = t)
        /\ \A u : Contains(r.pending, u) => Contains(k.pending, u) \/ (k.depth # 0 /\ u = t)
    BY <1>1, WakeGood
  <2> HIDE DEF r, t
  <2>2. j = r
    BY DEF r
  <2> QED
    BY <2>1, <2>2
<1>3. Trims(k, j, {t})
  <2>1. Trims(k, xTaskRemoveFromEventList(k, q, side), {t})
    BY <1>1, WakeTrims
  <2> HIDE DEF t
  <2> QED
    BY <2>1
<1>4. k'.waiting = j.waiting /\ k'.pending = j.pending /\ SameTimes(j, k')
  <2>1. CASE k' = j
    BY <2>1 DEF SameTimes
  <2>2. CASE k' = vTaskSwitchContext(j)
    <3> DEFINE r == vTaskSwitchContext(j)
    <3>1. r.waiting = j.waiting /\ r.pending = j.pending
      BY <1>1, <1>2, SwitchGood
    <3>2. SameTimes(j, r)
      <4>1. j \in Kernel
        BY <1>2 DEF Good
      <4> QED
        BY <4>1, SwitchTimes
    <3> HIDE DEF r
    <3>3. k' = r
      BY <2>2 DEF r
    <3> QED
      BY <3>1, <3>2, <3>3
  <2> QED
    BY <2>1, <2>2
<1>5. Waits(k, t)
  BY <1>2 DEF Waits
<1> HIDE DEF t
<1>6. Trims(k, k', {t})
  BY <1>3, <1>4, TrimsSame
<1>7. \A u \in Task : Waits(k', u) => Waits(k, u)
  BY <1>2, <1>4 DEF Waits
<1>8. \A u \in Task : Contains(k'.pending, u) => Contains(k.pending, u) \/ Waits(k, u)
  BY <1>2, <1>4, <1>5
<1>9. Amid(0, {t}, Task)
  BY <1>5, <1>6, <1>7, <1>8, TrimsAmid
<1> QED
  BY <1>9 DEF t

LEMMA NotifyAmid ==
  ASSUME SInv, DInv, NEW q \in Queue, NEW side \in Sides, Notify(q, side)
  PROVE  \E S : Amid(0, S, Task)
<1> DEFINE list == k.waiting[q][side]
           j == xTaskRemoveFromEventList(k, q, side)
<1>1. k' = IF list = <<>> THEN k ELSE IF Outranks(k, Head(list)) THEN vTaskSwitchContext(j) ELSE j
  BY DEF Notify, Waiting
<1>2. CASE list = <<>>
  BY <1>1, <1>2, KernelAmid
<1>3. CASE list # <<>>
  <2>1. k' = j \/ k' = vTaskSwitchContext(j)
    BY <1>1, <1>3
  <2> HIDE DEF j
  <2>2. Amid(0, {Head(list)}, Task)
    BY <1>3, <2>1, WakeAmid DEF j
  <2> QED
    BY <2>2
<1> QED
  BY <1>2, <1>3

LEMMA SignalAmid ==
  ASSUME SInv, DInv, NEW q \in Queue, NEW side \in Sides, NEW lock, Signal(q, side, lock)
  PROVE  \E S : Amid(0, S, Task)
<1> DEFINE list == k.waiting[q][side]
           j == xTaskRemoveFromEventList(k, q, side)
<1>1. k' = k \/ (list # <<>> /\ k' = j)
  BY DEF Signal, Waiting
<1>2. CASE k' = k
  BY <1>2, KernelAmid
<1>3. CASE list # <<>> /\ k' = j
  <2> HIDE DEF j
  <2>2. Amid(0, {Head(list)}, Task)
    BY <1>3, WakeAmid DEF j
  <2> QED
    BY <2>2
<1> QED
  BY <1>1, <1>2, <1>3

LEMMA WokenAmid ==
  ASSUME SInv, DInv, k.depth = 1, NEW q \in Queue, NEW side \in Sides, NEW lock \in Nat,
         k' = Woken(q, side, lock)
  PROVE  Amid(0, {}, Task)
<1> DEFINE r == Woken(q, side, lock)
           w == k.waiting[q][side]
           n == IF lock > Len(w) THEN Len(w) ELSE lock
<1>1. Leave(k, r, w, n) /\ SameTimes(k, r) /\ Postponed(k, r, w, n)
  BY WokenGood DEF SInv
<1>2. n \in Nat /\ n <= Len(w) /\ w \in Lists
  <2>1. w \in Lists
    BY KernelOf, KernelFields DEF SInv
  <2>2. Len(w) \in Nat
    BY <2>1 DEF Lists
  <2> HIDE DEF w
  <2> QED
    BY <2>1, <2>2
<1> HIDE DEF r, n
<1>3. k' = r
  BY DEF r
<1>4. \A u \in Task : Waits(k', u) => Waits(k, u)
  BY <1>1, <1>3 DEF Leave, Waits
<1>5. ASSUME NEW u \in Task, Contains(k'.pending, u), ~Contains(k.pending, u)
      PROVE  Waits(k, u)
  <2>1. PICK m \in 1 .. n : w[m] = u
    BY <1>1, <1>3, <1>5 DEF Postponed
  <2>2. Contains(w, u)
    BY <1>2, <2>1 DEF Contains, Lists
  <2> QED
    BY <2>2 DEF Waits
<1> QED
  BY <1>1, <1>3, <1>4, <1>5, SameAmid

LEMMA SuspendAmid ==
  ASSUME SInv, DInv, NEW u \in Born, Disturbed(u), k' = vTaskSuspend(k, u)
  PROVE  Amid(0, {u}, Task)
<1> DEFINE r == vTaskSuspend(k, u)
<1>1. Good(k, Born) /\ IdleReady(k) /\ Born \in SUBSET Task
  BY KernelOf DEF SInv, KInv
<1>2. /\ \A p \in Queue, s \in Sides : \A v :
           Contains(r.waiting[p][s], v) <=> Contains(k.waiting[p][s], v) /\ v # u
      /\ \A v : Contains(r.pending, v) => Contains(k.pending, v)
  BY <1>1, SuspendGood
<1>3. Trims(k, r, {u})
  BY <1>1, SuspendTrims
<1> HIDE DEF r
<1>4. k' = r
  BY DEF r
<1>5. \A v \in Task : Waits(k', v) => Waits(k, v)
  BY <1>2, <1>4 DEF Waits
<1> QED
  BY <1>2, <1>3, <1>4, <1>5, TrimsAmid

LEMMA ResumeAmid ==
  ASSUME SInv, DInv, k.depth = 0, NEW u \in Born, k' = vTaskResume(k, u)
  PROVE  Amid(0, {}, Task)
<1> DEFINE r == vTaskResume(k, u)
<1>1. Good(k, Born) /\ IdleReady(k) /\ Born \in SUBSET Task
  BY KernelOf DEF SInv, KInv
<1>2. r.pending = k.pending /\ r.waiting = k.waiting
  BY <1>1, ResumeGood
<1>3. Trims(k, r, {})
  BY <1>1, ResumeTrims
<1> HIDE DEF r
<1>4. k' = r
  BY DEF r
<1> QED
  BY <1>2, <1>3, <1>4, TrimsAmid DEF Waits

LEMMA CreateAmid ==
  ASSUME SInv, DInv, k.depth = 0, NEW u \in Task, u \notin Born, k' = xTaskGenericCreate(k, u)
  PROVE  Amid(0, {}, Task)
<1> DEFINE r == xTaskGenericCreate(k, u)
<1>1. Good(k, Born) /\ IdleReady(k) /\ Born \in SUBSET Task
  BY KernelOf DEF SInv, KInv
<1>2. r.pending = k.pending /\ r.waiting = k.waiting
  BY <1>1, CreateGood
<1>3. SameTimes(k, r)
  BY <1>1, CreateTimes
<1> HIDE DEF r
<1>4. k' = r
  BY DEF r
<1> QED
  BY <1>2, <1>3, <1>4, ListsAmid

LEMMA TickAmid ==
  ASSUME SInv, DInv, k' = vTaskSwitchContext(vTaskIncrementTick(k))
  PROVE  Amid(IF k.depth = 0 THEN 1 ELSE 0, {}, Task)
<1> DEFINE i == vTaskIncrementTick(k)
           r == vTaskSwitchContext(i)
<1>1. Good(k, Born) /\ IdleReady(k) /\ Born \in SUBSET Task /\ Times(k) /\ k.depth \in 0 .. 1
  BY KernelOf DEF SInv, KInv, DInv
<1>2. /\ Good(i, Born) /\ IdleReady(i) /\ Grows(k, i)
      /\ k.depth > 0 => i.pending = k.pending /\ i.waiting = k.waiting /\ SameTimes(k, i)
  BY <1>1, TickGood
<1>3. k.depth = 0 => Passes(k, i, 1, {})
  BY <1>1, TickPasses
<1> HIDE DEF i
<1>4. r.pending = i.pending /\ r.waiting = i.waiting
  BY <1>1, <1>2, SwitchGood
<1>5. SameTimes(i, r)
  BY <1>2, SwitchTimes DEF Good
<1> HIDE DEF r
<1>6. k' = r
  BY DEF r, i
<1>7. CASE k.depth = 0
  <2>1. Passes(k, k', 1, {})
    BY <1>3, <1>5, <1>6, <1>7, PassesSame
  <2>2. \A u \in Task : (Waits(k', u) => Waits(k, u)) /\ (Contains(k'.pending, u) => Contains(k.pending, u))
    BY <1>2, <1>4, <1>6 DEF Grows, Waits
  <2>3. Amid(1, {}, Task)
    BY <2>1, <2>2 DEF Passes, Amid
  <2> QED
    BY <1>7, <2>3
<1>8. CASE k.depth > 0
  <2>1. SameTimes(k, k') /\ k'.waiting = k.waiting /\ k'.pending = k.pending
    BY <1>2, <1>4, <1>5, <1>6, <1>8 DEF SameTimes
  <2>2. Amid(0, {}, Task)
    BY <2>1, ListsAmid
  <2> QED
    BY <1>8, <2>2
<1> QED
  BY <1>1, <1>7, <1>8

LEMMA NoTick ==
  ASSUME SInv, SInv', Clocks(k, k', 0)
  PROVE  SameTick
<1>1. k.tick \in 0 .. TickModulus - 1 /\ k'.tick \in 0 .. TickModulus - 1 /\ k.overflows \in Nat
  BY KernelOf, KernelFields DEF SInv, KInv, Good
<1>2. TickModulus \in Nat
  BY TasksAssumption
<1>3. Since(k.tick, k.overflows, k.tick, k.overflows, 0)
  BY <1>1, <1>2 DEF Since
<1>4. 0 \in Nat /\ 0 + 0 = 0 /\ 0 <= TickModulus
  BY <1>2
<1>5. Since(k'.tick, k'.overflows, k.tick, k.overflows, 0)
  BY <1>1, <1>3, <1>4 DEF Clocks
<1> QED
  BY <1>1, <1>2, <1>5 DEF Since, SameTick

(* Nobody moves.                                                           *)
LEMMA Unmoved ==
  ASSUME SInv, SInv', DInv, NEW n, NEW S, Amid(n, S, Task), LaterAll(n),
         UNCHANGED <<pc, call, asked>>, n = 0 \/ k.depth = 0
  PROVE  DInv'
<1>1. ASSUME NEW u \in Task PROVE Account(u)'
  <2>1. waited'[u] = Overtaken(n, u)
    BY DEF LaterAll
  <2>2. pc[u] \in {"test", "place", "sleep"} => k.depth # 0
    BY DEF SInv, KInv, OffTick, Inside
  <2>3. n = 0 => SameTick
    BY NoTick DEF Amid
  <2> QED
    BY <2>1, <2>2, <2>3, Rest
<1> QED
  BY <1>1 DEF DInv, Amid, LaterAll

LEMMA TickAccounts == ASSUME SInv, SInv', DInv, Tick PROVE DInv'
<1> DEFINE n == IF k.depth = 0 THEN 1 ELSE 0
<1>1. k' = vTaskSwitchContext(vTaskIncrementTick(k)) /\ Passed(n) /\ UNCHANGED <<pc, call, asked>>
  BY DEF Tick
<1>2. Amid(n, {}, Task)
  BY <1>1, TickAmid
<1>3. n = 0 \/ k.depth = 0
  OBVIOUS
<1> HIDE DEF n
<1>4. LaterAll(n)
  BY <1>1, AllLater
<1> QED
  BY <1>1, <1>2, <1>3, <1>4, Unmoved

LEMMA PostAccounts ==
  ASSUME SInv, SInv', DInv, NEW q \in PostsTo, NEW item \in Posted, xQueueGenericSendFromISR(q, item)
  PROVE  DInv'
<1>1. Signal(q, "receive", queue[q].txLock) /\ UNCHANGED <<pc, call, asked, waited>>
  BY DEF xQueueGenericSendFromISR
<1>2. q \in Queue /\ "receive" \in Sides
  BY QueueAssumption DEF Sides
<1>3. PICK S : Amid(0, S, Task)
  BY <1>1, <1>2, SignalAmid
<1> QED
  BY <1>1, <1>3, NoneLater, Unmoved

LEMMA OtherTaskAccounts ==
  ASSUME SInv, SInv', DInv, NEW t \in Task, NEW u \in Task, <<t, u>> \in Suspends,
         SuspendTask(t, u) \/ ResumeTask(t, u)
  PROVE  DInv'
<1>1. /\ k.current = t /\ pc[t] = "task" /\ pc[u] # "none" /\ UNCHANGED <<pc, call, asked, waited>>
      /\ k' = vTaskSuspend(k, u) \/ k' = vTaskResume(k, u)
  BY DEF SuspendTask, ResumeTask, At
<1>2. k.depth = 0 /\ u \in Born /\ Disturbed(u)
  BY <1>1, Running DEF SInv, OffTick, Inside, Leaving, Born, Disturbed
<1>3. \E S : Amid(0, S, Task)
  BY <1>1, <1>2, SuspendAmid, ResumeAmid
<1> QED
  BY <1>1, <1>3, NoneLater, Unmoved

LEMMA CreateAccounts ==
  ASSUME SInv, SInv', DInv, NEW t \in Task, NEW u \in Task, Create(t, u)
  PROVE  DInv'
<1>1. /\ k.current = t /\ pc[t] = "task" /\ pc[u] = "none" /\ UNCHANGED <<call, asked, waited>>
      /\ k' = xTaskGenericCreate(k, u) /\ pc' = [pc EXCEPT ![u] = "task"]
  BY DEF Create, At, Goto
<1>2. k.depth = 0 /\ u \notin Born
  BY <1>1, Running DEF SInv, OffTick, Inside, Leaving, Born
<1>3. Amid(0, {}, Task) /\ LaterAll(0)
  BY <1>1, <1>2, CreateAmid, NoneLater
<1>4. pc'[u] = "task" /\ \A v \in Task : v # u => pc'[v] = pc[v]
  BY <1>1 DEF SInv, KInv
<1>5. ASSUME NEW v \in Task PROVE Account(v)'
  <2>1. waited'[v] = Overtaken(0, v)
    BY <1>3 DEF LaterAll
  <2>2. CASE v = u
    <3>1. call[u].then # "late"
      BY <1>1 DEF DInv, Account, GivesUp, Leaving
    <3>2. Continues(v, 0)
      BY <1>1, <1>4, <2>2, <3>1 DEF Continues, SameCall, Idles
    <3>3. Meanwhile(v, 0, {}) /\ Times(k) /\ Times(k') /\ Account(v) /\ 0 \in Nat
      BY <1>3, <2>1 DEF Meanwhile, Amid, DInv
    <3> QED
      BY <3>2, <3>3, AccountOn
  <2>3. CASE v # u
    <3>1. pc[v] \notin {"test", "place", "sleep"}
      BY <1>2 DEF SInv, KInv, OffTick, Inside
    <3>2. pc'[v] = pc[v] /\ call'[v] = call[v] /\ asked'[v] = asked[v]
      BY <1>1, <1>4, <2>3
    <3> QED
      BY <1>3, <2>1, <3>1, <3>2, Rest
  <2> QED
    BY <2>2, <2>3
<1> QED
  BY <1>1, <1>3, <1>5 DEF DInv, Amid, LaterAll

LEMMA ThenOnly ==
  ASSUME NEW c, CallOK(c), NEW x
  PROVE  LET d == [c EXCEPT !.then = x]
         IN  /\ d.op = c.op /\ d.wait = c.wait /\ d.set = c.set /\ d.tick = c.tick
             /\ d.over = c.over /\ d.then = x
BY DEF CallOK, CallFields

(* The steps that leave the clock and the lists of sleeping tasks alone.   *)
LEMMA PlainAccounts ==
  ASSUME SInv, SInv', DInv, NEW t \in Task, Suspend(t) \/ prvLockQueue(t) \/ OpenTx(t) \/ Hold(t)
  PROVE  DInv'
<1>1. PICK x : /\ k.current = t /\ pc' = [pc EXCEPT ![t] = x] /\ UNCHANGED <<call, asked, waited>>
               /\ UNCHANGED k \/ k' = vTaskSuspendAll(k)
               /\ \/ pc[t] = "suspend" /\ x = "lock"
                  \/ pc[t] = "lock" /\ x = "timeout"
                  \/ pc[t] = "openTx" /\ x = "unlockRx"
                  \/ pc[t] = "task" /\ x = "held"
  BY DEF Suspend, prvLockQueue, OpenTx, Hold, At, Goto
<1>2. Goes(t, x, call[t])
  BY <1>1 DEF Goes
<1>3. Amid(0, {}, Task) /\ LaterAll(0)
  BY <1>1, KernelAmid, HeldAmid, NoneLater
<1>4. pc[t] # "openTx" => call[t].then # "late"
  BY <1>1 DEF DInv, Account, GivesUp, Leaving
<1>5. pc'[t] = x /\ call'[t] = call[t]
  BY <1>2, GoesTo
<1>6. Continues(t, 0)
  BY <1>1, <1>4, <1>5 DEF Continues, SameCall, Idles, Leaving
<1> QED
  BY <1>1, <1>2, <1>3, <1>6, GoesOn

LEMMA TestAccounts == ASSUME SInv, SInv', DInv, NEW t \in Task, Test(t) PROVE DInv'
<1> DEFINE x == IF Blocked(call[t]) THEN "place" ELSE "unlockTx"
           y == IF Blocked(call[t]) THEN "yield" ELSE "check"
           c == [call[t] EXCEPT !.then = y]
<1>1. /\ k.current = t /\ pc[t] = "test" /\ pc' = [pc EXCEPT ![t] = x] /\ UNCHANGED <<k, asked, waited>>
      /\ call' = [call EXCEPT ![t] = c]
  BY DEF Test, At, Goto
<1>2. x \in {"place", "unlockTx"} /\ y # "late"
  OBVIOUS
<1>3. /\ c.op = call[t].op /\ c.wait = call[t].wait /\ c.set = call[t].set
      /\ c.tick = call[t].tick /\ c.over = call[t].over /\ c.then = y
  BY CallIs, ThenOnly
<1> HIDE DEF x, y, c
<1>4. Goes(t, x, c)
  BY <1>1 DEF Goes
<1>5. pc'[t] = x /\ call'[t] = c
  BY <1>4, GoesTo
<1>6. Continues(t, 0)
  BY <1>1, <1>2, <1>3, <1>5 DEF Continues, SameCall, SameTick, Idles
<1>7. Amid(0, {}, Task) /\ LaterAll(0)
  BY <1>1, KernelAmid, NoneLater
<1> QED
  BY <1>1, <1>4, <1>6, <1>7, GoesOn

LEMMA YieldAccounts == ASSUME SInv, SInv', DInv, NEW t \in Task, Yield(t) PROVE DInv'
<1> DEFINE x == After(t)
<1>1. /\ k.current = t /\ pc[t] = "yield" /\ pc' = [pc EXCEPT ![t] = x]
      /\ k' = vTaskSwitchContext(k) /\ UNCHANGED <<call, asked, waited>>
  BY DEF Yield, At, Goto
<1>2. x \in {"check", "awake"}
  BY DEF After
<1> HIDE DEF x
<1>3. Goes(t, x, call[t])
  BY <1>1 DEF Goes
<1>4. Amid(0, {}, Task) /\ LaterAll(0)
  BY <1>1, SwitchAmid, NoneLater
<1>5. call[t].then # "late"
  BY <1>1 DEF DInv, Account, GivesUp, Leaving
<1>6. pc'[t] = x /\ call'[t] = call[t]
  BY <1>3, GoesTo
<1>7. Continues(t, 0)
  BY <1>1, <1>2, <1>5, <1>6 DEF Continues, SameCall, Idles
<1> QED
  BY <1>1, <1>3, <1>4, <1>7, GoesOn

LEMMA UnlockAccounts ==
  ASSUME SInv, SInv', DInv, NEW t \in Task, InspectTx(t) \/ UnlockRx(t)
  PROVE  DInv'
<1> DEFINE q == call[t].q
<1>1. PICK x, side, lock :
        /\ k.current = t /\ pc' = [pc EXCEPT ![t] = x] /\ UNCHANGED <<call, asked, waited>>
        /\ k' = Woken(q, side, lock)
        /\ \/ pc[t] = "unlockTx" /\ x = "openTx" /\ side = "receive" /\ lock = queue[q].txLock
           \/ pc[t] = "unlockRx" /\ x = "resume" /\ side = "send" /\ lock = queue[q].rxLock
  BY DEF InspectTx, UnlockRx, At, Goto
<1>2. q \in Queue
  BY CallIs
<1>3. side \in Sides /\ lock \in Nat
  <2>1. CASE pc[t] = "unlockTx"
    <3>1. Inner(q)
      BY <2>1 DEF Inner, Inside
    <3>2. lock \in -1 .. queue[q].count /\ lock # -1 /\ queue[q].count \in Nat
      BY <1>1, <1>2, <2>1, <3>1, Lengths DEF SInv, Locks, IInv, Rings, Ring, Buffer
    <3>3. QED
      BY <1>1, <2>1, <3>2 DEF Sides
  <2>2. CASE pc[t] = "unlockRx"
    BY <1>1, <1>2, <2>2 DEF SInv, Locks, Sides
  <2>3. QED
    BY <1>1, <2>1, <2>2
<1>4. k.depth = 1
  BY <1>1, Running DEF SInv, OffTick, Inside, Leaving
<1> HIDE DEF q
<1>5. Amid(0, {}, Task) /\ LaterAll(0)
  BY <1>1, <1>2, <1>3, <1>4, WokenAmid, NoneLater
<1>6. Goes(t, x, call[t])
  BY <1>1 DEF Goes
<1>7. pc'[t] = x /\ call'[t] = call[t]
  BY <1>6, GoesTo
<1>8. Continues(t, 0)
  BY <1>1, <1>7 DEF Continues, SameCall, Idles, Leaving
<1> QED
  BY <1>1, <1>5, <1>6, <1>8, GoesOn

-----------------------------------------------------------------------------
(* A running task that does not give the processor away does not sleep.    *)
LEMMA AwakeHere ==
  ASSUME SInv, NEW t \in Task, k.current = t, ~Away(pc[t], call[t])
  PROVE  Ready(k, t) /\ ~Sleeps(k, t) /\ ~Waits(k, t)
<1>1. Ready(k, t) /\ ~Waits(k, t)
  BY ReadyHere
<1>2. Homes(k, Born) /\ t \in Members
  BY KernelOf DEF SInv, Members
<1> QED
  BY <1>1, <1>2 DEF Homes, Sleeps

LEMMA StaysAwake ==
  ASSUME NEW n, NEW S, Amid(n, S, Task), NEW t \in Task, ~Sleeps(k, t)
  PROVE  ~Sleeps(k', t)
BY DEF Amid, Fares

LEMMA UnholdAccounts == ASSUME SInv, SInv', DInv, NEW t \in Task, Unhold(t) PROVE DInv'
<1>1. /\ k.current = t /\ pc[t] = "held" /\ pc' = [pc EXCEPT ![t] = "task"]
      /\ k' = xTaskResumeAll(k) /\ Passed(k.missedTicks) /\ UNCHANGED <<call, asked>>
  BY DEF Unhold, At, Goto
<1>2. k.depth = 1
  BY <1>1, Running DEF SInv, OffTick
<1>3. \E S : Amid(k.missedTicks, S, Task)
  BY <1>1, <1>2, ResumeAllAmid
<1>4. LaterAll(k.missedTicks)
  BY <1>1, AllLater
<1>5. Goes(t, "task", call[t])
  BY <1>1 DEF Goes
<1>6. call[t].then # "late"
  BY <1>1 DEF DInv, Account, GivesUp, Leaving
<1>7. pc'[t] = "task" /\ call'[t] = call[t]
  BY <1>5, GoesTo
<1>8. Continues(t, k.missedTicks)
  BY <1>1, <1>6, <1>7 DEF Continues, SameCall, Idles
<1> QED
  BY <1>1, <1>3, <1>4, <1>5, <1>8, GoesOn

(* A call returns, whatever it answers.                                    *)
LEMMA Returned ==
  ASSUME SInv, SInv', DInv, NEW t \in Task, k.current = t, ~Sleeps(k, t),
         NEW n, NEW S, Amid(n, S, Task), Goes(t, "task", NoCall),
         DOMAIN asked' = Task, DOMAIN waited' = Task, asked'[t] = 0, waited'[t] = 0,
         \A u \in Task \ {t} : waited'[u] = Overtaken(n, u) /\ asked'[u] = asked[u]
  PROVE  DInv'
<1>1. pc'[t] = "task" /\ call'[t] = NoCall
  BY GoesTo
<1>2. NoCall.op = "receive" /\ NoCall.then = "check"
  BY DEF NoCall
<1>3. Tallied(t)'
  BY <1>1, TasksAssumption DEF Tallied, Idles
<1>4. Dozing(t)'
  BY StaysAwake DEF Dozing
<1>5. GivesUp(t)' /\ Timing(t)' /\ Delaying(t)'
  BY <1>1, <1>2 DEF GivesUp, Timing, Delaying, Idles
<1>6. Account(t)'
  BY <1>3, <1>4, <1>5 DEF Account
<1>7. Amid(n, S, Task \ {t})
  BY DEF Amid
<1> QED
  BY <1>6, <1>7, Others

LEMMA ReturnAccounts ==
  ASSUME SInv, SInv', DInv, NEW t \in Task,
         Sent(t) \/ Received(t) \/ Refused(t) \/ Awake(t)
  PROVE  DInv'
<1>1. /\ k.current = t /\ pc[t] \in {"check", "awake"} /\ Return(t)
      /\ UNCHANGED k \/ \E side \in Sides : Notify(call[t].q, side)
  BY DEF Sent, Received, Refused, Awake, At, Sides
<1>2. call[t].q \in Queue
  BY CallIs
<1>3. PICK S : Amid(0, S, Task)
  BY <1>1, <1>2, KernelAmid, NotifyAmid
<1>4. ~Sleeps(k, t)
  BY <1>1, AwakeHere DEF Away, Leaving
<1>5. Goes(t, "task", NoCall)
  BY <1>1 DEF Return, Goto, Goes
<1>6. /\ DOMAIN asked' = Task /\ DOMAIN waited' = Task /\ asked'[t] = 0 /\ waited'[t] = 0
      /\ \A u \in Task \ {t} : waited'[u] = waited[u] /\ asked'[u] = asked[u]
  BY <1>1 DEF Return, DInv
<1>7. \A u \in Task \ {t} : waited'[u] = Overtaken(0, u)
  BY <1>6, Behind DEF DInv
<1> QED
  BY <1>1, <1>3, <1>4, <1>5, <1>6, <1>7, Returned

LEMMA ResumeAccounts == ASSUME SInv, SInv', DInv, NEW t \in Task, Resume(t) PROVE DInv'
<1> DEFINE c == call[t]
           x == IF c.then # "yield" THEN c.then
                ELSE IF MustYield(k) THEN After(t) ELSE "yield"
           n == k.missedTicks
<1>1. /\ k.current = t /\ pc[t] = "resume" /\ k' = xTaskResumeAll(k)
      /\ \/ /\ c.then = "late" /\ pc' = [pc EXCEPT ![t] = "task"]
            /\ call' = [call EXCEPT ![t] = NoCall] /\ asked' = [asked EXCEPT ![t] = 0]
            /\ waited' = [Later(n) EXCEPT ![t] = 0]
         \/ /\ c.then # "late" /\ pc' = [pc EXCEPT ![t] = x] /\ UNCHANGED <<call, asked>>
            /\ Passed(n)
  BY DEF Resume, At, Goto
<1>2. Fit("resume", c)
  BY <1>1, CallIs
<1>3. k.depth = 1
  BY <1>1, Running DEF SInv, OffTick, Leaving
<1>4. PICK S : Amid(n, S, Task)
  BY <1>1, <1>3, ResumeAllAmid
<1> HIDE DEF n
<1>5. CASE c.then = "late"
  <2>1. ~Sleeps(k, t)
    BY <1>1, <1>5, AwakeHere DEF Away
  <2>2. Goes(t, "task", NoCall)
    BY <1>1, <1>5 DEF Goes
  <2>3. /\ DOMAIN asked' = Task /\ DOMAIN waited' = Task /\ asked'[t] = 0 /\ waited'[t] = 0
        /\ \A u \in Task \ {t} : waited'[u] = Overtaken(n, u) /\ asked'[u] = asked[u]
    BY <1>1, <1>5 DEF DInv, Later
  <2> QED
    BY <1>1, <1>4, <2>1, <2>2, <2>3, Returned
<1>6. CASE c.then # "late"
  <2>1. x \in {"check", "awake", "yield"}
    BY <1>2, <1>6 DEF Fit, Leaving, After
  <2>2. pc' = [pc EXCEPT ![t] = x] /\ UNCHANGED <<call, asked>> /\ Passed(n)
    BY <1>1, <1>6
  <2> HIDE DEF x
  <2>3. Goes(t, x, call[t])
    BY <2>2 DEF Goes
  <2>4. pc'[t] = x /\ call'[t] = call[t]
    BY <2>3, GoesTo
  <2>5. Continues(t, n)
    BY <1>1, <1>6, <2>1, <2>2, <2>4 DEF Continues, SameCall, Idles
  <2>6. LaterAll(n)
    BY <2>2, AllLater
  <2> QED
    BY <1>1, <1>4, <2>2, <2>3, <2>5, <2>6, GoesOn
<1> QED
  BY <1>5, <1>6

-----------------------------------------------------------------------------
(* The steps that begin a wait.                                            *)
LEMMA NewCall ==
  ASSUME SInv, DInv, NEW t \in Task, k.current = t, pc[t] = "task"
  PROVE  waited[t] = 0 /\ ~Sleeps(k, t) /\ ~Waits(k, t) /\ k.pending = <<>> /\ k.depth = 0
<1>1. k.pending = <<>> /\ k.depth = 0
  BY Running DEF SInv, OffTick, Inside, Leaving
<1>2. ~Sleeps(k, t) /\ ~Waits(k, t)
  BY AwakeHere DEF Away, Leaving
<1>3. waited[t] = 0
  BY DEF DInv, Account, Tallied, NotYet, Idles
<1> QED
  BY <1>1, <1>2, <1>3

LEMMA RequestAccounts ==
  ASSUME SInv, SInv', DInv, NEW t \in Task, NEW c \in Calls[t], Request(t, c)
  PROVE  DInv'
<1> DEFINE e == [NoCall EXCEPT !.op = c.op, !.q = c.q, !.item = c.item, !.wait = c.wait]
           a == IF c.wait = portMAX_DELAY THEN 0 ELSE c.wait
<1>1. /\ k.current = t /\ pc[t] = "task" /\ pc' = [pc EXCEPT ![t] = "check"]
      /\ call' = [call EXCEPT ![t] = e] /\ asked' = [asked EXCEPT ![t] = a]
      /\ UNCHANGED <<k, waited>>
  BY DEF Request, At, Goto
<1>2. c.op \in Ops /\ c.wait \in 0 .. TickModulus - 1
  BY QueueAssumption
<1>3. e.op = c.op /\ e.wait = c.wait /\ e.set = FALSE /\ e.then = "check"
  BY DEF NoCall
<1>4. a \in 0 .. TickModulus - 1
  BY <1>2, TasksAssumption
<1> HIDE DEF e
<1>5. Goes(t, "check", e)
  BY <1>1 DEF Goes
<1>6. pc'[t] = "check" /\ call'[t] = e
  BY <1>5, GoesTo
<1>7. /\ DOMAIN asked' = Task /\ DOMAIN waited' = Task /\ asked'[t] = a
      /\ \A u \in Task \ {t} : asked'[u] = asked[u]
  BY <1>1 DEF DInv
<1>8. waited'[t] = 0 /\ ~Sleeps(k', t)
  BY <1>1, NewCall
<1>9. Tallied(t)'
  BY <1>4, <1>6, <1>7, <1>8, TasksAssumption DEF Tallied, Idles
<1>10. Dozing(t)' /\ GivesUp(t)'
  BY <1>3, <1>6, <1>8 DEF Dozing, GivesUp
<1>11. Timing(t)'
  BY <1>3, <1>6, <1>7 DEF Timing
<1>12. Delaying(t)'
  BY <1>2, <1>3, <1>6 DEF Delaying, Ops
<1>13. Account(t)'
  BY <1>9, <1>10, <1>11, <1>12 DEF Account
<1>14. Amid(0, {}, Task \ {t}) /\ \A u \in Task \ {t} : waited'[u] = Overtaken(0, u)
  BY <1>1, KernelAmid, NoneLater DEF Amid, LaterAll
<1> QED
  BY <1>1, <1>5, <1>7, <1>13, <1>14, Others

LEMMA DelayAccounts ==
  ASSUME SInv, SInv', DInv, NEW t \in Task, NEW n \in Delays[t], vTaskDelay(t, n)
  PROVE  DInv'
<1> DEFINE c == [NoCall EXCEPT !.op = "delay", !.wait = n]
<1>1. PICK x : /\ k.current = t /\ pc[t] = "task" /\ call' = [call EXCEPT ![t] = c]
               /\ asked' = [asked EXCEPT ![t] = n] /\ UNCHANGED waited
               /\ pc' = [pc EXCEPT ![t] = x]
               /\ \/ n = 0 /\ x = "yield" /\ k' = k
                  \/ n # 0 /\ x = "sleep" /\ k' = vTaskSuspendAll(k)
  BY DEF vTaskDelay, At, Goto
<1>2. n \in 0 .. TickModulus - 1
  BY QueueAssumption
<1>3. c.op = "delay" /\ c.wait = n /\ c.then = "check"
  BY DEF NoCall
<1> HIDE DEF c
<1>4. Goes(t, x, c)
  BY <1>1 DEF Goes
<1>5. pc'[t] = x /\ call'[t] = c
  BY <1>4, GoesTo
<1>6. /\ DOMAIN asked' = Task /\ DOMAIN waited' = Task /\ asked'[t] = n
      /\ \A u \in Task \ {t} : asked'[u] = asked[u]
  BY <1>1 DEF DInv
<1>7. Amid(0, {}, Task) /\ LaterAll(0)
  BY <1>1, KernelAmid, HeldAmid, NoneLater
<1>8. waited'[t] = 0 /\ ~Sleeps(k', t)
  BY <1>1, <1>7, NewCall, StaysAwake
<1>9. k'.waiting = k.waiting /\ k'.pending = k.pending
  <2>1. Ready(k, t) /\ k.depth = 0
    BY <1>1, NewCall, AwakeHere DEF Away, Leaving
  <2> QED
    BY <1>1, <2>1, HeldGood DEF SInv
<1>10. ~Waits(k', t) /\ ~Contains(k'.pending, t)
  BY <1>1, <1>9, NewCall, EmptyList DEF Waits
<1>11. Tallied(t)'
  BY <1>1, <1>2, <1>5, <1>6, <1>8, TasksAssumption DEF Tallied, Idles
<1>12. Dozing(t)' /\ GivesUp(t)'
  BY <1>3, <1>5, <1>8 DEF Dozing, GivesUp
<1>13. Timing(t)'
  BY <1>3, <1>5 DEF Timing, Ops
<1>14. Delaying(t)'
  BY <1>1, <1>3, <1>5, <1>6, <1>8, <1>10 DEF Delaying
<1>15. Account(t)'
  BY <1>11, <1>12, <1>13, <1>14 DEF Account
<1>16. Amid(0, {}, Task \ {t}) /\ \A u \in Task \ {t} : waited'[u] = Overtaken(0, u)
  BY <1>7 DEF Amid, LaterAll
<1> QED
  BY <1>1, <1>4, <1>6, <1>15, <1>16, Others

(* A blocked call takes the time, the first time.                          *)
LEMMA WillWaitAccounts == ASSUME SInv, SInv', DInv, NEW t \in Task, WillWait(t) PROVE DInv'
<1> DEFINE c == call[t]
           d == Timed(c)
<1>1. /\ k.current = t /\ pc[t] = "check" /\ c.wait # 0 /\ pc' = [pc EXCEPT ![t] = "suspend"]
      /\ call' = [call EXCEPT ![t] = d] /\ UNCHANGED <<k, asked, waited>>
  BY DEF WillWait, At, Goto
<1>2. Fit("check", c) /\ CallOK(c)
  BY <1>1, CallIs
<1>3. c.op \in Ops /\ c.op # "delay" /\ c.wait \in Nat
  BY <1>2 DEF Fit, Asking, Ops
<1>4. /\ d.op = c.op /\ d.wait = c.wait /\ d.then = c.then
      /\ c.set => d = c
      /\ ~c.set /\ c.wait # portMAX_DELAY =>
           d.set /\ d.tick = k.tick /\ d.over = k.overflows
  BY <1>2 DEF Timed, CallOK, CallFields
<1> HIDE DEF d
<1>5. Goes(t, "suspend", d)
  BY <1>1 DEF Goes
<1>6. pc'[t] = "suspend" /\ call'[t] = d
  BY <1>5, GoesTo
<1>7. /\ Tallied(t) /\ Dozing(t) /\ Timing(t) /\ c.then # "late"
  BY <1>1 DEF DInv, Account, GivesUp, Leaving
<1>8. ~Sleeps(k, t)
  BY <1>1, AwakeHere DEF Away, Leaving
<1>9. Tallied(t)'
  BY <1>1, <1>6, <1>7 DEF Tallied, NotYet, Idles
<1>10. Dozing(t)' /\ GivesUp(t)' /\ Delaying(t)'
  BY <1>1, <1>3, <1>4, <1>6, <1>7, <1>8 DEF Dozing, GivesUp, Delaying
<1>11. Timing(t)'
  <2> SUFFICES (asked[t] = 0 /\ d.wait = portMAX_DELAY) \/ (asked[t] # 0 /\ Clocked(t)')
    BY <1>1, <1>6 DEF Timing
  <2>1. CASE c.set
    <3>1. (asked[t] = 0 /\ c.wait = portMAX_DELAY) \/ (asked[t] # 0 /\ Clocked(t))
      BY <1>1, <1>3, <1>7, <2>1 DEF Timing, Idles
    <3>2. Clocked(t) => Clocked(t)'
      BY <1>1, <1>4, <1>6, <2>1 DEF Clocked
    <3> QED
      BY <1>4, <3>1, <3>2
  <2>2. CASE ~c.set
    <3>1. asked[t] = (IF c.wait = portMAX_DELAY THEN 0 ELSE c.wait) /\ waited[t] = 0
      BY <1>1, <1>3, <1>7, <2>2 DEF Timing, Idles, Tallied, NotYet
    <3>2. CASE c.wait = portMAX_DELAY
      BY <1>4, <3>1, <3>2
    <3>3. CASE c.wait # portMAX_DELAY
      <4>1. asked[t] = c.wait /\ asked[t] \in 0 .. TickModulus - 1 /\ TickModulus \in Nat
        BY <1>7, <3>1, <3>3, TasksAssumption DEF Tallied
      <4>2. 1 <= c.wait /\ c.wait <= asked[t] /\ c.wait < portMAX_DELAY
        BY <1>1, <1>3, <3>3, <4>1 DEF portMAX_DELAY
      <4>3. k.tick \in 0 .. TickModulus - 1 /\ k.overflows \in Nat
        BY KernelOf, KernelFields DEF SInv
      <4>4. waited[t] + c.wait >= asked[t] /\ (waited[t] + c.wait) - asked[t] = 0
        BY <3>1, <4>1
      <4>5. Since(k.tick, k.overflows, k.tick, k.overflows, 0)
        BY <4>3 DEF Since
      <4>6. Clocked(t)'
        BY <1>1, <1>4, <1>6, <2>2, <3>3, <4>2, <4>3, <4>4, <4>5 DEF Clocked
      <4> QED
        BY <1>1, <4>1, <4>6
    <3> QED
      BY <3>2, <3>3
  <2> QED
    BY <2>1, <2>2
<1>12. Account(t)'
  BY <1>9, <1>10, <1>11 DEF Account
<1>13. Amid(0, {}, Task \ {t}) /\ \A u \in Task \ {t} : waited'[u] = Overtaken(0, u)
  BY <1>1, KernelAmid, NoneLater DEF Amid, LaterAll
<1>14. DOMAIN asked' = Task /\ DOMAIN waited' = Task /\ \A u \in Task \ {t} : asked'[u] = asked[u]
  BY <1>1 DEF DInv
<1> QED
  BY <1>1, <1>5, <1>12, <1>13, <1>14, Others

LEMMA ModBack ==
  ASSUME NEW n \in Nat \ {0}, NEW a \in 1 .. n - 1
  PROVE  (a - n) % n = a
OBVIOUS

LEMMA ModNone ==
  ASSUME NEW n \in Nat \ {0}
  PROVE  0 % n = 0
OBVIOUS

LEMMA OverflowMoves ==
  ASSUME NEW o \in Nat
  PROVE  (o + 1) % OverflowModulus # o
<1>1. OverflowModulus \in Nat \ {0, 1}
  BY TasksAssumption
<1>2. CASE o + 1 < OverflowModulus
  <2>1. o + 1 \in 0 .. OverflowModulus - 1
    BY <1>1, <1>2
  <2>2. (o + 1) % OverflowModulus = o + 1
    BY <1>1, <2>1, ModBelow
  <2> QED
    BY <2>2
<1>3. CASE o + 1 = OverflowModulus
  <2>1. OverflowModulus \in OverflowModulus .. 2 * OverflowModulus - 1
    BY <1>1
  <2>2. OverflowModulus % OverflowModulus = 0
    BY <1>1, <2>1, ModAbove
  <2> QED
    BY <1>1, <1>3, <2>2
<1>4. CASE o + 1 > OverflowModulus
  <2>1. o + 1 \in Nat
    OBVIOUS
  <2>2. (o + 1) % OverflowModulus \in 0 .. OverflowModulus - 1
    BY <1>1, <2>1, ModRange
  <2> QED
    BY <1>1, <1>4, <2>2
<1> QED
  BY <1>1, <1>2, <1>3, <1>4

(* What xTaskCheckForTimeOut reads off the counters.                       *)
LEMMA Elapses ==
  ASSUME NEW tick \in 0 .. TickModulus - 1, NEW c \in 0 .. TickModulus - 1,
         NEW over \in Nat, NEW o \in Nat, NEW e \in 0 .. TickModulus, Since(tick, over, c, o, e)
  PROVE  \/ (tick - c) % TickModulus = e /\ ~(over # o /\ tick >= c) /\ e < TickModulus
         \/ e = TickModulus /\ over # o /\ tick >= c
<1>1. TickModulus \in Nat \ {0, 1} /\ OverflowModulus \in Nat \ {0, 1}
  BY TasksAssumption
<1>2. CASE tick = c + e /\ over = o
  <2>1. tick - c = e /\ e \in 0 .. TickModulus - 1
    BY <1>1, <1>2
  <2>2. e % TickModulus = e
    BY <1>1, <2>1, ModBelow
  <2> QED
    BY <1>1, <1>2, <2>1, <2>2
<1>3. CASE tick = (c + e) - TickModulus /\ over = (o + 1) % OverflowModulus
  <2>1. over # o
    BY <1>3, OverflowMoves
  <2>2. CASE e = TickModulus
    BY <1>1, <1>3, <2>1, <2>2
  <2>3. CASE e # TickModulus
    <3>1. e \in 1 .. TickModulus - 1 /\ tick - c = e - TickModulus /\ tick < c
      BY <1>1, <1>3, <2>3
    <3>2. (e - TickModulus) % TickModulus = e
      BY <1>1, <3>1, ModBack
    <3> QED
      BY <1>1, <3>1, <3>2
  <2> QED
    BY <2>2, <2>3
<1> QED
  BY <1>2, <1>3 DEF Since

LEMMA TimeOutAccounts ==
  ASSUME SInv, SInv', DInv, NEW t \in Task, xTaskCheckForTimeOut(t)
  PROVE  DInv'
<1> DEFINE c == call[t]
           elapsed == (k.tick - c.tick) % TickModulus
           late == (k.overflows # c.over /\ k.tick >= c.tick) \/ elapsed >= c.wait
           g == [call[t] EXCEPT !.then = "late"]
           h == [c EXCEPT !.wait = @ - elapsed, !.tick = k.tick, !.over = k.overflows]
<1>1. /\ k.current = t /\ pc[t] = "timeout" /\ UNCHANGED <<k, asked, waited>>
      /\ \/ c.wait = portMAX_DELAY /\ pc' = [pc EXCEPT ![t] = "test"] /\ UNCHANGED call
         \/ /\ c.wait # portMAX_DELAY /\ late /\ pc' = [pc EXCEPT ![t] = "unlockTx"]
            /\ call' = [call EXCEPT ![t] = g]
         \/ /\ c.wait # portMAX_DELAY /\ ~late /\ pc' = [pc EXCEPT ![t] = "test"]
            /\ call' = [call EXCEPT ![t] = h]
  BY DEF xTaskCheckForTimeOut, At, Goto
<1>2. Fit("timeout", c) /\ CallOK(c)
  BY <1>1, CallIs
<1>3. c.op \in Ops /\ c.op # "delay" /\ c.wait \in Nat
  BY <1>2 DEF Fit, Asking, Inside, Ops
<1>4. Tallied(t) /\ Dozing(t) /\ Timing(t) /\ c.then # "late"
  BY <1>1 DEF DInv, Account, GivesUp, Leaving
<1>5. (asked[t] = 0 /\ c.wait = portMAX_DELAY) \/ (asked[t] # 0 /\ Clocked(t))
  BY <1>1, <1>3, <1>4 DEF Timing, Idles
<1>6. Amid(0, {}, Task) /\ LaterAll(0)
  BY <1>1, KernelAmid, NoneLater
<1>7. Amid(0, {}, Task \ {t}) /\ \A u \in Task \ {t} : waited'[u] = Overtaken(0, u)
  BY <1>6 DEF Amid, LaterAll
<1>8. DOMAIN asked' = Task /\ DOMAIN waited' = Task /\ \A u \in Task \ {t} : asked'[u] = asked[u]
  BY <1>1 DEF DInv
<1>9. CASE c.wait = portMAX_DELAY /\ pc' = [pc EXCEPT ![t] = "test"] /\ UNCHANGED call
  <2>1. Goes(t, "test", c)
    BY <1>9 DEF Goes
  <2>2. pc'[t] = "test" /\ call'[t] = c
    BY <2>1, GoesTo
  <2>3. asked[t] = 0
    BY <1>5, <1>9, TasksAssumption DEF Clocked, portMAX_DELAY
  <2>4. Continues(t, 0)
    BY <1>1, <1>4, <2>2, <2>3 DEF Continues, SameCall, Idles
  <2> QED
    BY <1>1, <1>6, <2>1, <2>4, GoesOn
<1>10. ASSUME c.wait # portMAX_DELAY
       PROVE  /\ asked[t] # 0 /\ Clocked(t) /\ elapsed \in Nat /\ k.tick \in 0 .. TickModulus - 1
              /\ k.overflows \in Nat
              /\ waited[t] <= TickModulus /\ late => waited[t] >= asked[t]
              /\ waited[t] <= TickModulus /\ ~late => waited[t] + (c.wait - elapsed) = asked[t]
  <2>1. asked[t] # 0 /\ Clocked(t)
    BY <1>5, <1>10
  <2>2. k.tick \in 0 .. TickModulus - 1 /\ k.overflows \in Nat
    BY KernelOf, KernelFields DEF SInv
  <2>3. /\ c.tick \in 0 .. TickModulus - 1 /\ c.over \in Nat /\ c.wait <= asked[t]
        /\ waited[t] <= TickModulus =>
             /\ waited[t] + c.wait >= asked[t]
             /\ Since(k.tick, k.overflows, c.tick, c.over, (waited[t] + c.wait) - asked[t])
    BY <2>1 DEF Clocked
  <2>4. waited[t] \in 0 .. TickModulus + 1 /\ asked[t] \in 0 .. TickModulus - 1 /\ TickModulus \in Nat \ {0}
    BY <1>4, TasksAssumption DEF Tallied
  <2>5. elapsed \in Nat
    <3>1. k.tick - c.tick \in Int
      BY <2>2, <2>3, <2>4
    <3> QED
      BY <2>4, <3>1
  <2> DEFINE w == waited[t]
             a == asked[t]
             d == c.wait
             e == (w + d) - a
  <2>6. ASSUME w <= TickModulus
        PROVE  (late => w >= a) /\ (~late => w + (d - elapsed) = a)
    <3>1. e \in 0 .. TickModulus /\ e <= w
      BY <1>3, <2>3, <2>4, <2>6
    <3>2. Since(k.tick, k.overflows, c.tick, c.over, e)
      BY <2>3, <2>6
    <3> HIDE DEF e
    <3>3. \/ elapsed = e /\ ~(k.overflows # c.over /\ k.tick >= c.tick) /\ e < TickModulus
          \/ e = TickModulus /\ k.overflows # c.over /\ k.tick >= c.tick
      BY <2>2, <2>3, <3>1, <3>2, Elapses
    <3>4. e = (w + d) - a /\ w \in Nat /\ a \in Nat /\ d \in Nat /\ TickModulus \in Nat /\ a < TickModulus
      BY <1>3, <2>4 DEF e
    <3>5. CASE elapsed = e /\ ~(k.overflows # c.over /\ k.tick >= c.tick)
      <4>1. late <=> e >= d
        BY <3>5
      <4> HIDE DEF late, w, a, d, elapsed
      <4>2. e >= d <=> w >= a
        BY <3>4
      <4>3. w + (d - elapsed) = a
        BY <3>4, <3>5
      <4> QED
        BY <4>1, <4>2, <4>3
    <3>6. CASE e = TickModulus /\ k.overflows # c.over /\ k.tick >= c.tick
      <4>1. late
        BY <3>6
      <4> HIDE DEF late, w, a, d, elapsed
      <4>2. w >= a
        BY <3>1, <3>4, <3>6
      <4> QED
        BY <4>1, <4>2
    <3> QED
      BY <3>3, <3>5, <3>6
  <2> QED
    BY <2>1, <2>2, <2>5, <2>6
<1>11. CASE /\ c.wait # portMAX_DELAY /\ late /\ pc' = [pc EXCEPT ![t] = "unlockTx"]
            /\ call' = [call EXCEPT ![t] = g]
  <2>1. /\ asked[t] # 0 /\ Clocked(t) /\ (waited[t] <= TickModulus => waited[t] >= asked[t])
    BY <1>10, <1>11
  <2>2. waited[t] >= asked[t]
    BY <1>4, <2>1, TasksAssumption DEF Tallied
  <2>3. /\ g.op = c.op /\ g.wait = c.wait /\ g.set = c.set /\ g.tick = c.tick
        /\ g.over = c.over /\ g.then = "late"
    BY <1>2, ThenOnly
  <2> HIDE DEF g, late
  <2>4. Goes(t, "unlockTx", g)
    BY <1>11 DEF Goes
  <2>5. pc'[t] = "unlockTx" /\ call'[t] = g
    BY <2>4, GoesTo
  <2>6. Tallied(t)' /\ Dozing(t)'
    BY <1>1, <1>4, <2>5 DEF Tallied, Dozing, NotYet, Idles
  <2>7. Clocked(t)'
    BY <1>1, <2>1, <2>3, <2>5 DEF Clocked
  <2>8. Timing(t)' /\ GivesUp(t)' /\ Delaying(t)'
    BY <1>1, <1>3, <2>1, <2>2, <2>3, <2>5, <2>7 DEF Timing, GivesUp, Delaying, Leaving
  <2>9. Account(t)'
    BY <2>6, <2>8 DEF Account
  <2> QED
    BY <1>1, <1>7, <1>8, <2>4, <2>9, Others
<1>12. CASE /\ c.wait # portMAX_DELAY /\ ~late /\ pc' = [pc EXCEPT ![t] = "test"]
            /\ call' = [call EXCEPT ![t] = h]
  <2>1. /\ asked[t] # 0 /\ Clocked(t) /\ elapsed \in Nat /\ k.tick \in 0 .. TickModulus - 1
        /\ k.overflows \in Nat
        /\ waited[t] <= TickModulus => waited[t] + (c.wait - elapsed) = asked[t]
    BY <1>10, <1>12
  <2>2. elapsed < c.wait
    BY <1>3, <1>12, <2>1
  <2>3. /\ h.op = c.op /\ h.wait = c.wait - elapsed /\ h.set = c.set /\ h.tick = k.tick
        /\ h.over = k.overflows /\ h.then = c.then
    BY <1>2 DEF CallOK, CallFields
  <2> HIDE DEF h, late, elapsed
  <2>4. Goes(t, "test", h)
    BY <1>12 DEF Goes
  <2>5. pc'[t] = "test" /\ call'[t] = h
    BY <2>4, GoesTo
  <2>6. Tallied(t)' /\ Dozing(t)'
    BY <1>1, <1>4, <2>5 DEF Tallied, Dozing, NotYet, Idles
  <2>7. waited[t] \in 0 .. TickModulus + 1 /\ asked[t] \in 0 .. TickModulus - 1 /\ TickModulus \in Nat
    BY <1>4, TasksAssumption DEF Tallied
  <2>8. c.set /\ c.wait <= asked[t] /\ c.wait < portMAX_DELAY
    BY <2>1 DEF Clocked
  <2>9. 1 <= c.wait - elapsed /\ c.wait - elapsed <= asked[t] /\ c.wait - elapsed < portMAX_DELAY
    BY <1>3, <2>1, <2>2, <2>7, <2>8 DEF portMAX_DELAY
  <2>10. waited[t] <= TickModulus =>
           /\ waited[t] + (c.wait - elapsed) >= asked[t]
           /\ (waited[t] + (c.wait - elapsed)) - asked[t] = 0
    BY <1>3, <2>1, <2>7
  <2>11. Since(k.tick, k.overflows, k.tick, k.overflows, 0)
    BY <2>1 DEF Since
  <2>12. Clocked(t)'
    BY <1>1, <2>1, <2>3, <2>5, <2>8, <2>9, <2>10, <2>11 DEF Clocked
  <2>13. Timing(t)' /\ GivesUp(t)' /\ Delaying(t)'
    BY <1>1, <1>3, <1>4, <2>1, <2>3, <2>5, <2>12 DEF Timing, GivesUp, Delaying
  <2>14. Account(t)'
    BY <2>6, <2>13 DEF Account
  <2> QED
    BY <1>1, <1>7, <1>8, <2>4, <2>14, Others
<1> QED
  BY <1>1, <1>9, <1>11, <1>12

LEMMA LullsAmid ==
  ASSUME SInv, DInv, NEW t \in Born, NEW n, Lulls(k, k', t, n),
         \A u \in Task \ {t} : Waits(k', u) => Waits(k, u), k'.pending = k.pending
  PROVE  Amid(0, {}, Task \ {t}) /\ Sleeps(k', t) /\ Left(k', t) = n /\ SameTick
<1>1. Good(k, Born) /\ Born \in SUBSET Task /\ Times(k)
  BY DEF SInv, KInv, Born, DInv
<1>2. \A u \in Task \ {t} : Fares(k, k', 0, {}, u)
  BY <1>1, LullsFares
<1>3. Clocks(k, k', 0)
  <2>1. k'.tick = k.tick /\ k'.overflows = k.overflows
    BY DEF Lulls
  <2>2. \A e \in Nat : e + 0 = e
    OBVIOUS
  <2> QED
    BY <2>1, <2>2 DEF Clocks
<1>4. Times(k') /\ Sleeps(k', t) /\ Left(k', t) = n /\ SameTick
  BY DEF Lulls, SameTick
<1> QED
  BY <1>2, <1>3, <1>4 DEF Amid

LEMMA PlaceAccounts == ASSUME SInv, SInv', DInv, NEW t \in Task, Place(t) PROVE DInv'
<1> DEFINE c == call[t]
           r == vTaskPlaceOnEventList(k, t, c.q, c.op, c.wait)
<1>1. /\ k.current = t /\ pc[t] = "place" /\ pc' = [pc EXCEPT ![t] = "unlockTx"] /\ k' = r
      /\ UNCHANGED <<call, asked, waited>>
  BY DEF Place, At, Goto
<1>2. Fit("place", c) /\ c.q \in Queue
  BY <1>1, CallIs
<1>3. c.op \in Sides /\ c.op \in Ops /\ c.op # "delay" /\ c.wait \in Nat
  BY <1>2 DEF Fit, Asking, Inside, Ops, Sides
<1>4. Good(k, Born) /\ IdleReady(k) /\ Born \in SUBSET Task /\ Times(k)
  BY KernelOf DEF SInv, KInv, DInv
<1>5. t \in Born /\ Ready(k, t) /\ ~Contains(k.pending, t) /\ ~Sleeps(k, t)
  BY <1>1, Running, AwakeHere DEF SInv, KInv, Away, Leaving, Settled
<1>6. Tallied(t) /\ Dozing(t) /\ Timing(t) /\ c.then # "late"
  BY <1>1 DEF DInv, Account, GivesUp, Leaving
<1>7. (asked[t] = 0 /\ c.wait = portMAX_DELAY) \/ (asked[t] # 0 /\ Clocked(t))
  BY <1>1, <1>3, <1>6 DEF Timing, Idles
<1>8. c.wait \in 1 .. portMAX_DELAY
  BY <1>3, <1>7, TasksAssumption DEF portMAX_DELAY, Clocked
<1>9. /\ Good(r, Born) /\ IdleReady(r) /\ SameRun(k, r) /\ r.pending = k.pending
      /\ \A u \in Members : Ready(r, u) <=> Ready(k, u) /\ u # t
      /\ Enters(k, r, c.q, c.op, t)
  <2> HIDE DEF c
  <2> QED
    BY <1>2, <1>3, <1>4, <1>5, PlaceGood
<1>10. IF c.wait # portMAX_DELAY THEN Lulls(k, r, t, c.wait) ELSE Trims(k, r, {}) /\ ~Sleeps(r, t)
  <2> HIDE DEF c
  <2> QED
    BY <1>2, <1>3, <1>4, <1>5, <1>8, PlaceTimes
<1> HIDE DEF r
<1>11. Goes(t, "unlockTx", c)
  BY <1>1 DEF Goes
<1>12. pc'[t] = "unlockTx" /\ call'[t] = c
  BY <1>11, GoesTo
<1>13. \A u \in Task \ {t} : Waits(k', u) => Waits(k, u)
  BY <1>1, <1>9 DEF Enters, Waits
<1>14. LaterAll(0)
  BY <1>1, NoneLater
<1>15. CASE c.wait = portMAX_DELAY
  <2>1. Trims(k, k', {})
    BY <1>1, <1>10, <1>15
  <2>2. Passes(k, k', 0, {})
    BY <1>4, <2>1, TrimsPasses
  <2>3. Amid(0, {}, Task)
    BY <1>1, <1>3, <1>9, <1>13, <2>2 DEF Passes, Amid
  <2>4. Continues(t, 0)
    BY <1>1, <1>6, <1>12 DEF Continues, SameCall, Idles
  <2> QED
    BY <1>1, <1>11, <1>14, <2>3, <2>4, GoesOn
<1>16. CASE c.wait # portMAX_DELAY
  <2>1. Lulls(k, k', t, c.wait)
    BY <1>1, <1>10, <1>16
  <2>2. k'.pending = k.pending
    BY <1>1, <1>9
  <2>3. Amid(0, {}, Task \ {t}) /\ Sleeps(k', t) /\ Left(k', t) = c.wait /\ SameTick
    BY <1>5, <1>13, <2>1, <2>2, LullsAmid
  <2>4. asked[t] # 0 /\ Clocked(t)
    BY <1>7, <1>16
  <2>5. waited[t] <= TickModulus => waited[t] + c.wait = asked[t]
    <3> SUFFICES ASSUME waited[t] <= TickModulus PROVE waited[t] + c.wait = asked[t]
      OBVIOUS
    <3> DEFINE w == waited[t]
               d == c.wait
               a == asked[t]
               e == (w + d) - a
    <3>1. /\ Since(k.tick, k.overflows, k.tick, k.overflows, e) /\ d <= a
      BY <1>1, <2>4 DEF Clocked
    <3>2. w \in Nat /\ w <= TickModulus /\ a \in 0 .. TickModulus - 1 /\ d \in Nat
          /\ TickModulus \in Nat
      BY <1>3, <1>6, TasksAssumption DEF Tallied
    <3>3. k.tick \in 0 .. TickModulus - 1 /\ k.overflows \in Nat
      BY KernelOf, KernelFields DEF SInv
    <3>4. (k.overflows + 1) % OverflowModulus # k.overflows
      BY <3>3, OverflowMoves
    <3>5. k.tick = k.tick + e
      BY <3>1, <3>4 DEF Since
    <3> HIDE DEF w, d, a
    <3>6. w + d = a
      BY <3>2, <3>3, <3>5
    <3> QED
      BY <3>6 DEF w, d, a
  <2>6. ~NotYet(t)
    BY <1>1, <2>4 DEF NotYet
  <2>7. Tallied(t)'
    BY <1>1, <1>6, <1>12, <2>6 DEF Tallied, NotYet, Idles
  <2>8. Dozing(t)'
    BY <1>1, <1>12, <2>3, <2>4, <2>5 DEF Dozing, NotYet
  <2>9. Clocked(t)'
    BY <1>1, <1>12, <2>3, <2>4 DEF Clocked, SameTick
  <2>10. Timing(t)' /\ GivesUp(t)' /\ Delaying(t)'
    BY <1>1, <1>3, <1>6, <1>12, <2>4, <2>9 DEF Timing, GivesUp, Delaying
  <2>11. Account(t)'
    BY <2>7, <2>8, <2>10 DEF Account
  <2>12. /\ DOMAIN asked' = Task /\ DOMAIN waited' = Task
         /\ \A u \in Task \ {t} : waited'[u] = Overtaken(0, u) /\ asked'[u] = asked[u]
    BY <1>1, <1>14 DEF DInv, LaterAll
  <2> QED
    BY <1>1, <1>11, <2>3, <2>11, <2>12, Others
<1> QED
  BY <1>15, <1>16

LEMMA SleepAccounts == ASSUME SInv, SInv', DInv, NEW t \in Task, Sleep(t) PROVE DInv'
<1> DEFINE n == call[t].wait
           r == Asleep(k, t, n)
           c == [call[t] EXCEPT !.then = "yield"]
<1>1. /\ k.current = t /\ pc[t] = "sleep" /\ k' = r
      /\ pc' = [pc EXCEPT ![t] = "resume"] /\ call' = [call EXCEPT ![t] = c]
      /\ UNCHANGED <<asked, waited>>
  BY DEF Sleep, At, Goto
<1>2. Fit("sleep", call[t]) /\ CallOK(call[t])
  BY <1>1, CallIs
<1>3. c.op = call[t].op /\ c.wait = n /\ c.then = "yield" /\ call[t].op = "delay"
  BY <1>2, ThenOnly DEF Fit
<1> HIDE DEF c
<1>4. Tallied(t) /\ ~Waits(k, t) /\ ~Contains(k.pending, t) /\ n = asked[t] /\ n # 0 /\ waited[t] = 0
  BY <1>1, <1>3 DEF DInv, Account, Delaying
<1>5. k \in Kernel /\ Homes(k, Born) /\ Born \in SUBSET Task /\ Times(k) /\ t \in Born
  BY <1>1, KernelOf, Running DEF SInv, DInv
<1>6. n \in 1 .. TickModulus - 1 /\ n \in Nat
  BY <1>4, TasksAssumption DEF Tallied
<1> HIDE DEF n
<1>7. r.pending = k.pending /\ r.waiting = k.waiting
  BY <1>5, <1>6, AsleepHomes
<1>8. Lulls(k, r, t, n)
  BY <1>5, <1>6, AsleepLulls
<1> HIDE DEF r
<1>9. \A u \in Task : Waits(k', u) => Waits(k, u)
  BY <1>1, <1>7 DEF Waits
<1>10. Amid(0, {}, Task \ {t}) /\ Sleeps(k', t) /\ Left(k', t) = n
  BY <1>1, <1>5, <1>7, <1>8, <1>9, LullsAmid
<1>11. Goes(t, "resume", c)
  BY <1>1 DEF Goes
<1>12. pc'[t] = "resume" /\ call'[t] = c
  BY <1>11, GoesTo
<1>13. Tallied(t)'
  BY <1>1, <1>4, <1>12 DEF Tallied, NotYet, Idles
<1>14. Dozing(t)'
  <2>1. 0 + n = n
    BY <1>6
  <2> QED
    BY <1>1, <1>4, <1>10, <1>12, <2>1 DEF Dozing, NotYet
<1>15. GivesUp(t)' /\ Timing(t)'
  BY <1>3, <1>12 DEF GivesUp, Timing, Ops
<1>16. Delaying(t)'
  BY <1>1, <1>3, <1>4, <1>7, <1>9, <1>10, <1>12 DEF Delaying
<1>17. Account(t)'
  BY <1>13, <1>14, <1>15, <1>16 DEF Account
<1>18. /\ DOMAIN asked' = Task /\ DOMAIN waited' = Task
       /\ \A u \in Task \ {t} : waited'[u] = Overtaken(0, u) /\ asked'[u] = asked[u]
  BY <1>1, NoneLater DEF DInv, LaterAll
<1> QED
  BY <1>1, <1>10, <1>11, <1>17, <1>18, Others

-----------------------------------------------------------------------------
LEMMA SameAccounts == ASSUME DInv, UNCHANGED vars PROVE DInv'
BY DEF vars, DInv, Account, Tallied, Dozing, GivesUp, Timing, Delaying, NotYet, Clocked

LEMMA AccountsStep == ASSUME SInv, SInv', DInv, [Next]_vars PROVE DInv'
<1>1. CASE UNCHANGED vars
  BY <1>1, SameAccounts
<1>2. CASE Tick
  BY <1>2, TickAccounts
<1>3. CASE \E q \in PostsTo, item \in Posted : xQueueGenericSendFromISR(q, item)
  BY <1>3, PostAccounts
<1>4. ASSUME NEW t \in Task, Task1(t)
      PROVE  DInv'
  <2>1. CASE (\E c \in Calls[t] : Request(t, c)) \/ (\E n \in Delays[t] : vTaskDelay(t, n))
    BY <2>1, RequestAccounts, DelayAccounts
  <2>2. CASE Sent(t) \/ Received(t) \/ Refused(t) \/ Awake(t)
    BY <2>2, ReturnAccounts
  <2>3. CASE WillWait(t) \/ xTaskCheckForTimeOut(t) \/ Test(t) \/ Place(t) \/ Sleep(t)
    BY <2>3, WillWaitAccounts, TimeOutAccounts, TestAccounts, PlaceAccounts, SleepAccounts
  <2>4. CASE Suspend(t) \/ prvLockQueue(t) \/ OpenTx(t) \/ Hold(t) \/ InspectTx(t) \/ UnlockRx(t)
    BY <2>4, PlainAccounts, UnlockAccounts
  <2>5. CASE Resume(t) \/ Yield(t) \/ Unhold(t)
    BY <2>5, ResumeAccounts, YieldAccounts, UnholdAccounts
  <2>6. CASE \E u \in Task : <<t, u>> \in Suspends /\ (SuspendTask(t, u) \/ ResumeTask(t, u))
    BY <2>6, OtherTaskAccounts
  <2>7. CASE \E u \in Task : Create(t, u)
    BY <2>7, CreateAccounts
  <2> QED
    BY <1>4, <2>1, <2>2, <2>3, <2>4, <2>5, <2>6, <2>7 DEF Task1
<1> QED
  BY <1>1, <1>2, <1>3, <1>4 DEF Next, Interrupts

LEMMA NobodySleeps == ASSUME Init PROVE DInv
<1>1. PICK order \in Orders : k = vTaskStartScheduler(order)
  BY DEF Init
<1>2. Fresh(k)
  BY <1>1, StartGood DEF Orders
<1>3. /\ DOMAIN asked = Task /\ DOMAIN waited = Task
      /\ \A t \in Task : /\ asked[t] = 0 /\ waited[t] = 0 /\ call[t] = NoCall
                         /\ pc[t] \in {"task", "none"}
  BY DEF Init
<1>4. \A t : ~Contains(k.delayed, t) /\ ~Contains(k.overflow, t)
  BY <1>2, EmptyList DEF Fresh
<1>5. Times(k)
  BY <1>2, <1>4 DEF Times, Sorted, Fresh
<1>6. NoCall.op = "receive" /\ NoCall.then = "check"
  BY DEF NoCall
<1>7. ASSUME NEW t \in Task PROVE Account(t)
  <2>1. Tallied(t)
    BY <1>3, TasksAssumption DEF Tallied
  <2>2. Dozing(t) /\ GivesUp(t) /\ Timing(t) /\ Delaying(t)
    BY <1>3, <1>4, <1>6 DEF Dozing, Sleeps, GivesUp, Timing, Delaying, Idles
  <2> QED
    BY <2>1, <2>2 DEF Account
<1> QED
  BY <1>3, <1>5, <1>7 DEF DInv

LEMMA Accounted == ASSUME SInv, DInv PROVE WaitIsExact
<1> SUFFICES ASSUME NEW t \in Task
             PROVE  /\ t \in ToSet(k.delayed) \cup ToSet(k.overflow) /\ ~Beyond(t) =>
                         waited[t] < asked[t]
                    /\ \/ call[t].then = "late"
                       \/ At(t, "awake") /\ ~Disturbed(t)
                       => waited[t] >= asked[t]
  BY DEF WaitIsExact
<1>1. Tallied(t) /\ Dozing(t) /\ GivesUp(t) /\ Delaying(t)
  BY DEF DInv, Account
<1>2. waited[t] \in 0 .. TickModulus + 1 /\ asked[t] \in 0 .. TickModulus - 1 /\ TickModulus \in Nat
  BY <1>1, TasksAssumption DEF Tallied
<1>3. ASSUME t \in ToSet(k.delayed) \cup ToSet(k.overflow), ~Beyond(t)
      PROVE  waited[t] < asked[t]
  <2>1. k.delayed \in Seq(Members) /\ k.overflow \in Seq(Members)
    BY KernelOf, KernelFields DEF SInv, Lists
  <2>2. Sleeps(k, t)
    BY <1>3, <2>1 DEF Sleeps, Contains, ToSet
  <2>3. Left(k, t) \in Nat \ {0}
    <3>1. Good(k, Born) /\ Born \in SUBSET Task /\ Times(k)
      BY DEF SInv, KInv, Born, DInv
    <3> QED
      BY <2>2, <3>1, LeftIs
  <2>4. waited[t] + Left(k, t) = asked[t]
    BY <1>1, <1>2, <1>3, <2>2 DEF Dozing, Beyond
  <2> QED
    BY <1>2, <2>3, <2>4
<1>4. call[t].then = "late" => waited[t] >= asked[t]
  BY <1>1 DEF GivesUp
<1>5. ASSUME At(t, "awake"), ~Disturbed(t)
      PROVE  waited[t] >= asked[t]
  <2>1. k.current = t /\ pc[t] = "awake"
    BY <1>5 DEF At
  <2>2. call[t].op = "delay"
    BY <2>1 DEF SInv, KInv, Fit
  <2>3. ~Sleeps(k, t)
    BY <2>1, AwakeHere DEF Away, Leaving
  <2>4. asked[t] = 0 \/ waited[t] >= asked[t]
    BY <1>1, <1>5, <2>1, <2>2, <2>3 DEF Delaying
  <2> QED
    BY <1>2, <2>4
<1> QED
  BY <1>3, <1>4, <1>5

(* A wait is as long as it was asked to be, for every set of tasks and     *)
(* calls and every width of the tick's counters: no task lies in a list of *)
(* delayed tasks longer than it asked, and none gives up or ends a delay   *)
(* before, across the wrap of the ticks and whatever ticks were missed     *)
(* while the scheduler was suspended.                                      *)
THEOREM WaitsAreExact ==
  ASSUME PostsInUnlock = FALSE PROVE Spec => []WaitIsExact
<1>1. Init => SInv /\ DInv
  BY StartKernel, NobodySleeps
<1>2. SInv /\ DInv /\ [Next]_vars => SInv' /\ DInv'
  <2> SUFFICES ASSUME SInv, DInv, [Next]_vars PROVE SInv' /\ DInv'
    OBVIOUS
  <2>1. SInv'
    BY Step, KernelStep DEF SInv
  <2> QED
    BY <2>1, AccountsStep
<1>3. SInv /\ DInv => WaitIsExact
  BY Accounted
<1> QED
  BY <1>1, <1>2, <1>3, PTL DEF Spec
=============================================================================
