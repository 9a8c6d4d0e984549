--------------------------- MODULE FreeRtosQueue ---------------------------
(***************************************************************************)
(* The queues of FreeRTOS (queue.c) and the calls of tasks.c that block,   *)
(* run by the application's tasks on one processor.  A step is a critical  *)
(* section or the code between two of them; the tick and the interrupts    *)
(* that post to a queue come between two steps.  vTaskSuspendAll keeps the *)
(* other tasks out but not the interrupts, which then leave the event      *)
(* lists alone and count in the locks of the queue what they did.          *)
(***************************************************************************)
EXTENDS FreeRtosTasks

CONSTANTS
  Item, Length,      \* the items, the length of each queue
  Calls,             \* the calls each task may make: [op, q, item, wait]
  Delays,            \* the delays each task may ask for, in ticks
  Suspends,          \* the pairs of tasks the first of which suspends the second
  PostsTo,           \* the queues interrupts post to
  Posted,            \* the items they post
  PostsInUnlock,     \* those interrupts also come inside prvUnlockQueue
  MaxMissed          \* bound on the ticks missed in one suspension

Ops == {"send", "receive"}

ASSUME QueueAssumption ==
  /\ Queue # {} /\ Length \in [Queue -> Nat \ {0}]
  /\ \A t \in Task : \A c \in Calls[t] :
       c.op \in Ops /\ c.q \in Queue /\ c.item \in Item
         /\ c.wait \in 0 .. TickModulus - 1
  /\ \A t \in Task : Delays[t] \subseteq 0 .. TickModulus - 1
  /\ Suspends \subseteq Task \X Task
  /\ PostsTo \subseteq Queue /\ Posted \subseteq Item
  /\ PostsInUnlock \in BOOLEAN /\ MaxMissed \in Nat

VARIABLES
  k,                 \* the kernel of FreeRtosTasks
  queue,             \* the queues
  pc, call,          \* where a task is, the call it makes
  asked, waited      \* the ticks a call may block, those that have passed

vars == <<k, queue, pc, call, asked, waited>>

queueUNLOCKED == -1
queueLOCKED_UNMODIFIED == 0
NoItem == "none"

NoCall == [op |-> "receive", q |-> CHOOSE q \in Queue : TRUE, item |-> NoItem,
           wait |-> 0, set |-> FALSE, tick |-> 0, over |-> 0, then |-> "check"]

xQueueCreate(length) ==
  [storage |-> [i \in 0 .. length - 1 |-> NoItem], count |-> 0,
   writeTo |-> 0, readFrom |-> length - 1,
   rxLock |-> queueUNLOCKED, txLock |-> queueUNLOCKED]

(* In any order.                                                           *)
Orders == {o \in [1 .. Cardinality(Started) -> Started] : IsInjective(o)}

Init ==
  /\ \E order \in Orders : k = vTaskStartScheduler(order)
  /\ queue = [q \in Queue |-> xQueueCreate(Length[q])]
  /\ pc = [t \in Task |-> IF t \in Started THEN "task" ELSE "none"]
  /\ call = [t \in Task |-> NoCall]
  /\ asked = [t \in Task |-> 0] /\ waited = [t \in Task |-> 0]

-----------------------------------------------------------------------------
(* The storage area of a queue.                                            *)

(* A position that reaches the end goes back to the head.                  *)
Wrapped(i, n) == IF i >= n THEN i - n ELSE i

(* Mutant: the item goes to the front, as xQueueSendToFront has it.        *)
CopyToFront(b, n, item) ==
  [b EXCEPT !.storage[b.readFrom] = item, !.count = @ + 1,
            !.readFrom = IF @ = 0 THEN n - 1 ELSE @ - 1]

prvCopyDataToQueue(b, n, item) ==
  [b EXCEPT !.storage[b.writeTo] = item, !.count = @ + 1,
            !.writeTo = Wrapped(@ + 1, n)]

(* The position moves before the read.  What the read leaves behind has no *)
(* meaning.                                                                *)
prvCopyDataFromQueue(b, n) ==
  LET read == Wrapped(b.readFrom + 1, n)
  IN  [b EXCEPT !.storage[read] = NoItem, !.readFrom = read, !.count = @ - 1]

prvIsQueueEmpty(q) == queue[q].count = 0

prvIsQueueFull(q) == queue[q].count = Length[q]

Waiting(q, side) == k.waiting[q][side]

-----------------------------------------------------------------------------
(* The calls that block.  One task runs, and it runs until an interrupt or *)
(* its own step gives the processor to another.                            *)

At(t, place) == k.current = t /\ pc[t] = place
Goto(t, place) == pc' = [pc EXCEPT ![t] = place]

Request(t, c) ==
  /\ At(t, "task") /\ Goto(t, "check")
  /\ call' = [call EXCEPT ![t] = [NoCall EXCEPT !.op = c.op, !.q = c.q,
                                    !.item = c.item, !.wait = c.wait]]
  /\ asked' = [asked EXCEPT ![t] = IF c.wait = portMAX_DELAY THEN 0 ELSE c.wait]
  /\ UNCHANGED <<k, queue, waited>>

(* The waiting task that the effect concerns becomes ready, and runs if it *)
(* is as urgent: the processor is given away inside the critical section.  *)
Notify(q, side) ==
  LET list == Waiting(q, side)
      j    == xTaskRemoveFromEventList(k, q, side)
  IN  k' = IF list = <<>> THEN k
           ELSE IF Outranks(k, Head(list)) THEN vTaskSwitchContext(j) ELSE j

Return(t) ==
  /\ Goto(t, "task") /\ call' = [call EXCEPT ![t] = NoCall]
  /\ asked' = [asked EXCEPT ![t] = 0] /\ waited' = [waited EXCEPT ![t] = 0]

Sent(t) ==
  LET c == call[t]
  IN  /\ At(t, "check") /\ c.op = "send" /\ ~prvIsQueueFull(c.q)
      /\ queue' = [queue EXCEPT ![c.q] = prvCopyDataToQueue(@, Length[c.q], c.item)]
      /\ Notify(c.q, "receive") /\ Return(t)

Received(t) ==
  LET c == call[t]
  IN  /\ At(t, "check") /\ c.op = "receive" /\ ~prvIsQueueEmpty(c.q)
      /\ queue' = [queue EXCEPT ![c.q] = prvCopyDataFromQueue(@, Length[c.q])]
      /\ Notify(c.q, "send") /\ Return(t)

Blocked(c) ==
  IF c.op = "send" THEN prvIsQueueFull(c.q) ELSE prvIsQueueEmpty(c.q)

Refused(t) ==
  LET c == call[t]
  IN  At(t, "check") /\ Blocked(c) /\ c.wait = 0 /\ Return(t)
      /\ UNCHANGED <<k, queue>>

(* vTaskSetTimeOutState, the first time.  A call that waits for ever never *)
(* looks at the time that it took.                                         *)
Timed(c) == IF c.set \/ c.wait = portMAX_DELAY THEN c
            ELSE [c EXCEPT !.set = TRUE, !.tick = k.tick, !.over = k.overflows]

WillWait(t) ==
  LET c == call[t]
  IN  /\ At(t, "check") /\ Blocked(c) /\ c.wait # 0 /\ Goto(t, "suspend")
      /\ call' = [call EXCEPT ![t] = Timed(c)]
      /\ UNCHANGED <<k, queue, asked, waited>>

Suspend(t) ==
  /\ At(t, "suspend") /\ Goto(t, "lock") /\ k' = vTaskSuspendAll(k)
  /\ UNCHANGED <<queue, call, asked, waited>>

Locked(n) == IF n = queueUNLOCKED THEN queueLOCKED_UNMODIFIED ELSE n

prvLockQueue(t) ==
  LET q == call[t].q
  IN  /\ At(t, "lock") /\ Goto(t, "timeout")
      /\ queue' = [queue EXCEPT ![q] = [queue[q] EXCEPT !.rxLock = Locked(@),
                                                       !.txLock = Locked(@)]]
      /\ UNCHANGED <<k, call, asked, waited>>

(* Mutant: the time already waited is not taken off.                       *)
SameWait(t) ==
  LET c       == call[t]
      elapsed == (k.tick - c.tick) % TickModulus
      late    == \/ k.overflows # c.over /\ k.tick >= c.tick
                 \/ elapsed >= c.wait
  IN  /\ At(t, "timeout")
      /\ IF c.wait # portMAX_DELAY /\ late
         THEN Goto(t, "unlockTx") /\ call' = [call EXCEPT ![t].then = "late"]
         ELSE /\ Goto(t, "test")
              /\ call' = [call EXCEPT ![t].tick = k.tick, ![t].over = k.overflows]
      /\ UNCHANGED <<k, queue, asked, waited>>

xTaskCheckForTimeOut(t) ==
  LET c       == call[t]
      elapsed == (k.tick - c.tick) % TickModulus
      late    == \/ k.overflows # c.over /\ k.tick >= c.tick
                 \/ elapsed >= c.wait
  IN  /\ At(t, "timeout")
      /\ \/ /\ c.wait = portMAX_DELAY /\ Goto(t, "test") /\ UNCHANGED call
         \/ /\ c.wait # portMAX_DELAY /\ late /\ Goto(t, "unlockTx")
            /\ call' = [call EXCEPT ![t].then = "late"]
         \/ /\ c.wait # portMAX_DELAY /\ ~late /\ Goto(t, "test")
            /\ call' = [call EXCEPT ![t] = [c EXCEPT !.wait = @ - elapsed,
                          !.tick = k.tick, !.over = k.overflows]]
      /\ UNCHANGED <<k, queue, asked, waited>>

Test(t) ==
  LET blocked == Blocked(call[t])
  IN  /\ At(t, "test") /\ Goto(t, IF blocked THEN "place" ELSE "unlockTx")
      /\ call' = [call EXCEPT ![t].then = IF blocked THEN "yield" ELSE "check"]
      /\ UNCHANGED <<k, queue, asked, waited>>

Place(t) ==
  LET c == call[t]
  IN  /\ At(t, "place") /\ Goto(t, "unlockTx")
      /\ k' = vTaskPlaceOnEventList(k, t, c.q, c.op, c.wait)
      /\ UNCHANGED <<queue, call, asked, waited>>

(* prvUnlockQueue: one waiting task wakes for each item counted.           *)
Woken(q, side, lock) ==
  LET n    == IF lock > Len(Waiting(q, side)) THEN Len(Waiting(q, side))
              ELSE lock
      list == SubSeq(Waiting(q, side), 1, n)
      one(j, t) == xTaskRemoveFromEventList(j, q, side)
  IN  [FoldLeft(one, k, list) EXCEPT
         !.missedYield = @ \/ \E i \in DOMAIN list : Outranks(k, list[i])]

(* Its loop over the Tx lock.  The lock is opened a few instructions later *)
(* in the same critical section.                                           *)
InspectTx(t) ==
  LET q == call[t].q
  IN  /\ At(t, "unlockTx") /\ Goto(t, "openTx")
      /\ k' = Woken(q, "receive", queue[q].txLock)
      /\ UNCHANGED <<queue, call, asked, waited>>

OpenTx(t) ==
  /\ At(t, "openTx") /\ Goto(t, "unlockRx")
  /\ queue' = [queue EXCEPT ![call[t].q].txLock = queueUNLOCKED]
  /\ UNCHANGED <<k, call, asked, waited>>

UnlockRx(t) ==
  LET q == call[t].q
  IN  /\ At(t, "unlockRx") /\ Goto(t, "resume")
      /\ k' = Woken(q, "send", queue[q].rxLock)
      /\ queue' = [queue EXCEPT ![q].rxLock = queueUNLOCKED]
      /\ UNCHANGED <<call, asked, waited>>

(* Ticks that are counted now have passed for those who wait.              *)
Overtaken(n, t) ==
  IF asked[t] = 0 \/ (pc[t] = "check" /\ ~call[t].set) THEN 0
  ELSE IF waited[t] + n > TickModulus THEN TickModulus + 1 ELSE waited[t] + n
Later(n) == [t \in Task |-> Overtaken(n, t)]
Passed(n) == waited' = Later(n)

(* After its wait a call looks again, a delay is over.                     *)
After(t) == IF call[t].op = "delay" THEN "awake" ELSE "check"

Resume(t) ==
  LET then == call[t].then
      next == IF then # "yield" THEN then
              ELSE IF MustYield(k) THEN After(t) ELSE "yield"
  IN  /\ At(t, "resume") /\ k' = xTaskResumeAll(k)
      /\ IF then = "late"
         THEN /\ Goto(t, "task") /\ call' = [call EXCEPT ![t] = NoCall]
              /\ asked' = [asked EXCEPT ![t] = 0]
              /\ waited' = [Later(k.missedTicks) EXCEPT ![t] = 0]
         ELSE /\ Goto(t, next) /\ Passed(k.missedTicks) /\ UNCHANGED <<call, asked>>
      /\ UNCHANGED <<queue>>

Yield(t) ==
  /\ At(t, "yield") /\ Goto(t, After(t)) /\ k' = vTaskSwitchContext(k)
  /\ UNCHANGED <<queue, call, asked, waited>>

-----------------------------------------------------------------------------
(* The other calls of tasks.c.                                             *)

(* A delay of no ticks gives the processor away.  The call multiplies its  *)
(* argument by ten: it is given in ticks here.                             *)
vTaskDelay(t, ticks) ==
  /\ At(t, "task")
  /\ call' = [call EXCEPT ![t] = [NoCall EXCEPT !.op = "delay", !.wait = ticks]]
  /\ asked' = [asked EXCEPT ![t] = ticks] /\ UNCHANGED waited
  /\ \/ ticks = 0 /\ Goto(t, "yield") /\ UNCHANGED k
     \/ ticks # 0 /\ Goto(t, "sleep") /\ k' = vTaskSuspendAll(k)
  /\ UNCHANGED <<queue>>

Sleep(t) ==
  /\ At(t, "sleep") /\ Goto(t, "resume") /\ k' = Asleep(k, t, call[t].wait)
  /\ call' = [call EXCEPT ![t].then = "yield"]
  /\ UNCHANGED <<queue, asked, waited>>

Awake(t) ==
  /\ At(t, "awake") /\ Return(t) /\ UNCHANGED <<k, queue>>

(* The application suspends the scheduler for a while, as pvPortMalloc and *)
(* the Modbus ports do.                                                    *)
Hold(t) ==
  /\ At(t, "task") /\ Goto(t, "held") /\ k' = vTaskSuspendAll(k)
  /\ UNCHANGED <<queue, call, asked, waited>>

Unhold(t) ==
  /\ At(t, "held") /\ Goto(t, "task")
  /\ k' = xTaskResumeAll(k) /\ Passed(k.missedTicks)
  /\ UNCHANGED <<queue, call, asked>>

SuspendTask(t, u) ==
  /\ At(t, "task") /\ pc[u] # "none" /\ k' = vTaskSuspend(k, u)
  /\ UNCHANGED <<queue, pc, call, asked, waited>>

ResumeTask(t, u) ==
  /\ At(t, "task") /\ pc[u] # "none" /\ k' = vTaskResume(k, u)
  /\ UNCHANGED <<queue, pc, call, asked, waited>>

Create(t, u) ==
  /\ At(t, "task") /\ pc[u] = "none" /\ Goto(u, "task")
  /\ k' = xTaskGenericCreate(k, u)
  /\ UNCHANGED <<queue, call, asked, waited>>

-----------------------------------------------------------------------------
(* The interrupts.  Those of the kernel's priority wait until a critical   *)
(* section ends; the one section that is two steps is that of openTx.      *)
(* U2RX, which posts in the modes ASCII and PowerOne, has a higher one and *)
(* no section holds it off.  PostsInUnlock lets it into this section and   *)
(* no other: it can show what goes wrong, and nothing of what holds.       *)
InSection == \E t \in Task : At(t, "openTx")

Tick ==
  /\ ~InSection /\ k.missedTicks < MaxMissed
  /\ k' = vTaskSwitchContext(vTaskIncrementTick(k))
  /\ Passed(IF k.depth = 0 THEN 1 ELSE 0)
  /\ UNCHANGED <<queue, pc, call, asked>>

(* A locked queue counts, an open one wakes who waits.  The interrupt asks *)
(* for no switch: xMBPortEventPost passes no flag for it.                  *)
Signal(q, side, lock) ==
  k' = IF lock # queueUNLOCKED \/ Waiting(q, side) = <<>> THEN k
       ELSE xTaskRemoveFromEventList(k, q, side)

Counted(lock) == IF lock = queueUNLOCKED THEN lock ELSE lock + 1

(* Mutant: an interrupt that finds the queue locked leaves no count.       *)
PostUncounted(q, item) ==
  /\ (InSection => PostsInUnlock) /\ ~prvIsQueueFull(q)
  /\ Signal(q, "receive", queue[q].txLock)
  /\ queue' = [queue EXCEPT ![q] = prvCopyDataToQueue(queue[q], Length[q], item)]
  /\ UNCHANGED <<pc, call, asked, waited>>

xQueueGenericSendFromISR(q, item) ==
  /\ (InSection => PostsInUnlock) /\ ~prvIsQueueFull(q)
  /\ Signal(q, "receive", queue[q].txLock)
  /\ queue' = [queue EXCEPT ![q] =
                 [prvCopyDataToQueue(queue[q], Length[q], item) EXCEPT
                    !.txLock = Counted(@)]]
  /\ UNCHANGED <<pc, call, asked, waited>>

-----------------------------------------------------------------------------
Task1(t) ==
  \/ \E c \in Calls[t] : Request(t, c)
  \/ \E n \in Delays[t] : vTaskDelay(t, n)
  \/ Sent(t) \/ Received(t) \/ Refused(t) \/ WillWait(t)
  \/ Suspend(t) \/ prvLockQueue(t) \/ xTaskCheckForTimeOut(t)
  \/ Test(t) \/ Place(t) \/ InspectTx(t) \/ OpenTx(t) \/ UnlockRx(t)
  \/ Resume(t) \/ Yield(t) \/ Sleep(t) \/ Awake(t) \/ Hold(t) \/ Unhold(t)
  \/ \E u \in Task : /\ <<t, u>> \in Suspends
                    /\ (SuspendTask(t, u) \/ ResumeTask(t, u))
  \/ \E u \in Task : Create(t, u)

Interrupts ==
  \/ Tick
  \/ \E q \in PostsTo, item \in Posted : xQueueGenericSendFromISR(q, item)

Next == Interrupts \/ \E t \in Task : Task1(t)

Spec == Init /\ [][Next]_vars

-----------------------------------------------------------------------------
Holds(list, t) == Cardinality({i \in DOMAIN list : list[i] = t})
Holding(t) ==
  Holds(k.delayed, t) + Holds(k.overflow, t) + Holds(k.suspended, t)
    + Holds(k.ready[Prio(t)], t)

(* The queues' counters are in range, and every task is in one of the      *)
(* lists of tasks, once: the running task is ready, or about to give the   *)
(* processor away.                                                         *)
TypeOK ==
  /\ \A q \in Queue : /\ queue[q].count \in 0 .. Length[q]
                     /\ queue[q].writeTo \in 0 .. Length[q] - 1
                     /\ queue[q].readFrom \in 0 .. Length[q] - 1
                     /\ queue[q].txLock \in -1 .. Length[q]
                     /\ queue[q].rxLock \in -1 .. Length[q]
  /\ k.tick \in 0 .. TickModulus - 1 /\ k.depth \in 0 .. 1
  /\ k.current \in Task \cup {Idle}
  /\ \A t \in Task : pc[t] # "none" => Holding(t) = 1

(* An item never lies in an open queue with a task waiting for one and     *)
(* nobody on the way to take it, nor is there room with a task waiting to  *)
(* send: no wake-up is lost, whatever interrupt comes between the test of  *)
(* the queue, the place on its list and its unlocking, and whoever takes   *)
(* the item first.                                                         *)
OnTheWay(q, side) ==
  \E t \in Task : /\ pc[t] \notin {"task", "none"} /\ call[t].op \in Ops
                 /\ call[t].q = q /\ call[t].op = side
                 /\ t \notin ToSet(Waiting(q, side))

NoLostWakeup ==
  \A q \in Queue :
    queue[q].txLock = queueUNLOCKED /\ queue[q].rxLock = queueUNLOCKED =>
      /\ ~prvIsQueueEmpty(q) /\ Waiting(q, "receive") # <<>> => OnTheWay(q, "receive")
      /\ ~prvIsQueueFull(q) /\ Waiting(q, "send") # <<>> => OnTheWay(q, "send")

(* A wait is as long as it was asked to be, across the wrap of the ticks   *)
(* and with ticks that came while the scheduler was suspended: a task in a *)
(* list of delayed tasks is not overdue, a call that gives up has waited   *)
(* all its ticks, and so has a delay that ends, unless another task may    *)
(* suspend the sleeper.                                                    *)
Disturbed(t) == \E u \in Task : <<u, t>> \in Suspends

Beyond(t) == waited[t] > TickModulus    \* kept off the processor for a turn

WaitIsExact ==
  \A t \in Task :
    /\ t \in ToSet(k.delayed) \cup ToSet(k.overflow) /\ ~Beyond(t) =>
         waited[t] < asked[t]
    /\ \/ call[t].then = "late"
       \/ At(t, "awake") /\ ~Disturbed(t)
       => waited[t] >= asked[t]

(* The queues are bounded first-in first-out lists, whatever the tasks and *)
(* the interrupts do between their steps.                                  *)
Listed(b, n) ==
  [i \in 1 .. b.count |-> b.storage[(b.readFrom + i) % n]]

Abstract == INSTANCE BoundedQueue WITH
  Queues <- Queue, Items <- Item, contents <- [q \in Queue |-> Listed(queue[q], Length[q])]

ImplementsQueue == Abstract!Spec
==============================================================================
