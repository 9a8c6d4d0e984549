--------------------------- MODULE FreeRtosTasks ---------------------------
(***************************************************************************)
(* The scheduler of FreeRTOS (tasks.c and list.c) as the gateway builds    *)
(* it: what its functions do to the kernel's lists, as functions from a    *)
(* kernel to the next one.  FreeRtosQueue runs them.                       *)
(*                                                                         *)
(* A ready list is a ring with a marker of the entry taken last: it is a   *)
(* sequence here, in the order in which the entries will be taken, so that *)
(* vListInsertEnd appends.  The lists of delayed tasks are sorted by the   *)
(* time to wake, those of a queue by priority, first come first.           *)
(***************************************************************************)
EXTENDS Integers, SequencesExt, FiniteSetsExt

CONSTANTS
  Task, Idle,       \* the application's tasks, the kernel's idle task
  Started,          \* those main() creates; a running task creates the rest
  Priority,         \* of each task, constant: nobody calls vTaskPrioritySet
  Queue,            \* the queues
  TickModulus,      \* 2^16, the range of portTickType
  OverflowModulus   \* 2^16, the range of xNumOfOverflows

portMAX_DELAY == TickModulus - 1

Priorities == {Priority[t] : t \in Task} \cup {0}

ASSUME TasksAssumption ==
  /\ Idle \notin Task /\ IsFiniteSet(Task) /\ Started \subseteq Task /\ Started # {}
  /\ Priority \in [Task -> Nat \ {0}]
  /\ {TickModulus, OverflowModulus} \subseteq Nat \ {0, 1}

Prio(t) == IF t = Idle THEN 0 ELSE Priority[t]

Sides == {"send", "receive"}    \* xTasksWaitingToSend, xTasksWaitingToReceive

Without(list, t) == RemoveFirst(list, t)    \* it is there once at the most

(* vListInsert: behind the entries with the same value.                    *)
Inserted(list, t, value) ==
  LET n == Cardinality({i \in DOMAIN list : value[list[i]] <= value[t]})
  IN  SubSeq(list, 1, n) \o <<t>> \o SubSeq(list, n + 1, Len(list))

(* Event lists: the most urgent first.                                     *)
Urgency == [t \in Task |-> 0 - Priority[t]]

prvInitialiseTaskLists ==
  [ready |-> [p \in Priorities |-> <<>>], pending |-> <<>>, suspended |-> <<>>,
   delayed |-> <<>>, overflow |-> <<>>, wake |-> [t \in Task |-> 0],
   waiting |-> [q \in Queue |-> [side \in Sides |-> <<>>]],
   tick |-> 0, overflows |-> 0, missedTicks |-> 0, missedYield |-> FALSE,
   depth |-> 0, top |-> 0, current |-> Idle]

(* vListRemove on the generic item, which is in one list at the most.  The *)
(* time to wake it leaves behind has no meaning.                           *)
GenericRemoved(k, t) ==
  [k EXCEPT !.wake[t] = 0,
            !.ready = [p \in Priorities |-> Without(k.ready[p], t)],
            !.delayed = Without(@, t), !.overflow = Without(@, t),
            !.suspended = Without(@, t)]

(* And on the event item.                                                  *)
EventRemoved(k, t) ==
  [k EXCEPT !.pending = Without(@, t),
            !.waiting = [q \in Queue |-> [side \in Sides |->
                           Without(k.waiting[q][side], t)]]]

prvAddTaskToReadyQueue(k, t) ==
  [k EXCEPT !.ready[Prio(t)] = Append(@, t),
            !.top = IF Prio(t) > @ THEN Prio(t) ELSE @]

Readied(k, t) == prvAddTaskToReadyQueue(GenericRemoved(k, t), t)

AllReadied(k, list) == FoldLeft(Readied, k, list)

(* The task taken is the next of the highest list that is not empty.       *)
vTaskSwitchContext(k) ==
  IF k.depth > 0 THEN [k EXCEPT !.missedYield = TRUE]
  ELSE LET top  == Max({p \in Priorities : p <= k.top /\ k.ready[p] # <<>>})
           next == Head(k.ready[top])
       IN  [k EXCEPT !.top = top, !.current = next,
                     !.ready[top] = Append(Tail(@), next)]

(* The delayed tasks whose time has come, up to the first that must wait.  *)
Expired(k) ==
  LET due(n) == \A i \in 1 .. n : k.wake[k.delayed[i]] <= k.tick
  IN  SubSeq(k.delayed, 1, Max({n \in 0 .. Len(k.delayed) : due(n)}))

prvCheckDelayedTasks(k) ==
  LET wakeUp(j, t) == Readied(EventRemoved(j, t), t)
  IN  FoldLeft(wakeUp, k, Expired(k))

vTaskIncrementTick(k) ==
  LET tick == (k.tick + 1) % TickModulus
      j    == IF tick # 0 THEN [k EXCEPT !.tick = tick]
              ELSE [k EXCEPT !.tick = 0, !.delayed = k.overflow,
                             !.overflow = k.delayed,
                             !.overflows = (@ + 1) % OverflowModulus]
  IN  IF k.depth > 0 THEN [k EXCEPT !.missedTicks = @ + 1]
      ELSE prvCheckDelayedTasks(j)

(* Mutant: a task goes to sleep and stays ready.                           *)
AsleepAndReady(k, t, ticks) ==
  LET wake == [k.wake EXCEPT ![t] = (k.tick + ticks) % TickModulus]
      j    == [k EXCEPT !.wake = wake]
  IN  IF wake[t] < k.tick
      THEN [j EXCEPT !.overflow = Inserted(@, t, wake)]
      ELSE [j EXCEPT !.delayed = Inserted(@, t, wake)]

(* The task goes to sleep until a tick that may be beyond the wrap.        *)
Asleep(k, t, ticks) ==
  LET wake == [k.wake EXCEPT ![t] = (k.tick + ticks) % TickModulus]
      j    == [GenericRemoved(k, t) EXCEPT !.wake = wake]
  IN  IF wake[t] < k.tick
      THEN [j EXCEPT !.overflow = Inserted(@, t, wake)]
      ELSE [j EXCEPT !.delayed = Inserted(@, t, wake)]

vTaskPlaceOnEventList(k, t, q, side, ticks) ==
  LET j == [k EXCEPT !.waiting[q][side] = Inserted(@, t, Urgency)]
  IN  IF ticks # portMAX_DELAY THEN Asleep(j, t, ticks)
      ELSE [GenericRemoved(j, t) EXCEPT !.suspended = Append(@, t)]

(* Its result: the task woken is at least as urgent as the running one.    *)
Outranks(k, t) == Prio(t) >= Prio(k.current)

xTaskRemoveFromEventList(k, q, side) ==
  LET t == Head(k.waiting[q][side])
      j == EventRemoved(k, t)
  IN  IF k.depth = 0 THEN Readied(j, t) ELSE [j EXCEPT !.pending = Append(@, t)]

(* What woke while the scheduler was suspended becomes ready, then the     *)
(* ticks missed are counted, then the processor is given away if need be.  *)
Released(k) ==
  LET j == [AllReadied(k, k.pending) EXCEPT !.pending = <<>>, !.depth = 0]
      count[n \in 0 .. k.missedTicks] ==
        IF n = 0 THEN j ELSE vTaskIncrementTick(count[n - 1])
  IN  [count[k.missedTicks] EXCEPT !.missedTicks = 0]

MustYield(k) ==
  /\ k.depth = 1
  /\ \/ \E i \in DOMAIN k.pending : Outranks(k, k.pending[i])
     \/ k.missedTicks > 0 \/ k.missedYield

xTaskResumeAll(k) ==
  IF k.depth > 1 THEN [k EXCEPT !.depth = @ - 1]
  ELSE IF MustYield(k)
  THEN vTaskSwitchContext([Released(k) EXCEPT !.missedYield = FALSE])
  ELSE Released(k)

vTaskSuspendAll(k) == [k EXCEPT !.depth = @ + 1]

vTaskSuspend(k, u) ==
  LET j == GenericRemoved(EventRemoved(k, u), u)
      s == [j EXCEPT !.suspended = Append(@, u)]
  IN  IF u = k.current THEN vTaskSwitchContext(s) ELSE s

(* Suspended, and not blocked without a limit, which looks the same.       *)
xTaskIsTaskSuspended(k, u) ==
  /\ u \in ToSet(k.suspended)
  /\ u \notin ToSet(k.pending)
  /\ \A q \in Queue, side \in Sides : u \notin ToSet(k.waiting[q][side])

vTaskResume(k, u) ==
  IF u = k.current \/ ~xTaskIsTaskSuspended(k, u) THEN k
  ELSE IF Outranks(k, u) THEN vTaskSwitchContext(Readied(k, u))
  ELSE Readied(k, u)

xTaskGenericCreate(k, u) ==
  IF Prio(k.current) < Prio(u)
  THEN vTaskSwitchContext(prvAddTaskToReadyQueue(k, u))
  ELSE prvAddTaskToReadyQueue(k, u)

(* main() creates tasks, the last of the most urgent ones runs first; the  *)
(* scheduler adds the idle task.                                           *)
vTaskStartScheduler(order) ==
  LET k == FoldLeft(prvAddTaskToReadyQueue, prvInitialiseTaskLists, order)
      most == Max({Prio(order[i]) : i \in DOMAIN order})
  IN  [prvAddTaskToReadyQueue(k, Idle) EXCEPT
         !.current = order[Max({i \in DOMAIN order : Prio(order[i]) = most})]]
==============================================================================
