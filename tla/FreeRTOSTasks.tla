---------------------------- MODULE FreeRTOSTasks ----------------------------
(***************************************************************************)
(* The scheduler of FreeRTOS as Ex4 is built with it (freertos/source/     *)
(* tasks.c, list.c and the AVR32 port; FreeRTOSConfig.h: preemption, time  *)
(* slicing, no mutexes, timers, hooks or co-routines): creation and        *)
(* deletion, delays, suspension, priorities, waiting for an event with a   *)
(* timeout, the tick interrupt, and the scheduler's own suspension.        *)
(*                                                                         *)
(* A list is the sequence of its owners.  For lists filled with            *)
(* vListInsertEnd it starts after pxIndex, the item taken last, so that    *)
(* the new item, inserted behind pxIndex, is at the end; the end marker,   *)
(* which listGET_OWNER_OF_NEXT_ENTRY skips, is left out.                   *)
(*                                                                         *)
(* Critical sections are atomic.  Between vTaskSuspendAll and              *)
(* xTaskResumeAll interrupts come, but what they may touch then is not     *)
(* what vTaskDelay and its like change there, so each of these is one step *)
(* up to its xTaskResumeAll, which is the next.                            *)
(***************************************************************************)
EXTENDS TickTime, Sequences, SequencesExt

CONSTANTS
  Task,         \* the tasks, but for the idle task
  Idle,         \* the idle task
  Priorities,   \* configMAX_PRIORITIES
  MaxMissed,    \* bound of the model on ticks while the scheduler is suspended
  Created,      \* the tasks main creates, in the order of their creation
  InitPriority  \* the priority each task is given there

ASSUME FreeRTOSAssumption ==
  /\ Idle \notin Task
  /\ Created \in Seq(Task) /\ IsInjective(Created)
  /\ InitPriority \in [Task -> 0 .. Priorities - 1]
  /\ Priorities \in Nat \ {0}
  /\ MaxDelay \in Nat \ {0}
  /\ MaxMissed \in 0 .. MaxDelay

Tasks == Task \cup {Idle}
Priority == 0 .. Priorities - 1

VARIABLES
  k,    \* the variables of tasks.c, see Kernel
  pc,   \* where each task is in the API function it is in
  due   \* history: ticks of the clock until a delayed task is due

vars == <<k, pc, due>>

Lists == Seq(Tasks)

Kernel == [
  pxCurrentTCB : Tasks,
  uxPriority : [Tasks -> Priority],
  uxTopReadyPriority : Priority,
  ready : [Priority -> Lists],      \* pxReadyTasksLists
  delayed : Lists,                  \* *pxDelayedTaskList
  overflow : Lists,                 \* *pxOverflowDelayedTaskList
  wake : [Tasks -> Ticks],          \* xGenericListItem.xItemValue
  suspended : Lists,                \* xSuspendedTaskList
  termination : Lists,              \* xTasksWaitingTermination
  event : Lists,                    \* the event list of a queue
  pending : Lists,                  \* xPendingReadyList
  xTickCount : Ticks,
  xNextTaskUnblockTime : Ticks,
  uxSchedulerSuspended : 0 .. 1,
  uxMissedTicks : 0 .. MaxMissed,
  xMissedYield : BOOLEAN]

(* "run": in its own code; "locked": there, with the scheduler suspended;  *)
(* "resume": in a call, at its xTaskResumeAll; "yield": in a call, at its  *)
(* portYIELD_WITHIN_API.  Of the idle task: "reap", at the removal of a    *)
(* deleted task, and "share", at the look for another of its priority.     *)
PCs == {"run", "locked", "resume", "yield", "reap", "share"}

-----------------------------------------------------------------------------
(* Lists.                                                                  *)

(* vListRemove, if t is in s: it is there once.                            *)
Without(s, t) == RemoveFirst(s, t)

(* vListInsert: before the first item of greater value.                    *)
vListInsert(s, t, value) ==
  LET i == SelectInSeq(s, LAMBDA u : value[u] > value[t])
  IN IF i = 0 THEN Append(s, t) ELSE InsertAt(s, i, t)

(* The removal of xGenericListItem, from whichever list t is in.  Its      *)
(* value, which nobody reads before it is set again, is forgotten.         *)
RemoveGeneric(r, t) ==
  [r EXCEPT !.ready = [p \in Priority |-> Without(@[p], t)],
            !.delayed = Without(@, t), !.overflow = Without(@, t),
            !.suspended = Without(@, t), !.termination = Without(@, t),
            !.wake[t] = 0]

(* The same of xEventListItem, if it is in a list.                         *)
RemoveEvent(r, t) ==
  [r EXCEPT !.event = Without(@, t), !.pending = Without(@, t)]

Exists(r, t) ==
  \/ \E p \in Priority : Contains(r.ready[p], t)
  \/ \E s \in {r.delayed, r.overflow, r.suspended, r.termination} : Contains(s, t)

prvAddTaskToReadyQueue(r, t) ==
  LET p == r.uxPriority[t] IN
  [r EXCEPT !.ready[p] = Append(@, t),
            !.uxTopReadyPriority = IF p > @ THEN p ELSE @]

-----------------------------------------------------------------------------
(* Time.                                                                   *)

prvAddCurrentTaskToDelayedList(r, time) ==
  LET t == r.pxCurrentTCB
      j == [r EXCEPT !.wake[t] = time]
  IN IF time < r.xTickCount
     THEN [j EXCEPT !.overflow = vListInsert(@, t, j.wake)]
     ELSE [j EXCEPT !.delayed = vListInsert(@, t, j.wake),
                    !.xNextTaskUnblockTime = IF time < @ THEN time ELSE @]

(* The wake time of the head of a delayed list, MaxDelay if it is empty.   *)
HeadWake(r) == IF r.delayed = <<>> THEN MaxDelay ELSE r.wake[Head(r.delayed)]

Unblock(r, t) == prvAddTaskToReadyQueue(RemoveEvent(RemoveGeneric(r, t), t), t)

(* The tasks of s are unblocked one after another.                         *)
UnblockAll(r, s) ==
  LET after[n \in 0 .. Len(s)] ==
        IF n = 0 THEN r ELSE Unblock(after[n - 1], s[n])
  IN after[Len(s)]

(* Variant: once there is somebody to wake the whole list is.              *)
CheckDelayedTasksWithoutBreak(r) ==
  IF r.xTickCount < r.xNextTaskUnblockTime THEN r
  ELSE [UnblockAll(r, r.delayed) EXCEPT !.xNextTaskUnblockTime = MaxDelay]

(* The head is woken as long as its time has come.                         *)
prvCheckDelayedTasks(r) ==
  LET late == SelectInSeq(r.delayed, LAMBDA t : r.wake[t] > r.xTickCount)
      due_ == IF late = 0 THEN r.delayed ELSE SubSeq(r.delayed, 1, late - 1)
      j    == UnblockAll(r, due_)
  IN IF r.xTickCount < r.xNextTaskUnblockTime THEN r
     ELSE [j EXCEPT !.xNextTaskUnblockTime = HeadWake(j)]

SwapDelayedLists(r) ==
  LET j == [r EXCEPT !.delayed = r.overflow, !.overflow = r.delayed]
  IN [j EXCEPT !.xNextTaskUnblockTime = HeadWake(j)]

vTaskIncrementTick(r) ==
  LET j == [r EXCEPT !.xTickCount = After(@, 1)]
  IN IF r.uxSchedulerSuspended > 0 THEN [r EXCEPT !.uxMissedTicks = @ + 1]
     ELSE prvCheckDelayedTasks(IF j.xTickCount = 0 THEN SwapDelayedLists(j) ELSE j)

-----------------------------------------------------------------------------
(* Switching.                                                              *)

TopReady(r) ==
  CHOOSE p \in 0 .. r.uxTopReadyPriority :
    /\ r.ready[p] # <<>>
    /\ \A q \in p + 1 .. r.uxTopReadyPriority : r.ready[q] = <<>>

(* Variant: the first of a list is taken, and left in its place.           *)
vTaskSwitchContextFirst(r) ==
  IF r.uxSchedulerSuspended > 0 THEN [r EXCEPT !.xMissedYield = TRUE]
  ELSE [r EXCEPT !.uxTopReadyPriority = TopReady(r),
                 !.pxCurrentTCB = Head(r.ready[TopReady(r)])]

vTaskSwitchContext(r) ==
  LET top == TopReady(r)
      t   == Head(r.ready[top])
  IN IF r.uxSchedulerSuspended > 0 THEN [r EXCEPT !.xMissedYield = TRUE]
     ELSE [r EXCEPT !.uxTopReadyPriority = top, !.pxCurrentTCB = t,
                    !.ready[top] = Append(Tail(@), t)]

vTaskSuspendAll(r) == [r EXCEPT !.uxSchedulerSuspended = @ + 1]

(* The ticks missed while the scheduler was suspended, one after another.  *)
UnwindTicks(r) ==
  LET after[n \in 0 .. r.uxMissedTicks] ==
        IF n = 0 THEN r ELSE vTaskIncrementTick(after[n - 1])
  IN [after[r.uxMissedTicks] EXCEPT !.uxMissedTicks = 0]

(* What xTaskResumeAll makes of r, and whether it has yielded.  No task    *)
(* suspends the scheduler twice here (uxSchedulerSuspended is 0 or 1), so  *)
(* the test that the count is back at 0 always succeeds.                   *)
xTaskResumeAll(r) ==
  LET i == [r EXCEPT !.uxSchedulerSuspended = @ - 1]
      j == UnwindTicks(UnblockAll(i, i.pending))
      yield == \/ r.xMissedYield \/ r.uxMissedTicks > 0
               \/ \E t \in ToSet(r.pending) :
                    r.uxPriority[t] >= r.uxPriority[r.pxCurrentTCB]
  IN [k |-> IF yield THEN vTaskSwitchContext([j EXCEPT !.xMissedYield = FALSE]) ELSE j,
      yielded |-> yield]

-----------------------------------------------------------------------------
(* The state after vTaskStartScheduler: every task of created has been     *)
(* created before it, and the idle task last.                              *)

Started ==
  LET all  == Append(Created, Idle)
      none == [
        pxCurrentTCB |-> Head(all),
        uxPriority |-> [t \in Tasks |-> IF t = Idle THEN 0 ELSE InitPriority[t]],
        uxTopReadyPriority |-> 0,
        ready |-> [p \in Priority |-> <<>>], delayed |-> <<>>, overflow |-> <<>>,
        wake |-> [t \in Tasks |-> 0], suspended |-> <<>>, termination |-> <<>>,
        event |-> <<>>, pending |-> <<>>, xTickCount |-> 0,
        xNextTaskUnblockTime |-> MaxDelay, uxSchedulerSuspended |-> 0,
        uxMissedTicks |-> 0, xMissedYield |-> FALSE]
      Add(r, t) ==
        [prvAddTaskToReadyQueue(r, t) EXCEPT
           !.pxCurrentTCB = IF r.uxPriority[t] >= r.uxPriority[@] THEN t ELSE @]
      after[n \in 0 .. Len(all)] == IF n = 0 THEN none ELSE Add(after[n - 1], all[n])
  IN after[Len(all)]

Init ==
  /\ k = Started
  /\ pc = [t \in Tasks |-> "run"]
  /\ due = [t \in Tasks |-> 0]

Blocked(r, t) == Contains(r.delayed, t) \/ Contains(r.overflow, t)

(* The kernel goes to r, the running task to where.                        *)
Goto(r, where) ==
  /\ k' = r
  /\ pc' = [pc EXCEPT ![k.pxCurrentTCB] = where]
  /\ due' = [t \in Tasks |-> IF Blocked(r, t) THEN due[t] ELSE 0]

(* The running task puts itself to sleep until time, n ticks away.         *)
Sleep(r, time, n) ==
  LET t == k.pxCurrentTCB
      j == prvAddCurrentTaskToDelayedList(RemoveGeneric(r, t), time)
  IN /\ k' = j
     /\ pc' = [pc EXCEPT ![t] = "resume"]
     /\ due' = [due EXCEPT ![t] = n]

Runs(t) == k.pxCurrentTCB = t /\ pc[t] = "run"

-----------------------------------------------------------------------------
(* The calls of a running task.                                            *)

vTaskDelay(n) ==
  \/ n > 0 /\ Sleep(vTaskSuspendAll(k), After(k.xTickCount, n), n)
  \/ n = 0 /\ Goto(k, "yield")

(* last is what the task has kept from its previous wake-up.               *)
vTaskDelayUntil(last, inc) ==
  LET time == After(last, inc)
      gone == Since(k.xTickCount, last)
  IN \/ /\ ShouldDelay(last, time, k.xTickCount)
        /\ Sleep(vTaskSuspendAll(k), time, inc - gone)
     \/ /\ ~ShouldDelay(last, time, k.xTickCount)
        /\ Goto(vTaskSuspendAll(k), "resume")

(* The wait of a queue's receive or send, n ticks at most, MaxDelay for    *)
(* ever.                                                                   *)
vTaskPlaceOnEventList(n) ==
  LET t == k.pxCurrentTCB
      i == [vTaskSuspendAll(k) EXCEPT !.event =
              vListInsert(@, t, [u \in Tasks |-> Priorities - k.uxPriority[u]])]
      j == RemoveGeneric(i, t)
  IN \/ n = MaxDelay /\ Goto([j EXCEPT !.suspended = Append(@, t)], "resume")
     \/ n < MaxDelay /\ Sleep(i, After(k.xTickCount, n), n)

vTaskSuspend(u) ==
  LET j == RemoveEvent(RemoveGeneric(k, u), u)
  IN Goto([j EXCEPT !.suspended = Append(@, u)],
          IF u = k.pxCurrentTCB THEN "yield" ELSE "run")

(* Variant: the event a deleted task waits for is forgotten.               *)
vTaskDeleteKeepingEvent(u) ==
  Goto([RemoveGeneric(k, u) EXCEPT !.termination = Append(@, u)],
       IF u = k.pxCurrentTCB THEN "yield" ELSE "run")

vTaskDelete(u) ==
  LET j == RemoveEvent(RemoveGeneric(k, u), u)
  IN Goto([j EXCEPT !.termination = Append(@, u)],
          IF u = k.pxCurrentTCB THEN "yield" ELSE "run")

xTaskIsTaskSuspended(u) ==
  Contains(k.suspended, u) /\ ~Contains(k.pending, u) /\ ~Contains(k.event, u)

(* r, with a switch if cond: a portYIELD_WITHIN_API inside the critical    *)
(* section, or at the end of an interrupt.                                 *)
SwitchIf(cond, r) == IF cond THEN vTaskSwitchContext(r) ELSE r

AsUrgent(t) == k.uxPriority[t] >= k.uxPriority[k.pxCurrentTCB]

vTaskResume(u) ==
  /\ u # k.pxCurrentTCB /\ xTaskIsTaskSuspended(u)
  /\ Goto(SwitchIf(AsUrgent(u), prvAddTaskToReadyQueue(RemoveGeneric(k, u), u)),
          pc[k.pxCurrentTCB])

Reprioritised(u, p) ==
  LET j == [k EXCEPT !.uxPriority[u] = p]
  IN IF Contains(k.ready[k.uxPriority[u]], u)
     THEN prvAddTaskToReadyQueue(RemoveGeneric(j, u), u) ELSE j

(* Variant: a task that lowers its own priority goes on.                   *)
vTaskPrioritySetWithoutYield(u, p) ==
  Goto(SwitchIf(p > k.uxPriority[u] /\ u # k.pxCurrentTCB, Reprioritised(u, p)),
       pc[k.pxCurrentTCB])

vTaskPrioritySet(u, p) ==
  LET yield == \/ p > k.uxPriority[u] /\ u # k.pxCurrentTCB
               \/ p < k.uxPriority[u] /\ u = k.pxCurrentTCB
  IN Goto(SwitchIf(yield, Reprioritised(u, p)), pc[k.pxCurrentTCB])

xTaskGenericCreate(u, p) ==
  /\ k' = prvAddTaskToReadyQueue([k EXCEPT !.uxPriority[u] = p], u)
  /\ pc' = [pc EXCEPT ![u] = "run",
                     ![k.pxCurrentTCB] =
                        IF k.uxPriority[k.pxCurrentTCB] < p THEN "yield" ELSE "run"]
  /\ UNCHANGED due

(* The event has happened: of a task, or of an interrupt.                  *)
xTaskRemoveFromEventList ==
  LET u == Head(k.event)
      j == RemoveEvent(k, u)
      i == IF k.uxSchedulerSuspended = 0
           THEN prvAddTaskToReadyQueue(RemoveGeneric(j, u), u)
           ELSE [j EXCEPT !.pending = Append(@, u)]
  IN k.event # <<>> /\ Goto(SwitchIf(AsUrgent(u), i), pc[k.pxCurrentTCB])

-----------------------------------------------------------------------------
(* What ends a call.                                                       *)

(* Of a call, it is followed by a yield if it has not yielded itself; the  *)
(* idle task goes on to the list of deleted tasks.                         *)
ResumeAll(t) ==
  LET r == xTaskResumeAll(k)
  IN /\ k.pxCurrentTCB = t /\ pc[t] \in {"locked", "resume"}
     /\ Goto(r.k, CASE t = Idle -> "reap"
                    [] t # Idle /\ (pc[t] = "locked" \/ r.yielded) -> "run"
                    [] OTHER -> "yield")

portYIELD(t) ==
  /\ k.pxCurrentTCB = t /\ pc[t] = "yield"
  /\ Goto(vTaskSwitchContext(k), "run")

-----------------------------------------------------------------------------
(* Interrupts.                                                             *)

vTick ==
  /\ k.uxSchedulerSuspended = 0 \/ k.uxMissedTicks < MaxMissed
  /\ LET r == vTaskSwitchContext(vTaskIncrementTick(k))
     IN /\ k' = r
        /\ due' = [t \in Tasks |-> IF Blocked(r, t) THEN due[t] - 1 ELSE 0]
        /\ UNCHANGED pc

xTaskResumeFromISR(u) ==
  /\ xTaskIsTaskSuspended(u)
  /\ \/ /\ k.uxSchedulerSuspended = 0
        /\ Goto(SwitchIf(AsUrgent(u), prvAddTaskToReadyQueue(RemoveGeneric(k, u), u)),
                pc[k.pxCurrentTCB])
     \/ /\ k.uxSchedulerSuspended > 0
        /\ Goto([k EXCEPT !.pending = Append(@, u)], pc[k.pxCurrentTCB])

-----------------------------------------------------------------------------
(* The idle task.                                                          *)

prvIdleTask ==
  /\ k.pxCurrentTCB = Idle
  /\ \/ /\ pc[Idle] = "run" /\ k.termination # <<>>
        /\ Goto(vTaskSuspendAll(k), "resume")
     \/ /\ pc[Idle] = "run" /\ k.termination = <<>>
        /\ Goto(k, "share")
     \/ /\ pc[Idle] = "reap"
        /\ Goto([k EXCEPT !.termination = Tail(@)], "share")
     \/ /\ pc[Idle] = "share"
        /\ Goto(SwitchIf(Len(k.ready[0]) > 1, k), "run")

-----------------------------------------------------------------------------
(* u may be named in a call: it exists and is not deleted.                 *)
Valid(u) == Exists(k, u) /\ ~Contains(k.termination, u)

Call(t) ==
  /\ Runs(t)
  /\ \/ \E n \in 0 .. MaxDelay : vTaskDelay(n)
     \/ \E last \in Ticks, inc \in 1 .. MaxDelay : vTaskDelayUntil(last, inc)
     \/ \E n \in 1 .. MaxDelay : vTaskPlaceOnEventList(n)
     \/ Goto(vTaskSuspendAll(k), "locked")
     \/ \E u \in Task : Valid(u) /\ (vTaskSuspend(u) \/ vTaskDelete(u))
     \/ \E u \in Task, p \in Priority : ~Exists(k, u) /\ xTaskGenericCreate(u, p)

(* What is allowed with the scheduler suspended, too.                      *)
CallLocked(t) ==
  /\ k.pxCurrentTCB = t /\ pc[t] \in {"run", "locked"}
  /\ \E u \in Task :
       /\ Valid(u)
       /\ \/ vTaskResume(u)
          \/ \E p \in Priority \ {k.uxPriority[u]} : vTaskPrioritySet(u, p)

Interrupt ==
  \/ vTick
  \/ xTaskRemoveFromEventList
  \/ \E u \in Task : Valid(u) /\ xTaskResumeFromISR(u)

Next ==
  \/ \E t \in Task : Call(t) \/ CallLocked(t) \/ portYIELD(t)
  \/ \E t \in Tasks : ResumeAll(t)
  \/ prvIdleTask
  \/ Interrupt

(* The clock goes on: interrupts come, and no task keeps the scheduler     *)
(* suspended for ever.                                                     *)
Fairness == []<><<k'.xTickCount # k.xTickCount>>_vars

Spec == Init /\ [][Next]_vars /\ Fairness

-----------------------------------------------------------------------------
(* Every task that exists is in one list, once, and what it is in agrees   *)
(* with what it waits for; the ready lists go by priority and the delayed  *)
(* lists by wake time, and the running task exists.                        *)
ListsConsistent ==
  LET generic == <<k.delayed, k.overflow, k.suspended, k.termination>>
                   \o [p \in 1 .. Priorities |-> k.ready[p - 1]]
      Once(lists) ==
        \A i, j \in DOMAIN lists : \A m \in DOMAIN lists[i], n \in DOMAIN lists[j] :
          lists[i][m] = lists[j][n] => i = j /\ m = n
      Sorted(s) == \A i, j \in 1 .. Len(s) : i < j => k.wake[s[i]] <= k.wake[s[j]]
  IN /\ Once(generic) /\ Once(<<k.event, k.pending>>)
     /\ \A p \in Priority : \A t \in ToSet(k.ready[p]) : k.uxPriority[t] = p
     /\ ToSet(k.event) \cup ToSet(k.pending)
          \subseteq ToSet(k.delayed) \cup ToSet(k.overflow) \cup ToSet(k.suspended)
     /\ Sorted(k.delayed) /\ Sorted(k.overflow)
     /\ Exists(k, k.pxCurrentTCB)
     /\ k.pending # <<>> => k.uxSchedulerSuspended > 0

Ready(t) == Contains(k.ready[k.uxPriority[t]], t)

MostUrgent(t) ==
  Ready(t) /\ \A p \in k.uxPriority[t] + 1 .. Priorities - 1 : k.ready[p] = <<>>

(* Whenever the scheduler is not suspended, the task that runs, unless it  *)
(* is on the point of yielding, is ready and none more urgent is.          *)
MostUrgentRuns ==
  k.uxSchedulerSuspended = 0 /\ pc[k.pxCurrentTCB] # "yield" => MostUrgent(k.pxCurrentTCB)

(* Tasks of the same priority share the processor: one that stays among    *)
(* the most urgent runs again and again, whatever the others call but to   *)
(* change its priority, which sends it to the end of a list.               *)
FairShare(t) ==
  (<>[]MostUrgent(t) /\ <>[][k'.uxPriority[t] = k.uxPriority[t]]_vars)
    => []<>(k.pxCurrentTCB = t)

Delays == INSTANCE DelayLists WITH
  tick     <- k.xTickCount,
  next     <- k.xNextTaskUnblockTime,
  delayed  <- ToSet(k.delayed),
  overflow <- ToSet(k.overflow),
  wake     <- [t \in Task |-> k.wake[t]],
  released <- ToSet(k.pending) \cap (ToSet(k.delayed) \cup ToSet(k.overflow)),
  left     <- [t \in Task |-> IF Blocked(k, t) THEN due[t] + k.uxMissedTicks ELSE 0]

(* The delayed lists do what DelayLists says: a tick wakes the tasks whose *)
(* wait ends at it and no other, neither before nor after, ticks of a      *)
(* suspended scheduler counted; what else takes a task off the lists takes *)
(* that one, and no time (prvCheckDelayedTasks, xTaskResumeAll).           *)
ImplementsDelays == Delays!Spec

(* The event wakes the most urgent of the tasks that wait for it.          *)
MostUrgentFirst ==
  k.event # <<>> => \A u \in ToSet(k.event) : k.uxPriority[Head(k.event)] >= k.uxPriority[u]
=============================================================================
