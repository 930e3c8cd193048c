----------------------------- MODULE DelayLists -----------------------------
(***************************************************************************)
(* What FreeRTOS keeps of the tasks that wait for a tick: a tick count     *)
(* that overflows, one set of tasks whose wake time is still to come and   *)
(* one of tasks whose wake time has overflowed, and the tick before which  *)
(* nobody need be looked for (Ex4, freertos/source/tasks.c).  The lists    *)
(* are sets here; FreeRTOSTasks has them in order, and implements this     *)
(* module.                                                                 *)
(*                                                                         *)
(* left is history: in how many ticks a task is due, which says what the   *)
(* lists and the comparisons of wake times are for.                        *)
(***************************************************************************)
EXTENDS TickTime

CONSTANT Task

VARIABLES
  tick,      \* xTickCount
  next,      \* xNextTaskUnblockTime
  delayed,   \* the tasks in pxDelayedTaskList
  overflow,  \* the tasks in pxOverflowDelayedTaskList
  wake,      \* the item value of each task in them: its wake time
  released,  \* the tasks in them whose wait an event has ended while the
             \* scheduler was suspended: those in xPendingReadyList
  left       \* ticks to go until each task is due, 0 if it is not delayed

vars == <<tick, next, delayed, overflow, wake, released, left>>

TypeOK ==
  /\ tick \in Ticks
  /\ next \in Ticks
  /\ delayed \in SUBSET Task
  /\ overflow \in SUBSET Task
  /\ wake \in [Task -> Ticks]
  /\ released \in SUBSET Task
  /\ left \in [Task -> Nat]

Blocked(t) == t \in delayed \cup overflow

-----------------------------------------------------------------------------
Init ==
  /\ tick = 0
  /\ next = MaxDelay
  /\ delayed = {} /\ overflow = {} /\ released = {}
  /\ wake = [t \in Task |-> 0]
  /\ left = [t \in Task |-> 0]

(* t goes to sleep for n ticks.                                            *)
DelayFor(t, n) ==
  /\ ~Blocked(t) /\ n \in 1 .. MaxDelay
  /\ wake' = [wake EXCEPT ![t] = After(tick, n)]
  /\ \/ /\ After(tick, n) < tick
        /\ overflow' = overflow \cup {t}
        /\ UNCHANGED <<delayed, next>>
     \/ /\ After(tick, n) >= tick
        /\ delayed' = delayed \cup {t}
        /\ next' = IF After(tick, n) < next THEN After(tick, n) ELSE next
        /\ UNCHANGED overflow
  /\ left' = [left EXCEPT ![t] = n]
  /\ UNCHANGED <<tick, released>>

(* x is the earliest wake time in S, or the last tick if there is none.    *)
Earliest(x, S) ==
  \/ S = {} /\ x = MaxDelay
  \/ \E t \in S : x = wake[t] /\ \A u \in S : wake[t] <= wake[u]

(* The tasks of gone leave the lists, then n ticks pass, of which each     *)
(* wakes the tasks that have no tick left and nobody else.                 *)
Advance(n, gone) ==
  LET now  == After(tick, n)
      wait == delayed \ gone
      over == overflow \ gone
  IN /\ tick' = now
     /\ \/ /\ now < tick
           /\ delayed' = {t \in over : wake[t] > now}
           /\ overflow' = {}
           /\ Earliest(next', delayed')
        \/ /\ now >= tick
           /\ delayed' = {t \in wait : wake[t] > now}
           /\ overflow' = over
           /\ \/ now < next /\ next' = next
              \/ now >= next /\ n > 0 /\ Earliest(next', delayed')
              \/ n = 0 /\ next' = next
     /\ left' = [t \in Task |-> IF t \in gone \/ left[t] <= n THEN 0 ELSE left[t] - n]
     /\ wake' = [t \in Task |-> IF t \in delayed' \cup overflow' THEN wake[t] ELSE 0]

(* Something else than time ends the wait of t at once: an event, its      *)
(* suspension or its deletion.  No tick passes in this step.               *)
Leave(t) ==
  /\ Blocked(t)
  /\ Advance(0, {t})
  /\ released' = released \ {t}

(* An event ends the wait of t while nobody can be woken.                  *)
Release(t) ==
  /\ Blocked(t) /\ t \notin released
  /\ released' = released \cup {t}
  /\ UNCHANGED <<tick, next, delayed, overflow, wake, left>>

(* n ticks pass, those that were missed if n is not 1.  They are preceded  *)
(* by the wake-up of the released tasks and of no others.                  *)
Elapse(n) == Advance(n, released) /\ released' = {}

Next ==
  \/ \E t \in Task, n \in 1 .. MaxDelay : DelayFor(t, n)
  \/ \E t \in Task : Leave(t) \/ Release(t)
  \/ \E n \in 0 .. MaxDelay : Elapse(n)

Spec == Init /\ [][Next]_vars

-----------------------------------------------------------------------------
(* Nobody is woken early and nobody late, whatever the tick count does     *)
(* between the call and the wake-up: a task is in one of the two lists     *)
(* exactly as long as its delay is not over.                               *)
WakesOnTime == \A t \in Task : Blocked(t) <=> left[t] > 0

(* A task whose wake time has overflowed is behind the tick count, one     *)
(* whose wake time has not is ahead of it, and the scan of the first list  *)
(* is never put off past the first of them.  Who is released is in one.    *)
ListsMeanWhatTheySay ==
  /\ delayed \cap overflow = {} /\ released \subseteq delayed \cup overflow
  /\ \A t \in delayed : tick < wake[t] /\ next <= wake[t] /\ left[t] = wake[t] - tick
  /\ \A t \in overflow : wake[t] < tick /\ left[t] = wake[t] + MaxDelay + 1 - tick
=============================================================================
