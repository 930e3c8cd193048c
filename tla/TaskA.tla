-------------------------------- MODULE TaskA --------------------------------
(***************************************************************************)
(* Ex7/main_taskA.c: two tasks wait on a semaphore of count 0 until main,  *)
(* the most urgent task, broadcasts it; each then loops forever, until     *)
(* main deletes them and returns.                                          *)
(***************************************************************************)
EXTENDS XenoKernel

WorkersA == {"Task1", "Task2"}

XenFunc == <<rt_sem_p("semaA"), loop>>

(* A variant: main waits for ever instead of returning, as tasks D and E do. *)
MainAWithoutExit == <<rt_task_start("Task1"), rt_task_start("Task2"),
                      rt_task_sleep(1), rt_sem_broadcast("semaA"),
                      rt_task_sleep(1), rt_sem_delete("semaA"),
                      rt_task_delete("Task1"), rt_task_delete("Task2"), pause>>

(* Another: it broadcasts without a sleep before.                          *)
MainAHasty == <<rt_task_start("Task1"), rt_task_start("Task2"),
                rt_sem_broadcast("semaA"), rt_task_sleep(1), rt_sem_delete("semaA"),
                rt_task_delete("Task1"), rt_task_delete("Task2")>>

MainA == <<rt_task_start("Task1"), rt_task_start("Task2"),
           rt_task_sleep(1), rt_sem_broadcast("semaA"),
           rt_task_sleep(1), rt_sem_delete("semaA"),
           rt_task_delete("Task1"), rt_task_delete("Task2")>>

ProgA == [mainA |-> MainA, Task1 |-> XenFunc, Task2 |-> XenFunc]

PriorityA == [mainA |-> 50, Task1 |-> 40, Task2 |-> 30]

SemInitA == [semaA |-> 0]

(* The program runs as it is written, and no other starts its tasks or     *)
(* makes a call on its barrier.                                            *)
ASSUME TaskAAssumption ==
  /\ DOMAIN ProgA \subseteq Tasks /\ DOMAIN ProgA \cap Mains = {"mainA"}
  /\ \A t \in DOMAIN ProgA : Prog[t] = ProgA[t]
  /\ "semaA" \in Sems /\ SemInit["semaA"] = SemInitA["semaA"]
  /\ \A t \in Tasks \ DOMAIN ProgA : \A i \in DOMAIN Prog[t] :
       Prog[t][i].obj \notin DOMAIN ProgA \cup DOMAIN SemInitA
-----------------------------------------------------------------------------
(* The barrier (lines 22 and 59) holds the tasks back until main has made  *)
(* the broadcast, its fourth call, and then lets both go: rt_sem_broadcast *)
(* leaves nothing for one that comes late, so main's sleep must outlast    *)
(* the way of each to its rt_sem_p, whatever the order they are started    *)
(* and woken in.                                                           *)
BarrierHolds == \A t \in WorkersA : pc[t] > 1 <=> pc["mainA"] > 4

(* The endless loops, of which only Task1's ever runs, do not keep main,   *)
(* at priority 50, from ending them and the process (lines 61-68).         *)
ExitsA == Runs("mainA") => <>AllGone
=============================================================================
