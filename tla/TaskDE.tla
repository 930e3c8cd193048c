------------------------------- MODULE TaskDE -------------------------------
(***************************************************************************)
(* Ex7/main_taskD.c and Ex7/main_taskE.c: two tasks take two mutexes in    *)
(* opposite orders.  Task D leaves them to deadlock; in task E each task   *)
(* raises itself to the ceiling priority 40 before its first lock and goes *)
(* back to its own after its last unlock.  The four entries of resources[] *)
(* in task E are copies of two RT_MUTEX descriptors, hence of the same two *)
(* kernel mutexes.  Only one program runs, so the objects have the same    *)
(* names in both.                                                          *)
(***************************************************************************)
EXTENDS XenoKernel

WorkersD == {"HIGHD", "LOWD"}
WorkersE == {"HIGHE", "LOWE"}
SemInitDE == [semaDE |-> 0]
MutexesDE == {"A", "B"}

MainDE(high, low) ==
  <<rt_task_start(high), rt_task_start(low), rt_task_sleep(1),
    rt_sem_broadcast("semaDE"), rt_task_sleep(20), pause>>

(* Task D.                                                                 *)
LowD == <<rt_mutex_acquire("A"), busy_wait_us(3),
          rt_mutex_acquire("B"), busy_wait_us(3),
          rt_mutex_release("B"), rt_mutex_release("A"), busy_wait_us(1)>>

(* A variant: the mutexes taken in LOW's order.                            *)
HighDOrdered == <<rt_task_sleep(1), rt_mutex_acquire("A"), busy_wait_us(1),
                  rt_mutex_acquire("B"), busy_wait_us(2),
                  rt_mutex_release("B"), rt_mutex_release("A"), busy_wait_us(1)>>

HighD == <<rt_task_sleep(1), rt_mutex_acquire("B"), busy_wait_us(1),
           rt_mutex_acquire("A"), busy_wait_us(2),
           rt_mutex_release("A"), rt_mutex_release("B"), busy_wait_us(1)>>

ProgD == [mainD |-> MainDE("HIGHD", "LOWD"), HIGHD |-> HighD, LOWD |-> LowD]

PriorityD == [mainD |-> 50, HIGHD |-> 40, LOWD |-> 20]

(* Task E.                                                                 *)
icpp_lock(m) == rt_mutex_acquire(m)
icpp_unlock(m) == rt_mutex_release(m)

(* Variants: LOW never raises itself, or does not go back to its own       *)
(* priority.                                                               *)
LowEWithoutCeiling ==
  <<icpp_lock("A"), busy_wait_us(3), icpp_lock("B"), busy_wait_us(3),
    icpp_unlock("B"), icpp_unlock("A"), busy_wait_us(1)>>

LowEWithoutDrop ==
  <<rt_task_set_priority(40), icpp_lock("A"), busy_wait_us(3),
    icpp_lock("B"), busy_wait_us(3), icpp_unlock("B"), icpp_unlock("A"), busy_wait_us(1)>>

LowE == <<rt_task_set_priority(40), icpp_lock("A"), busy_wait_us(3),
          icpp_lock("B"), busy_wait_us(3), icpp_unlock("B"), icpp_unlock("A"),
          rt_task_set_priority(20), busy_wait_us(1)>>

HighE == <<rt_task_sleep(1), rt_task_set_priority(40), icpp_lock("B"), busy_wait_us(1),
           icpp_lock("A"), busy_wait_us(2), icpp_unlock("A"), icpp_unlock("B"),
           rt_task_set_priority(30), busy_wait_us(1)>>

ProgE == [mainE |-> MainDE("HIGHE", "LOWE"), HIGHE |-> HighE, LOWE |-> LowE]

PriorityE == [mainE |-> 50, HIGHE |-> 30, LOWE |-> 20]

(* Task E runs as it is written; none of its tasks is started by another   *)
(* program.                                                                *)
ASSUME TaskEAssumption ==
  /\ DOMAIN ProgE \subseteq Tasks /\ DOMAIN ProgE \cap Mains = {"mainE"}
  /\ \A t \in DOMAIN ProgE : Prog[t] = ProgE[t] /\ Priority[t] = PriorityE[t]
  /\ MutexesDE \subseteq Mutexes /\ "semaDE" \in Sems
  /\ \A t \in Tasks \ DOMAIN ProgE : \A i \in DOMAIN Prog[t] :
       Prog[t][i].op = "task_start" => Prog[t][i].obj \notin DOMAIN ProgE
-----------------------------------------------------------------------------
(* Task D ends in a deadlock however late HIGH wakes up in its unit: each  *)
(* task owns one mutex and waits for the other's for ever.                 *)
Deadlocks ==
  Runs("mainD") =>
    <>[](/\ on["HIGHD"] = "A" /\ owner["A"] = "LOWD"
         /\ on["LOWD"] = "B" /\ owner["B"] = "HIGHD")

(* With the ceiling no rt_mutex_acquire ever has to wait, so no circular   *)
(* wait can form.                                                          *)
NeverWaits == \A t \in WorkersE : status[t] # "waiting"

(* HIGH, which wakes after 1 unit at the earliest, waits for the rest of   *)
(* LOW's critical section of 6 units and not for the work LOW does after   *)
(* it.                                                                     *)
CeilingBlocking == KeptAtMost("HIGHE", 5)

(* Both tasks finish.                                                      *)
BothFinish == Runs("mainE") => <>(\A t \in WorkersE : status[t] = "gone")
=============================================================================
