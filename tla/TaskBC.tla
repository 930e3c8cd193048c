------------------------------- MODULE TaskBC -------------------------------
(***************************************************************************)
(* Ex7/main_taskB.c and Ex7/main_taskC.c: three tasks of priorities 40, 30 *)
(* and 20 start at a barrier; HIGH and LOW share a resource, which MEDIUM  *)
(* does not use.  In task B the resource is a semaphore of count 1, in     *)
(* task C a mutex, and nothing else differs.                               *)
(***************************************************************************)
EXTENDS XenoKernel

WorkersB == {"HIGHB", "MEDIUMB", "LOWB"}
WorkersC == {"HIGHC", "MEDIUMC", "LOWC"}

(* The priorities of lines 95-112, the same in both.                       *)
PriorityBC ==
  [mainB |-> 50, HIGHB |-> 40, MEDIUMB |-> 30, LOWB |-> 20,
   mainC |-> 50, HIGHC |-> 40, MEDIUMC |-> 30, LOWC |-> 20]

(* Task B.                                                                 *)
SemInitB == [semaphoreB |-> 0, resourceB |-> 1]

(* A variant: HIGH does not wait at the barrier.                           *)
HighBAtOnce == <<rt_task_sleep(2),
                 rt_sem_p("resourceB"), busy_wait_us(2), rt_sem_v("resourceB")>>

HighB == <<rt_sem_p("semaphoreB"), rt_task_sleep(2),
           rt_sem_p("resourceB"), busy_wait_us(2), rt_sem_v("resourceB")>>

(* A variant: MEDIUM sleeps through LOW's critical section.                *)
MediumBLate == <<rt_sem_p("semaphoreB"), rt_task_sleep(4), busy_wait_us(5)>>

MediumB == <<rt_sem_p("semaphoreB"), rt_task_sleep(1), busy_wait_us(5)>>

LowB == <<rt_sem_p("semaphoreB"),
          rt_sem_p("resourceB"), busy_wait_us(3), rt_sem_v("resourceB")>>

(* Variants of main: deleting after 2 units, and never exiting.            *)
MainBHasty == <<rt_task_start("HIGHB"), rt_task_start("MEDIUMB"), rt_task_start("LOWB"),
                rt_task_sleep(1), rt_sem_broadcast("semaphoreB"), rt_task_sleep(2),
                rt_sem_delete("semaphoreB"), rt_sem_delete("resourceB"),
                rt_task_delete("HIGHB"), rt_task_delete("MEDIUMB"), rt_task_delete("LOWB")>>

MainBWithoutExit == <<rt_task_start("HIGHB"), rt_task_start("MEDIUMB"), rt_task_start("LOWB"),
                      rt_task_sleep(1), rt_sem_broadcast("semaphoreB"),
                      rt_task_sleep(20), pause>>

MainB == <<rt_task_start("HIGHB"), rt_task_start("MEDIUMB"), rt_task_start("LOWB"),
           rt_task_sleep(1), rt_sem_broadcast("semaphoreB"), rt_task_sleep(20),
           rt_sem_delete("semaphoreB"), rt_sem_delete("resourceB"),
           rt_task_delete("HIGHB"), rt_task_delete("MEDIUMB"), rt_task_delete("LOWB")>>

ProgB == [mainB |-> MainB, HIGHB |-> HighB, MEDIUMB |-> MediumB, LOWB |-> LowB]

(* Task C.                                                                 *)
SemInitC == [semaphoreC |-> 0]
MutexesC == {"resourceC"}

HighC == <<rt_sem_p("semaphoreC"), rt_task_sleep(2),
           rt_mutex_acquire("resourceC"), busy_wait_us(2), rt_mutex_release("resourceC")>>

MediumC == <<rt_sem_p("semaphoreC"), rt_task_sleep(1), busy_wait_us(5)>>

LowC == <<rt_sem_p("semaphoreC"),
          rt_mutex_acquire("resourceC"), busy_wait_us(3), rt_mutex_release("resourceC")>>

(* A variant of main: deleting while LOW has the resource.                 *)
MainCHasty == <<rt_task_start("HIGHC"), rt_task_start("MEDIUMC"), rt_task_start("LOWC"),
                rt_task_sleep(1), rt_sem_broadcast("semaphoreC"), rt_task_sleep(2),
                rt_sem_delete("semaphoreC"), rt_mutex_delete("resourceC"),
                rt_task_delete("HIGHC"), rt_task_delete("MEDIUMC"), rt_task_delete("LOWC")>>

MainC == <<rt_task_start("HIGHC"), rt_task_start("MEDIUMC"), rt_task_start("LOWC"),
           rt_task_sleep(1), rt_sem_broadcast("semaphoreC"), rt_task_sleep(20),
           rt_sem_delete("semaphoreC"), rt_mutex_delete("resourceC"),
           rt_task_delete("HIGHC"), rt_task_delete("MEDIUMC"), rt_task_delete("LOWC")>>

ProgC == [mainC |-> MainC, HIGHC |-> HighC, MEDIUMC |-> MediumC, LOWC |-> LowC]

(* Both programs run as they are written, and no other program starts      *)
(* their tasks or makes a call on their objects.                           *)
ASSUME TaskBCAssumption ==
  /\ \A t \in DOMAIN ProgB : t \in Tasks /\ Prog[t] = ProgB[t] /\ Priority[t] = PriorityBC[t]
  /\ \A t \in DOMAIN ProgC : t \in Tasks /\ Prog[t] = ProgC[t] /\ Priority[t] = PriorityBC[t]
  /\ DOMAIN ProgB \cap Mains = {"mainB"} /\ DOMAIN ProgC \cap Mains = {"mainC"}
  /\ \A s \in DOMAIN SemInitB : s \in Sems /\ SemInit[s] = SemInitB[s]
  /\ \A s \in DOMAIN SemInitC : s \in Sems /\ SemInit[s] = SemInitC[s]
  /\ MutexesC \subseteq Mutexes
  /\ \A t \in Tasks \ DOMAIN ProgB : \A i \in DOMAIN Prog[t] :
       Prog[t][i].obj \notin DOMAIN ProgB \cup DOMAIN SemInitB
  /\ \A t \in Tasks \ DOMAIN ProgC : \A i \in DOMAIN Prog[t] :
       Prog[t][i].obj \notin DOMAIN ProgC \cup DOMAIN SemInitC \cup MutexesC
-----------------------------------------------------------------------------
(* The barrier of both (line 121 in B, 122 in C, main's fifth call) lets   *)
(* the three go together, none before the broadcast and none left behind.  *)
StartTogether ==
  /\ \A t \in WorkersB : pc[t] > 1 <=> pc["mainB"] > 5
  /\ \A t \in WorkersC : pc[t] > 1 <=> pc["mainC"] > 5

(* HIGH and LOW are never both at the resource, to the end of the program: *)
(* the semaphore of task B must hold one unit and no more, and no call on  *)
(* it or on the mutex of task C may meet an object that main has deleted,  *)
(* for it would return an error nobody looks at and let its caller in.     *)
OneAtTheResource ==
  /\ "resourceB" \notin inside["HIGHB"] \cap inside["LOWB"]
  /\ "resourceC" \notin inside["HIGHC"] \cap inside["LOWC"]

(* main's sleep of 20 units (line 123 in B, 124 in C) outlasts the others: *)
(* objects are deleted only when no task will call them again.             *)
DeletedAfterUse ==
  /\ "resourceB" \in deleted => \A t \in WorkersB : status[t] = "gone"
  /\ "resourceC" \in deleted => \A t \in WorkersC : status[t] = "gone"

(* Both programs come to their end.                                        *)
ExitsBC == Runs("mainB") \/ Runs("mainC") => <>AllGone

(* Task B shows what it is written to show however late the wake-ups are:  *)
(* MEDIUM runs while HIGH waits for LOW, and HIGH's wait ends after more   *)
(* than LOW's whole critical section of 3 units.                           *)
ShowsInversion ==
  Runs("mainB") =>
    /\ <>(cpu = "MEDIUMB" /\ on["HIGHB"] = "resourceB")
    /\ <>(~KeptAtMost("HIGHB", 3))

(* In task C, HIGH never waits for more than LOW's critical section, the   *)
(* busy-wait of 3 units in line 78, whatever MEDIUM does; and MEDIUM never *)
(* for more than both others' critical sections.                           *)
BoundedBlocking == KeptAtMost("HIGHC", 3) /\ KeptAtMost("MEDIUMC", 5)
=============================================================================
