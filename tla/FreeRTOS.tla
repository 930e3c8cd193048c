------------------------------ MODULE FreeRTOS ------------------------------
(* Instances of FreeRTOSTasks in which the first task is more urgent than  *)
(* the others, which share the lowest priority with the idle task.         *)
EXTENDS FreeRTOSTasks

CONSTANTS t1, t2, t3

CreatedTwo == <<t1, t2>>
CreatedThree == <<t1, t2, t3>>

FirstUrgent == [t \in Task |-> IF t = t1 THEN 1 ELSE 0]

(* The second task, which starts with the idle task's priority, keeps      *)
(* getting the processor as long as none is more urgent.                   *)
FairShareOfSecond == FairShare(t2)
=============================================================================
