--------------------------- MODULE SharedCounter ----------------------------
(***************************************************************************)
(* Ex2/threads_semaphores/main.c: two threads increment sharedVar, inside  *)
(* sem_wait and sem_post when WITH_SEMAPHORE is defined, as the source     *)
(* defines it, and without when it is not.                                 *)
(*                                                                         *)
(* Without the semaphore the increments race, which C leaves undefined.    *)
(* What a build can produce: a load, a number of increments of the         *)
(* register, one in the code as written and more when the compiler keeps   *)
(* sharedVar in the register over several turns of the loop, and a store.  *)
(***************************************************************************)
EXTENDS Integers

CONSTANT Iterations  \* turns of the loop: 50000000 in the source

ASSUME SharedCounterAssumption == Iterations \in Nat \ {0}

Threads == {1, 2}

VARIABLES
  WITH_SEMAPHORE, \* whether the macro of line 7 is defined; no step changes it
  mainStep,   \* init, create1, create2, join1, join2 or exit
  semaphore,  \* its count
  sharedVar,
  step,       \* step[t]: the next step of thread t
  turns,      \* turns[t]: i in incrementFunc
  register,   \* register[t]: the copy of sharedVar t increments
  batch       \* batch[t]: the increments made between load and store

counterVars == <<WITH_SEMAPHORE, mainStep, semaphore, sharedVar, step, turns, register, batch>>

Inside == {"load", "store", "post"}
ThreadSteps == {"new", "loop", "finished"} \cup Inside

CounterTypeOK ==
  /\ WITH_SEMAPHORE \in BOOLEAN
  /\ mainStep \in {"init", "create1", "create2", "join1", "join2", "exit"}
  /\ semaphore \in {0, 1}
  /\ sharedVar \in Nat
  /\ step \in [Threads -> ThreadSteps]
  /\ turns \in [Threads -> 0 .. Iterations]
  /\ register \in [Threads -> Nat]
  /\ batch \in [Threads -> Nat]

InitCounter ==
  /\ WITH_SEMAPHORE \in BOOLEAN
  /\ mainStep = "init"
  /\ semaphore = 0
  /\ sharedVar = 0
  /\ step = [t \in Threads |-> "new"]
  /\ turns = [t \in Threads |-> 0]
  /\ register = [t \in Threads |-> 0]
  /\ batch = [t \in Threads |-> 0]

-----------------------------------------------------------------------------
SemInit ==
  /\ mainStep = "init" /\ mainStep' = "create1"
  /\ semaphore' = IF WITH_SEMAPHORE THEN 1 ELSE 0
  /\ UNCHANGED <<sharedVar, step, turns, register, batch>>

Create(t, here, next) ==
  /\ mainStep = here /\ mainStep' = next
  /\ step' = [step EXCEPT ![t] = "loop"]
  /\ UNCHANGED <<semaphore, sharedVar, turns, register, batch>>

Join(t, here, next) ==
  /\ mainStep = here /\ mainStep' = next
  /\ step[t] = "finished"
  /\ UNCHANGED <<semaphore, sharedVar, step, turns, register, batch>>

MainCounter ==
  /\ \/ SemInit
     \/ Create(1, "create1", "create2") \/ Create(2, "create2", "join1")
     \/ Join(1, "join1", "join2") \/ Join(2, "join2", "exit")
  /\ UNCHANGED WITH_SEMAPHORE

-----------------------------------------------------------------------------
Move(t, from, to) ==
  /\ step[t] = from
  /\ step' = [step EXCEPT ![t] = to]
  /\ UNCHANGED mainStep

(* The head of the for loop and, with the semaphore, sem_wait.             *)
(* EnterTakingNothing is a variant whose sem_wait takes no unit.           *)
EnterTakingNothing(t) ==
  /\ turns[t] < Iterations
  /\ WITH_SEMAPHORE => semaphore > 0
  /\ Move(t, "loop", "load")
  /\ UNCHANGED <<semaphore, sharedVar, turns, register, batch>>

Enter(t) ==
  /\ turns[t] < Iterations
  /\ IF WITH_SEMAPHORE
     THEN semaphore > 0 /\ semaphore' = semaphore - 1
     ELSE UNCHANGED semaphore
  /\ Move(t, "loop", "load")
  /\ UNCHANGED <<sharedVar, turns, register, batch>>

(* sharedVar++ begins: sem_wait and sem_post keep it to one increment.     *)
Load(t) ==
  /\ Move(t, "load", "store")
  /\ register' = [register EXCEPT ![t] = sharedVar]
  /\ \E n \in IF WITH_SEMAPHORE THEN {1} ELSE 1 .. Iterations - turns[t] :
       batch' = [batch EXCEPT ![t] = n]
  /\ UNCHANGED <<semaphore, sharedVar, turns>>

(* sharedVar++ ends.                                                       *)
(* Variants: one too many added, and the old value dropped.                *)
StoreOneMore(t) ==
  /\ Move(t, "store", IF WITH_SEMAPHORE THEN "post" ELSE "loop")
  /\ sharedVar' = register[t] + batch[t] + 1
  /\ turns' = [turns EXCEPT ![t] = @ + batch[t]]
  /\ UNCHANGED <<semaphore, register, batch>>

StoreBatchOnly(t) ==
  /\ Move(t, "store", IF WITH_SEMAPHORE THEN "post" ELSE "loop")
  /\ sharedVar' = batch[t]
  /\ turns' = [turns EXCEPT ![t] = @ + batch[t]]
  /\ UNCHANGED <<semaphore, register, batch>>

Store(t) ==
  /\ Move(t, "store", IF WITH_SEMAPHORE THEN "post" ELSE "loop")
  /\ sharedVar' = register[t] + batch[t]
  /\ turns' = [turns EXCEPT ![t] = @ + batch[t]]
  /\ UNCHANGED <<semaphore, register, batch>>

(* A variant: the unit not given back.                                     *)
LeaveGivingNothing(t) ==
  /\ Move(t, "post", "loop")
  /\ UNCHANGED <<semaphore, sharedVar, turns, register, batch>>

Leave(t) ==
  /\ Move(t, "post", "loop")
  /\ semaphore' = semaphore + 1
  /\ UNCHANGED <<sharedVar, turns, register, batch>>

Finish(t) ==
  /\ turns[t] = Iterations
  /\ Move(t, "loop", "finished")
  /\ UNCHANGED <<semaphore, sharedVar, turns, register, batch>>

-----------------------------------------------------------------------------
Thread(t) ==
  /\ Enter(t) \/ Load(t) \/ Store(t) \/ Leave(t) \/ Finish(t)
  /\ UNCHANGED WITH_SEMAPHORE

NextCounter == MainCounter \/ \E t \in Threads : Thread(t)

(* Every thread goes on while it can.  Nothing is assumed of the order in  *)
(* which sem_wait lets threads through: the other one's turns are bounded. *)
SpecCounter == /\ InitCounter /\ [][NextCounter]_counterVars
        /\ WF_counterVars(MainCounter)
        /\ \A t \in Threads : WF_counterVars(Thread(t))

-----------------------------------------------------------------------------
(* With the semaphore no increment is lost: when main has joined both      *)
(* threads sharedVar is the number of increments made.                     *)
NothingLost == WITH_SEMAPHORE /\ mainStep = "exit" => sharedVar = 2 * Iterations

(* sharedVar never exceeds the increments made, race or not: a store adds  *)
(* to a value that was there before.                                       *)
NothingInvented == sharedVar <= turns[1] + turns[2]

(* Without the semaphore increments are lost, all but two at worst, or all *)
(* but one when each thread makes only one.                                *)
LossBounded == mainStep = "exit" => sharedVar >= IF Iterations = 1 THEN 1 ELSE 2

(* Both threads finish and main exits.                                     *)
CounterExits == <>(mainStep = "exit")
=============================================================================
