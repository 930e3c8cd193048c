---------------------------- MODULE ResponseTasks ----------------------------
(***************************************************************************)
(* Ex4's main.c: three tasks of different priority, each of which looks at *)
(* a test pin, rests for a tick while it is high, and answers with a pulse *)
(* while it is low; on the scheduler of FreeRTOSTasks, with the tester at  *)
(* the other end of the pins.                                              *)
(*                                                                         *)
(* Time is what busy_delay_ms takes: a millisecond of it fills the time    *)
(* from one tick to the next.  Everything else takes none.  The tester     *)
(* lets go of a pin within a millisecond of the answer.                    *)
(***************************************************************************)
EXTENDS FreeRTOSTasks

CONSTANTS
  TEST_A, TEST_B, TEST_C,   \* the tasks, and the pins they look at
  MaxWait                   \* the ticks counted of a test without an answer

VARIABLES
  at,      \* where each task is in its loop
  work,    \* milliseconds of busy_delay_ms left to each
  low,     \* the test pins that the tester holds low
  pulses,  \* pulses on each response pin since its test began
  wait,    \* ticks since the test of A began, until it is answered
  used     \* whether the time since the tick is used up

appVars == <<at, work, low, pulses, wait, used>>
allVars == <<vars, appVars>>

CreatedTests == <<TEST_A, TEST_B, TEST_C>>

(* Variant: the task of A is the least urgent one.                         *)
PriorityTestsUpsideDown == [t \in Task |-> CASE t = TEST_A -> 1 [] t = TEST_B -> 2
                                             [] t = TEST_C -> 3]
PriorityTests == [t \in Task |-> CASE t = TEST_A -> 3 [] t = TEST_B -> 2
                                   [] t = TEST_C -> 1]

Busy(t) == IF t = TEST_C THEN 3 ELSE 1

TypeOK ==
  /\ at \in [Task -> {"look", "rest", "busy", "low", "high"}]
  /\ work \in [Task -> 0 .. 3]
  /\ low \subseteq Task
  /\ pulses \in [Task -> Nat]
  /\ wait \in 0 .. MaxWait
  /\ used \in BOOLEAN

InitTests ==
  /\ Init
  /\ at = [t \in Task |-> "look"]
  /\ work = [t \in Task |-> 0]
  /\ low = {}
  /\ pulses = [t \in Task |-> 0]
  /\ wait = 0
  /\ used = FALSE

-----------------------------------------------------------------------------
(* The tasks: responseTask, and responseTaskC, which is busy for longer.   *)

Step(t, from, to) ==
  /\ Runs(t) /\ at[t] = from
  /\ at' = [at EXCEPT ![t] = to]

(* Variant: the answer of the version in lines 106-129, at once.           *)
LookBusyless(t) ==
  /\ Step(t, "look", IF t \in low THEN "low" ELSE "rest")
  /\ UNCHANGED <<vars, work, low, pulses, wait, used>>

Look(t) ==
  /\ Step(t, "look", IF t \in low THEN "busy" ELSE "rest")
  /\ work' = [work EXCEPT ![t] = IF t \in low THEN Busy(t) ELSE 0]
  /\ UNCHANGED <<vars, low, pulses, wait, used>>

(* The tester has let go of the pins whose answer it has seen.             *)
TesterIsDone == \A t \in low : pulses[t] = 0

(* Variant: the polling of the version in lines 106-129.                   *)
RestPolling(t) ==
  /\ Step(t, "rest", "look")
  /\ TesterIsDone /\ ~used /\ used' = TRUE
  /\ UNCHANGED <<vars, work, low, pulses, wait>>

Rest(t) ==
  /\ Step(t, "rest", "look")
  /\ vTaskDelay(1)
  /\ UNCHANGED <<work, low, pulses, wait, used>>

busy_delay_ms(t) ==
  /\ Step(t, "busy", IF work[t] = 1 THEN "low" ELSE "busy")
  /\ work' = [work EXCEPT ![t] = @ - 1]
  /\ TesterIsDone /\ ~used /\ used' = TRUE
  /\ UNCHANGED <<vars, low, pulses, wait>>

SetLow(t) ==
  /\ Step(t, "low", "high")
  /\ pulses' = [pulses EXCEPT ![t] = @ + 1]
  /\ wait' = IF t = TEST_A THEN 0 ELSE wait
  /\ UNCHANGED <<vars, work, low, used>>

SetHigh(t) ==
  /\ Step(t, "high", "look")
  /\ UNCHANGED <<vars, work, low, pulses, wait, used>>

-----------------------------------------------------------------------------
(* The kernel, and the tester.                                             *)

KernelStep(t) == (ResumeAll(t) \/ portYIELD(t)) /\ UNCHANGED appVars

IdleLoop == prvIdleTask /\ UNCHANGED appVars

Unanswered(t) == t \in low /\ pulses[t] = 0

Tick ==
  /\ used \/ k.pxCurrentTCB = Idle
  /\ vTick
  /\ TesterIsDone /\ used' = FALSE
  /\ wait' = IF Unanswered(TEST_A) /\ wait < MaxWait THEN wait + 1 ELSE wait
  /\ UNCHANGED <<at, work, low, pulses>>

Begin(t) ==
  /\ t \notin low
  /\ low' = low \cup {t}
  /\ pulses' = [pulses EXCEPT ![t] = 0]
  /\ UNCHANGED <<vars, at, work, wait, used>>

(* The tester has seen the falling edge of the response.                   *)
Release(t) ==
  /\ t \in low /\ pulses[t] > 0
  /\ low' = low \ {t}
  /\ UNCHANGED <<vars, at, work, pulses, wait, used>>

NextTests ==
  \/ \E t \in Task :
       \/ Look(t) \/ Rest(t) \/ busy_delay_ms(t) \/ SetLow(t) \/ SetHigh(t)
       \/ KernelStep(t) \/ Begin(t) \/ Release(t)
  \/ IdleLoop \/ Tick

(* The clock goes on; no task can hold it up without doing work.           *)
SpecTests ==
  InitTests /\ [][NextTests]_allVars /\ []<><<k'.xTickCount # k.xTickCount>>_allVars

-----------------------------------------------------------------------------
(* A test is answered once or, if the tester has not let the pin go when   *)
(* the task looks again, twice: it is not looked at again after the busy   *)
(* delay.                                                                  *)
PulsesBounded == \A t \in Task : pulses[t] <= 2

(* The tests of A, the most urgent, are answered within three ticks: one   *)
(* of rest, and a busy delay that may begin at the end of one.             *)
AnsweredInTime == wait < MaxWait

(* The test of a pin is answered if from some time on there are none of    *)
(* the more urgent ones, whose tasks rest then.                            *)
Answered ==
  \A t \in Task :
    LET urgent == {u \in Task : PriorityTests[u] > PriorityTests[t]}
    IN <>[](low \cap urgent = {}) => (Unanswered(t) ~> ~Unanswered(t))
=============================================================================
