------------------------------ MODULE BigWhile ------------------------------
(***************************************************************************)
(* Ex3, main.c: deferred interrupt handling.  A falling edge on a test pin *)
(* raises the pin's interrupt flag; interrupt_J3() turns flags into the    *)
(* variables isTestA, isTestB and isTestC; main's loop looks at one after  *)
(* the other and answers with a pulse on the response pin of the line.     *)
(*                                                                         *)
(* Test pins, interrupt flags and the tester at the other end of the lines *)
(* are hardware.  The processor takes a pending interrupt before the next  *)
(* step of main and resumes main after it.  The tester pulls a test pin    *)
(* low and lets it go when it sees the response pin low, for which a pulse *)
(* is held long enough, or when it has waited too long.  On a patient line *)
(* it begins a test only once main is done with the one before, on another *)
(* at any time.                                                            *)
(***************************************************************************)
EXTENDS Naturals

CONSTANTS
  NumLines,  \* 3 in the code: A, B and C
  Patient    \* the patient lines

Lines == 1 .. NumLines

ASSUME BigWhileAssumption == NumLines \in Nat \ {0} /\ Patient \subseteq Lines

(* Main looks at the lines in turn.                                        *)
NextLine(l) == (l % NumLines) + 1

VARIABLES
  test,     \* test[l]: the tester holds the pin low, waiting for a response
  flag,     \* flag[l]: the interrupt flag of the test pin
  isTest,   \* isTest[l]: the flag for main
  response, \* response[l]: the response pin is low
  main,     \* where main is: a line and a step
  isr,      \* where interrupt_J3 is: a line and a step; "idle" when it is not running
  \* not in the code
  early,    \* early[l]: the test of l began in the middle of main's pulse
  served    \* served[l][m]: the pulses on m since the test of l began

vars == <<test, flag, isTest, response, main, isr, early, served>>

MainSteps == {"look", "low", "high", "clear"}
Idle == [line |-> 1, step |-> "idle"]

TypeOK ==
  /\ test \in [Lines -> BOOLEAN] /\ flag \in [Lines -> BOOLEAN]
  /\ isTest \in [Lines -> BOOLEAN] /\ response \in [Lines -> BOOLEAN]
  /\ main \in [line : Lines, step : MainSteps]
  /\ isr \in [line : Lines, step : {"get", "clear", "mark"}] \cup {Idle}
  /\ early \in [Lines -> BOOLEAN]
  /\ served \in [Lines -> [Lines -> 0 .. 2]]

None == [l \in Lines |-> FALSE]

(* The response pins are configured without GPIO_INIT_HIGH, so they are    *)
(* low until the end of the first pulse.                                   *)
Init ==
  /\ test = None /\ flag = None /\ isTest = None
  /\ response = [l \in Lines |-> TRUE]
  /\ main = [line |-> 1, step |-> "look"]
  /\ isr = Idle
  /\ early = None
  /\ served = [l \in Lines |-> [m \in Lines |-> 0]]

-----------------------------------------------------------------------------
(* The tester.                                                             *)
InPulse(l) == main = [line |-> l, step |-> "high"] \/ main = [line |-> l, step |-> "clear"]

Begin(l) ==
  /\ ~test[l]
  /\ l \in Patient => ~flag[l] /\ ~isTest[l] /\ isr # [line |-> l, step |-> "mark"]
  /\ test' = [test EXCEPT ![l] = TRUE]
  /\ flag' = [flag EXCEPT ![l] = TRUE]
  /\ early' = [early EXCEPT ![l] = InPulse(l)]
  /\ served' = [served EXCEPT ![l] = [m \in Lines |-> 0]]
  /\ UNCHANGED <<isTest, response, main, isr>>

See(l) ==
  /\ test[l] /\ response[l]
  /\ test' = [test EXCEPT ![l] = FALSE]
  /\ UNCHANGED <<flag, isTest, response, main, isr, early, served>>

(* The tester waits longer than any round of the loop, so it gives up only *)
(* on a test that began too early to be noticed.                           *)
Overflow(l) ==
  /\ test[l] /\ early[l]
  /\ test' = [test EXCEPT ![l] = FALSE]
  /\ UNCHANGED <<flag, isTest, response, main, isr, early, served>>

-----------------------------------------------------------------------------
(* interrupt_J3.                                                           *)
Enter ==
  /\ isr = Idle
  /\ \E l \in Lines : flag[l]
  /\ isr' = [line |-> 1, step |-> "get"]
  /\ UNCHANGED <<test, flag, isTest, response, main, early, served>>

AfterLine(l) == IF l = NumLines THEN Idle ELSE [line |-> l + 1, step |-> "get"]

GetFlag(l) ==
  /\ isr = [line |-> l, step |-> "get"]
  /\ isr' = IF flag[l] THEN [isr EXCEPT !.step = "clear"] ELSE AfterLine(l)
  /\ UNCHANGED <<test, flag, isTest, response, main, early, served>>

(* A variant: every flag of the port cleared with one.                     *)
ClearFlagOfPort(l) ==
  /\ isr = [line |-> l, step |-> "clear"]
  /\ isr' = [isr EXCEPT !.step = "mark"]
  /\ flag' = None
  /\ UNCHANGED <<test, isTest, response, main, early, served>>

ClearFlag(l) ==
  /\ isr = [line |-> l, step |-> "clear"]
  /\ isr' = [isr EXCEPT !.step = "mark"]
  /\ flag' = [flag EXCEPT ![l] = FALSE]
  /\ UNCHANGED <<test, isTest, response, main, early, served>>

Mark(l) ==
  /\ isr = [line |-> l, step |-> "mark"]
  /\ isr' = AfterLine(l)
  /\ isTest' = [isTest EXCEPT ![l] = TRUE]
  /\ UNCHANGED <<test, flag, response, main, early, served>>

-----------------------------------------------------------------------------
(* The loop of main.                                                       *)
(* Main takes a step only while no interrupt is handled or pending.        *)
Uninterrupted == isr = Idle /\ \A l \in Lines : ~flag[l]

Step(l, from, line, to) ==
  /\ Uninterrupted
  /\ main = [line |-> l, step |-> from]
  /\ main' = [line |-> line, step |-> to]

Look(l) ==
  /\ IF isTest[l] THEN Step(l, "look", l, "low") ELSE Step(l, "look", NextLine(l), "look")
  /\ UNCHANGED <<test, flag, isTest, response, isr, early, served>>

SetLow(l) ==
  /\ Step(l, "low", l, "high")
  /\ response' = [response EXCEPT ![l] = TRUE]
  /\ served' = [m \in Lines |-> [served[m] EXCEPT ![l] = IF @ < 2 THEN @ + 1 ELSE @]]
  /\ UNCHANGED <<test, flag, isTest, isr, early>>

(* busy_delay_us is over, and the tester has seen the pin low.             *)
SetHigh(l) ==
  /\ Step(l, "high", l, "clear")
  /\ ~test[l]
  /\ response' = [response EXCEPT ![l] = FALSE]
  /\ UNCHANGED <<test, flag, isTest, isr, early, served>>

(* Variants: isTest left set, the loop begun again after a response, and   *)
(* all lines cleared at once.                                              *)
ClearNot(l) ==
  /\ Step(l, "clear", NextLine(l), "look")
  /\ UNCHANGED <<test, flag, isTest, response, isr, early, served>>

ClearAndBeginAgain(l) ==
  /\ Step(l, "clear", 1, "look")
  /\ isTest' = [isTest EXCEPT ![l] = FALSE]
  /\ UNCHANGED <<test, flag, response, isr, early, served>>

ClearEveryLine(l) ==
  /\ Step(l, "clear", NextLine(l), "look")
  /\ isTest' = None
  /\ UNCHANGED <<test, flag, response, isr, early, served>>

Clear(l) ==
  /\ Step(l, "clear", NextLine(l), "look")
  /\ isTest' = [isTest EXCEPT ![l] = FALSE]
  /\ UNCHANGED <<test, flag, response, isr, early, served>>

-----------------------------------------------------------------------------
Tester == \E l \in Lines : Begin(l) \/ See(l) \/ Overflow(l)

interrupt_J3 == Enter \/ \E l \in Lines : GetFlag(l) \/ ClearFlag(l) \/ Mark(l)

Main == \E l \in Lines : Look(l) \/ SetLow(l) \/ SetHigh(l) \/ Clear(l)

Next == Tester \/ interrupt_J3 \/ Main

(* The processor never stops, and edges are not so frequent that handling  *)
(* interrupts leaves main no time for ever, which nothing in the code      *)
(* could prevent.  Nothing obliges the tester to begin a test, but it      *)
(* looks at the response pin while it waits.                               *)
Spec ==
  /\ Init /\ [][Next]_vars
  /\ WF_vars(interrupt_J3) /\ SF_vars(Main)
  /\ []<>Uninterrupted
  /\ \A l \in Lines : WF_vars(See(l))

-----------------------------------------------------------------------------
(* A test is noticed and never forgotten before main answers it, unless it *)
(* began between the two edges of a pulse and the clearing of isTest:      *)
(* lines 88, 95 and 102 clear what the handler has set since.              *)
NoticedUnlessEarly ==
  \A l \in Lines : test[l] /\ ~early[l] =>
    flag[l] \/ isTest[l] \/ isr = [line |-> l, step |-> "mark"]

(* When the response pin of a patient line falls a test is waiting for it: *)
(* an edge makes one pulse, and none comes late or out of turn.            *)
OnePulsePerTest == [][\A l \in Patient : ~response[l] /\ response'[l] => test[l]]_vars

(* The loop answers in turn: while a test waits, each other line gets one  *)
(* pulse at most, so that the slowest answer is one round of the loop.     *)
OneRound == \A l, m \in Lines : test[l] /\ ~early[l] => served[l][m] <= 1

(* A patient line gets every answer, whatever happens on the others.       *)
Answered == \A l \in Patient : test[l] ~> ~test[l]
=============================================================================
