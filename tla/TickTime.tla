------------------------------ MODULE TickTime ------------------------------
(* Arithmetic on FreeRTOS's tick count, an unsigned integer that overflows *)
(* (Ex4, freertos/source/tasks.c).                                         *)
EXTENDS Integers

CONSTANT MaxDelay   \* portMAX_DELAY: the tick count runs from 0 to MaxDelay

Ticks == 0 .. MaxDelay

(* The tick n after tick i, n at most MaxDelay.                            *)
After(i, n) == IF i + n > MaxDelay THEN i + n - MaxDelay - 1 ELSE i + n

(* How many ticks after tick last tick now is, the next time it comes.     *)
Since(now, last) == IF now < last THEN now - last + MaxDelay + 1 ELSE now - last

(* Whether a task that last woke up at last, and wants to wake up at time, *)
(* still has to wait for it now.                                           *)
ShouldDelay(last, time, now) ==
  \/ now < last /\ time < last /\ time > now
  \/ now >= last /\ (time < last \/ time > now)

(* Whether a task that began to wait at tick entered, for at most wait     *)
(* ticks, has waited long enough at tick now. overflowed says whether the  *)
(* tick count has overflowed in between; portMAX_DELAY is for ever.        *)
TimesOut(entered, wait, now, overflowed) ==
  /\ wait # MaxDelay
  /\ (overflowed /\ now >= entered) \/ Since(now, entered) >= wait

(* What it has to wait from now on when it has not.                        *)
Remaining(entered, wait, now) == wait - Since(now, entered)
=============================================================================
