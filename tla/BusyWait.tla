------------------------------ MODULE BusyWait ------------------------------
(***************************************************************************)
(* busy_wait() of Ex1 (times/times1.c) with the arithmetic on struct       *)
(* timespec it stands on, which Ex5 and the miniproject repeat: the sum    *)
(* of the clock and the delay is normalized in a loop, and the clock is    *)
(* read until it compares with the sum as not less.                        *)
(*                                                                         *)
(* main assigns the seconds of the delay and not its nanoseconds, which    *)
(* are any number here; that the sum fits a long is taken for granted.     *)
(***************************************************************************)
EXTENDS Integers

VARIABLES
  pc,
  clock,   \* CLOCK_MONOTONIC
  start,   \* history: the clock when the wait began
  delay,   \* t
  now, then

waitVars == <<pc, clock, start, delay, now, then>>

Second == 1000000000   \* nanoseconds in a second

Timespec == [tv_sec : Int, tv_nsec : Int]

Normalized(t) == 0 <= t.tv_nsec /\ t.tv_nsec < Second

Instant == {t \in Timespec : Normalized(t)}

(* The nanoseconds a timespec stands for.                                  *)
Total(t) == t.tv_sec * Second + t.tv_nsec

(* What an int keeps of a long.                                            *)
ToInt(n) == ((n + 2147483648) % 4294967296) - 2147483648

timespec_cmp(lhs, rhs) ==
  IF lhs.tv_sec < rhs.tv_sec THEN -1
  ELSE IF lhs.tv_sec > rhs.tv_sec THEN 1
  ELSE ToInt(lhs.tv_nsec - rhs.tv_nsec)

(* The sum that timespec_add hands to timespec_normalized, and the         *)
(* difference that timespec_sub does.                                      *)
Sum(lhs, rhs) ==
  [tv_sec |-> lhs.tv_sec + rhs.tv_sec, tv_nsec |-> lhs.tv_nsec + rhs.tv_nsec]
Difference(lhs, rhs) ==
  [tv_sec |-> lhs.tv_sec - rhs.tv_sec, tv_nsec |-> lhs.tv_nsec - rhs.tv_nsec]

(* One turn of either loop of timespec_normalized.                         *)
Carry(t) == [tv_sec |-> t.tv_sec + 1, tv_nsec |-> t.tv_nsec - Second]
Borrow(t) == [tv_sec |-> t.tv_sec - 1, tv_nsec |-> t.tv_nsec + Second]

InitWait ==
  /\ pc = "start"
  /\ clock \in Instant
  /\ delay \in {t \in Timespec : t.tv_sec = 1}
  /\ start = clock /\ now = clock /\ then = clock

(* Time goes on, at any moment and by any amount.                          *)
Tick ==
  /\ clock' \in {t \in Instant : Total(t) > Total(clock)}
  /\ UNCHANGED <<pc, start, delay, now, then>>

Begin ==
  /\ pc = "start" /\ pc' = "normalize"
  /\ now' = clock /\ start' = clock
  /\ then' = Sum(clock, delay)
  /\ UNCHANGED <<clock, delay>>

timespec_normalized ==
  /\ pc = "normalize"
  /\ \/ then.tv_nsec >= Second /\ then' = Carry(then) /\ UNCHANGED pc
     \/ then.tv_nsec < 0 /\ then' = Borrow(then) /\ UNCHANGED pc
     \/ Normalized(then) /\ pc' = "wait" /\ UNCHANGED then
  /\ UNCHANGED <<clock, start, delay, now>>

Look ==
  /\ pc = "wait" /\ timespec_cmp(now, then) < 0
  /\ now' = clock
  /\ UNCHANGED <<pc, clock, start, delay, then>>

Return ==
  /\ pc = "wait" /\ ~(timespec_cmp(now, then) < 0)
  /\ pc' = "done"
  /\ UNCHANGED <<clock, start, delay, now, then>>

NextWait == Tick \/ Begin \/ timespec_normalized \/ Look \/ Return

SpecWait == InitWait /\ [][NextWait]_waitVars

-----------------------------------------------------------------------------
WaitTypeOK ==
  /\ pc \in {"start", "normalize", "wait", "done"}
  /\ clock \in Instant /\ start \in Instant /\ now \in Instant
  /\ delay \in Timespec /\ then \in Timespec

(* busy_wait returns no earlier than its argument says, whatever the       *)
(* nanoseconds of the argument, negative or of many seconds.               *)
WaitsItsTime == pc = "done" => Total(clock) >= Total(start) + Total(delay)

(* How far the nanoseconds are from where normalization leaves them.       *)
Excess(t) ==
  IF t.tv_nsec >= Second THEN t.tv_nsec
  ELSE IF t.tv_nsec < 0 THEN -t.tv_nsec ELSE 0

(* Every turn of a loop of timespec_normalized brings the nanoseconds      *)
(* nearer to their range, so that it ends.                                 *)
NormalizationEnds ==
  [][pc = "normalize" /\ then' # then => Excess(then') < Excess(then)]_waitVars
=============================================================================
