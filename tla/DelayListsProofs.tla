-------------------------- MODULE DelayListsProofs --------------------------
(***************************************************************************)
(* Tasks are woken at their tick for every size of the tick count, every   *)
(* set of tasks and every order of calls: proofs about DelayLists, which   *)
(* FreeRTOSTasks implements.                                               *)
(*                                                                         *)
(* TypeOK, ListsMeanWhatTheySay and WakesOnTime are inductive together:    *)
(* the lists say how many ticks each task in them has left, and that it    *)
(* has some; the tick to look at next is at or before the first of them.   *)
(* Forgotten is needed of whoever maps onto DelayLists: a step in which    *)
(* nobody leaves and no tick passes changes nothing.                       *)
(***************************************************************************)
EXTENDS DelayLists, TLAPS

(* Who does not wait for a tick has no wake time.                          *)
Forgotten == \A t \in Task : ~Blocked(t) => wake[t] = 0

IInv == TypeOK /\ ListsMeanWhatTheySay /\ WakesOnTime /\ Forgotten

(* A task sleeps in vTaskDelayUntil exactly if fewer ticks than its period *)
(* have gone by since it last woke up, whichever of the times involved     *)
(* have overflowed.                                                        *)
THEOREM DelayUntilExact ==
  ASSUME MaxDelay \in Nat \ {0},
         NEW last \in Ticks, NEW now \in Ticks, NEW inc \in 1 .. MaxDelay
  PROVE  /\ ShouldDelay(last, After(last, inc), now) <=> Since(now, last) < inc
         /\ Since(now, last) < inc =>
              Since(After(last, inc), now) = inc - Since(now, last)
  BY SMT DEF ShouldDelay, After, Since, Ticks

(* xTaskCheckForTimeOut says that a wait is over exactly when it is,       *)
(* provided the tick count has overflowed once at most since the wait      *)
(* began (after a second overflow a time-out can be missed). When it is    *)
(* not over, what it is told to wait from now ends at the same tick.       *)
THEOREM TimeOutExact ==
  ASSUME MaxDelay \in Nat \ {0}, NEW overflowed \in BOOLEAN,
         NEW entered \in Ticks, NEW now \in Ticks, NEW wait \in 0 .. MaxDelay - 1,
         overflowed \/ now >= entered,
         NEW waited,
         waited = now - entered + IF overflowed THEN MaxDelay + 1 ELSE 0
  PROVE  /\ TimesOut(entered, wait, now, overflowed) <=> waited >= wait
         /\ ~TimesOut(entered, wait, now, overflowed) =>
              /\ Remaining(entered, wait, now) \in 1 .. wait
              /\ After(now, Remaining(entered, wait, now)) = After(entered, wait)
<1>1. CASE overflowed
  BY <1>1, SMT DEF TimesOut, Remaining, After, Since, Ticks
<1>2. CASE ~overflowed
  BY <1>2, SMT DEF TimesOut, Remaining, After, Since, Ticks
<1> QED
  BY <1>1, <1>2

(* A tick n later is a tick, and overflows as the sum does.                *)
LEMMA AfterIsTick ==
  ASSUME MaxDelay \in Nat \ {0}, NEW i \in Ticks, NEW n \in 0 .. MaxDelay
  PROVE  /\ After(i, n) \in Ticks
         /\ After(i, n) < i <=> i + n > MaxDelay
         /\ After(i, n) < i => After(i, n) = i + n - MaxDelay - 1
         /\ After(i, n) >= i => After(i, n) = i + n
  BY SMT DEF After, Ticks

(* The earliest wake time of a set is a tick no later than any of them.    *)
LEMMA EarliestIsFirst ==
  ASSUME MaxDelay \in Nat \ {0}, wake \in [Task -> Ticks],
         NEW x, NEW S \in SUBSET Task, Earliest(x, S)
  PROVE  x \in Ticks /\ \A t \in S : x <= wake[t]
<1>1. CASE S = {} /\ x = MaxDelay
  BY <1>1, SMT DEF Ticks
<1>2. CASE \E t \in S : x = wake[t] /\ \A u \in S : wake[t] <= wake[u]
  BY <1>2
<1> QED
  BY <1>1, <1>2 DEF Earliest

(* Going to sleep keeps the meaning of the lists.                          *)
LEMMA DelayForKeepsIt ==
  ASSUME MaxDelay \in Nat \ {0}, IInv,
         NEW t \in Task, NEW n \in 1 .. MaxDelay, DelayFor(t, n)
  PROVE  IInv'
<1> DEFINE at == After(tick, n)
<1>1. /\ at \in Ticks
      /\ at < tick <=> tick + n > MaxDelay
      /\ at < tick => at = tick + n - MaxDelay - 1
      /\ at >= tick => at = tick + n
  BY AfterIsTick, n \in 0 .. MaxDelay DEF IInv, TypeOK
<1>2. /\ wake' = [wake EXCEPT ![t] = at] /\ left' = [left EXCEPT ![t] = n]
      /\ tick' = tick /\ released' = released
      /\ t \notin delayed /\ t \notin overflow
  BY DEF DelayFor, Blocked
<1> HIDE DEF at
<1>3. CASE at < tick /\ overflow' = overflow \cup {t} /\ UNCHANGED <<delayed, next>>
  BY <1>1, <1>2, <1>3, SMT
     DEF IInv, TypeOK, ListsMeanWhatTheySay, WakesOnTime, Forgotten, Blocked, Ticks
<1>4. CASE /\ at >= tick /\ delayed' = delayed \cup {t} /\ UNCHANGED overflow
           /\ next' = IF at < next THEN at ELSE next
  BY <1>1, <1>2, <1>4, SMT
     DEF IInv, TypeOK, ListsMeanWhatTheySay, WakesOnTime, Forgotten, Blocked, Ticks
<1> QED
  BY <1>3, <1>4 DEF DelayFor, at

(* So does time, over an overflow of the tick count or not, after some of  *)
(* the tasks have been taken off the lists by something else.              *)
LEMMA AdvanceKeepsIt ==
  ASSUME MaxDelay \in Nat \ {0}, IInv,
         NEW n \in 0 .. MaxDelay, NEW gone \in SUBSET (delayed \cup overflow),
         Advance(n, gone),
         released' = {} \/ (n = 0 /\ released' = released \ gone)
  PROVE  IInv'
<1> DEFINE now == After(tick, n)
<1>1. /\ now \in Ticks
      /\ now < tick <=> tick + n > MaxDelay
      /\ now < tick => now = tick + n - MaxDelay - 1
      /\ now >= tick => now = tick + n
  BY AfterIsTick DEF IInv, TypeOK
<1>2. /\ tick' = now
      /\ wake' = [t \in Task |-> IF t \in delayed' \cup overflow' THEN wake[t] ELSE 0]
      /\ left' = [t \in Task |-> IF t \in gone \/ left[t] <= n THEN 0 ELSE left[t] - n]
  BY DEF Advance
<1>3. wake \in [Task -> Ticks] /\ next \in Ticks /\ left \in [Task -> Nat]
  BY DEF IInv, TypeOK
<1>4. left' \in [Task -> Nat] /\ wake' \in [Task -> Ticks] /\ released' \in SUBSET Task
  BY <1>2, <1>3, SMT DEF Ticks, IInv, TypeOK
<1>5. CASE /\ now < tick
           /\ delayed' = {t \in overflow \ gone : wake[t] > now}
           /\ overflow' = {}
           /\ Earliest(next', delayed')
  <2>1. delayed' \in SUBSET Task
    BY <1>5 DEF IInv, TypeOK
  <2>2. next' \in Ticks /\ \A t \in delayed' : next' <= wake[t]
    BY <1>3, <1>5, <2>1, EarliestIsFirst
  <2> HIDE DEF now
  <2> QED
    BY <1>1, <1>2, <1>3, <1>4, <1>5, <2>1, <2>2, SMT
       DEF IInv, TypeOK, ListsMeanWhatTheySay, WakesOnTime, Forgotten, Blocked, Ticks
<1>6. CASE /\ now >= tick
           /\ delayed' = {t \in delayed \ gone : wake[t] > now}
           /\ overflow' = overflow \ gone
           /\ \/ now < next /\ next' = next
              \/ now >= next /\ n > 0 /\ Earliest(next', delayed')
              \/ n = 0 /\ next' = next
  <2>1. delayed' \in SUBSET Task /\ delayed' \subseteq delayed
    BY <1>6 DEF IInv, TypeOK
  <2>2. next' \in Ticks /\ \A t \in delayed' : next' <= wake[t]
    <3>1. CASE next' = next
      BY <1>3, <2>1, <3>1 DEF IInv, ListsMeanWhatTheySay
    <3>2. CASE Earliest(next', delayed')
      BY <1>3, <2>1, <3>2, EarliestIsFirst
    <3> QED
      BY <1>6, <3>1, <3>2
  <2> HIDE DEF now
  <2> QED
    BY <1>1, <1>2, <1>3, <1>4, <1>6, <2>1, <2>2, SMT
       DEF IInv, TypeOK, ListsMeanWhatTheySay, WakesOnTime, Forgotten, Blocked, Ticks
<1> QED
  BY <1>5, <1>6 DEF Advance, now

(* A step in which nobody leaves and no tick passes changes nothing.       *)
LEMMA NothingAdvances ==
  ASSUME MaxDelay \in Nat \ {0}, IInv, Advance(0, {})
  PROVE  UNCHANGED <<tick, next, delayed, overflow, wake, left>>
<1>1. tick \in Ticks /\ next \in Ticks /\ wake \in [Task -> Ticks] /\ left \in [Task -> Nat]
  BY DEF IInv, TypeOK
<1>2. After(tick, 0) = tick /\ tick \in Int
  BY <1>1, SMT DEF After, Ticks
<1>3. /\ tick' = tick /\ next' = next
      /\ delayed' = {t \in delayed : wake[t] > tick} /\ overflow' = overflow
      /\ left' = [t \in Task |-> IF left[t] <= 0 THEN 0 ELSE left[t] - 0]
      /\ wake' = [t \in Task |-> IF t \in delayed' \cup overflow' THEN wake[t] ELSE 0]
  BY <1>2 DEF Advance
<1>4. \A t \in delayed : wake[t] > tick
  BY <1>1, SMT DEF IInv, TypeOK, ListsMeanWhatTheySay, Ticks
<1>5. delayed' = delayed
  BY <1>3, <1>4
<1>6. left' = left
  BY <1>1, <1>3, SMT
<1>7. wake' = wake
  BY <1>1, <1>3, <1>5 DEF IInv, Forgotten, Blocked
<1> QED
  BY <1>3, <1>5, <1>6, <1>7

(* It holds when nobody has delayed yet.                                   *)
LEMMA InitHasIt ==
  ASSUME MaxDelay \in Nat \ {0}, Init
  PROVE  IInv
BY SMT DEF Init, IInv, TypeOK, ListsMeanWhatTheySay, WakesOnTime, Forgotten, Blocked, Ticks

(* An event leaves a task where it is, to be woken later.                  *)
LEMMA ReleaseKeepsIt ==
  ASSUME IInv, NEW t \in Task, Release(t)
  PROVE  IInv'
BY DEF Release, IInv, TypeOK, ListsMeanWhatTheySay, WakesOnTime, Forgotten, Blocked

(* An event, a suspension or a deletion takes one off.                     *)
LEMMA LeaveKeepsIt ==
  ASSUME MaxDelay \in Nat \ {0}, IInv, NEW t \in Task, Leave(t)
  PROVE  IInv'
<1>1. {t} \in SUBSET (delayed \cup overflow) /\ 0 \in 0 .. MaxDelay
  BY DEF Leave, Blocked
<1> QED
  BY <1>1, AdvanceKeepsIt DEF Leave

(* Time takes off the released and those whose time it is.                 *)
LEMMA ElapseKeepsIt ==
  ASSUME MaxDelay \in Nat \ {0}, IInv, NEW n \in 0 .. MaxDelay, Elapse(n)
  PROVE  IInv'
<1>1. released \in SUBSET (delayed \cup overflow)
  BY DEF IInv, ListsMeanWhatTheySay
<1> QED
  BY <1>1, AdvanceKeepsIt DEF Elapse

(* Whoever delays, and whatever time passes, it stays.                     *)
LEMMA StepKeepsIt ==
  ASSUME MaxDelay \in Nat \ {0}, IInv, [Next]_vars
  PROVE  IInv'
<1>1. CASE Next
  BY <1>1, DelayForKeepsIt, LeaveKeepsIt, ReleaseKeepsIt, ElapseKeepsIt DEF Next
<1>2. CASE UNCHANGED vars
  BY <1>2 DEF vars, IInv, TypeOK, ListsMeanWhatTheySay, WakesOnTime, Forgotten, Blocked
<1> QED
  BY <1>1, <1>2

(* The invariant holds in every reachable state.                           *)
THEOREM Invariance ==
  ASSUME MaxDelay \in Nat \ {0}
  PROVE  Spec => []IInv
<1>1. Init => IInv
  BY InitHasIt
<1>2. IInv /\ [Next]_vars => IInv'
  BY StepKeepsIt
<1> QED
  BY <1>1, <1>2, PTL DEF Spec

(* Every task that delays is woken at its tick, neither before nor after,  *)
(* for every size of the tick count and every interleaving of calls, ticks *)
(* and events.                                                             *)
THEOREM WokenOnTime ==
  ASSUME MaxDelay \in Nat \ {0}
  PROVE  Spec => []WakesOnTime
<1>1. IInv => WakesOnTime
  BY DEF IInv
<1> QED
  BY <1>1, Invariance, PTL

(* A task in the overflow list is behind the tick count, one in the        *)
(* delayed list ahead of it, and none of the latter is before the tick     *)
(* that is looked for.                                                     *)
THEOREM ListsMeanTime ==
  ASSUME MaxDelay \in Nat \ {0}
  PROVE  Spec => []ListsMeanWhatTheySay
<1>1. IInv => ListsMeanWhatTheySay
  BY DEF IInv
<1> QED
  BY <1>1, Invariance, PTL
=============================================================================
