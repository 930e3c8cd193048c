---------------------------- MODULE Philosophers ----------------------------
(***************************************************************************)
(* Ex2/dinPhil/main.c: the dining philosophers as threads, the forks as    *)
(* pthread mutexes.  A philosopher tries its own fork, then the one of its *)
(* neighbour, and puts its own back when it does not get the second, so    *)
(* nobody holds a fork and waits.  main creates the mutexes before the     *)
(* threads and destroys them when it has joined them all.  The sleeps set  *)
(* no order, so they are left to the interleaving.                         *)
(***************************************************************************)
EXTENDS Integers

CONSTANTS NUM_PHILOSOPHERS, NUM_MEALS

ASSUME PhilosophersAssumption ==
  /\ NUM_PHILOSOPHERS \in Nat /\ NUM_PHILOSOPHERS >= 2
  /\ NUM_MEALS \in Nat

Phil == 0 .. NUM_PHILOSOPHERS - 1

Free == -1       \* an unlocked mutex
Unusable == -2   \* before pthread_mutex_init, after pthread_mutex_destroy

NeighbourID(p) == (p + 1) % NUM_PHILOSOPHERS

VARIABLES
  mainAt,    \* the loop main is in: init, create, join, destroy; or exit
  i,         \* its index in that loop
  fork,      \* forksMutex: the philosopher that holds each, Free or Unusable
  at,        \* at[p]: the next step of thread p
  cntMeals,  \* as in the code: the rounds p has made
  meals      \* the rounds in which p did eat

vars == <<mainAt, i, fork, at, cntMeals, meals>>

Steps == {"new", "loop", "neighbour", "eat", "release", "rest", "finished"}

TypeOK ==
  /\ mainAt \in {"init", "create", "join", "destroy", "exit"}
  /\ i \in Phil
  /\ fork \in [Phil -> Phil \cup {Free, Unusable}]
  /\ at \in [Phil -> Steps]
  /\ cntMeals \in [Phil -> 0 .. NUM_MEALS]
  /\ meals \in [Phil -> 0 .. NUM_MEALS]

Init ==
  /\ mainAt = "init" /\ i = 0
  /\ fork = [p \in Phil |-> Unusable]
  /\ at = [p \in Phil |-> "new"]
  /\ cntMeals = [p \in Phil |-> 0]
  /\ meals = [p \in Phil |-> 0]

-----------------------------------------------------------------------------
(* main: four loops over the philosophers.                                 *)

(* The end of one turn of the loop `here`, with `next` after the last.     *)
Turn(here, next) ==
  /\ mainAt = here
  /\ IF i < NUM_PHILOSOPHERS - 1
     THEN i' = i + 1 /\ mainAt' = here
     ELSE i' = 0 /\ mainAt' = next

InitFork ==
  /\ Turn("init", "create")
  /\ fork' = [fork EXCEPT ![i] = Free]
  /\ UNCHANGED <<at, cntMeals, meals>>

CreateThread ==
  /\ Turn("create", "join")
  /\ at' = [at EXCEPT ![i] = "loop"]
  /\ UNCHANGED <<fork, cntMeals, meals>>

(* A variant: main does not wait for the threads.                          *)
JoinThreadAtOnce ==
  /\ Turn("join", "destroy")
  /\ UNCHANGED <<fork, at, cntMeals, meals>>

JoinThread ==
  /\ at[i] = "finished"
  /\ Turn("join", "destroy")
  /\ UNCHANGED <<fork, at, cntMeals, meals>>

DestroyFork ==
  /\ Turn("destroy", "exit")
  /\ fork' = [fork EXCEPT ![i] = Unusable]
  /\ UNCHANGED <<at, cntMeals, meals>>

-----------------------------------------------------------------------------
(* The thread of philosopher p.                                            *)

Go(p, from, to) == at[p] = from /\ at' = [at EXCEPT ![p] = to]

(* pthread_mutex_trylock(&forksMutex[f]) by p: to `got` if it returns 0,   *)
(* to `busy` if not.                                                       *)
(*                                                                         *)
(* TryLockAlways is a variant that takes the fork from whoever holds it.   *)
TryLockAlways(p, f, from, got, busy) ==
  /\ fork' = [fork EXCEPT ![f] = p]
  /\ Go(p, from, got)

TryLock(p, f, from, got, busy) ==
  \/ /\ fork[f] = Free
     /\ fork' = [fork EXCEPT ![f] = p]
     /\ Go(p, from, got)
  \/ /\ fork[f] # Free
     /\ UNCHANGED fork
     /\ Go(p, from, busy)

TryOwnFork(p) ==
  /\ cntMeals[p] < NUM_MEALS
  /\ TryLock(p, p, "loop", "neighbour", "rest")
  /\ UNCHANGED <<mainAt, i, cntMeals, meals>>

(* Variants: the result of trylock not tested, and lock for trylock.       *)
TryNeighboursForkUntested(p) ==
  /\ TryLock(p, NeighbourID(p), "neighbour", "eat", "eat")
  /\ UNCHANGED <<mainAt, i, cntMeals, meals>>

LockNeighboursFork(p) ==
  /\ fork[NeighbourID(p)] = Free
  /\ fork' = [fork EXCEPT ![NeighbourID(p)] = p]
  /\ Go(p, "neighbour", "eat")
  /\ UNCHANGED <<mainAt, i, cntMeals, meals>>

TryNeighboursFork(p) ==
  /\ TryLock(p, NeighbourID(p), "neighbour", "eat", "release")
  /\ UNCHANGED <<mainAt, i, cntMeals, meals>>

(* p has eaten and unlocks its neighbour's fork.                           *)
ReleaseNeighboursFork(p) ==
  /\ Go(p, "eat", "release")
  /\ fork' = [fork EXCEPT ![NeighbourID(p)] = Free]
  /\ meals' = [meals EXCEPT ![p] = @ + 1]
  /\ UNCHANGED <<mainAt, i, cntMeals>>

(* A variant: the own fork kept.                                           *)
KeepOwnFork(p) ==
  /\ Go(p, "release", "rest")
  /\ UNCHANGED <<mainAt, i, fork, cntMeals, meals>>

ReleaseOwnFork(p) ==
  /\ Go(p, "release", "rest")
  /\ fork' = [fork EXCEPT ![p] = Free]
  /\ UNCHANGED <<mainAt, i, cntMeals, meals>>

(* The round is counted whether p has eaten or not.                        *)
Rest(p) ==
  /\ Go(p, "rest", "loop")
  /\ cntMeals' = [cntMeals EXCEPT ![p] = @ + 1]
  /\ UNCHANGED <<mainAt, i, fork, meals>>

Finish(p) ==
  /\ cntMeals[p] = NUM_MEALS
  /\ Go(p, "loop", "finished")
  /\ UNCHANGED <<mainAt, i, fork, cntMeals, meals>>

-----------------------------------------------------------------------------
Main == InitFork \/ CreateThread \/ JoinThread \/ DestroyFork

Philosopher(p) ==
  \/ TryOwnFork(p) \/ TryNeighboursFork(p)
  \/ ReleaseNeighboursFork(p) \/ ReleaseOwnFork(p)
  \/ Rest(p) \/ Finish(p)

Next == Main \/ \E p \in Phil : Philosopher(p)

(* Every thread goes on while it can: the operating system runs each.      *)
Spec == Init /\ [][Next]_vars /\ WF_vars(Main) /\ \A p \in Phil : WF_vars(Philosopher(p))

-----------------------------------------------------------------------------
(* Two neighbours never eat at the same time (lines 24-32).                *)
NeighboursExclude ==
  \A p \in Phil : ~(at[p] = "eat" /\ at[NeighbourID(p)] = "eat")

(* A philosopher unlocks only forks it holds (lines 31 and 34): unlocking  *)
(* another thread's mutex is undefined.                                    *)
UnlocksOwnLocks ==
  \A p \in Phil :
    /\ at[p] = "eat" => fork[NeighbourID(p)] = p
    /\ at[p] \in {"neighbour", "eat", "release"} => fork[p] = p

(* No thread locks or unlocks a mutex that is not there, and main destroys *)
(* none that is locked (lines 53-55 and 69-73).                            *)
ForksThereWhenUsed ==
  /\ \A p, f \in Phil : at[p] \notin {"new", "finished"} => fork[f] # Unusable
  /\ mainAt = "destroy" => \A f \in Phil : fork[f] \in {Free, Unusable}

(* Nobody keeps a fork for ever: no philosopher waits while holding one.   *)
ForksComeBack == \A f \in Phil : fork[f] \in Phil ~> fork[f] = Free

(* No deadlock and no livelock: main joins everyone and exits.             *)
ProgramExits == <>(mainAt = "exit")

(* The comment in line 21: every philosopher has NUM_MEALS meals.          *)
EveryPhilosopherEats ==
  \A p \in Phil : at[p] = "finished" => meals[p] = NUM_MEALS
=============================================================================
