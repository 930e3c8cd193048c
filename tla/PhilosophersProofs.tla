------------------------- MODULE PhilosophersProofs -------------------------
(***************************************************************************)
(* Safety of the philosophers for any number of them, two or more, and of  *)
(* rounds.  The inductive invariant says who holds each fork at each step, *)
(* and how far main has come.                                              *)
(***************************************************************************)
EXTENDS Philosophers, TLAPS

HasOwn == {"neighbour", "eat", "release"}

(* A fork is held only by the philosopher it belongs to, or by the one     *)
(* that eats with it as its neighbour's.                                   *)
HeldBy ==
  \A p, f \in Phil : fork[f] = p =>
    \/ f = p /\ at[p] \in HasOwn
    \/ f = NeighbourID(p) /\ at[p] = "eat"

(* What is done in each of main's loops.                                   *)
Phases ==
  /\ mainAt = "init" => \A p \in Phil : at[p] = "new" /\ (p < i => fork[p] = Free)
  /\ mainAt \in {"create", "join"} => \A f \in Phil : fork[f] # Unusable
  /\ mainAt = "create" => \A p \in Phil : at[p] = "new" <=> p >= i
  /\ mainAt = "join" => \A p \in Phil : at[p] # "new" /\ (p < i => at[p] = "finished")
  /\ mainAt \in {"destroy", "exit"} => \A p \in Phil : at[p] = "finished"

(* A round is under way only below NUM_MEALS, and holds one meal at most.  *)
Counts ==
  \A p \in Phil :
    /\ at[p] \in HasOwn \cup {"rest"} => cntMeals[p] < NUM_MEALS
    /\ meals[p] <= cntMeals[p] + (IF at[p] \in {"release", "rest"} THEN 1 ELSE 0)

IInv == TypeOK /\ UnlocksOwnLocks /\ HeldBy /\ Phases /\ Counts

-----------------------------------------------------------------------------
(* With two philosophers or more nobody is their own neighbour.            *)
LEMMA NeighbourIsAnother ==
  ASSUME NEW p \in Phil
  PROVE  NeighbourID(p) \in Phil /\ NeighbourID(p) # p
<1> USE PhilosophersAssumption
<1>1. CASE p + 1 < NUM_PHILOSOPHERS
  <2>1. (p + 1) % NUM_PHILOSOPHERS = p + 1
    BY <1>1 DEF Phil
  <2> QED
    BY <1>1, <2>1 DEF NeighbourID, Phil
<1>2. CASE p + 1 = NUM_PHILOSOPHERS
  <2>1. (p + 1) % NUM_PHILOSOPHERS = 0
    BY <1>2
  <2> QED
    BY <1>2, <2>1 DEF NeighbourID, Phil
<1> QED
  BY <1>1, <1>2 DEF Phil

(* The invariant holds before main has made the first mutex.               *)
LEMMA InitIInv == Init => IInv
BY PhilosophersAssumption
DEF Init, IInv, TypeOK, UnlocksOwnLocks, HeldBy, Phases, Counts, Phil, Steps, HasOwn,
    Free, Unusable

-----------------------------------------------------------------------------
(* main's steps.                                                           *)
LEMMA MainKeeps == ASSUME IInv, Main PROVE IInv'
<1> USE PhilosophersAssumption DEF Free, Unusable
<1>0. i \in Phil /\ NUM_PHILOSOPHERS - 1 \in Phil /\ 0 \in Phil
  BY DEF IInv, TypeOK, Phil
<1>1. CASE InitFork
  <2>1. mainAt = "init" /\ \A p \in Phil : at[p] = "new"
    BY <1>1 DEF InitFork, Turn, IInv, Phases
  <2>2. TypeOK'
    BY <1>0, <1>1 DEF InitFork, Turn, IInv, TypeOK, Phil
  <2>3. UnlocksOwnLocks' /\ HeldBy'
    BY <1>0, <1>1, <2>1 DEF InitFork, IInv, TypeOK, UnlocksOwnLocks, HeldBy, Phil, HasOwn
  <2>4. Phases'
    <3>1. /\ \A p \in Phil : at'[p] = "new"
          /\ \A p \in Phil : p <= i => fork'[p] = Free
      BY <1>0, <1>1, <2>1 DEF InitFork, IInv, TypeOK, Phases, Phil
    <3>2. CASE i < NUM_PHILOSOPHERS - 1
      <4>1. mainAt' = "init" /\ i' = i + 1
        BY <1>1, <3>2 DEF InitFork, Turn
      <4> QED
        BY <1>0, <3>1, <4>1 DEF Phases, Phil
    <3>3. CASE ~(i < NUM_PHILOSOPHERS - 1)
      <4>1. mainAt' = "create" /\ \A p \in Phil : p <= i
        BY <1>0, <1>1, <3>3 DEF InitFork, Turn, Phil
      <4>2. i' = 0 /\ \A p \in Phil : p >= 0
        BY <1>1, <3>3 DEF InitFork, Turn, Phil
      <4> QED
        BY <3>1, <4>1, <4>2 DEF Phases
    <3> QED
      BY <3>2, <3>3
  <2>5. Counts'
    BY <1>1, <2>1 DEF InitFork, IInv, TypeOK, Counts, HasOwn
  <2> QED
    BY <2>2, <2>3, <2>4, <2>5 DEF IInv
<1>2. CASE CreateThread
  <2>1. mainAt = "create" /\ at[i] = "new"
    BY <1>0, <1>2 DEF CreateThread, Turn, IInv, Phases, Phil
  <2>2. TypeOK'
    BY <1>0, <1>2 DEF CreateThread, Turn, IInv, TypeOK, Phil, Steps
  <2>3. UnlocksOwnLocks' /\ HeldBy'
    BY <1>0, <1>2, <2>1 DEF CreateThread, IInv, TypeOK, UnlocksOwnLocks, HeldBy, HasOwn
  <2>4. Phases'
    <3>1. /\ \A p \in Phil : p # i => (at'[p] = "new" <=> p > i)
          /\ at'[i] = "loop"
          /\ \A f \in Phil : fork'[f] # Unusable
      BY <1>0, <1>2, <2>1 DEF CreateThread, IInv, TypeOK, Phases, Phil
    <3>2. CASE i < NUM_PHILOSOPHERS - 1
      <4>1. mainAt' = "create" /\ i' = i + 1
        BY <1>2, <3>2 DEF CreateThread, Turn
      <4> QED
        BY <1>0, <3>1, <4>1 DEF Phases, Phil
    <3>3. CASE ~(i < NUM_PHILOSOPHERS - 1)
      <4>1. mainAt' = "join" /\ i' = 0
        BY <1>2, <3>3 DEF CreateThread, Turn
      <4>2. \A p \in Phil : at'[p] # "new"
        BY <1>0, <1>2, <3>3 DEF CreateThread, IInv, TypeOK, Phases, Phil, Turn
      <4> QED
        BY <1>0, <3>1, <4>1, <4>2 DEF Phases, Phil
    <3> QED
      BY <3>2, <3>3
  <2>5. Counts'
    BY <1>2, <2>1 DEF CreateThread, IInv, TypeOK, Counts, HasOwn
  <2> QED
    BY <2>2, <2>3, <2>4, <2>5 DEF IInv
<1>3. CASE JoinThread
  <2>1. TypeOK'
    BY <1>0, <1>3, SMTT(30) DEF JoinThread, Turn, IInv, TypeOK, Phil
  <2>2. UnlocksOwnLocks' /\ HeldBy'
    BY <1>3 DEF JoinThread, IInv, UnlocksOwnLocks, HeldBy
  <2>3. Phases'
    BY <1>0, <1>3 DEF JoinThread, Turn, IInv, TypeOK, Phases, Phil
  <2>4. Counts'
    BY <1>3 DEF JoinThread, IInv, Counts
  <2> QED
    BY <2>1, <2>2, <2>3, <2>4 DEF IInv
<1>4. CASE DestroyFork
  <2>1. \A p \in Phil : at[p] = "finished"
    BY <1>4 DEF DestroyFork, Turn, IInv, Phases
  <2>2. TypeOK'
    BY <1>0, <1>4 DEF DestroyFork, Turn, IInv, TypeOK, Phil
  <2>3. UnlocksOwnLocks' /\ HeldBy'
    BY <1>0, <1>4, <2>1 DEF DestroyFork, IInv, TypeOK, UnlocksOwnLocks, HeldBy, Phil, HasOwn
  <2>4. Phases'
    BY <1>4, <2>1 DEF DestroyFork, Turn, Phases
  <2>5. Counts'
    BY <1>4, <2>1 DEF DestroyFork, IInv, TypeOK, Counts, HasOwn
  <2> QED
    BY <2>2, <2>3, <2>4, <2>5 DEF IInv
<1> QED
  BY <1>1, <1>2, <1>3, <1>4 DEF Main

-----------------------------------------------------------------------------
(* A philosopher's steps.                                                  *)
LEMMA ThreadRuns ==
  ASSUME IInv, NEW p \in Phil, at[p] \notin {"new", "finished"}
  PROVE  mainAt \in {"create", "join"}
BY DEF IInv, TypeOK, Phases

(* A step of p that leaves main alone and makes no mutex unusable.         *)
LEMMA PhasesStand ==
  ASSUME IInv, NEW p \in Phil, NEW to \in Steps \ {"new"},
         at[p] \notin {"new", "finished"}, at' = [at EXCEPT ![p] = to],
         UNCHANGED <<mainAt, i>>,
         \A f \in Phil : fork[f] # Unusable => fork'[f] # Unusable
  PROVE  Phases'
<1>1. mainAt \in {"create", "join"}
  BY ThreadRuns
<1> QED
  BY <1>1 DEF IInv, TypeOK, Phases, Phil

(* Every step of a philosopher keeps the invariant.                        *)
LEMMA PhilosopherKeeps == ASSUME IInv, NEW p \in Phil, Philosopher(p) PROVE IInv'
<1> USE PhilosophersAssumption DEF Free, Unusable
<1>0. \A q \in Phil : /\ NeighbourID(q) \in Phil /\ NeighbourID(q) # q
                      /\ q # Free /\ q # Unusable
  BY NeighbourIsAnother DEF Phil
<1>1. CASE TryOwnFork(p)
  <2>1. TypeOK'
    BY <1>0, <1>1 DEF TryOwnFork, TryLock, Go, IInv, TypeOK, Steps
  <2>2. UnlocksOwnLocks'
    BY <1>0, <1>1 DEF TryOwnFork, TryLock, Go, IInv, TypeOK, UnlocksOwnLocks, HeldBy, HasOwn
  <2>3. HeldBy'
    BY <1>0, <1>1 DEF TryOwnFork, TryLock, Go, IInv, TypeOK, HeldBy, UnlocksOwnLocks, HasOwn
  <2>4. Phases'
    <3>1. \A f \in Phil : fork[f] # Unusable => fork'[f] # Unusable
      BY <1>0, <1>1 DEF TryOwnFork, TryLock, IInv, TypeOK
    <3>2. UNCHANGED <<mainAt, i>> /\ at[p] \notin {"new", "finished"}
      BY <1>1 DEF TryOwnFork, TryLock, Go
    <3>3. PICK to \in Steps \ {"new"} : at' = [at EXCEPT ![p] = to]
      BY <1>1 DEF TryOwnFork, TryLock, Go, Steps
    <3> QED
      BY <3>1, <3>2, <3>3, PhasesStand
  <2>5. Counts'
    BY <1>1 DEF TryOwnFork, TryLock, Go, IInv, TypeOK, Counts, HasOwn
  <2> QED
    BY <2>1, <2>2, <2>3, <2>4, <2>5 DEF IInv
<1>2. CASE TryNeighboursFork(p)
  <2>1. TypeOK'
    BY <1>0, <1>2 DEF TryNeighboursFork, TryLock, Go, IInv, TypeOK, Steps
  <2>2. UnlocksOwnLocks'
    BY <1>0, <1>2 DEF TryNeighboursFork, TryLock, Go, IInv, TypeOK, UnlocksOwnLocks, HeldBy, HasOwn
  <2>3. HeldBy'
    BY <1>0, <1>2 DEF TryNeighboursFork, TryLock, Go, IInv, TypeOK, HeldBy, UnlocksOwnLocks, HasOwn
  <2>4. Phases'
    <3>1. \A f \in Phil : fork[f] # Unusable => fork'[f] # Unusable
      BY <1>0, <1>2 DEF TryNeighboursFork, TryLock, IInv, TypeOK
    <3>2. UNCHANGED <<mainAt, i>> /\ at[p] \notin {"new", "finished"}
      BY <1>2 DEF TryNeighboursFork, TryLock, Go
    <3>3. PICK to \in Steps \ {"new"} : at' = [at EXCEPT ![p] = to]
      BY <1>2 DEF TryNeighboursFork, TryLock, Go, Steps
    <3> QED
      BY <3>1, <3>2, <3>3, PhasesStand
  <2>5. Counts'
    BY <1>2 DEF TryNeighboursFork, TryLock, Go, IInv, TypeOK, Counts, HasOwn
  <2> QED
    BY <2>1, <2>2, <2>3, <2>4, <2>5 DEF IInv
<1>3. CASE ReleaseNeighboursFork(p)
  <2>1. TypeOK'
    BY <1>0, <1>3 DEF ReleaseNeighboursFork, Go, IInv, TypeOK, Steps, Counts, HasOwn
  <2>2. UnlocksOwnLocks'
    BY <1>0, <1>3 DEF ReleaseNeighboursFork, Go, IInv, TypeOK, UnlocksOwnLocks, HeldBy, HasOwn
  <2>3. HeldBy'
    BY <1>0, <1>3 DEF ReleaseNeighboursFork, Go, IInv, TypeOK, HeldBy, UnlocksOwnLocks, HasOwn
  <2>4. Phases'
    <3>1. \A f \in Phil : fork[f] # Unusable => fork'[f] # Unusable
      BY <1>0, <1>3 DEF ReleaseNeighboursFork, IInv, TypeOK
    <3>2. UNCHANGED <<mainAt, i>> /\ at[p] \notin {"new", "finished"}
      BY <1>3 DEF ReleaseNeighboursFork, Go
    <3> QED
      BY <1>3, <3>1, <3>2, PhasesStand DEF ReleaseNeighboursFork, Go, Steps
  <2>5. Counts'
    BY <1>3 DEF ReleaseNeighboursFork, Go, IInv, TypeOK, Counts, HasOwn
  <2> QED
    BY <2>1, <2>2, <2>3, <2>4, <2>5 DEF IInv
<1>4. CASE ReleaseOwnFork(p)
  <2>1. TypeOK'
    BY <1>0, <1>4 DEF ReleaseOwnFork, Go, IInv, TypeOK, Steps
  <2>2. UnlocksOwnLocks'
    BY <1>0, <1>4 DEF ReleaseOwnFork, Go, IInv, TypeOK, UnlocksOwnLocks, HeldBy, HasOwn
  <2>3. HeldBy'
    BY <1>0, <1>4 DEF ReleaseOwnFork, Go, IInv, TypeOK, HeldBy, UnlocksOwnLocks, HasOwn
  <2>4. Phases'
    <3>1. \A f \in Phil : fork[f] # Unusable => fork'[f] # Unusable
      BY <1>0, <1>4 DEF ReleaseOwnFork, IInv, TypeOK
    <3>2. UNCHANGED <<mainAt, i>> /\ at[p] \notin {"new", "finished"}
      BY <1>4 DEF ReleaseOwnFork, Go
    <3> QED
      BY <1>4, <3>1, <3>2, PhasesStand DEF ReleaseOwnFork, Go, Steps
  <2>5. Counts'
    BY <1>4 DEF ReleaseOwnFork, Go, IInv, TypeOK, Counts, HasOwn
  <2> QED
    BY <2>1, <2>2, <2>3, <2>4, <2>5 DEF IInv
<1>5. CASE Rest(p)
  <2>1. TypeOK'
    BY <1>0, <1>5 DEF Rest, Go, IInv, TypeOK, Steps, Counts, HasOwn
  <2>2. UnlocksOwnLocks'
    BY <1>0, <1>5 DEF Rest, Go, IInv, TypeOK, UnlocksOwnLocks, HeldBy, HasOwn
  <2>3. HeldBy'
    BY <1>0, <1>5 DEF Rest, Go, IInv, TypeOK, HeldBy, UnlocksOwnLocks, HasOwn
  <2>4. Phases'
    BY <1>0, <1>5, PhasesStand DEF Rest, Go, IInv, TypeOK, Steps
  <2>5. Counts'
    BY <1>5 DEF Rest, Go, IInv, TypeOK, Counts, HasOwn
  <2> QED
    BY <2>1, <2>2, <2>3, <2>4, <2>5 DEF IInv
<1>6. CASE Finish(p)
  <2>1. TypeOK'
    BY <1>0, <1>6 DEF Finish, Go, IInv, TypeOK, Steps
  <2>2. UnlocksOwnLocks'
    BY <1>0, <1>6 DEF Finish, Go, IInv, TypeOK, UnlocksOwnLocks, HeldBy, HasOwn
  <2>3. HeldBy'
    BY <1>0, <1>6 DEF Finish, Go, IInv, TypeOK, HeldBy, UnlocksOwnLocks, HasOwn
  <2>4. Phases'
    BY <1>0, <1>6, PhasesStand DEF Finish, Go, IInv, TypeOK, Steps
  <2>5. Counts'
    BY <1>6 DEF Finish, Go, IInv, TypeOK, Counts, HasOwn
  <2> QED
    BY <2>1, <2>2, <2>3, <2>4, <2>5 DEF IInv
<1> QED
  BY <1>1, <1>2, <1>3, <1>4, <1>5, <1>6 DEF Philosopher

-----------------------------------------------------------------------------
(* The invariant is inductive.                                             *)
LEMMA Inductive == IInv /\ [Next]_vars => IInv'
<1> SUFFICES ASSUME IInv, [Next]_vars PROVE IInv'
  OBVIOUS
<1>1. CASE Main
  BY <1>1, MainKeeps
<1>2. ASSUME NEW p \in Phil, Philosopher(p) PROVE IInv'
  BY <1>2, PhilosopherKeeps
<1>3. CASE UNCHANGED vars
  BY <1>3 DEF vars, IInv, TypeOK, UnlocksOwnLocks, HeldBy, Phases, Counts
<1> QED
  BY <1>1, <1>2, <1>3 DEF Next

(* The invariant holds in every state, for every number of philosophers.   *)
THEOREM Invariance == Spec => []IInv
BY InitIInv, Inductive, PTL DEF Spec

(* Types, for any number of philosophers and rounds.                       *)
THEOREM TypeCorrect == Spec => []TypeOK
BY Invariance, PTL DEF IInv

(* Neighbours never eat together, however many sit at the table.           *)
THEOREM Exclusion == Spec => []NeighboursExclude
<1>1. IInv => NeighboursExclude
  BY NeighbourIsAnother DEF IInv, UnlocksOwnLocks, NeighboursExclude
<1> QED
  BY <1>1, Invariance, PTL

(* Every unlock is of a mutex its thread holds.                            *)
THEOREM UnlocksAreSafe == Spec => []UnlocksOwnLocks
BY Invariance, PTL DEF IInv

(* Mutexes exist while threads use them, and none is destroyed locked.     *)
THEOREM MutexLifetime == Spec => []ForksThereWhenUsed
<1>1. IInv => ForksThereWhenUsed
  <2> SUFFICES ASSUME IInv PROVE ForksThereWhenUsed
    OBVIOUS
  <2>1. \A p, f \in Phil : at[p] \notin {"new", "finished"} => fork[f] # Unusable
    BY ThreadRuns DEF IInv, Phases
  <2>2. mainAt = "destroy" => \A f \in Phil : fork[f] \in {Free, Unusable}
    BY DEF IInv, TypeOK, Phases, HeldBy, HasOwn
  <2> QED
    BY <2>1, <2>2 DEF ForksThereWhenUsed
<1> QED
  BY <1>1, Invariance, PTL
=============================================================================
