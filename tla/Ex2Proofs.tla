------------------------------ MODULE Ex2Proofs -----------------------------
(***************************************************************************)
(* Two programs of Ex2 with a semaphore of count 1.                        *)
(*                                                                         *)
(* getSingleton() for any number of threads: the semaphore lets one thread *)
(* test and build, the building is done once, and the whole implements     *)
(* OnceCell.                                                               *)
(*                                                                         *)
(* The counter for any number of iterations: exact with the semaphore;     *)
(* without it never above the increments made, and two at least.           *)
(***************************************************************************)
EXTENDS Singleton, SharedCounter, TLAPS

(* The semaphore lets one thread inside.                                   *)
Guarded ==
  /\ \A u, v \in Users : at[u] \in Critical /\ at[v] \in Critical => u = v
  /\ initSem = 1 => \A u \in Users : at[u] \notin Critical

(* The members assigned when the builder is at step m.                     *)
Before(m) == CASE m = "a" -> {} [] m = "b" -> {"a"} [] m = "c" -> {"a", "b"}
               [] m = "d" -> {"a", "b", "c"}

Building == {"malloc", "a", "b", "c", "d"}

(* The instance as far as it is built: none, then what the builder has     *)
(* done, then the whole.                                                   *)
Built ==
  /\ \/ heap = <<>> /\ pointer = Null
     \/ heap # <<>> /\ Len(heap) = 1 /\ pointer = 1
  /\ \A u \in Users :
       /\ at[u] = "malloc" => pointer = Null
       /\ at[u] \in Building \ {"malloc"} => pointer = 1 /\ heap[1] = Before(at[u])
       /\ at[u] \in {"post", "return", "print", "finished"} => pointer = 1
       /\ at[u] \in {"post"} => heap[1] = Members
  /\ pointer = 1 /\ (\A u \in Users : at[u] \notin Building) => heap[1] = Members

(* What getSingleton() has returned.                                       *)
Returned ==
  \A u \in Users :
    /\ at[u] \in {"return", "print", "finished"} => heap[1] = Members
    /\ at[u] \in {"print", "finished"} => got[u] = 1
    /\ at[u] \notin {"print", "finished"} => got[u] = Null

(* Threads main has yet to create have not begun.                          *)
Created == mainAt = "create" => \A u \in Users : u >= i => at[u] = "new"

IInv == TypeOK /\ Created /\ Guarded /\ Built /\ Returned

-----------------------------------------------------------------------------
(* The invariant holds at the start.                                       *)
LEMMA InitIInv == Init => IInv
BY SingletonAssumption
DEF Init, IInv, TypeOK, Created, Guarded, Built, Returned, Users, Steps, Critical,
    Building, Null

(* Every step of main keeps the invariant.                                 *)
LEMMA MainKeeps == ASSUME IInv, Main PROVE IInv'
<1> USE SingletonAssumption DEF Users, Critical, Building, Steps
<1>1. CASE CreateThread
  <2>1. mainAt = "create" /\ i \in Users /\ at[i] = "new"
    BY <1>1 DEF CreateThread, Turn, IInv, TypeOK, Created
  <2>2. at' = [at EXCEPT ![i] = "wait"] /\ UNCHANGED <<initSem, pointer, heap, got>>
    BY <1>1 DEF CreateThread
  <2>3. TypeOK'
    BY <1>1, <2>1, <2>2 DEF CreateThread, Turn, IInv, TypeOK
  <2>4. Created'
    BY <1>1, <2>1, <2>2 DEF CreateThread, Turn, IInv, TypeOK, Created
  <2>5. \A u \in Users :
          at'[u] = at[u] \/ (at[u] = "new" /\ at'[u] = "wait")
    BY <2>1, <2>2 DEF IInv, TypeOK
  <2>6. Guarded' /\ Built' /\ Returned'
    BY <2>2, <2>5 DEF IInv, Guarded, Built, Returned
  <2> QED
    BY <2>3, <2>4, <2>6 DEF IInv
<1>2. CASE JoinThread
  <2>1. TypeOK' /\ Created'
    BY <1>2 DEF JoinThread, Turn, IInv, TypeOK, Created
  <2>2. Guarded' /\ Built' /\ Returned'
    BY <1>2 DEF JoinThread, IInv, Guarded, Built, Returned
  <2> QED
    BY <2>1, <2>2 DEF IInv
<1> QED
  BY <1>1, <1>2 DEF Main

-----------------------------------------------------------------------------
(* Every step of a user keeps the invariant.                               *)
LEMMA UserKeeps == ASSUME IInv, NEW t \in Users, User(t) PROVE IInv'
<1> USE SingletonAssumption DEF Critical, Building
<1>0. TypeOK /\ Guarded /\ Built /\ Returned
  BY DEF IInv
<1>1. CASE SemWait(t)
  <2>1. TypeOK'
    BY <1>0, <1>1 DEF SemWait, Go, TypeOK, Steps
  <2>2. Created'
    BY <1>1 DEF SemWait, Go, IInv, TypeOK, Created
  <2>3. Guarded'
    BY <1>0, <1>1 DEF SemWait, Go, TypeOK, Guarded
  <2>4. Built' /\ Returned'
    BY <1>0, <1>1 DEF SemWait, Go, TypeOK, Built, Returned
  <2> QED
    BY <2>1, <2>2, <2>3, <2>4 DEF IInv
<1>2. CASE Test(t)
  <2>1. TypeOK'
    BY <1>0, <1>2 DEF Test, Go, TypeOK, Steps
  <2>2. Created'
    BY <1>2 DEF Test, Go, IInv, TypeOK, Created
  <2>3. Guarded'
    BY <1>0, <1>2 DEF Test, Go, TypeOK, Guarded
  <2>4. Returned'
    BY <1>0, <1>2 DEF Test, Go, TypeOK, Returned
  <2>5. \A u \in Users : at[u] \notin Building
    BY <1>0, <1>2 DEF Test, Go, Guarded
  <2>6. Built'
    <3>1. CASE pointer = Null
      BY <1>0, <1>2, <2>5, <3>1 DEF Test, Go, TypeOK, Built, Null
    <3>2. CASE pointer # Null
      BY <1>0, <1>2, <2>5, <3>2 DEF Test, Go, TypeOK, Built
    <3> QED
      BY <3>1, <3>2
  <2> QED
    BY <2>1, <2>2, <2>3, <2>4, <2>6 DEF IInv
<1>3. CASE Malloc(t)
  <2>0. heap = <<>> /\ pointer = Null /\ at[t] = "malloc"
    BY <1>0, <1>3 DEF Malloc, Go, Built, Null
  <2>1. heap' = <<{}>> /\ pointer' = 1 /\ Len(heap') = 1 /\ heap'[1] = {} /\ heap' # <<>>
    BY <1>3, <2>0 DEF Malloc
  <2>2. TypeOK'
    <3>1. heap' \in Seq(SUBSET Members)
      BY <2>1
    <3>2. got' \in [Users -> 0 .. 1]
      BY <1>0, <1>3, <2>0 DEF Malloc, TypeOK
    <3> QED
      BY <1>0, <1>3, <2>1, <3>1, <3>2 DEF Malloc, Go, TypeOK, Steps
  <2>3. Created'
    BY <1>3 DEF Malloc, Go, IInv, TypeOK, Created
  <2>4. Guarded'
    BY <1>0, <1>3 DEF Malloc, Go, TypeOK, Guarded
  <2>5. \A u \in Users : at[u] \notin {"post", "return", "print", "finished"}
    BY <1>0, <2>0 DEF Built, Null
  <2>6. Built'
    BY <1>0, <1>3, <2>0, <2>1, <2>5 DEF Malloc, Go, TypeOK, Built, Guarded, Before
  <2>7. Returned'
    BY <1>0, <1>3, <2>5 DEF Malloc, Go, TypeOK, Returned
  <2> QED
    BY <2>2, <2>3, <2>4, <2>6, <2>7 DEF IInv
<1>4. CASE AssignMembers(t)
  <2>1. PICK m \in {"a", "b", "c", "d"} :
          Assign(t, m, CASE m = "a" -> "b" [] m = "b" -> "c" [] m = "c" -> "d" [] m = "d" -> "post")
    BY <1>4 DEF AssignMembers
  <2> DEFINE next == CASE m = "a" -> "b" [] m = "b" -> "c" [] m = "c" -> "d" [] m = "d" -> "post"
  <2>2. /\ at[t] = m /\ at' = [at EXCEPT ![t] = next]
        /\ UNCHANGED <<mainAt, i, initSem, pointer, got>>
    BY <2>1 DEF Assign, Go
  <2>3. pointer = 1 /\ Len(heap) = 1 /\ heap[1] = Before(m)
    BY <1>0, <2>2 DEF Built, Null
  <2>4. heap' = [heap EXCEPT ![1] = @ \cup {m}]
    BY <2>1, <2>3 DEF Assign
  <2>5. heap' \in Seq(SUBSET Members) /\ Len(heap') = 1 /\ heap'[1] = Before(m) \cup {m}
    <3>1. heap \in Seq(SUBSET Members) /\ 1 \in 1 .. Len(heap)
      BY <1>0, <2>3 DEF TypeOK
    <3>2. heap[1] \cup {m} \in SUBSET Members
      BY <3>1, <2>3 DEF Before, Members
    <3> QED
      BY <2>3, <2>4, <3>1, <3>2
  <2>6. heap' # <<>>
    BY <2>5
  <2>7. TypeOK'
    BY <1>0, <2>2, <2>3, <2>5 DEF TypeOK, Steps
  <2>8. Created'
    BY <2>2 DEF IInv, TypeOK, Created
  <2>9. Guarded'
    BY <1>0, <2>2 DEF TypeOK, Guarded
  <2>10. \A u \in Users : at[u] \notin {"post", "return", "print", "finished"}
    <3>1. heap[1] # Members
      BY <2>3 DEF Before, Members
    <3> QED
      BY <1>0, <3>1 DEF Built, Returned
  <2>11. Built'
    <3>1. CASE m = "d"
      <4>1. heap'[1] = Members /\ at'[t] = "post"
        BY <1>0, <2>2, <2>5, <3>1 DEF Before, Members, TypeOK
      <4> QED
        BY <1>0, <2>2, <2>3, <2>5, <2>6, <2>10, <4>1 DEF TypeOK, Built, Guarded
    <3>2. CASE m # "d"
      <4>1. heap'[1] = Before(next) /\ at'[t] = next /\ next \in {"b", "c", "d"}
        BY <1>0, <2>2, <2>5, <3>2 DEF Before, TypeOK
      <4> QED
        BY <1>0, <2>2, <2>3, <2>5, <2>6, <2>10, <4>1 DEF TypeOK, Built, Guarded
    <3> QED
      BY <3>1, <3>2
  <2>12. Returned'
    BY <1>0, <2>2, <2>10 DEF TypeOK, Returned
  <2> QED
    BY <2>7, <2>8, <2>9, <2>11, <2>12 DEF IInv
<1>5. CASE SemPost(t)
  <2>0. initSem = 0 /\ at[t] = "post"
    BY <1>0, <1>5 DEF SemPost, Go, TypeOK, Guarded
  <2>1. TypeOK'
    BY <1>0, <1>5, <2>0 DEF SemPost, Go, TypeOK, Steps
  <2>2. Created'
    BY <1>5 DEF SemPost, Go, IInv, TypeOK, Created
  <2>3. Guarded'
    BY <1>0, <1>5 DEF SemPost, Go, TypeOK, Guarded
  <2>4. Built' /\ Returned'
    BY <1>0, <1>5 DEF SemPost, Go, TypeOK, Built, Returned
  <2> QED
    BY <2>1, <2>2, <2>3, <2>4 DEF IInv
<1>6. CASE Return(t)
  <2>0. pointer = 1 /\ Len(heap) = 1 /\ heap[1] = Members
    BY <1>0, <1>6 DEF Return, Go, Built, Returned, Null
  <2>1. TypeOK'
    BY <1>0, <1>6, <2>0 DEF Return, Go, TypeOK, Steps
  <2>2. Created'
    BY <1>6 DEF Return, Go, IInv, TypeOK, Created
  <2>3. Guarded'
    BY <1>0, <1>6 DEF Return, Go, TypeOK, Guarded
  <2>4. Built' /\ Returned'
    BY <1>0, <1>6, <2>0 DEF Return, Go, TypeOK, Built, Returned
  <2> QED
    BY <2>1, <2>2, <2>3, <2>4 DEF IInv
<1>7. CASE PrintMembers(t)
  <2>1. TypeOK' /\ Created'
    BY <1>0, <1>7 DEF PrintMembers, Go, IInv, TypeOK, Created, Steps
  <2>2. Guarded'
    BY <1>0, <1>7 DEF PrintMembers, Go, TypeOK, Guarded
  <2>3. Built' /\ Returned'
    BY <1>0, <1>7 DEF PrintMembers, Go, TypeOK, Built, Returned
  <2> QED
    BY <2>1, <2>2, <2>3 DEF IInv
<1> QED
  BY <1>1, <1>2, <1>3, <1>4, <1>5, <1>6, <1>7 DEF User

-----------------------------------------------------------------------------
(* The invariant is inductive.                                             *)
LEMMA Inductive == IInv /\ [Next]_vars => IInv'
<1>1. ASSUME IInv, UNCHANGED vars PROVE IInv'
  BY <1>1 DEF vars, IInv, TypeOK, Created, Guarded, Built, Returned
<1> QED
  BY <1>1, MainKeeps, UserKeeps DEF Next

(* The invariant holds in every state, for any number of threads.          *)
THEOREM Invariance == Spec => []IInv
BY InitIInv, Inductive, PTL DEF Spec

(* Types, for any number of threads.                                       *)
THEOREM TypeCorrect == Spec => []TypeOK
BY Invariance, PTL DEF IInv

(* Every member a user reads has been assigned.                            *)
THEOREM CompleteWhenPrinted == Spec => []PrintsComplete
<1>1. IInv => PrintsComplete
  BY DEF IInv, Returned, PrintsComplete, Null
<1> QED
  BY <1>1, Invariance, PTL

(* malloc is called at most once.                                          *)
THEOREM BuiltOnce == Spec => []OneInstance
<1>1. IInv => OneInstance
  <2> SUFFICES ASSUME IInv PROVE Len(heap) <= 1
    BY DEF OneInstance
  <2>1. heap = <<>> \/ Len(heap) = 1
    BY DEF IInv, Built
  <2>2. Len(<<>>) = 0
    OBVIOUS
  <2>3. CASE heap = <<>>
    <3>1. Len(heap) = 0
      BY <2>2, <2>3, Zenon
    <3> QED
      BY <3>1
  <2>4. CASE Len(heap) = 1
    BY <2>4
  <2> QED
    BY <2>1, <2>3, <2>4
<1> QED
  BY <1>1, Invariance, PTL

-----------------------------------------------------------------------------
(* getSingleton() implements OnceCell: the assignment of member d is Fill, *)
(* the return is Get, every other step a stutter.                          *)
LEMMA CellOf ==
  ASSUME IInv
  PROVE  /\ Complete <=> pointer = 1 /\ heap[1] = Members
         /\ (\E u \in Users : at[u] \in Building) => ~Complete
<1>1. Complete <=> pointer = 1 /\ heap[1] = Members
  BY DEF IInv, Built, Complete, Null
<1>2. ASSUME NEW u \in Users, at[u] \in Building PROVE ~Complete
  <2>1. \/ pointer = Null
        \/ heap[1] = Before(at[u]) /\ at[u] \in {"a", "b", "c", "d"}
    <3>1. CASE at[u] = "malloc"
      BY <3>1 DEF IInv, Built
    <3>2. CASE at[u] # "malloc"
      BY <1>2, <3>2 DEF IInv, Built, Building
    <3> QED
      BY <3>1, <3>2
  <2>2. ASSUME at[u] \in {"a", "b", "c", "d"} PROVE Before(at[u]) # Members
    BY <2>2 DEF Before, Members
  <2> QED
    BY <1>1, <2>1, <2>2 DEF Null
<1> QED
  BY <1>1, <1>2

(* A step that leaves the pointer and the instance alone.                  *)
LEMMA CellStands ==
  ASSUME UNCHANGED <<pointer, heap>>
  PROVE  (IF Complete THEN pointer ELSE Null)' = (IF Complete THEN pointer ELSE Null)
BY DEF Complete

(* The cell is empty at the start.                                         *)
LEMMA InitRefines == Init => Once!Init
BY DEF Init, Once!Init, Complete, Null

(* A step fills the cell, gets from it, or leaves it as it is.             *)
LEMMA StepRefines ==
  IInv /\ IInv' /\ [Next]_vars
    => [Once!Next]_<<IF Complete THEN pointer ELSE Null, got>>
<1> SUFFICES ASSUME IInv, IInv', [Next]_vars
             PROVE  [Once!Next]_<<IF Complete THEN pointer ELSE Null, got>>
  OBVIOUS
<1> DEFINE cell == IF Complete THEN pointer ELSE Null
<1>1. ASSUME UNCHANGED <<pointer, heap, got>>
      PROVE  [Once!Next]_<<IF Complete THEN pointer ELSE Null, got>>
  BY <1>1, CellStands
<1>2. ASSUME NEW t \in Users, Malloc(t)
      PROVE  [Once!Next]_<<IF Complete THEN pointer ELSE Null, got>>
  <2>1. ~Complete
    BY <1>2, CellOf DEF Malloc, Go, Building
  <2>2. at'[t] = "a" /\ got' = got
    BY <1>2 DEF Malloc, Go, IInv, TypeOK
  <2>3. (~Complete)'
    <3>1. pointer' = 1 /\ heap'[1] = Before("a")
      BY <2>2 DEF IInv, Built, Building
    <3>2. Before("a") = {} /\ Members # {}
      BY DEF Before, Members
    <3> QED
      BY <3>1, <3>2 DEF Complete
  <2> QED
    BY <2>1, <2>2, <2>3
<1>3. ASSUME NEW t \in Users, AssignMembers(t)
      PROVE  [Once!Next]_<<IF Complete THEN pointer ELSE Null, got>>
  <2>1. ~Complete /\ got' = got
    BY <1>3, CellOf DEF AssignMembers, Assign, Go, Building
  <2>2. CASE Complete'
    <3>1. pointer' = 1
      BY <2>2 DEF IInv, Built, Complete, Null
    <3>2. Once!Fill
      BY <2>1, <2>2, <3>1 DEF Once!Fill
    <3> QED
      BY <3>2 DEF Once!Next
  <2>3. CASE ~Complete'
    BY <2>1, <2>3
  <2> QED
    BY <2>2, <2>3
<1>4. ASSUME NEW t \in Users, Return(t)
      PROVE  [Once!Next]_<<IF Complete THEN pointer ELSE Null, got>>
  <2>1. /\ at[t] = "return" /\ got' = [got EXCEPT ![t] = pointer]
        /\ UNCHANGED <<pointer, heap>>
    BY <1>4 DEF Return, Go
  <2>2. pointer = 1 /\ heap[1] = Members /\ got[t] = Null
    BY <2>1 DEF IInv, Built, Returned
  <2>3. Complete /\ Complete'
    BY <2>1, <2>2 DEF Complete, Null
  <2>4. Once!Get(t)
    BY <2>1, <2>2, <2>3 DEF Once!Get, Null
  <2> QED
    BY <2>4 DEF Once!Next
<1>5. CASE Main
  BY <1>1, <1>5 DEF Main, CreateThread, JoinThread
<1>6. ASSUME NEW t \in Users, SemWait(t) \/ Test(t) \/ SemPost(t) \/ PrintMembers(t)
      PROVE  [Once!Next]_<<IF Complete THEN pointer ELSE Null, got>>
  BY <1>1, <1>6 DEF SemWait, Test, SemPost, PrintMembers
<1>7. CASE UNCHANGED vars
  BY <1>1, <1>7 DEF vars
<1> QED
  BY <1>2, <1>3, <1>4, <1>5, <1>6, <1>7 DEF Next, User

(* getSingleton() does what OnceCell promises, for any number of threads.  *)
THEOREM Refinement == Spec => ImplementsOnce
BY InitRefines, StepRefines, Invariance, PTL DEF Spec, ImplementsOnce, Once!Spec

-----------------------------------------------------------------------------
(* How far main has come says which threads are there.                     *)
Phases ==
  /\ mainStep \in {"init", "create1"} => step[1] = "new"
  /\ mainStep \in {"init", "create1", "create2"} => step[2] = "new"
  /\ mainStep \in {"join2", "exit"} => step[1] = "finished"
  /\ mainStep = "exit" => step[2] = "finished"
  /\ \A t \in Threads : step[t] = "finished" => turns[t] = Iterations

(* The semaphore lets one thread inside.                                   *)
Alternating ==
  IF WITH_SEMAPHORE
  THEN /\ ~(step[1] \in Inside /\ step[2] \in Inside)
       /\ \A t \in Threads : step[t] \in Inside => semaphore = 0
       /\ mainStep = "init" => semaphore = 0
  ELSE semaphore = 0 /\ \A t \in Threads : step[t] # "post"

(* What a thread has in its register between load and store.               *)
Registers ==
  \A t \in Threads :
    /\ step[t] = "load" => turns[t] < Iterations
    /\ step[t] = "store" =>
         /\ register[t] <= turns[1] + turns[2]
         /\ turns[t] + batch[t] <= Iterations
         /\ WITH_SEMAPHORE => register[t] = sharedVar /\ batch[t] = 1

Exact == WITH_SEMAPHORE => sharedVar = turns[1] + turns[2]

(* Nothing is stored but what is at least one, so that a register of 0 was *)
(* loaded before the first store, by a thread that has made no turn yet.   *)
(* Such a thread stores all its turns or has turns left to make.           *)
Survives ==
  /\ turns[1] + turns[2] > 0 => sharedVar > 0
  /\ \A t \in Threads : step[t] = "store" =>
       batch[t] > 0 /\ (register[t] = 0 => turns[t] = 0)
  /\ turns[1] = Iterations /\ turns[2] = Iterations =>
       sharedVar >= IF Iterations = 1 THEN 1 ELSE 2

CounterIInv == CounterTypeOK /\ Phases /\ Alternating /\ Registers /\ Exact /\ NothingInvented

-----------------------------------------------------------------------------
(* The invariant holds at the start.                                       *)
LEMMA InitCounterIInv == InitCounter => CounterIInv
BY SharedCounterAssumption
DEF InitCounter, CounterIInv, CounterTypeOK, Phases, Alternating, Registers, Exact,
    NothingInvented, Threads,
    ThreadSteps, Inside

(* Every step of main keeps the invariant.                                 *)
LEMMA MainKeepsCounter == ASSUME CounterIInv, MainCounter PROVE CounterIInv'
<1> USE SharedCounterAssumption DEF Threads, Inside
<1>0. UNCHANGED WITH_SEMAPHORE
  BY DEF MainCounter
<1>1. CASE SemInit
  BY <1>0, <1>1
     DEF SemInit, CounterIInv, CounterTypeOK, Phases, Alternating, Registers, Exact,
         NothingInvented
<1>2. CASE Create(1, "create1", "create2") \/ Create(2, "create2", "join1")
  <2>1. CounterTypeOK' /\ Phases'
    BY <1>0, <1>2 DEF Create, CounterIInv, CounterTypeOK, Phases, ThreadSteps
  <2>2. Alternating' /\ Registers' /\ Exact' /\ NothingInvented'
    BY <1>0, <1>2
       DEF Create, CounterIInv, CounterTypeOK, Phases, Alternating, Registers, Exact,
           NothingInvented
  <2> QED
    BY <2>1, <2>2 DEF CounterIInv
<1>3. CASE Join(1, "join1", "join2") \/ Join(2, "join2", "exit")
  BY <1>0, <1>3
     DEF Join, CounterIInv, CounterTypeOK, Phases, Alternating, Registers, Exact, NothingInvented
<1> QED
  BY <1>1, <1>2, <1>3 DEF MainCounter

(* Every step of a thread keeps the invariant.                             *)
LEMMA ThreadKeeps == ASSUME CounterIInv, NEW t \in Threads, Thread(t) PROVE CounterIInv'
<1> USE SharedCounterAssumption DEF Threads, Inside
<1>0. UNCHANGED WITH_SEMAPHORE
  BY DEF Thread
<1>1. CASE Enter(t)
  <2>1. CounterTypeOK' /\ Phases'
    BY <1>0, <1>1 DEF Enter, Move, CounterIInv, CounterTypeOK, Phases, ThreadSteps
  <2>2. Alternating'
    BY <1>0, <1>1 DEF Enter, Move, CounterIInv, CounterTypeOK, Phases, Alternating, ThreadSteps
  <2>3. Registers' /\ Exact' /\ NothingInvented'
    BY <1>0, <1>1 DEF Enter, Move, CounterIInv, CounterTypeOK, Registers, Exact, NothingInvented
  <2> QED
    BY <2>1, <2>2, <2>3 DEF CounterIInv
<1>2. CASE Load(t)
  <2>1. CounterTypeOK' /\ Phases'
    BY <1>0, <1>2 DEF Load, Move, CounterIInv, CounterTypeOK, Phases, ThreadSteps
  <2>2. Alternating'
    BY <1>0, <1>2 DEF Load, Move, CounterIInv, CounterTypeOK, Phases, Alternating, ThreadSteps
  <2>3. Registers' /\ Exact' /\ NothingInvented'
    BY <1>0, <1>2 DEF Load, Move, CounterIInv, CounterTypeOK, Registers, Exact, NothingInvented
  <2> QED
    BY <2>1, <2>2, <2>3 DEF CounterIInv
<1>3. CASE Store(t)
  <2>1. CounterTypeOK' /\ Phases'
    BY <1>0, <1>3 DEF Store, Move, CounterIInv, CounterTypeOK, Phases, Registers, ThreadSteps
  <2>2. Alternating'
    BY <1>0, <1>3 DEF Store, Move, CounterIInv, CounterTypeOK, Phases, Alternating, ThreadSteps
  <2>3. Registers' /\ Exact' /\ NothingInvented'
    BY <1>0, <1>3
       DEF Store, Move, CounterIInv, CounterTypeOK, Registers, Alternating, Exact, NothingInvented
  <2> QED
    BY <2>1, <2>2, <2>3 DEF CounterIInv
<1>4. CASE Leave(t)
  <2>1. CounterTypeOK' /\ Phases'
    BY <1>0, <1>4 DEF Leave, Move, CounterIInv, CounterTypeOK, Phases, Alternating, ThreadSteps
  <2>2. Alternating'
    BY <1>0, <1>4 DEF Leave, Move, CounterIInv, CounterTypeOK, Phases, Alternating, ThreadSteps
  <2>3. Registers' /\ Exact' /\ NothingInvented'
    BY <1>0, <1>4 DEF Leave, Move, CounterIInv, CounterTypeOK, Registers, Exact, NothingInvented
  <2> QED
    BY <2>1, <2>2, <2>3 DEF CounterIInv
<1>5. CASE Finish(t)
  <2>1. CounterTypeOK' /\ Phases'
    BY <1>0, <1>5 DEF Finish, Move, CounterIInv, CounterTypeOK, Phases, ThreadSteps
  <2>2. Alternating' /\ Registers' /\ Exact' /\ NothingInvented'
    BY <1>0, <1>5
       DEF Finish, Move, CounterIInv, CounterTypeOK, Alternating, Registers, Exact,
           NothingInvented
  <2> QED
    BY <2>1, <2>2 DEF CounterIInv
<1> QED
  BY <1>1, <1>2, <1>3, <1>4, <1>5 DEF Thread

-----------------------------------------------------------------------------
(* The invariant is inductive.                                             *)
LEMMA CounterInductive == CounterIInv /\ [NextCounter]_counterVars => CounterIInv'
<1>1. ASSUME CounterIInv, UNCHANGED counterVars PROVE CounterIInv'
  BY <1>1
     DEF counterVars, CounterIInv, CounterTypeOK, Phases, Alternating, Registers, Exact,
         NothingInvented
<1> QED
  BY <1>1, MainKeepsCounter, ThreadKeeps DEF NextCounter

(* The invariant holds in every state, in both builds.                     *)
THEOREM CounterInvariance == SpecCounter => []CounterIInv
BY InitCounterIInv, CounterInductive, PTL DEF SpecCounter

(* Types, with the semaphore and without.                                  *)
THEOREM CounterTypes == SpecCounter => []CounterTypeOK
BY CounterInvariance, PTL DEF CounterIInv

(* With WITH_SEMAPHORE defined, as the source has it, both threads' every  *)
(* increment is in sharedVar at the end, for any number of iterations.     *)
THEOREM SemaphoreExact == SpecCounter => []NothingLost
<1>1. CounterIInv => NothingLost
  BY DEF CounterIInv, CounterTypeOK, Phases, Exact, NothingLost, Threads
<1> QED
  BY <1>1, CounterInvariance, PTL

(* With the race too, sharedVar never exceeds the increments made.         *)
THEOREM NoIncrementInvented == SpecCounter => []NothingInvented
BY CounterInvariance, PTL DEF CounterIInv

-----------------------------------------------------------------------------
(* Every step keeps Survives. The case that counts is a store from a       *)
(* register of 0 that makes the last turn: its batch is all the turns.     *)
LEMMA SurvivesInductive == CounterIInv /\ Survives /\ [NextCounter]_counterVars => Survives'
<1> SUFFICES ASSUME CounterIInv, Survives, [NextCounter]_counterVars PROVE Survives'
  OBVIOUS
<1> USE SharedCounterAssumption DEF Threads, Survives
<1>1. CASE UNCHANGED counterVars
  BY <1>1 DEF counterVars
<1>2. CASE MainCounter
  BY <1>2 DEF MainCounter, SemInit, Create, Join, CounterIInv, CounterTypeOK
<1>3. ASSUME NEW t \in Threads, Thread(t) PROVE Survives'
  <2>1. CASE Enter(t) \/ Leave(t) \/ Finish(t)
    BY <2>1 DEF Enter, Leave, Finish, Move, CounterIInv, CounterTypeOK, ThreadSteps, Inside
  <2>2. CASE Load(t)
    BY <2>2 DEF Load, Move, CounterIInv, CounterTypeOK, Registers
  <2>3. CASE Store(t)
    BY <2>3 DEF Store, Move, CounterIInv, CounterTypeOK, Registers, ThreadSteps, Inside
  <2> QED
    BY <1>3, <2>1, <2>2, <2>3 DEF Thread
<1> QED
  BY <1>1, <1>2, <1>3 DEF NextCounter

(* Without the semaphore the race wipes out all increments but two at      *)
(* worst, for any number of iterations, or all but one of a single one.    *)
THEOREM RaceKeepsTwo == SpecCounter => []LossBounded
<1>1. InitCounter => Survives
  BY SharedCounterAssumption DEF InitCounter, Survives, Threads
<1>2. CounterIInv /\ Survives => LossBounded
  BY DEF CounterIInv, CounterTypeOK, Phases, Survives, LossBounded, Threads
<1> QED
  BY <1>1, <1>2, CounterInvariance, SurvivesInductive, PTL DEF SpecCounter
=============================================================================
